SPECIFICATION Spec
CONSTANTS
  Segments = {1, 2}
  Legacy = {1}
  Day <- TwoDays
  Threshold = 2
  Longest = 2
  MaxChanges = 1
  Heals = FALSE
INVARIANTS TypeOK NothingTakenUpIsDropped
PROPERTIES CircuitHolds
CHECK_DEADLOCK FALSE
