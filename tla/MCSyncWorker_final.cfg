SPECIFICATION Spec
CONSTANTS
  Segments = {1}
  Legacy = {}
  Day <- TwoDays
  Threshold = 2
  Longest = 2
  MaxChanges = 0
  Heals = FALSE
INVARIANTS FinalSegmentIsReconciled
CHECK_DEADLOCK FALSE
