SPECIFICATION FairSpec
CONSTANTS
  Segments = {1}
  Legacy = {1}
  Day <- TwoDays
  Threshold = 2
  Longest = 1
  MaxChanges = 1
  Heals = TRUE
PROPERTIES EverythingDelivered
CHECK_DEADLOCK FALSE
