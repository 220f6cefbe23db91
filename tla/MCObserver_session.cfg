SPECIFICATION FairSpec
CONSTANTS
  Dirs = {d1,d2}
  NoDir = NoDir
  Interval = 2
  Settle = 1
  Retry = 1
  Pauses = {}
  Forever = 9
  StartPaused = FALSE
  Worlds <- SessionWorlds
  Activity = FALSE
  Watched = {"told"}
  MaxFaults = 1
INVARIANTS SegmentIsWhole
PROPERTIES ScreenComesBack
CHECK_DEADLOCK FALSE
