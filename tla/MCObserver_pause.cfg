SPECIFICATION Spec
CONSTANTS
  Dirs = {d1,d2}
  NoDir = NoDir
  Interval = 2
  Settle = 1
  Retry = 1
  Pauses = {1}
  Forever = 9
  StartPaused = FALSE
  Worlds <- PauseWorlds
  Activity = TRUE
  Watched = {"stale"}
  MaxFaults = 1
INVARIANTS TypeOK TakesOnlyWhatItMay PauseIsTheOwners SegmentIsWhole
PROPERTIES AbandonsOnlyEmpty
SYMMETRY DirSymmetry
CHECK_DEADLOCK FALSE
