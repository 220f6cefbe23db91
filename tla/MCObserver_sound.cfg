SPECIFICATION Spec
CONSTANTS
  Dirs = {d1,d2}
  NoDir = NoDir
  Interval = 2
  Settle = 1
  Retry = 1
  Pauses = {1}
  Forever = 9
  StartPaused = FALSE
  Worlds <- SoundWorlds
  Activity = FALSE
  Watched = {"paused", "away"}
  MaxFaults = 0
INVARIANTS UnwantedSoundIsDropped
CHECK_DEADLOCK FALSE
