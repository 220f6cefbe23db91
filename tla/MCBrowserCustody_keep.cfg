SPECIFICATION Spec
CONSTANTS
  NoBatch = NoBatch
  s1 = s1
  s2 = s2
  d1 = d1
  Batches = {s1, s2, d1}
  Snapshots = {s1, s2}
  Context <- TwoPages
  MaxPeriods = 3
  FileMax = 2
  MaxFaults = 1
  MaxRemovals = 1
INVARIANTS TypeOK AnsweredIsKept TakenInOnce PeriodsCanBeRead
PROPERTIES DiscardIsFinal
CHECK_DEADLOCK FALSE
