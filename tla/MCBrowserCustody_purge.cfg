SPECIFICATION Spec
CONSTANTS
  NoBatch = NoBatch
  s1 = s1
  s2 = s2
  d1 = d1
  Batches = {s1}
  Snapshots = {s1}
  Context <- OnePage
  MaxPeriods = 2
  FileMax = 2
  MaxFaults = 0
  MaxRemovals = 1
INVARIANTS PendingIsRecovered
CHECK_DEADLOCK FALSE
