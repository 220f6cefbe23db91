SPECIFICATION Spec
CONSTANTS
  Segments = {s1}
  Names = {n1, n2}
  Contents = {c1, c2}
  Empty = c2
  Absent = Absent
  Pairings = {p1, p2}
  NoOne = NoOne
  NoSegment = NoSegment
  MaxEpoch = 1
  MaxEdits = 1
  MaxAttempts = 1
  MaxInFlight = 1
SYMMETRY Symmetry
INVARIANTS TypeOK NoLoss AckNeverLies
PROPERTIES UnlinkedForCurrentJournal CustodySpec
CHECK_DEADLOCK FALSE
