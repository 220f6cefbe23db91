SPECIFICATION EventualSpec
CONSTANTS
  Pairings = {p1, p2, p3}
  Unread = {p3}
  OldStored = {p1}
  MaxFaults = 1
  Nil = Nil
  p1 = p1
  p2 = p2
  p3 = p3
  s1 = s1
  n1 = n1
  c1 = c1
  c2 = c2
  Absent = Absent
  NoOne = NoOne
  NoSegment = NoSegment
  x1 = x1
  x2 = x2
  NoSource = NoSource
  MaxOwners = 2
  MaxCommands = 2
  Selections = {x1, x2}
  Limit = 2
  MaxChanges = 1
  MaxMishaps = 2
INVARIANTS EventualTypeOK ConfirmedIsAccepted OwnerIsAccepted StopIsOrderly
PROPERTIES NothingIsLeftUndone RetiredIsNotConfirmed
CHECK_DEADLOCK FALSE
