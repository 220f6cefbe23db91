SPECIFICATION PartsSpec
CONSTANTS
  Names = {1, 2}
  Lengths = {1, 2}
  Periods <- BrowserPeriods
  Attempts = 3
  MaxPasses = 2
  Nil = Nil
  Machines = {"deb", "rpm"}
  Versions = {1, 2}
  MaxStamp = 2
  MaxJobs = 2
  Revisions = {1, 2}
  ImageSets = {1, 2}
  Advisories = {1, 2}
  Platforms = {"deb", "rpm", "tar"}
  MaxBuilds = 2
  MaxDrift = 1
  Arches = {1, 2}
  OriginBuilds = {1, 2}
  Builds = {1, 2, 3}
  CommitOf <- CommitOfBuild
  Interval = 2
  Timeout = 2
  Slack = 1
  OfflineAfter = 4
  Dwell = 2
  Grace = 1
  Linger = 2
  WakeGap = 1
  Links <- LinkFacts
  MaxMoves = 1
  Journals = {"a", "b"}
  MaxVersion = 2
  MaxOwners = 2
  MaxDials = 2
  MaxEvents = 1
  Policies <- OwnerPolicies
  MaxTime = 1
  MaxPolicies = 1
  MaxTurns = 1
  MaxWrites = 3
  MaxEdits = 1
  Fields = {1, 2}
  MaxIds = 5
  MaxPresses = 1
  MaxUpsets = 2
  Videos = {1, 2}
  MaxAsks = 4
  MaxFaults = 2
  Capacity = 2
  MaxHolds = 2
  MaxPeriods = 2
  MaxLinks = 1
  Displays = {0, 1}
  Patience = 1
  RecheckAfter = 2
  MaxSwitches = 4
  MaxCookies = 3
INVARIANTS PartsTypeOK SegmentsKeepTheirPlace OpenIsNotDelivered
INVARIANTS NothingHalfPublished SaidIsSo OwnersWordHolds
PROPERTIES NeverTakenBack ShownOnlyIfSo
CHECK_DEADLOCK FALSE
