----------------------------- MODULE OwnerParts -----------------------------
(***************************************************************************)
(* The components of Parts that the owner and the maintainer handle: the   *)
(* folders of a day, the commands of a release, the settings and the       *)
(* window, and what is shown of the connection and of the journal.         *)
(***************************************************************************)
EXTENDS Integers, CaptureDirs

CONSTANTS
  Nil,
  Machines, Versions, MaxStamp, MaxJobs,                                \* Transparency
  Revisions, ImageSets, Advisories, Platforms, MaxBuilds, MaxDrift,     \* Candidate
  Arches, OriginBuilds,                                                 \* OriginPublish
  Builds, CommitOf,                                                     \* GitHubRelease
  Interval, Timeout, Slack, OfflineAfter, Dwell, Grace, Linger, WakeGap,
  Links, MaxMoves,                                                      \* Connection
  Journals, MaxVersion, MaxOwners, MaxDials, MaxEvents,                 \* JournalDetails
  MaxWrites, MaxEdits,                                                  \* Settings
  Fields, MaxIds, MaxPresses, MaxUpsets                                 \* WindowController

VARIABLES
  tclock, store, archived, staging, head, committed, job, jobs,
  world, payload, evidence, lock, op, signer, builds, drift, half,
  objects, latest, publisher,
  tag, localTag, releases, run,
  heard, episode, facts, link, net, check, failing, checked, fresh, shown, timers, sampled, misses, moves,
  journals, owner, fenced, epoch, known, dials, dialed, lane, attempt, details, events, saved,
  file, old, legacy, daemon, live, writer, writes, upsets, last, said, agreed,
  service, win, save, intake, read, calls, stray, wasHeld, wasDone, presses, surprises

T == INSTANCE Transparency

C == INSTANCE Candidate WITH Commits <- Revisions

\* Publishers of the origin do not overlap, as RELEASING.md asks.
O == INSTANCE OriginPublish WITH Builds <- OriginBuilds, Overlap <- FALSE

G == INSTANCE GitHubRelease

L == INSTANCE Connection

J == INSTANCE JournalDetails

S == INSTANCE Settings WITH MaxUpsets <- MaxEdits

W == INSTANCE WindowController

\* What the arguments about them need of the constants.
ASSUME ReleaseAssumption ==
  /\ Nil \notin T!Entries \cup T!Pointers /\ MaxStamp \in Nat \ {0} /\ MaxJobs \in Nat
  /\ Nil \notin C!Payloads \cup C!Evidences \cup C!Ledger \cup Platforms
  /\ Revisions # {} /\ ImageSets # {} /\ Advisories # {} /\ MaxBuilds \in Nat
  /\ Versions \subseteq Nat \ {0} /\ 0 \notin OriginBuilds
  /\ 0 \notin Builds /\ CommitOf \in [Builds -> Nat \ {0}]

ASSUME WindowAssumption ==
  /\ MaxIds \in Nat /\ MaxPresses \in Nat /\ MaxUpsets \in Nat /\ Nil \notin W!Outcomes
  /\ \A fs \in SUBSET Fields : fs # {} => \E f \in fs : \A g \in fs : f <= g

ASSUME SettingsAssumption ==
  /\ Nil \notin BOOLEAN /\ Nil # S!Torn /\ MaxWrites \in Nat /\ MaxEdits \in Nat
  /\ Nil \notin [version : 0..2, set : [S!Keys -> {TRUE, FALSE, Nil}], consent : BOOLEAN, whole : {TRUE}]

\* In the code a check is due each 15 s and waits for 15 s.
ASSUME ConnectionAssumption ==
  /\ Nil \notin Int /\ {Interval, Timeout, Slack, OfflineAfter, Dwell, Grace, Linger, WakeGap, MaxMoves} \subseteq Nat
  /\ Interval <= Timeout

ASSUME DetailsAssumption == Nil \notin Journals /\ MaxOwners \in Nat /\ MaxDials \in Nat
=============================================================================
