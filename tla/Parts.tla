------------------------------- MODULE Parts -------------------------------
(***************************************************************************)
(* The components that share no state with the others and are small enough *)
(* to be checked together: which of them runs is chosen at the start, the  *)
(* others stay as they are.                                                *)
(***************************************************************************)
EXTENDS OwnerParts

CONSTANTS
  Policies, MaxTime, MaxPolicies, MaxTurns,                             \* DesktopActivity
  Videos, MaxAsks, MaxFaults,                                           \* PortalVideo
  Capacity, MaxHolds, MaxPeriods, MaxLinks,                             \* BrowserServer
  Displays, Patience, RecheckAfter, MaxSwitches, MaxCookies             \* DesktopSession

VARIABLES
  part,
  now, prefs, paused, held, desk, cached, sampler, poll, closed, past, changes, turns,
  caller, commands, camera, tracked, ended, healthy, portal, grant, signal, tally,
  hold, holds, pauser, generation, period, clocked, others, browser, server,
  seat, servers, authority, logind, target, proven, texts, answered, managed, since, proofs, resolved, happened

A == INSTANCE DesktopActivity WITH MaxMoves <- MaxTurns, moves <- turns

V == INSTANCE PortalVideo WITH Streams <- Videos

B == INSTANCE BrowserServer

D == INSTANCE DesktopSession WITH Grace <- Patience, Recheck <- RecheckAfter, MaxMoves <- MaxSwitches

\* A link that is up, and a policy that lets everything through: what the connection and the
\* activity start with where they do not run.
Up == [troubles |-> {}, carrier |-> TRUE, registered |-> TRUE, listener |-> TRUE]
Everything == [source |-> TRUE, titles |-> TRUE, urls |-> TRUE, apps |-> {}, hidden |-> {}, through |-> TRUE]

\* What the arguments about the components need of the constants.
ASSUME ActivityAssumption ==
  Nil \notin 0..MaxTime /\ MaxTime \in Nat /\ \A p \in Policies : p.apps \subseteq {"editor", "browser"}

ASSUME VideoAssumption == MaxAsks \in Nat /\ MaxFaults \in Nat

ASSUME ServerAssumption == Capacity \in Nat \ {0} /\ MaxHolds \in Nat /\ MaxPeriods \in Nat /\ MaxLinks \in Nat

ASSUME SessionAssumption ==
  /\ Displays \subseteq Nat /\ \E d \in Displays : \A e \in Displays : d <= e
  /\ Patience \in Nat \ {0} /\ RecheckAfter \in Nat \ {0} /\ MaxSwitches \in Nat /\ MaxCookies \in Nat \ {0}

TVars == <<tclock, store, archived, staging, head, committed, job, jobs>>
CVars == <<world, payload, evidence, lock, op, signer, builds, drift, half>>
OVars == <<objects, latest, publisher>>
GVars == <<tag, localTag, releases, run>>
LVars == <<heard, episode, facts, link, net, check, failing, checked, fresh, shown, timers, sampled, misses, moves>>
JVars == <<journals, owner, fenced, epoch, known, dials, dialed, lane, attempt, details, events, saved>>
AVars == <<now, prefs, paused, held, desk, cached, sampler, poll, closed, past, changes, turns>>
SVars == <<file, old, legacy, daemon, live, writer, writes, upsets, last, said, agreed>>
WVars == <<service, win, save, intake, read, calls, stray, wasHeld, wasDone, presses, surprises>>
VVars == <<caller, commands, camera, tracked, ended, healthy, portal, grant, signal, tally>>
BVars == <<hold, holds, pauser, generation, period, clocked, others, browser, server>>
DVars == <<seat, servers, authority, logind, target, proven, texts, answered, managed, since, proofs, resolved, happened>>
PartsVars == <<part, vars, TVars, CVars, OVars, GVars, LVars, JVars, AVars, SVars, WVars, VVars, BVars, DVars>>

PartNames ==
  {"dirs", "transparency", "candidate", "origin", "github", "connection", "details", "activity",
   "settings", "window", "video", "browser", "session"}

PartsInit ==
  /\ part \in PartNames
  /\ Init /\ T!Init /\ C!Init /\ O!Init /\ G!Init /\ L!Init /\ J!Init /\ A!Init /\ S!Init /\ W!Init
  /\ V!Init /\ B!Init /\ D!Init
  /\ (part # "dirs" => dirs = {})
  /\ (part # "connection" => heard = Nil /\ link = Up) /\ (part # "activity" => prefs.policy = Everything)
  /\ (part # "settings" => file = Nil /\ old = Nil)
  /\ (part # "video" => grant = 0) /\ (part # "browser" => generation = 0)

PartsNext ==
  /\ UNCHANGED part
  /\ \/ part = "dirs" /\ Next
        /\ UNCHANGED <<TVars, CVars, OVars, GVars, LVars, JVars, AVars, SVars, WVars, VVars, BVars, DVars>>
     \/ part = "transparency" /\ T!Next
        /\ UNCHANGED <<vars, CVars, OVars, GVars, LVars, JVars, AVars, SVars, WVars, VVars, BVars, DVars>>
     \/ part = "candidate" /\ C!Next
        /\ UNCHANGED <<vars, TVars, OVars, GVars, LVars, JVars, AVars, SVars, WVars, VVars, BVars, DVars>>
     \/ part = "origin" /\ O!Next
        /\ UNCHANGED <<vars, TVars, CVars, GVars, LVars, JVars, AVars, SVars, WVars, VVars, BVars, DVars>>
     \/ part = "github" /\ G!Next
        /\ UNCHANGED <<vars, TVars, CVars, OVars, LVars, JVars, AVars, SVars, WVars, VVars, BVars, DVars>>
     \/ part = "connection" /\ L!Next
        /\ UNCHANGED <<vars, TVars, CVars, OVars, GVars, JVars, AVars, SVars, WVars, VVars, BVars, DVars>>
     \/ part = "details" /\ J!Next
        /\ UNCHANGED <<vars, TVars, CVars, OVars, GVars, LVars, AVars, SVars, WVars, VVars, BVars, DVars>>
     \/ part = "activity" /\ A!Next
        /\ UNCHANGED <<vars, TVars, CVars, OVars, GVars, LVars, JVars, SVars, WVars, VVars, BVars, DVars>>
     \/ part = "settings" /\ S!Next
        /\ UNCHANGED <<vars, TVars, CVars, OVars, GVars, LVars, JVars, AVars, WVars, VVars, BVars, DVars>>
     \/ part = "window" /\ W!Next
        /\ UNCHANGED <<vars, TVars, CVars, OVars, GVars, LVars, JVars, AVars, SVars, VVars, BVars, DVars>>
     \/ part = "video" /\ V!Next
        /\ UNCHANGED <<vars, TVars, CVars, OVars, GVars, LVars, JVars, AVars, SVars, WVars, BVars, DVars>>
     \/ part = "browser" /\ B!Next
        /\ UNCHANGED <<vars, TVars, CVars, OVars, GVars, LVars, JVars, AVars, SVars, WVars, VVars, DVars>>
     \/ part = "session" /\ D!Next
        /\ UNCHANGED <<vars, TVars, CVars, OVars, GVars, LVars, JVars, AVars, SVars, WVars, VVars, BVars>>

PartsSpec == PartsInit /\ [][PartsNext]_PartsVars

\* The part that runs is well typed.
PartsTypeOK ==
  CASE part = "dirs" -> TypeOK
    [] part = "transparency" -> T!TypeOK
    [] part = "candidate" -> C!TypeOK
    [] part = "origin" -> O!TypeOK
    [] part = "github" -> G!TypeOK
    [] part = "connection" -> L!TypeOK
    [] part = "details" -> J!TypeOK
    [] part = "activity" -> A!TypeOK
    [] part = "settings" -> S!TypeOK
    [] part = "window" -> W!TypeOK
    [] part = "video" -> V!TypeOK
    [] part = "browser" -> B!TypeOK
    [] part = "session" -> D!TypeOK

\* What one part tells another is so: what the window shows of a journal is that journal's,
\* a browser's last word on what it may read holds, a film is called ended when a stream of
\* it is, and the session that capture follows was in front a moment ago and is called
\* unreachable only if it is.
SaidIsSo ==
  J!ShownIsItsOwn /\ B!ToldIsCurrent /\ V!WatchdogIsRight /\ D!TargetIsRecent /\ D!ProvenStaysReachable

\* The owner's word holds: a saved setting and the grant for the screen are not lost, rows
\* are taken as the policy has them, page addresses only if the owner said so, and the
\* screen only for a film the capture loop knows of.
OwnersWordHolds ==
  S!SavedStays /\ S!AddressesAreAgreed /\ A!RowsKeepToThePolicy /\ V!GrantIsKept /\ V!SharedOnlyForAFilm

\* What is done stays done: a chain only grows, latest leaves no version that a
\* reader may still fetch, assets, tags and releases stay, and a prove keeps the payload
\* and the proofs that were there.
NeverTakenBack == [][T!ChainGrows /\ O!LatestLeavesNobody /\ G!PublishedStays /\ C!ResumeKeeps]_PartsVars

\* The panel shows a drop only if there was one, and the window calls settings saved, and a
\* pause or a resume done, only if the app did so when the window knew how its request had
\* ended.
ShownOnlyIfSo == [][L!OneMissIsNoDrop /\ W!SavedWasHeld /\ W!DoneWasDone]_PartsVars

\* Whatever stops half way, and whoever works beside it, nothing half done is
\* published: the pointer of a chain is backed by its archive, a candidate is
\* whole, what latest names verifies, and a release has all its files.
NothingHalfPublished ==
  T!PointerIsBacked /\ T!WitnessIsPublished /\ C!NoHalfCandidate /\ O!LatestVerifies /\ G!PublishedIsWhole
=============================================================================
