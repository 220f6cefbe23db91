---------------------------- MODULE OriginPublish ----------------------------
(***************************************************************************)
(* scripts/publish-origin.sh: a finished candidate is put on the release   *)
(* origin, from which owners fetch it.  Each architecture is published by  *)
(* a machine of its own, the store has neither locks nor conditions, and   *)
(* one pointer, latest, is shared by both.                                 *)
(***************************************************************************)
EXTENDS Naturals, FiniteSets

CONSTANTS
  Arches,     \* the architectures that ship
  Versions,   \* released versions, in the order of version_is_not_older
  Builds,     \* candidates there may be of a version, each with bytes of its own
  Overlap     \* whether two publishers may run at the same time

VARIABLES
  objects,    \* the versioned objects of the lane: the candidate each is of
  latest,     \* the version latest names, 0 before the first
  publisher   \* per architecture: the run in progress

ovars == <<objects, latest, publisher>>

(* The six names of a set, in the order they are put: the manifest is      *)
(* among the first, the packages among the last.                           *)
Manifest == 1
Pieces   == 1..2
Absent   == 0

Idle == [at |-> "idle", version |-> 0, build |-> Absent, piece |-> 1]

TypeOK ==
  /\ objects \in [Arches \X Versions \X Pieces -> Builds \cup {Absent}]
  /\ latest \in Versions \cup {0}
  /\ publisher \in [Arches -> [at : {"idle", "objects", "pointer", "advance"},
                               version : Versions \cup {0},
                               build : Builds \cup {Absent}, piece : 1..3]]

Init ==
  /\ objects = [o \in Arches \X Versions \X Pieces |-> Absent]
  /\ latest = 0 /\ publisher = [a \in Arches |-> Idle]

Held(a, v) == {objects[<<a, v, p>>] : p \in Pieces}

(* remote_set_verified: every name of the set is there.                    *)
SetIsThere(a, v) == Absent \notin Held(a, v)

(* The checksums and the signed manifest cover every object of the set.    *)
SetVerifies(a, v) == \E b \in Builds : Held(a, v) = {b}

-----------------------------------------------------------------------------

(* The candidate on disk has been checked; on the release lane it is bound *)
(* to HEAD, whatever commit that is on this machine.                       *)
Starts(a, v, b) ==
  /\ publisher[a] = Idle
  /\ Overlap \/ \A other \in Arches : publisher[other] = Idle
  /\ publisher' = [publisher EXCEPT ![a] =
       [at |-> "objects", version |-> v, build |-> b, piece |-> 1]]
  /\ UNCHANGED <<objects, latest>>

\* Mutant of PutObject: what is there is overwritten, as in the dev lane.
PutObjectOver(a) ==
  LET r == publisher[a] IN
  /\ r.at = "objects" /\ r.piece \in Pieces
  /\ objects' = [objects EXCEPT ![<<a, r.version, r.piece>>] = r.build]
  /\ publisher' = [publisher EXCEPT ![a].piece = @ + 1]
  /\ UNCHANGED latest

(* One object: present with the same bytes, absent and put, or refused.    *)
PutObject(a) ==
  LET r == publisher[a]
      there == objects[<<a, r.version, r.piece>>] IN
  /\ r.at = "objects" /\ r.piece \in Pieces
  /\ \/ /\ there \in {Absent, r.build}
        /\ objects' = [objects EXCEPT ![<<a, r.version, r.piece>>] = r.build]
        /\ publisher' = [publisher EXCEPT ![a].piece = @ + 1]
     \/ /\ there \notin {Absent, r.build}
        /\ publisher' = [publisher EXCEPT ![a] = Idle] /\ UNCHANGED objects
  /\ UNCHANGED latest

ObjectsDone(a) ==
  /\ publisher[a].at = "objects" /\ publisher[a].piece \notin Pieces
  /\ publisher' = [publisher EXCEPT ![a].at = "pointer"]
  /\ UNCHANGED <<objects, latest>>

(* The architectures an owner of the current version may be on: those with *)
(* a manifest there.                                                       *)
PublishedUnder(v, a) == {b \in Arches \ {a} : v # 0 /\ objects[<<b, v, Manifest>>] # Absent}

\* Mutant of MayAdvance: the pointer follows whoever publishes.
MayAdvanceAnyway(a, v) == v >= latest

(* The pointer may move: this version is not older, and every other        *)
(* architecture of the current one is complete here too.                   *)
MayAdvance(a, v) ==
  /\ v >= latest
  /\ v = latest \/ \A b \in PublishedUnder(latest, a) : SetIsThere(b, v)

(* The pointer is read and the decision made; a set that is there and does *)
(* not verify ends the run.                                                *)
ReadLatest(a) ==
  LET v == publisher[a].version
      broken == v > latest
                /\ \E b \in PublishedUnder(latest, a) : SetIsThere(b, v) /\ ~SetVerifies(b, v) IN
  /\ publisher[a].at = "pointer"
  /\ publisher' = [publisher EXCEPT ![a] =
       IF ~broken /\ MayAdvance(a, v) THEN [@ EXCEPT !.at = "advance"] ELSE Idle]
  /\ UNCHANGED <<objects, latest>>

(* The pointer is put, whatever it holds by now.                           *)
PutLatest(a) ==
  /\ publisher[a].at = "advance"
  /\ latest' = publisher[a].version
  /\ publisher' = [publisher EXCEPT ![a] = Idle]
  /\ UNCHANGED objects

(* The network or the machine fails: every step so far stays.              *)
Dies(a) ==
  /\ publisher[a] # Idle
  /\ publisher' = [publisher EXCEPT ![a] = Idle]
  /\ UNCHANGED <<objects, latest>>

Next ==
  \E a \in Arches :
    \/ \E v \in Versions, b \in Builds : Starts(a, v, b)
    \/ PutObject(a) \/ ObjectsDone(a) \/ ReadLatest(a) \/ PutLatest(a) \/ Dies(a)

Spec == Init /\ [][Next]_ovars

-----------------------------------------------------------------------------

\* What latest names can be fetched and verified: some architecture has its
\* whole set there, all of one candidate, whatever runs were cut off and
\* whatever candidates were tried under the same version.
LatestVerifies == latest # 0 => \E a \in Arches : SetVerifies(a, latest)

\* An owner is never pointed at a version without their packages: once an
\* architecture could be fetched under latest, it can be under every later
\* latest, and latest never goes back.
Fetchable(a, v) == v # 0 /\ SetIsThere(a, v)
LatestLeavesNobody ==
  /\ latest' >= latest
  /\ \A a \in Arches : Fetchable(a, latest) => SetIsThere(a, latest')
=============================================================================
