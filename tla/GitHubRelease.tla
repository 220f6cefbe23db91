---------------------------- MODULE GitHubRelease ----------------------------
(***************************************************************************)
(* scripts/publish-release.sh: a finished candidate becomes a GitHub       *)
(* release of one version.  Both architectures attach their sets to the    *)
(* same release, each from its own machine and at its own time, so every   *)
(* call to git and gh is a step, and a run may end after any of them and   *)
(* be started again.                                                       *)
(***************************************************************************)
EXTENDS Naturals, Sequences

CONSTANTS
  Arches,     \* the architectures that ship
  Builds,     \* candidates there may be of the version, each with its own bytes
  CommitOf    \* the commit each was built from

VARIABLES
  tag,        \* the commit the remote tag peels to
  localTag,   \* the tag of each machine's clone
  releases,   \* the releases under the tag or title, in the order created
  run         \* each machine's run in progress

gvars == <<tag, localTag, releases, run>>

None    == 0
Commits == {CommitOf[b] : b \in Builds}
Pieces == 1..2       \* the six names of a set, in the order uploaded
Empty  == [a \in Arches |-> [p \in Pieces |-> None]]
Idle   == [at |-> "idle", build |-> None, mine |-> 0, piece |-> 1]

TypeOK ==
  /\ tag \in Commits \cup {None}
  /\ localTag \in [Arches -> Commits \cup {None}]
  /\ \A i \in DOMAIN releases :
       releases[i] \in [draft : BOOLEAN, commit : Commits,
                        assets : [Arches -> [Pieces -> Builds \cup {None}]]]
  /\ run \in [Arches -> [at : {"idle", "tag", "push", "create", "upload", "draft",
                                "recheck", "publish", "final", "attach"},
                         build : Builds \cup {None}, mine : 0..Len(releases), piece : 1..3]]

Init ==
  /\ tag = None /\ localTag = [a \in Arches |-> None]
  /\ releases = <<>> /\ run = [a \in Arches |-> Idle]

Own(r, a)        == {r.assets[a][p] : p \in Pieces}
OwnSetComplete(r, a) == None \notin Own(r, a)

\* Mutant of AssetsExact: what is there already is not compared.
AssetsExactUnread(r, a, b) == TRUE

(* verify_remote_assets: what is there of this architecture is exactly the *)
(* candidate's; the other architecture's names may be there too.           *)
AssetsExact(r, a, b)    == Own(r, a) \subseteq {None, b}
AssetsComplete(r, a, b) == Own(r, a) = {b}

(* verify_release_metadata: the commit, title and notes of the candidate.  *)
MetadataExact(r, b) == r.commit = CommitOf[b]

Go(a, at)  == run' = [run EXCEPT ![a].at = at]
Die(a)     == run' = [run EXCEPT ![a] = Idle]
Keep(a)    == UNCHANGED <<tag, localTag, releases>>

-----------------------------------------------------------------------------

(* The candidate is validated and staged; the tags and the release are     *)
(* read, and what they are decides what is left to do.                     *)
Ready(a, b) ==
  /\ {localTag[a], tag} \subseteq {None, CommitOf[b]} /\ Len(releases) <= 1
  /\ Len(releases) = 1 =>
       /\ tag # None
       /\ MetadataExact(releases[1], b) /\ AssetsExact(releases[1], a, b)

Starts(a, b) ==
  /\ run[a] = Idle /\ Ready(a, b)
  /\ \/ /\ releases = <<>>
        /\ run' = [run EXCEPT ![a] =
             [Idle EXCEPT !.at = IF tag = None THEN "tag" ELSE "create", !.build = b]]
     \/ /\ releases # <<>> /\ releases[1].draft
        /\ run' = [run EXCEPT ![a] = [Idle EXCEPT !.at = "upload", !.build = b, !.mine = 1]]
     \/ /\ releases # <<>> /\ ~releases[1].draft /\ ~OwnSetComplete(releases[1], a)
        /\ run' = [run EXCEPT ![a] = [Idle EXCEPT !.at = "attach", !.build = b, !.mine = 1]]
  /\ Keep(a)

TagLocally(a) ==
  /\ run[a].at = "tag"
  /\ localTag' = [localTag EXCEPT ![a] = CommitOf[run[a].build]]
  /\ Go(a, "push") /\ UNCHANGED <<tag, releases>>

\* Mutant of PushTag: the push is forced.
PushTagForced(a) ==
  /\ run[a].at = "push"
  /\ tag' = CommitOf[run[a].build] /\ Go(a, "create")
  /\ UNCHANGED <<localTag, releases>>

(* The push is refused when another annotated tag is there by now.         *)
PushTag(a) ==
  /\ run[a].at = "push"
  /\ \/ tag = None /\ tag' = CommitOf[run[a].build] /\ Go(a, "create")
     \/ tag # None /\ Die(a) /\ UNCHANGED tag
  /\ UNCHANGED <<localTag, releases>>

(* A draft is created with the exact metadata, whoever created one since.  *)
CreateDraft(a) ==
  /\ run[a].at = "create"
  /\ releases' = Append(releases, [draft |-> TRUE, commit |-> CommitOf[run[a].build], assets |-> Empty])
  /\ run' = [run EXCEPT ![a].at = "upload", ![a].mine = Len(releases) + 1]
  /\ UNCHANGED <<tag, localTag>>

(* One missing asset is uploaded to a release of the tag; what is there is *)
(* passed over, or refused by gh, which ends the run.                      *)
Upload(a, i) ==
  LET r     == run[a]
      there == releases[i].assets[a][r.piece] IN
  /\ r.at \in {"upload", "attach"} /\ r.piece \in Pieces
  /\ releases' = IF there = None
                 THEN [releases EXCEPT ![i].assets[a][r.piece] = r.build] ELSE releases
  /\ run' = [run EXCEPT ![a].piece = @ + 1]
  /\ UNCHANGED <<tag, localTag>>

Uploaded(a) ==
  /\ run[a].piece \notin Pieces
  /\ \/ run[a].at = "upload" /\ Go(a, "draft")
     \/ run[a].at = "attach" /\ Go(a, "final")
  /\ Keep(a)

Completed(r, a, b) == MetadataExact(r, b) /\ r.draft /\ AssetsComplete(r, a, b)

(* The finished draft is read back, with the tag, ...                      *)
CheckDraft(a) ==
  LET r == run[a] IN
  /\ r.at = "draft"
  /\ IF /\ Len(releases) = 1 /\ r.mine = 1 /\ tag = CommitOf[r.build]
        /\ Completed(releases[1], a, r.build)
     THEN Go(a, "recheck") ELSE Die(a)
  /\ Keep(a)

(* ... and once more by its identifier, right before it is published.      *)
Recheck(a) ==
  LET r == run[a] IN
  /\ r.at = "recheck"
  /\ IF Completed(releases[r.mine], a, r.build) THEN Go(a, "publish") ELSE Die(a)
  /\ Keep(a)

Publish(a) ==
  /\ run[a].at = "publish"
  /\ releases' = [releases EXCEPT ![run[a].mine].draft = FALSE]
  /\ Go(a, "final") /\ UNCHANGED <<tag, localTag>>

(* The published release is read back; the run ends well or says it did    *)
(* not.                                                                    *)
Finishes(a) == run[a].at = "final" /\ Die(a) /\ Keep(a)

(* The run ends at any point, by a failed call or with its machine.        *)
Stops(a) == run[a] # Idle /\ Die(a) /\ Keep(a)

Next ==
  \E a \in Arches :
    \/ \E b \in Builds : Starts(a, b)
    \/ TagLocally(a) \/ PushTag(a) \/ CreateDraft(a)
    \/ \E i \in DOMAIN releases : Upload(a, i)
    \/ Uploaded(a) \/ CheckDraft(a) \/ Recheck(a) \/ Publish(a) \/ Finishes(a) \/ Stops(a)

Spec == Init /\ [][Next]_gvars

-----------------------------------------------------------------------------

\* A release owners can see holds the whole set of some architecture, is the
\* only one published, and what it holds of every architecture is of one
\* candidate, built from the commit its tag names: machines that race, rebuilt
\* candidates, other commits and runs that stop anywhere never publish less.
PublishedIsWhole ==
  \A i \in DOMAIN releases :
    ~releases[i].draft =>
      /\ \E a \in Arches, b \in Builds : Own(releases[i], a) = {b}
      /\ \A a \in Arches : \E b \in Builds :
           Own(releases[i], a) \subseteq {None, b} /\ CommitOf[b] = tag
      /\ \A j \in DOMAIN releases : j # i => releases[j].draft

\* What is in a release stays as it is: a later run, also one of another
\* candidate of the version, replaces no asset, moves no tag and takes no
\* published release back.
PublishedStays ==
  /\ tag # None => tag' = tag
  /\ \A i \in DOMAIN releases :
       /\ ~releases[i].draft => ~releases'[i].draft
       /\ \A a \in Arches, p \in Pieces :
            releases[i].assets[a][p] \in {None, releases'[i].assets[a][p]}
=============================================================================
