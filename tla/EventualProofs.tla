---------------------------- MODULE EventualProofs ----------------------------
(***************************************************************************)
(* What the components of Eventual keep to whichever of them runs: the     *)
(* pairing, the runtime with its orderly stop, and the sound.              *)
(*                                                                         *)
(* A step of Eventual is one of a component and leaves the others as they  *)
(* are, so the invariant is the conjunction of the components' own.  The   *)
(* runtime's has three parts: the gate, where an owner that is opened by   *)
(* somebody was installed and is fresh to the stop that shut the gate      *)
(* before it; the way of the last segment, whose link stands until it is   *)
(* sent; and what is counted.  The sound's is its types.                   *)
(*                                                                         *)
(* The pairing: the one the files call confirmed is one the owner said yes *)
(* to, and is never given back while it is the confirmed one, for any      *)
(* pairings, any of them stored by an older build, and any number of       *)
(* failed writes, crashes and kills.  Two things must be seen for the      *)
(* first.  An answer is only ever written for a pairing with a yes.  And   *)
(* the one write that takes a pairing as answered without asking, the      *)
(* grandfathering of an older build's, cannot come twice: before anything  *)
(* stores a pairing without a yes there is an answer file, or an intent    *)
(* that holds it back, and neither goes away without the other.            *)
(*                                                                         *)
(* The owner that runs was started from such an answer, and none is        *)
(* started while one is left that could not be stopped: a commit the app   *)
(* has under way was begun by a yes to its pairing.                        *)
(*                                                                         *)
(* A pairing is given back by whoever made it, or stopped committing it.   *)
(* That it is not the confirmed one rests on who may write the files: the  *)
(* lock is held by the program that writes, for its own pairing, setup and *)
(* the app exclude each other, a pairing just made is in no file before    *)
(* its own series, and one a terminal asks about is not confirmed by       *)
(* anybody else in the meantime.                                           *)
(***************************************************************************)
EXTENDS MCEventual, TLAPS

-----------------------------------------------------------------------------
(* The pairing *)

\* The names of the pairings are not the words for "no answer".
Names == "absent" \notin Pairings \cup {Nil} /\ OldStored \subseteq Pairings

IsRecord(r, fields) == r = [f \in DOMAIN r |-> r[f]] /\ fields \subseteq DOMAIN r

\* All that the argument needs of the types.
Shaped ==
  /\ IsRecord(disk, {"cred", "answer", "intent", "noted"})
  /\ disk.cred # Nil => IsRecord(disk.cred, {"id", "sound"})
  /\ commit # Nil => IsRecord(commit, {"who", "id", "at", "ok"}) /\ commit.at \in Writes \cup {"done"}
  /\ IsRecord(app, {"cand", "at"}) /\ IsRecord(setup, {"id", "at"}) /\ IsRecord(confirm, {"id", "at"})

Named ==
  /\ "absent" \notin yes /\ app.cand # "absent" /\ setup.id # "absent" /\ confirm.id # "absent"
  /\ disk.cred # Nil => disk.cred.id # "absent"
  /\ commit # Nil => commit.id # "absent"

\* The older build's pairing will not be taken as answered any more.
Settled == disk.answer # "absent" \/ disk.intent = "yes"

AnswersAreAccepted == disk.answer \notin {"absent", "empty"} => disk.answer \in yes

StoredIsAccepted == Settled \/ disk.cred = Nil \/ disk.cred.id \in yes

UnsyncedIsAnswered == disk.intent = "unsynced" => disk.answer # "absent"

\* A series that stores or answers is for a pairing with a yes, or comes when
\* all is settled; and a setup goes on only when it is.
SeriesInOrder ==
  commit # Nil =>
    /\ commit.at \in {"intent", "cred", "note", "answer", "finish"} => commit.id \in yes
    /\ commit.at = "keep" => Settled
    /\ commit.at = "grandfather" => ~(disk.answer = "absent" /\ disk.intent = "yes")
    /\ commit.who = "setup" /\ commit.ok /\ commit.at # "grandfather" => Settled

SetupInOrder == setup.at \in {"asking", "walked", "writing"} => Settled

WellFormed == Shaped /\ Named

InOrder ==
  /\ AnswersAreAccepted /\ StoredIsAccepted /\ UnsyncedIsAnswered
  /\ SeriesInOrder /\ SetupInOrder

-----------------------------------------------------------------------------
(* The names *)

LEMMA InitWellFormed == ASSUME Names, Init  PROVE WellFormed
<1>1. PICK d \in [cred : {Nil} \cup [id : OldStored, sound : BOOLEAN],
                  answer : {"absent"}, intent : {"no"}, noted : {Nil}] : disk = d
  BY DEF Init
<1>2. IsRecord(disk, {"cred", "answer", "intent", "noted"})
  BY <1>1 DEF IsRecord
<1>3. disk.cred # Nil => IsRecord(disk.cred, {"id", "sound"}) /\ disk.cred.id \in OldStored
  BY <1>1 DEF IsRecord
<1>4. yes \subseteq OldStored
  BY <1>3 DEF Init
<1>5. IsRecord(app, {"cand", "at"}) /\ app.cand = Nil
  BY DEF Init, Down, IsRecord
<1>6. IsRecord(setup, {"id", "at"}) /\ IsRecord(confirm, {"id", "at"}) /\ setup.id = Nil /\ confirm.id = Nil
  BY DEF Init, Off, IsRecord
<1> QED
  BY <1>2, <1>3, <1>4, <1>5, <1>6 DEF Init, WellFormed, Shaped, Named, Names

\* The files after the write at c, one field at a time.
LEMMA WrittenFields ==
  ASSUME NEW d, IsRecord(d, {"cred", "answer", "intent", "noted"}),
         d.cred # Nil => IsRecord(d.cred, {"id", "sound"}),
         NEW c, c.at \in Writes, ~Skipped(d, c)
  PROVE  LET e == Written(d, c)
         IN /\ IsRecord(e, {"cred", "answer", "intent", "noted"})
            /\ e.cred # Nil => IsRecord(e.cred, {"id", "sound"})
            /\ \/ e.cred = d.cred
               \/ c.at = "claim" /\ d.cred # Nil /\ e.cred.id = d.cred.id
               \/ c.at \in {"cred", "keep"} /\ e.cred.id = c.id
            /\ \/ e.answer = d.answer
               \/ c.at \in {"hold", "grandfather"} /\ e.answer = "empty"
               \/ c.at = "grandfather" /\ d.cred # Nil /\ e.answer = d.cred.id
               \/ c.at = "answer" /\ e.answer = c.id
            /\ c.at = "grandfather" => d.answer = "absent"
            /\ c.at = "intent" => e.intent = "yes"
            /\ c.at = "finish" => e.intent = "no" /\ e.answer = d.answer
            /\ c.at \notin {"intent", "finish"} => e.intent = d.intent
<1> DEFINE e == Written(d, c)
<1>1. CASE c.at = "grandfather"
  <2>1. e = [d EXCEPT !.answer = IF d.cred = Nil THEN "empty" ELSE d.cred.id] /\ d.answer = "absent"
    BY <1>1 DEF Written, Grandfathered, Skipped
  <2> QED  BY <1>1, <2>1 DEF IsRecord
<1>2. CASE c.at = "hold"
  <2>1. e = [d EXCEPT !.answer = "empty"]
    BY <1>2 DEF Written
  <2> QED  BY <1>2, <2>1 DEF IsRecord
<1>3. CASE c.at = "claim"
  <2>1. e = [d EXCEPT !.cred.sound = TRUE] /\ d.cred # Nil
    BY <1>3 DEF Written, Skipped, MayStand
  <2>2. e.cred = [d.cred EXCEPT !.sound = TRUE] /\ e.answer = d.answer /\ e.intent = d.intent
    BY <2>1 DEF IsRecord
  <2>3. IsRecord(e, {"cred", "answer", "intent", "noted"})
    BY <2>1 DEF IsRecord
  <2>4. IsRecord(e.cred, {"id", "sound"}) /\ e.cred.id = d.cred.id
    BY <2>1, <2>2 DEF IsRecord
  <2> QED  BY <1>3, <2>1, <2>2, <2>3, <2>4
<1>4. CASE c.at = "intent"
  <2>1. e = [d EXCEPT !.intent = "yes"]
    BY <1>4 DEF Written
  <2> QED  BY <1>4, <2>1 DEF IsRecord
<1>5. CASE c.at \in {"cred", "keep"}
  <2>1. e = [d EXCEPT !.cred = [id |-> c.id, sound |-> TRUE]]
    BY <1>5 DEF Written
  <2>2. e.cred = [id |-> c.id, sound |-> TRUE] /\ e.answer = d.answer /\ e.intent = d.intent
    BY <2>1 DEF IsRecord
  <2>3. IsRecord(e, {"cred", "answer", "intent", "noted"})
    BY <2>1 DEF IsRecord
  <2>4. IsRecord(e.cred, {"id", "sound"}) /\ e.cred.id = c.id
    BY <2>2 DEF IsRecord
  <2> QED  BY <1>5, <2>2, <2>3, <2>4
<1>6. CASE c.at = "note"
  <2>1. e = [d EXCEPT !.noted = c.id]
    BY <1>6 DEF Written
  <2> QED  BY <1>6, <2>1 DEF IsRecord
<1>7. CASE c.at = "answer"
  <2>1. e = [d EXCEPT !.answer = c.id]
    BY <1>7 DEF Written
  <2> QED  BY <1>7, <2>1 DEF IsRecord
<1>8. CASE c.at = "finish"
  <2>1. e = [d EXCEPT !.intent = "no"]
    BY <1>8 DEF Written
  <2> QED  BY <1>8, <2>1 DEF IsRecord
<1> QED  BY <1>1, <1>2, <1>3, <1>4, <1>5, <1>6, <1>7, <1>8 DEF Writes

\* The next write of a series, and what is left of its record.
LEMMA FollowsInOrder ==
  ASSUME NEW at \in Writes
  PROVE  /\ Follows(at) \in Writes \cup {"done"} /\ Follows(at) # "grandfather" /\ Follows(at) # "keep"
         /\ Follows(at) \in {"intent", "cred", "note", "answer", "finish"}
              => at \in {"intent", "cred", "note", "answer"}
BY DEF Follows, Writes

-----------------------------------------------------------------------------
(* The writes *)

\* What the steps of a series leave alone.
LEMMA WriteStepKeeps ==
  ASSUME WriteStep
  PROVE  commit # Nil /\ UNCHANGED <<yes, app, setup, confirm>>
BY DEF WriteStep

\* A write is made or not; the series goes on, or ends without success.
LEMMA WriteStepCases ==
  ASSUME Shaped, WriteStep
  PROVE  /\ commit.at \in Writes /\ IsRecord(commit', {"who", "id", "at", "ok"})
         /\ commit'.who = commit.who /\ commit'.id = commit.id
         /\ \/ Skipped(disk, commit) /\ disk' = disk /\ commit'.at = Follows(commit.at)
               /\ commit'.ok = commit.ok
            \/ /\ ~Skipped(disk, commit) /\ disk' = Written(disk, commit)
               /\ commit.at = "finish" => Removable
               /\ \/ commit'.at = Follows(commit.at) /\ commit'.ok = commit.ok
                  \/ commit'.at = "done" /\ commit'.ok = FALSE /\ commit.at # "finish"
            \/ disk' = disk /\ commit'.at = "done" /\ commit'.ok = FALSE
            \/ /\ commit.at = "finish" /\ Removable /\ disk' = [disk EXCEPT !.intent = "unsynced"]
               /\ commit'.at = "done" /\ commit'.ok = FALSE
<1>1. commit # Nil /\ commit.at # "done"
  BY DEF WriteStep
<1>2. IsRecord(commit, {"who", "id", "at", "ok"}) /\ commit.at \in Writes
  BY <1>1 DEF Shaped
<1>3. CASE Skipped(disk, commit) /\ commit' = [commit EXCEPT !.at = Follows(@)] /\ UNCHANGED disk
  BY <1>2, <1>3 DEF IsRecord
<1>4. CASE /\ ~Skipped(disk, commit) /\ (commit.at = "finish" => Removable)
           /\ disk' = Written(disk, commit) /\ commit' = [commit EXCEPT !.at = Follows(@)]
  BY <1>2, <1>4 DEF IsRecord
<1>5. CASE ~Skipped(disk, commit) /\ commit' = [commit EXCEPT !.at = "done", !.ok = FALSE] /\ UNCHANGED disk
  BY <1>2, <1>5 DEF IsRecord
<1>6. CASE /\ ~Skipped(disk, commit) /\ (commit.at = "finish" => Removable)
           /\ disk' = IF commit.at = "finish" THEN [disk EXCEPT !.intent = "unsynced"]
                      ELSE Written(disk, commit)
           /\ commit' = [commit EXCEPT !.at = "done", !.ok = FALSE]
  BY <1>2, <1>6 DEF IsRecord
<1> QED  BY <1>3, <1>4, <1>5, <1>6 DEF WriteStep
\* No write and no failure brings a name, or a record, that is out of order.
LEMMA WriteStepWellFormed ==
  ASSUME WellFormed, WriteStep
  PROVE  WellFormed'
<1>1. commit # Nil /\ UNCHANGED <<yes, app, setup, confirm>>
  BY WriteStepKeeps
<1>2. commit.at \in Writes /\ IsRecord(commit', {"who", "id", "at", "ok"}) /\ commit'.id = commit.id
  BY WriteStepCases DEF WellFormed
<1>3. commit'.at \in Writes \cup {"done"}
  BY <1>2, WriteStepCases, FollowsInOrder DEF WellFormed
<1>4. IsRecord(disk', {"cred", "answer", "intent", "noted"})
      /\ (disk'.cred # Nil => IsRecord(disk'.cred, {"id", "sound"}) /\ disk'.cred.id # "absent")
  <2>1. CASE disk' = disk
    BY <2>1 DEF WellFormed, Shaped, Named
  <2>2. CASE ~Skipped(disk, commit) /\ disk' = Written(disk, commit)
    BY <1>1, <1>2, <2>2, WrittenFields DEF WellFormed, Shaped, Named
  <2>3. CASE disk' = [disk EXCEPT !.intent = "unsynced"]
    BY <2>3 DEF WellFormed, Shaped, Named, IsRecord
  <2> QED  BY <2>1, <2>2, <2>3, WriteStepCases DEF WellFormed
<1> QED  BY <1>1, <1>2, <1>3, <1>4 DEF WellFormed, Shaped, Named

\* Once settled, the files stay so.
LEMMA WriteStepSettled ==
  ASSUME WellFormed, UnsyncedIsAnswered, SeriesInOrder, WriteStep
  PROVE  (Settled => Settled') /\ UnsyncedIsAnswered'
<1>1. commit # Nil /\ commit.id # "absent"
  BY WriteStepKeeps DEF WellFormed, Named
<1>2. CASE disk' = disk
  BY <1>2 DEF Settled, UnsyncedIsAnswered
<1>3. CASE ~Skipped(disk, commit) /\ disk' = Written(disk, commit) /\ (commit.at = "finish" => Removable)
  <2>1. commit.at \in Writes
    BY WriteStepCases DEF WellFormed
  <2>2. commit.at = "finish" => disk.answer # "absent"
    BY <1>1, <1>3 DEF Removable
  <2>3. disk'.answer = "absent" => disk.answer = "absent" /\ commit.at # "finish"
    BY <1>1, <1>3, <2>1, <2>2, WrittenFields DEF WellFormed, Shaped, Named
  <2>4. disk'.intent = disk.intent \/ disk'.intent = "yes" \/ (commit.at = "finish" /\ disk'.intent = "no")
    <3>1. /\ commit.at = "intent" => disk'.intent = "yes"
          /\ commit.at = "finish" => disk'.intent = "no"
          /\ commit.at \notin {"intent", "finish"} => disk'.intent = disk.intent
      BY <1>1, <1>3, <2>1, WrittenFields DEF WellFormed, Shaped, Named
    <3> QED  BY <3>1
  <2> QED  BY <2>3, <2>4 DEF Settled, UnsyncedIsAnswered
<1>4. CASE commit.at = "finish" /\ Removable /\ disk' = [disk EXCEPT !.intent = "unsynced"]
  <2>1. disk'.answer = disk.answer /\ disk.answer # "absent"
    BY <1>1, <1>4 DEF WellFormed, Shaped, IsRecord, Removable
  <2> QED  BY <2>1 DEF Settled, UnsyncedIsAnswered
<1> QED  BY <1>2, <1>3, <1>4, WriteStepCases DEF WellFormed

\* Where the grandfathering succeeds, all is settled.
LEMMA GrandfatherSettles ==
  ASSUME WellFormed, WriteStep, commit'.ok, commit.at = "grandfather"
  PROVE  Settled'
<1>1. CASE Skipped(disk, commit) /\ disk' = disk
  BY <1>1 DEF Skipped, Settled
<1>2. CASE ~Skipped(disk, commit) /\ disk' = Written(disk, commit)
  <2>1. disk'.answer # "absent"
    <3>1. disk' = [disk EXCEPT !.answer = IF disk.cred = Nil THEN "empty" ELSE disk.cred.id]
      BY <1>2 DEF Written, Grandfathered
    <3> QED  BY <3>1 DEF WellFormed, Shaped, Named, IsRecord
  <2> QED  BY <2>1 DEF Settled
<1> QED  BY <1>1, <1>2, WriteStepCases DEF WellFormed

\* What a write answers or stores has a yes, or is held back.
LEMMA WriteStepInOrder ==
  ASSUME WellFormed, InOrder, WriteStep
  PROVE  InOrder'
<1>1. commit # Nil /\ UNCHANGED <<yes, setup>> /\ commit.at \in Writes
  BY WriteStepKeeps, WriteStepCases DEF WellFormed
<1>2. (Settled => Settled') /\ UnsyncedIsAnswered'
  BY WriteStepSettled DEF InOrder
<1>3. AnswersAreAccepted' /\ StoredIsAccepted'
  <2>1. CASE disk' = disk
    BY <1>1, <2>1 DEF InOrder, AnswersAreAccepted, StoredIsAccepted, Settled
  <2>2. CASE ~Skipped(disk, commit) /\ disk' = Written(disk, commit)
    <3>1. AnswersAreAccepted'
      <4>1. CASE disk'.answer = disk.answer \/ disk'.answer = "empty"
        BY <1>1, <4>1 DEF InOrder, AnswersAreAccepted
      <4>2. CASE commit.at = "grandfather" /\ disk.cred # Nil /\ disk'.answer = disk.cred.id
        <5>1. disk.answer = "absent" /\ ~Settled
          BY <1>1, <2>2, <4>2, WrittenFields DEF WellFormed, Shaped, InOrder, SeriesInOrder, Settled
        <5> QED  BY <1>1, <4>2, <5>1 DEF InOrder, StoredIsAccepted, AnswersAreAccepted
      <4>3. CASE commit.at = "answer" /\ disk'.answer = commit.id
        BY <1>1, <4>3 DEF InOrder, SeriesInOrder, AnswersAreAccepted
      <4> QED  BY <1>1, <2>2, <4>1, <4>2, <4>3, WrittenFields DEF WellFormed, Shaped
    <3>2. StoredIsAccepted'
      <4>1. CASE disk'.cred = disk.cred
        BY <1>1, <1>2, <4>1 DEF InOrder, StoredIsAccepted
      <4>2. CASE disk.cred # Nil /\ disk'.cred.id = disk.cred.id
        BY <1>1, <1>2, <4>2 DEF InOrder, StoredIsAccepted
      <4>3. CASE commit.at \in {"cred", "keep"} /\ disk'.cred.id = commit.id
        BY <1>1, <1>2, <4>3 DEF InOrder, StoredIsAccepted, SeriesInOrder
      <4> QED  BY <1>1, <2>2, <4>1, <4>2, <4>3, WrittenFields DEF WellFormed, Shaped
    <3> QED  BY <3>1, <3>2
  <2>3. CASE disk' = [disk EXCEPT !.intent = "unsynced"]
    <3>1. disk'.answer = disk.answer /\ disk'.cred = disk.cred
      BY <2>3 DEF WellFormed, Shaped, IsRecord
    <3> QED  BY <1>1, <1>2, <3>1 DEF InOrder, AnswersAreAccepted, StoredIsAccepted
  <2> QED  BY <2>1, <2>2, <2>3, WriteStepCases DEF WellFormed
<1>4. SeriesInOrder'
  <2>1. /\ commit'.who = commit.who /\ commit'.id = commit.id
        /\ \/ commit'.at = Follows(commit.at) /\ commit'.ok = commit.ok
           \/ commit'.at = "done" /\ commit'.ok = FALSE
    BY WriteStepCases DEF WellFormed
  <2>2. commit'.at \notin {"keep", "grandfather"}
        /\ (commit'.at \in {"intent", "cred", "note", "answer", "finish"}
             => commit.at \in {"intent", "cred", "note", "answer"})
    BY <1>1, <2>1, FollowsInOrder
  <2>3. commit'.ok /\ commit.at = "grandfather" => Settled'
    BY GrandfatherSettles
  <2>4. commit'.ok => commit.ok
    BY <2>1
  <2> QED  BY <1>1, <1>2, <2>1, <2>2, <2>3, <2>4 DEF InOrder, SeriesInOrder
<1>5. SetupInOrder'
  BY <1>1, <1>2 DEF InOrder, SetupInOrder
<1> QED  BY <1>2, <1>3, <1>4, <1>5 DEF InOrder
-----------------------------------------------------------------------------
(* The programs *)

\* The lock is taken for a pairing, at a write.
LEMMA LockRecord ==
  ASSUME NEW who, NEW p, p # "absent", NEW at, at \in Writes \cup {"done"}, Lock(who, p, at)
  PROVE  /\ commit = Nil /\ commit'.who = who /\ commit'.id = p /\ commit'.at = at
         /\ commit' # Nil => IsRecord(commit', {"who", "id", "at", "ok"}) /\ commit'.at \in Writes \cup {"done"}
                                /\ commit'.id # "absent"
BY DEF Lock, IsRecord

LEMMA GrandfatherRecord ==
  ASSUME Names, NEW who, LockAndGrandfather(who)
  PROVE  /\ commit = Nil /\ commit'.who = who /\ commit'.at \in {"done", "grandfather"}
         /\ commit'.at = "done" <=> disk.intent = "yes"
         /\ commit' # Nil => IsRecord(commit', {"who", "id", "at", "ok"}) /\ commit'.at \in Writes \cup {"done"}
                                /\ commit'.id # "absent"
<1> DEFINE at == IF disk.intent = "yes" THEN "done" ELSE "grandfather"
<1>1. Lock(who, Nil, at) /\ at \in Writes \cup {"done"} /\ Nil # "absent"
  BY DEF LockAndGrandfather, Writes, Names
<1>2. at \in {"done", "grandfather"} /\ (at = "done" <=> disk.intent = "yes")
  OBVIOUS
<1> HIDE DEF at
<1> QED  BY <1>1, <1>2, LockRecord

\* The lock is kept, given back, or taken in good shape.
LockShaped ==
  commit' # Nil => \/ commit' = commit
                   \/ /\ IsRecord(commit', {"who", "id", "at", "ok"})
                      /\ commit'.at \in Writes \cup {"done"} /\ commit'.id # "absent"

RunShaped(r) == IsRecord(r, {"id", "at"}) /\ r.id # "absent"

LEMMA StepWellFormed ==
  ASSUME WellFormed, UNCHANGED disk, LockShaped, "absent" \notin yes',
         app' = app \/ (IsRecord(app', {"cand", "at"}) /\ app'.cand # "absent"),
         setup' = setup \/ RunShaped(setup'), confirm' = confirm \/ RunShaped(confirm')
  PROVE  WellFormed'
BY DEF WellFormed, Shaped, Named, LockShaped, RunShaped

LEMMA OffShaped == ASSUME Names  PROVE RunShaped(Off)
BY DEF Names, RunShaped, Off, IsRecord

LEMMA DownShaped == ASSUME Names  PROVE IsRecord(Down, {"cand", "at"}) /\ Down.cand # "absent"
BY DEF Names, Down, IsRecord

\* An owner is started or not: the candidate stays what it was.
LEMMA StartedShaped ==
  ASSUME NEW a, IsRecord(a, {"cand", "at"}), NEW p, NEW b \in Started(a, p)
  PROVE  IsRecord(b, {"cand", "at"}) /\ b.cand = a.cand
BY DEF Started, IsRecord

LEMMA AppWellFormed ==
  ASSUME Names, WellFormed,
         \/ AppStart \/ AppStarted \/ RecheckCliConfirm \/ BeginPairing \/ RetireCandidate
         \/ AnswerPairing \/ ConnectLocalJournal \/ CommitEnds \/ Shutdown
  PROVE  WellFormed' /\ yes \subseteq yes'
<1> DEFINE AppShaped == IsRecord(app', {"cand", "at"}) /\ app'.cand # "absent"
<1>a. IsRecord(app, {"cand", "at"}) /\ app.cand # "absent" /\ "absent" \notin yes /\ Nil # "absent"
  BY DEF WellFormed, Shaped, Named, Names
<1>n. \A p \in Pairings : p # "absent"
  BY DEF Names
<1> HIDE DEF AppShaped
<1>1. CASE AppStart
  <2>1. LockShaped
    BY <1>1, GrandfatherRecord DEF AppStart, LockShaped
  <2>2. AppShaped
    BY <1>1, <1>a DEF AppStart, IsRecord, AppShaped
  <2> QED  BY <1>1, <1>a, <2>1, <2>2, StepWellFormed DEF AppStart, AppShaped
<1>2. CASE AppStarted
  <2>1. AppShaped
    <3>1. CASE app' \in Started(app, disk.cred.id)
      BY <1>a, <3>1, StartedShaped DEF AppShaped
    <3>2. CASE app' = [app EXCEPT !.at = "running", !.durable = DurableOnDisk(disk)]
      BY <1>a, <3>2 DEF IsRecord, AppShaped
    <3> QED  BY <1>2, <3>1, <3>2 DEF AppStarted
  <2> QED  BY <1>2, <1>a, <2>1, StepWellFormed DEF AppStarted, Ended, LockShaped, AppShaped
<1>3. CASE RecheckCliConfirm
  <2>1. AppShaped
    <3>1. CASE app' \in Started(app, disk.cred.id)
      BY <1>a, <3>1, StartedShaped DEF AppShaped
    <3>2. CASE app' = [app EXCEPT !.durable = "unpaired"]
      BY <1>a, <3>2 DEF IsRecord, AppShaped
    <3> QED  BY <1>3, <3>1, <3>2 DEF RecheckCliConfirm
  <2> QED  BY <1>3, <1>a, <2>1, StepWellFormed DEF RecheckCliConfirm, LockShaped, AppShaped
<1>4. CASE BeginPairing
  <2>1. AppShaped
    BY <1>4, <1>a, <1>n DEF BeginPairing, IsRecord, AppShaped
  <2> QED  BY <1>4, <1>a, <2>1, StepWellFormed DEF BeginPairing, LockShaped, AppShaped
<1>5. CASE RetireCandidate
  <2>1. AppShaped
    BY <1>5, <1>a DEF RetireCandidate, IsRecord, AppShaped
  <2> QED  BY <1>5, <1>a, <2>1, StepWellFormed DEF RetireCandidate, LockShaped, AppShaped
<1>6. CASE AnswerPairing
  <2>1. AppShaped
    BY <1>6, <1>a DEF AnswerPairing, Accept, NotCommitted, IsRecord, AppShaped
  <2>2. LockShaped
    <3>1. CASE Lock("app", app.cand, "intent")
      BY <1>a, <3>1, LockRecord DEF LockShaped, Writes
    <3> QED  BY <1>6, <3>1 DEF AnswerPairing, Accept, LockShaped
  <2>3. yes' = yes \cup {app.cand} /\ UNCHANGED <<disk, setup, confirm>>
    BY <1>6 DEF AnswerPairing, Accept
  <2> QED  BY <1>a, <2>1, <2>2, <2>3, StepWellFormed DEF AppShaped
<1>7. CASE ConnectLocalJournal
  <2>1. PICK p \in Pairings :
          \/ /\ Lock("app", p, "intent") /\ yes' = yes \cup {p}
             /\ app' = [app EXCEPT !.cand = p, !.at = "committing"]
          \/ UNCHANGED <<app, yes, commit>>
    BY <1>7 DEF ConnectLocalJournal
  <2>2. LockShaped
    BY <1>n, <2>1, LockRecord DEF LockShaped, Writes
  <2>3. AppShaped
    BY <1>a, <1>n, <2>1 DEF IsRecord, AppShaped
  <2>4. "absent" \notin yes' /\ yes \subseteq yes'
    BY <1>a, <1>n, <2>1
  <2> QED  BY <1>7, <2>2, <2>3, <2>4, StepWellFormed DEF ConnectLocalJournal, AppShaped
<1>8. CASE CommitEnds
  <2>1. AppShaped
    <3>1. CASE app' \in Started([app EXCEPT !.cand = Nil], commit.id)
      <4>1. IsRecord([app EXCEPT !.cand = Nil], {"cand", "at"}) /\ [app EXCEPT !.cand = Nil].cand = Nil
        BY <1>a DEF IsRecord
      <4> QED  BY <1>a, <3>1, <4>1, StartedShaped DEF AppShaped
    <3>2. CASE \E f : app' = NotCommitted(app, f)
      BY <1>a, <3>2 DEF NotCommitted, IsRecord, AppShaped
    <3> QED  BY <1>8, <3>1, <3>2 DEF CommitEnds
  <2> QED  BY <1>8, <1>a, <2>1, StepWellFormed DEF CommitEnds, Ended, LockShaped, AppShaped
<1>9. CASE Shutdown
  BY <1>9, <1>a, DownShaped, StepWellFormed DEF Shutdown, LockShaped
<1> QED  BY <1>1, <1>2, <1>3, <1>4, <1>5, <1>6, <1>7, <1>8, <1>9
LEMMA SetupWellFormed ==
  ASSUME Names, WellFormed,
         \/ SetupStart \/ SetupPairs \/ SetupAccepts \/ SetupRefuses \/ SetupLooks
         \/ SetupWalksAway \/ SetupEnds \/ SetupKilled
  PROVE  WellFormed' /\ yes \subseteq yes'
<1>a. RunShaped(setup) /\ "absent" \notin yes /\ RunShaped(Off)
  BY OffShaped DEF WellFormed, Shaped, Named, RunShaped
<1>n. \A p \in Pairings : p # "absent"
  BY DEF Names
<1>1. CASE SetupStart
  <2>1. LockShaped
    BY <1>1, GrandfatherRecord DEF SetupStart, LockShaped
  <2>2. RunShaped(setup')
    BY <1>1, <1>a DEF SetupStart, RunShaped, IsRecord
  <2> QED  BY <1>1, <1>a, <2>1, <2>2, StepWellFormed DEF SetupStart
<1>2. CASE SetupPairs
  <2>1. RunShaped(setup')
    BY <1>2, <1>a, <1>n DEF SetupPairs, RunShaped, IsRecord
  <2> QED  BY <1>2, <1>a, <2>1, StepWellFormed DEF SetupPairs, Ended, LockShaped
<1>3. CASE SetupAccepts
  <2>1. LockShaped
    BY <1>3, <1>a, LockRecord DEF SetupAccepts, LockShaped, RunShaped, Writes
  <2>2. RunShaped(setup')
    BY <1>3, <1>a DEF SetupAccepts, RunShaped, IsRecord
  <2>3. "absent" \notin yes' /\ yes \subseteq yes'
    BY <1>3, <1>a DEF SetupAccepts, RunShaped
  <2> QED  BY <1>3, <2>1, <2>2, <2>3, StepWellFormed DEF SetupAccepts
<1>4. CASE SetupRefuses
  BY <1>4, <1>a, StepWellFormed DEF SetupRefuses, LockShaped
<1>5. CASE SetupLooks
  <2>1. RunShaped(setup')
    BY <1>5, <1>a DEF SetupLooks, RunShaped, IsRecord
  <2> QED  BY <1>5, <1>a, <2>1, StepWellFormed DEF SetupLooks, LockShaped
<1>6. CASE SetupWalksAway
  <2>1. LockShaped
    BY <1>6, <1>a, LockRecord DEF SetupWalksAway, LockShaped, RunShaped, Writes
  <2>2. RunShaped(setup')
    BY <1>6, <1>a DEF SetupWalksAway, RunShaped, IsRecord
  <2> QED  BY <1>6, <1>a, <2>1, <2>2, StepWellFormed DEF SetupWalksAway
<1>7. CASE SetupEnds
  BY <1>7, <1>a, StepWellFormed DEF SetupEnds, Ended, LockShaped
<1>8. CASE SetupKilled
  BY <1>8, <1>a, StepWellFormed DEF SetupKilled, Released, LockShaped
<1> QED  BY <1>1, <1>2, <1>3, <1>4, <1>5, <1>6, <1>7, <1>8

LEMMA ConfirmWellFormed ==
  ASSUME Names, WellFormed,
         ConfirmStart \/ ConfirmAsks \/ ConfirmAccepts \/ ConfirmRefuses \/ ConfirmEnds \/ ConfirmKilled
  PROVE  WellFormed' /\ yes \subseteq yes'
<1>a. RunShaped(confirm) /\ "absent" \notin yes /\ RunShaped(Off)
  BY OffShaped DEF WellFormed, Shaped, Named, RunShaped
<1>1. CASE ConfirmStart
  <2>1. LockShaped
    BY <1>1, GrandfatherRecord DEF ConfirmStart, LockShaped
  <2>2. RunShaped(confirm')
    BY <1>1, <1>a DEF ConfirmStart, RunShaped, IsRecord
  <2> QED  BY <1>1, <1>a, <2>1, <2>2, StepWellFormed DEF ConfirmStart
<1>2. CASE ConfirmAsks
  <2>1. RunShaped(confirm')
    BY <1>2, <1>a DEF ConfirmAsks, RunShaped, IsRecord, WellFormed, Named
  <2> QED  BY <1>2, <1>a, <2>1, StepWellFormed DEF ConfirmAsks, Ended, LockShaped
<1>3. CASE ConfirmAccepts
  <2>1. LockShaped
    BY <1>3, <1>a, LockRecord DEF ConfirmAccepts, LockShaped, RunShaped, Writes
  <2>2. RunShaped(confirm')
    BY <1>3, <1>a DEF ConfirmAccepts, RunShaped, IsRecord
  <2>3. "absent" \notin yes' /\ yes \subseteq yes'
    BY <1>3, <1>a DEF ConfirmAccepts, RunShaped
  <2> QED  BY <1>3, <2>1, <2>2, <2>3, StepWellFormed DEF ConfirmAccepts
<1>4. CASE ConfirmRefuses
  <2>1. RunShaped(confirm')
    BY <1>4, <1>a DEF ConfirmRefuses, RunShaped, IsRecord
  <2> QED  BY <1>4, <1>a, <2>1, StepWellFormed DEF ConfirmRefuses, LockShaped
<1>5. CASE ConfirmEnds
  BY <1>5, <1>a, StepWellFormed DEF ConfirmEnds, Ended, LockShaped
<1>6. CASE ConfirmKilled
  BY <1>6, <1>a, StepWellFormed DEF ConfirmKilled, Released, LockShaped
<1> QED  BY <1>1, <1>2, <1>3, <1>4, <1>5, <1>6

\* The two steps that touch a file outside the series.
LEMMA DropsWellFormed ==
  ASSUME Names, WellFormed, ConfirmDrops \/ AppCrash
  PROVE  WellFormed'
<1>1. CASE ConfirmDrops
  <2>1. IsRecord(disk', {"cred", "answer", "intent", "noted"}) /\ (disk'.cred = Nil \/ disk'.cred = disk.cred)
    BY <1>1 DEF ConfirmDrops, WellFormed, Shaped, IsRecord
  <2> QED  BY <1>1, <2>1, OffShaped DEF ConfirmDrops, WellFormed, Shaped, Named, RunShaped
<1>2. CASE AppCrash
  <2>1. IsRecord(disk', {"cred", "answer", "intent", "noted"}) /\ disk'.cred = disk.cred
    BY <1>2 DEF AppCrash, WellFormed, Shaped, IsRecord
  <2> QED  BY <1>2, <2>1, DownShaped DEF AppCrash, Released, WellFormed, Shaped, Named
<1> QED  BY <1>1, <1>2
-----------------------------------------------------------------------------
(* The order *)

LEMMA StepInOrder ==
  ASSUME InOrder, UNCHANGED disk, yes \subseteq yes',
         commit' \in {commit, Nil} \/ SeriesInOrder', SetupInOrder'
  PROVE  InOrder'
<1>1. SeriesInOrder'
  BY DEF InOrder, SeriesInOrder, Settled
<1>2. AnswersAreAccepted' /\ StoredIsAccepted' /\ UnsyncedIsAnswered'
  BY DEF InOrder, AnswersAreAccepted, StoredIsAccepted, UnsyncedIsAnswered, Settled
<1> QED  BY <1>1, <1>2 DEF InOrder

LEMMA GrandfatherInOrder ==
  ASSUME Names, NEW who, LockAndGrandfather(who), UNCHANGED disk
  PROVE  SeriesInOrder'
BY GrandfatherRecord DEF SeriesInOrder, Settled

\* A series for a pairing with a yes; a setup has settled all before it.
LEMMA LockInOrder ==
  ASSUME NEW who, NEW p, p # "absent", p \in yes', NEW at \in {"intent", "cred", "note"},
         Lock(who, p, at), who = "setup" => Settled'
  PROVE  SeriesInOrder'
BY LockRecord DEF SeriesInOrder, Writes

LEMMA AppInOrder ==
  ASSUME Names, WellFormed, InOrder, yes \subseteq yes',
         \/ AppStart \/ AppStarted \/ RecheckCliConfirm \/ BeginPairing \/ RetireCandidate
         \/ AnswerPairing \/ ConnectLocalJournal \/ CommitEnds \/ Shutdown
  PROVE  InOrder'
<1>1. UNCHANGED <<disk, setup>>
  BY Zenon DEF AppStart, AppStarted, RecheckCliConfirm, BeginPairing, RetireCandidate, AnswerPairing,
     ConnectLocalJournal, CommitEnds, Shutdown
<1>2. SetupInOrder'
  BY <1>1 DEF InOrder, SetupInOrder, Settled
<1>3. CASE AppStart
  BY <1>1, <1>2, <1>3, GrandfatherInOrder, StepInOrder DEF AppStart
<1>4. CASE AnswerPairing
  <2>1. CASE Lock("app", app.cand, "intent")
    <3>1. app.cand \in yes' /\ app.cand # "absent"
      BY <1>4 DEF AnswerPairing, Accept, WellFormed, Named
    <3> QED  BY <1>1, <1>2, <2>1, <3>1, LockInOrder, StepInOrder
  <2>2. CASE UNCHANGED commit
    BY <1>1, <1>2, <2>2, StepInOrder
  <2> QED  BY <1>4, <2>1, <2>2 DEF AnswerPairing, Accept
<1>5. CASE ConnectLocalJournal
  <2>1. PICK p \in Pairings : (Lock("app", p, "intent") /\ yes' = yes \cup {p}) \/ UNCHANGED commit
    BY <1>5 DEF ConnectLocalJournal
  <2>2. p # "absent"
    BY DEF Names
  <2>3. CASE Lock("app", p, "intent") /\ yes' = yes \cup {p}
    BY <1>1, <1>2, <2>2, <2>3, LockInOrder, StepInOrder
  <2>4. CASE UNCHANGED commit
    BY <1>1, <1>2, <2>4, StepInOrder
  <2> QED  BY <2>1, <2>3, <2>4
<1>6. CASE AppStarted \/ RecheckCliConfirm \/ BeginPairing \/ RetireCandidate \/ CommitEnds \/ Shutdown
  <2>1. commit' \in {commit, Nil}
    BY <1>6 DEF AppStarted, RecheckCliConfirm, BeginPairing, RetireCandidate, CommitEnds, Shutdown, Ended
  <2> QED  BY <1>1, <1>2, <2>1, StepInOrder
<1> QED  BY <1>3, <1>4, <1>5, <1>6

LEMMA SetupStepsInOrder ==
  ASSUME Names, WellFormed, InOrder, yes \subseteq yes',
         \/ SetupStart \/ SetupPairs \/ SetupAccepts \/ SetupRefuses \/ SetupLooks
         \/ SetupWalksAway \/ SetupEnds \/ SetupKilled
  PROVE  InOrder'
<1>a. IsRecord(setup, {"id", "at"}) /\ setup.id # "absent"
  BY DEF WellFormed, Shaped, Named
<1>1. CASE SetupStart
  <2>1. SetupInOrder'
    BY <1>1 DEF SetupStart, Off, SetupInOrder
  <2> QED  BY <1>1, <2>1, GrandfatherInOrder, StepInOrder DEF SetupStart
<1>2. CASE SetupPairs
  <2>1. setup' = Off \/ Settled
    BY <1>2 DEF SetupPairs, Ended, InOrder, SeriesInOrder
  <2>2. Off.at = "off" /\ UNCHANGED disk
    BY <1>2 DEF SetupPairs, Off
  <2>3. SetupInOrder'
    BY <2>1, <2>2 DEF SetupInOrder, Settled
  <2> QED  BY <1>2, <2>2, <2>3, StepInOrder DEF SetupPairs, Ended
<1>3. CASE SetupAccepts
  <2>1. Settled'
    BY <1>3 DEF SetupAccepts, InOrder, SetupInOrder, Settled
  <2>2. SeriesInOrder'
    BY <1>3, <1>a, <2>1, LockInOrder DEF SetupAccepts
  <2> QED  BY <1>3, <2>1, <2>2, StepInOrder DEF SetupAccepts, SetupInOrder
<1>4. CASE SetupRefuses \/ SetupEnds \/ SetupKilled
  <2>1. SetupInOrder' /\ commit' \in {commit, Nil} /\ UNCHANGED disk
    BY <1>4 DEF SetupRefuses, SetupEnds, SetupKilled, Ended, Released, Off, SetupInOrder
  <2> QED  BY <2>1, StepInOrder
<1>5. CASE SetupLooks
  <2>1. Settled /\ UNCHANGED <<disk, commit>>
    BY <1>5 DEF SetupLooks, InOrder, SetupInOrder
  <2>2. SetupInOrder'
    BY <2>1 DEF SetupInOrder, Settled
  <2> QED  BY <2>1, <2>2, StepInOrder
<1>6. CASE SetupWalksAway
  <2>1. Settled /\ UNCHANGED disk
    BY <1>6 DEF SetupWalksAway, InOrder, SetupInOrder
  <2>2. Settled' /\ SetupInOrder'
    BY <2>1 DEF SetupInOrder, Settled
  <2>3. commit' = commit \/ SeriesInOrder'
    BY <1>6, <1>a, <2>2, LockRecord DEF SetupWalksAway, SeriesInOrder, Writes
  <2> QED  BY <2>1, <2>2, <2>3, <1>6, StepInOrder DEF SetupWalksAway
<1> QED  BY <1>1, <1>2, <1>3, <1>4, <1>5, <1>6

LEMMA ConfirmInOrder ==
  ASSUME Names, WellFormed, InOrder, yes \subseteq yes',
         ConfirmStart \/ ConfirmAsks \/ ConfirmAccepts \/ ConfirmRefuses \/ ConfirmEnds \/ ConfirmKilled
  PROVE  InOrder'
<1>1. UNCHANGED <<disk, setup>>
  BY Zenon DEF ConfirmStart, ConfirmAsks, ConfirmAccepts, ConfirmRefuses, ConfirmEnds, ConfirmKilled
<1>2. SetupInOrder'
  BY <1>1 DEF InOrder, SetupInOrder, Settled
<1>3. CASE ConfirmStart
  BY <1>1, <1>2, <1>3, GrandfatherInOrder, StepInOrder DEF ConfirmStart
<1>4. CASE ConfirmAccepts
  <2>1. CASE Lock("confirm", confirm.id, "note") /\ yes' = yes \cup {confirm.id}
    <3>1. confirm.id # "absent"
      BY DEF WellFormed, Named
    <3> QED  BY <1>1, <1>2, <2>1, <3>1, LockInOrder, StepInOrder
  <2>2. CASE UNCHANGED commit
    BY <1>1, <1>2, <2>2, StepInOrder
  <2> QED  BY <1>4, <2>1, <2>2 DEF ConfirmAccepts
<1>5. CASE ConfirmAsks \/ ConfirmRefuses \/ ConfirmEnds \/ ConfirmKilled
  <2>1. commit' \in {commit, Nil}
    BY <1>5 DEF ConfirmAsks, ConfirmRefuses, ConfirmEnds, ConfirmKilled, Ended, Released
  <2> QED  BY <1>1, <1>2, <2>1, StepInOrder
<1> QED  BY <1>3, <1>4, <1>5

\* A pairing that is dropped needs no yes; an intent that a loss of power
\* brings back, or takes, leaves the answer.
LEMMA DropsInOrder ==
  ASSUME WellFormed, InOrder, ConfirmDrops \/ AppCrash
  PROVE  InOrder'
<1>1. CASE ConfirmDrops
  <2>1. UNCHANGED <<yes, setup, commit>> /\ disk'.answer = disk.answer /\ disk'.intent = disk.intent
        /\ (disk'.cred = Nil \/ disk'.cred = disk.cred)
    BY <1>1 DEF ConfirmDrops, WellFormed, Shaped, IsRecord
  <2> QED  BY <2>1 DEF InOrder, AnswersAreAccepted, StoredIsAccepted, UnsyncedIsAnswered, SeriesInOrder,
                       SetupInOrder, Settled
<1>2. CASE AppCrash
  <2>1. UNCHANGED <<yes, setup>> /\ commit' \in {commit, Nil} /\ disk'.answer = disk.answer
        /\ disk'.cred = disk.cred
        /\ (disk'.intent = disk.intent \/ (disk.intent = "unsynced" /\ disk'.intent \in {"yes", "no"}))
    BY <1>2 DEF AppCrash, Released, WellFormed, Shaped, IsRecord
  <2>2. (Settled <=> Settled') /\ UnsyncedIsAnswered'
    BY <2>1 DEF InOrder, UnsyncedIsAnswered, Settled
  <2>3. disk.answer = "absent" /\ disk'.intent = "yes" => disk.intent = "yes"
    BY <2>1 DEF InOrder, UnsyncedIsAnswered
  <2> QED  BY <2>1, <2>2, <2>3 DEF InOrder, AnswersAreAccepted, StoredIsAccepted, SeriesInOrder, SetupInOrder
<1> QED  BY <1>1, <1>2

-----------------------------------------------------------------------------
(* The running owner *)

AppFields == {"cand", "at", "owner", "blocked", "failed", "durable"}

\* An owner is started only for a pairing with a yes, and none while one is left
\* that could not be stopped; a commit under way was begun by a yes to its pairing.
OwnerInOrder ==
  /\ IsRecord(app, AppFields)
  /\ app.owner # Nil => app.owner \in yes /\ ~app.blocked
  /\ app.at \in {"down", "starting"} => ~app.blocked
  /\ app.at = "committing" =>
       ~app.blocked /\ (commit # Nil /\ commit.who = "app" => commit.id \in yes)

LEMMA StartedOwner ==
  ASSUME NEW a, IsRecord(a, AppFields), NEW p, NEW b \in Started(a, p)
  PROVE  /\ IsRecord(b, AppFields) /\ b.at = "running" /\ (b.blocked <=> a.blocked)
         /\ b.owner = p \/ b.owner = a.owner
BY DEF Started, IsRecord, AppFields

LEMMA NotCommittedOwner ==
  ASSUME NEW a, IsRecord(a, AppFields), NEW failed
  PROVE  LET b == NotCommitted(a, failed)
         IN IsRecord(b, AppFields) /\ b.at = "running" /\ b.owner = Nil
BY DEF NotCommitted, IsRecord, AppFields

LEMMA DownOwner == IsRecord(Down, AppFields) /\ Down.at = "down" /\ Down.owner = Nil /\ ~Down.blocked
BY DEF Down, IsRecord, AppFields

\* The lock passing on between the other two programs is nothing to the supervisor.
LEMMA OwnerStands ==
  ASSUME OwnerInOrder, UNCHANGED app, yes \subseteq yes',
         \/ commit' \in {commit, Nil} \/ commit'.who # "app"
         \/ commit # Nil /\ commit'.who = commit.who /\ commit'.id = commit.id
  PROVE  OwnerInOrder'
BY DEF OwnerInOrder

\* The steps of the supervisor that take no lock.
LEMMA OwnerRuns ==
  ASSUME IsRecord(app', AppFields), app'.at = "running", app'.owner # Nil => app'.owner \in yes' /\ ~app'.blocked
  PROVE  OwnerInOrder'
BY DEF OwnerInOrder

LEMMA OwnerAccepted ==
  ASSUME OwnerInOrder, app.at = "running", app.owner = Nil \/ app.owner \in yes, NEW p, p # "absent", Accept(p)
  PROVE  OwnerInOrder'
<1>1. IsRecord(app, AppFields)
  BY DEF OwnerInOrder
<1>2. CASE /\ ~app.blocked /\ Lock("app", p, "intent")
           /\ app' = [app EXCEPT !.owner = Nil, !.cand = p, !.at = "committing"]
  <2>1. IsRecord(app', AppFields) /\ app'.owner = Nil /\ app'.at = "committing" /\ ~app'.blocked
    BY <1>1, <1>2 DEF IsRecord, AppFields
  <2>2. commit'.id = p /\ p \in yes'
    BY <1>2 DEF Lock, Accept
  <2> QED  BY <2>1, <2>2 DEF OwnerInOrder
<1>3. CASE app' = NotCommitted(app, app.failed)
  BY <1>1, <1>3, NotCommittedOwner, OwnerRuns
<1>4. CASE app' = [app EXCEPT !.owner = Nil, !.blocked = TRUE, !.cand = Nil]
  <2>1. IsRecord(app', AppFields) /\ app'.owner = Nil /\ app'.at = "running"
    BY <1>1, <1>4 DEF IsRecord, AppFields
  <2> QED  BY <2>1, OwnerRuns
<1> QED  BY <1>2, <1>3, <1>4 DEF Accept

LEMMA AppOwner ==
  ASSUME Names, WellFormed, InOrder, OwnerInOrder, yes \subseteq yes',
         \/ AppStart \/ AppStarted \/ RecheckCliConfirm \/ BeginPairing \/ RetireCandidate
         \/ AnswerPairing \/ ConnectLocalJournal \/ CommitEnds \/ Shutdown \/ AppCrash
  PROVE  OwnerInOrder'
<1>1. IsRecord(app, AppFields) /\ (app.owner # Nil => app.owner \in yes' /\ ~app.blocked)
  BY DEF OwnerInOrder
<1>2. Confirmed(disk) => disk.cred.id \in yes
  BY DEF InOrder, AnswersAreAccepted, Confirmed
<1>3. CASE AppStart
  <2>1. /\ IsRecord(app', AppFields) /\ app'.at = "starting" /\ app'.owner = app.owner
        /\ app'.blocked = app.blocked /\ app.at = "down"
    BY <1>1, <1>3 DEF AppStart, IsRecord, AppFields
  <2> QED  BY <1>1, <2>1 DEF OwnerInOrder
<1>4. CASE AppStarted
  <2>1. ~app.blocked
    BY <1>4 DEF AppStarted, OwnerInOrder
  <2>2. CASE Confirmed(disk) /\ app' \in Started(app, disk.cred.id)
    BY <1>1, <1>2, <2>1, <2>2, StartedOwner, OwnerRuns
  <2>3. CASE app' = [app EXCEPT !.at = "running", !.durable = DurableOnDisk(disk)]
    <3>1. IsRecord(app', AppFields) /\ app'.at = "running" /\ app'.owner = app.owner /\ app'.blocked = app.blocked
      BY <1>1, <2>3 DEF IsRecord, AppFields
    <3> QED  BY <1>1, <3>1, OwnerRuns
  <2> QED  BY <1>4, <2>2, <2>3 DEF AppStarted
<1>5. CASE RecheckCliConfirm
  <2>1. CASE Confirmed(disk) /\ app' \in Started(app, disk.cred.id)
    <3>1. ~app.blocked
      BY <1>5 DEF RecheckCliConfirm
    <3> QED  BY <1>1, <1>2, <2>1, <3>1, StartedOwner, OwnerRuns
  <2>2. CASE app' = [app EXCEPT !.durable = "unpaired"]
    <3>1. /\ IsRecord(app', AppFields) /\ app'.at = "running" /\ app'.owner = app.owner
          /\ app'.blocked = app.blocked
      BY <1>1, <1>5, <2>2 DEF RecheckCliConfirm, Idle, IsRecord, AppFields
    <3> QED  BY <1>1, <3>1, OwnerRuns
  <2> QED  BY <1>5, <2>1, <2>2 DEF RecheckCliConfirm
<1>6. CASE BeginPairing \/ RetireCandidate
  <2>1. app.at = "running" /\ \E c : app' = [app EXCEPT !.cand = c]
    BY <1>6 DEF BeginPairing, RetireCandidate, Idle
  <2>2. PICK c : app' = [app EXCEPT !.cand = c]
    BY <2>1
  <2>3. IsRecord(app', AppFields) /\ app'.at = "running" /\ app'.owner = app.owner /\ app'.blocked = app.blocked
    BY <1>1, <2>1, <2>2 DEF IsRecord, AppFields
  <2> QED  BY <1>1, <2>3, OwnerRuns
<1>7. CASE AnswerPairing
  <2>1. app.cand # "absent" /\ app.at = "running" /\ Accept(app.cand)
    BY <1>7 DEF AnswerPairing, Idle, WellFormed, Named
  <2> QED  BY <2>1, OwnerAccepted DEF OwnerInOrder
<1>8. CASE ConnectLocalJournal
  <2>1. /\ app.at = "running" /\ app.owner = Nil
        /\ \E p \in Pairings :
             \/ /\ ~app.blocked /\ Lock("app", p, "intent") /\ yes' = yes \cup {p}
                /\ app' = [app EXCEPT !.cand = p, !.at = "committing"]
             \/ app' = app
    BY <1>8 DEF ConnectLocalJournal, Idle
  <2>2. CASE app' = app
    BY <1>1, <2>1, <2>2, OwnerRuns
  <2>3. ASSUME NEW p \in Pairings, ~app.blocked, Lock("app", p, "intent"), yes' = yes \cup {p},
               app' = [app EXCEPT !.cand = p, !.at = "committing"]
        PROVE  OwnerInOrder'
    <3>1. IsRecord(app', AppFields) /\ app'.owner = Nil /\ app'.at = "committing" /\ ~app'.blocked
      BY <1>1, <2>1, <2>3 DEF IsRecord, AppFields
    <3>2. commit'.id = p /\ p \in yes'
      BY <2>3 DEF Lock
    <3> QED  BY <3>1, <3>2 DEF OwnerInOrder
  <2> QED  BY <2>1, <2>2, <2>3
<1>9. CASE CommitEnds
  <2>1. ~app.blocked /\ commit.id \in yes'
    BY <1>9 DEF CommitEnds, Ended, OwnerInOrder
  <2>2. CASE app' \in Started([app EXCEPT !.cand = Nil], commit.id)
    <3> DEFINE a == [app EXCEPT !.cand = Nil]
    <3>1. IsRecord(a, AppFields) /\ a.owner = app.owner /\ a.blocked = app.blocked
      BY <1>1 DEF IsRecord, AppFields
    <3> HIDE DEF a
    <3>2. app' \in Started(a, commit.id)
      BY <2>2 DEF a
    <3> QED  BY <1>1, <2>1, <3>1, <3>2, StartedOwner, OwnerRuns
  <2>3. CASE app' = NotCommitted(app, IF Uncertain THEN commit.id ELSE app.failed)
    BY <1>1, <2>3, NotCommittedOwner, OwnerRuns
  <2> QED  BY <1>9, <2>2, <2>3 DEF CommitEnds
<1>10. CASE Shutdown \/ AppCrash
  <2>1. app' = Down
    BY <1>10 DEF Shutdown, AppCrash
  <2> QED  BY <2>1, DownOwner DEF OwnerInOrder
<1> QED  BY <1>3, <1>4, <1>5, <1>6, <1>7, <1>8, <1>9, <1>10

LEMMA NextOwner ==
  ASSUME Names, WellFormed, InOrder, OwnerInOrder, [Next]_pvars
  PROVE  OwnerInOrder'
<1>1. CASE WriteStep
  BY <1>1, WriteStepKeeps, WriteStepCases, OwnerStands DEF WellFormed
<1>2. CASE \/ AppStart \/ AppStarted \/ RecheckCliConfirm \/ BeginPairing \/ RetireCandidate
           \/ AnswerPairing \/ ConnectLocalJournal \/ CommitEnds \/ Shutdown
  BY <1>2, AppWellFormed, AppOwner
<1>3. CASE AppCrash
  BY <1>3, AppOwner DEF AppCrash
<1>4. CASE \/ SetupStart \/ SetupPairs \/ SetupAccepts \/ SetupRefuses \/ SetupLooks
           \/ SetupWalksAway \/ SetupEnds \/ SetupKilled
  <2>1. app' = app /\ yes \subseteq yes'
    BY <1>4, SetupWellFormed DEF SetupStart, SetupPairs, SetupAccepts, SetupRefuses, SetupLooks,
       SetupWalksAway, SetupEnds, SetupKilled
  <2>2. commit' \in {commit, Nil} \/ commit'.who # "app"
    <3>1. CASE SetupStart \/ SetupAccepts \/ SetupWalksAway
      BY <3>1 DEF SetupStart, SetupAccepts, SetupWalksAway, LockAndGrandfather, Lock
    <3>2. CASE SetupPairs \/ SetupRefuses \/ SetupLooks \/ SetupEnds \/ SetupKilled
      BY <3>2 DEF SetupPairs, SetupRefuses, SetupLooks, SetupEnds, SetupKilled, Ended, Released
    <3> QED  BY <1>4, <3>1, <3>2
  <2> QED  BY <2>1, <2>2, OwnerStands
<1>5. CASE ConfirmStart \/ ConfirmAsks \/ ConfirmAccepts \/ ConfirmRefuses \/ ConfirmEnds \/ ConfirmKilled
  <2>1. app' = app /\ yes \subseteq yes'
    BY <1>5, ConfirmWellFormed DEF ConfirmStart, ConfirmAsks, ConfirmAccepts, ConfirmRefuses, ConfirmEnds,
       ConfirmKilled
  <2>2. commit' \in {commit, Nil} \/ commit'.who # "app"
    BY <1>5 DEF ConfirmStart, ConfirmAsks, ConfirmAccepts, ConfirmRefuses, ConfirmEnds, ConfirmKilled,
       LockAndGrandfather, Lock, Ended, Released
  <2> QED  BY <2>1, <2>2, OwnerStands
<1>6. CASE ConfirmDrops
  BY <1>6, OwnerStands DEF ConfirmDrops
<1>7. CASE UNCHANGED pvars
  BY <1>7, OwnerStands DEF pvars
<1> QED
  BY <1>1, <1>2, <1>3, <1>4, <1>5, <1>6, <1>7 DEF Next, CheckExpiry, CancelPairing, RejectPairing

-----------------------------------------------------------------------------
(* The theorems *)

LEMMA InitIInv == ASSUME Names, Init  PROVE WellFormed /\ InOrder
<1>1. WellFormed
  BY InitWellFormed
<1>2. disk.answer = "absent" /\ disk.intent = "no" /\ setup = Off /\ commit = Nil
  BY DEF Init
<1>3. disk.cred = Nil \/ disk.cred.id \in yes
  BY DEF Init
<1> QED
  BY <1>1, <1>2, <1>3 DEF InOrder, AnswersAreAccepted, StoredIsAccepted, UnsyncedIsAnswered, SeriesInOrder,
     SetupInOrder, Settled, Off

LEMMA NextIInv ==
  ASSUME Names, WellFormed, InOrder, [Next]_pvars
  PROVE  (WellFormed /\ InOrder)'
<1>1. CASE WriteStep
  BY <1>1, WriteStepWellFormed, WriteStepInOrder
<1>2. CASE \/ AppStart \/ AppStarted \/ RecheckCliConfirm \/ BeginPairing \/ RetireCandidate
           \/ AnswerPairing \/ ConnectLocalJournal \/ CommitEnds \/ Shutdown
  BY <1>2, AppWellFormed, AppInOrder
<1>3. CASE \/ SetupStart \/ SetupPairs \/ SetupAccepts \/ SetupRefuses \/ SetupLooks
           \/ SetupWalksAway \/ SetupEnds \/ SetupKilled
  BY <1>3, SetupWellFormed, SetupStepsInOrder
<1>4. CASE ConfirmStart \/ ConfirmAsks \/ ConfirmAccepts \/ ConfirmRefuses \/ ConfirmEnds \/ ConfirmKilled
  BY <1>4, ConfirmWellFormed, ConfirmInOrder
<1>5. CASE ConfirmDrops \/ AppCrash
  BY <1>5, DropsWellFormed, DropsInOrder
<1>6. CASE UNCHANGED pvars
  BY <1>6 DEF pvars, WellFormed, Shaped, Named, InOrder, AnswersAreAccepted, StoredIsAccepted,
     UnsyncedIsAnswered, SeriesInOrder, SetupInOrder, Settled
<1> QED
  BY <1>1, <1>2, <1>3, <1>4, <1>5, <1>6 DEF Next, CheckExpiry, CancelPairing, RejectPairing

\* An answer that names the stored pairing was given for it.
LEMMA InOrderIsAccepted == InOrder => ConfirmedIsAccepted
BY DEF InOrder, AnswersAreAccepted, ConfirmedIsAccepted, Confirmed

-----------------------------------------------------------------------------
(* The types *)

Ids == Pairings \cup {Nil}
Files == [cred : {Nil} \cup [id : Pairings, sound : BOOLEAN], answer : Pairings \cup {"absent", "empty"},
          intent : {"no", "yes", "unsynced"}, noted : Unread \cup {Nil}]
App == [at : {"down", "starting", "running", "committing"}, cand : Ids, owner : Ids, blocked : BOOLEAN,
        failed : Ids, durable : {"unavailable", "held", "unpaired", "confirmed"}]
Run == [at : {"off", "starting", "asking", "walked", "refused", "writing"}, id : Ids, stood : BOOLEAN]

\* Nil stands for none of what it is told apart from.
NilIsNothing == Nil \notin Pairings \cup Holders

Typed ==
  /\ disk \in Files /\ app \in App /\ setup \in Run /\ confirm \in Run /\ commit \in Holders \cup {Nil}

\* The write at c is of a pairing where it names one.
LEMMA WrittenTyped ==
  ASSUME NilIsNothing, NEW d \in Files, NEW c \in Holders, c.at # "done", ~Skipped(d, c),
         c.at \in {"cred", "keep", "note", "answer"} => c.id # Nil
  PROVE  Written(d, c) \in Files
<1>1. c.at \in Writes /\ c.id \in Ids
  BY DEF Holders, Ids
<1>2. CASE c.at = "grandfather"
  BY <1>2 DEF Written, Grandfathered, Files
<1>3. CASE c.at = "hold"
  BY <1>3 DEF Written, Files
<1>4. CASE c.at = "claim"
  <2>1. d.cred \in [id : Pairings, sound : BOOLEAN]
    BY <1>4 DEF Skipped, MayStand, Files
  <2>2. [d.cred EXCEPT !.sound = TRUE] \in [id : Pairings, sound : BOOLEAN]
    BY <2>1
  <2>3. Written(d, c) = [d EXCEPT !.cred = [d.cred EXCEPT !.sound = TRUE]]
    BY <1>4 DEF Written, Files
  <2> QED  BY <2>2, <2>3 DEF Files
<1>5. CASE c.at = "intent"
  BY <1>5 DEF Written, Files
<1>6. CASE c.at \in {"cred", "keep"}
  <2>1. [id |-> c.id, sound |-> TRUE] \in [id : Pairings, sound : BOOLEAN]
    BY <1>1, <1>6 DEF Ids
  <2>2. Written(d, c) = [d EXCEPT !.cred = [id |-> c.id, sound |-> TRUE]]
    BY <1>6 DEF Written
  <2> QED  BY <2>1, <2>2 DEF Files
<1>7. CASE c.at = "note"
  BY <1>7 DEF Written, Skipped, Files
<1>8. CASE c.at = "answer"
  BY <1>1, <1>8 DEF Written, Files, Ids
<1>9. CASE c.at = "finish"
  BY <1>9 DEF Written, Files
<1> QED  BY <1>1, <1>2, <1>3, <1>4, <1>5, <1>6, <1>7, <1>8, <1>9 DEF Writes

\* The series under way is for a pairing where it stores, answers or notes one.
SeriesNames == commit # Nil /\ commit.at \in {"intent", "cred", "keep", "note", "answer"} => commit.id # Nil

TypedInv == Typed /\ SeriesNames

LEMMA WriteTyped ==
  ASSUME NilIsNothing, TypedInv, WriteStep
  PROVE  TypedInv'
<1>1. commit # Nil /\ commit \in Holders /\ commit.at \in Writes /\ commit.at # "done"
  BY DEF WriteStep, TypedInv, Typed, Holders
<1>2. disk \in Files /\ (~Skipped(disk, commit) => Written(disk, commit) \in Files)
  BY <1>1, WrittenTyped DEF TypedInv, Typed, SeriesNames, WriteStep
<1>3. disk' \in Files
  <2>1. CASE disk' = disk \/ (~Skipped(disk, commit) /\ disk' = Written(disk, commit))
    BY <1>2, <2>1
  <2>2. CASE disk' = [disk EXCEPT !.intent = "unsynced"]
    BY <1>2, <2>2 DEF Files
  <2> QED  BY <2>1, <2>2 DEF WriteStep
<1>4. commit' \in Holders /\ commit'.id = commit.id /\ commit'.at \in {"done", Follows(commit.at)}
  <2>1. Follows(commit.at) \in Writes \cup {"done"}
    BY <1>1, FollowsInOrder
  <2>2. CASE commit' = [commit EXCEPT !.at = Follows(@)]
    BY <1>1, <2>1, <2>2 DEF Holders
  <2>3. CASE commit' = [commit EXCEPT !.at = "done", !.ok = FALSE]
    BY <1>1, <2>3 DEF Holders
  <2> QED  BY <2>2, <2>3 DEF WriteStep
<1>5. SeriesNames'
  BY <1>1, <1>4, FollowsInOrder DEF SeriesNames, TypedInv
<1> QED  BY <1>3, <1>4, <1>5 DEF TypedInv, Typed, WriteStep

LEMMA LockTyped ==
  ASSUME NEW who \in {"app", "setup", "confirm"}, NEW p \in Ids,
         NEW at \in Writes \cup {"done"}, Lock(who, p, at)
  PROVE  /\ commit' \in Holders /\ commit'.who = who /\ commit'.id = p /\ commit'.at = at /\ commit'.ok = TRUE
         /\ commit = Nil
BY DEF Lock, Holders, Ids

LEMMA GrandfatherTyped ==
  ASSUME NEW who \in {"app", "setup", "confirm"}, LockAndGrandfather(who)
  PROVE  /\ commit' \in Holders /\ commit'.who = who /\ commit'.id = Nil /\ commit'.ok = TRUE
         /\ commit'.at = IF disk.intent = "yes" THEN "done" ELSE "grandfather"
         /\ commit = Nil
<1>1. Nil \in Ids /\ (IF disk.intent = "yes" THEN "done" ELSE "grandfather") \in Writes \cup {"done"}
  BY DEF Ids, Writes
<1> QED  BY <1>1, LockTyped DEF LockAndGrandfather

LEMMA StartedTyped ==
  ASSUME NEW a \in App, NEW p \in Pairings, NEW b \in Started(a, p)
  PROVE  b \in App /\ b.at = "running" /\ b.cand = a.cand /\ b.owner \in {a.owner, p}
BY DEF Started, App, Ids

LEMMA DurableTyped == DurableOnDisk(disk) \in {"held", "unpaired", "confirmed"}
BY DEF DurableOnDisk

LEMMA NotCommittedTyped ==
  ASSUME NEW a \in App, NEW f \in Ids
  PROVE  LET b == NotCommitted(a, f) IN b \in App /\ b.at = "running" /\ b.cand = Nil /\ b.owner = Nil
BY DurableTyped DEF NotCommitted, App, Ids

LEMMA OffTyped == Off \in Run /\ Off.at = "off" /\ Off.id = Nil
BY DEF Off, Run, Ids

LEMMA DownTyped == Down \in App /\ Down.at = "down" /\ Down.cand = Nil /\ Down.owner = Nil
BY DEF Down, App, Ids

-----------------------------------------------------------------------------
(* The invariant *)

\* Every pairing anything names has been made.
IdsAreMinted ==
  /\ minted \subseteq Pairings /\ yes \subseteq minted /\ retired \subseteq minted
  /\ disk.cred # Nil => disk.cred.id \in minted
  /\ app.cand \in minted \cup {Nil} /\ app.owner \in minted \cup {Nil}
  /\ setup.id \in minted \cup {Nil} /\ confirm.id \in minted \cup {Nil}
  /\ commit # Nil => commit.id \in minted \cup {Nil}

\* The lock is held by the program that writes, for its own pairing.
LockIsHeld ==
  /\ app.at = "committing" => commit # Nil /\ commit.who = "app"
  /\ setup.at = "writing" => commit # Nil /\ commit.who = "setup"
  /\ commit # Nil =>
       /\ commit.who = "app" => commit.id = IF app.at = "committing" THEN app.cand ELSE Nil
       /\ commit.who = "setup" => commit.id = IF setup.at = "writing" THEN setup.id ELSE Nil
       /\ commit.who = "confirm" => commit.id = IF confirm.at = "writing" THEN confirm.id ELSE Nil

\* A setup and the app exclude each other, and a program that starts has no pairing yet.
OneAtATime ==
  /\ setup.at # "off" => app.at = "down"
  /\ app.at \in {"down", "starting"} => app.cand = Nil
  /\ setup.at \in {"off", "starting"} <=> setup.id = Nil
  /\ confirm.at \in {"off", "starting"} <=> confirm.id = Nil

\* A pairing just made is in no file before it is committed, and nobody is asked about it
\* in a terminal.
NewIsNew ==
  /\ app.cand # Nil => confirm.id # app.cand /\ (app.at # "committing" => ~Holds(disk, app.cand))
  /\ setup.id # Nil => confirm.id # setup.id /\ (setup.at # "writing" => ~Holds(disk, setup.id))

\* A pairing a terminal asks about stays unconfirmed while it is asked about.
AskedIsUnconfirmed ==
  /\ commit # Nil /\ commit.who = "confirm" /\ commit.ok /\ commit.at # "grandfather" => Settled
  /\ confirm.id # Nil => Settled
  /\ confirm.at \in {"asking", "refused"} /\ Holds(disk, confirm.id) => ~Confirmed(disk)

RetireInv == TypedInv /\ IdsAreMinted /\ LockIsHeld /\ OneAtATime /\ NewIsNew /\ AskedIsUnconfirmed

-----------------------------------------------------------------------------
(* What the operations do *)

\* Whether a pairing is confirmed is a truth value.
LEMMA ConfirmedIsBoolean == Confirmed(disk) \in BOOLEAN
BY DEF Confirmed

\* What the start does to the supervisor.
LEMMA AppStartedDoes ==
  ASSUME NilIsNothing, TypedInv, AppStarted
  PROVE  /\ app.at = "starting" /\ commit # Nil /\ commit.who = "app" /\ commit' = Nil
         /\ app' \in App /\ app'.at = "running" /\ app'.cand = app.cand
         /\ app'.owner = app.owner \/ (disk.cred # Nil /\ app'.owner = disk.cred.id)
         /\ UNCHANGED <<disk, minted, retired, yes, setup, confirm>>
<1>1. app \in App /\ app.at = "starting" /\ commit # Nil /\ commit.who = "app" /\ commit' = Nil
      /\ UNCHANGED <<disk, minted, retired, yes, setup, confirm>>
  BY DEF AppStarted, Ended, TypedInv, Typed
<1>2. CASE Confirmed(disk)
  <2>1. disk.cred # Nil /\ disk.cred.id \in Pairings
    BY <1>2 DEF Confirmed, TypedInv, Typed, Files
  <2>2. app' \in Started(app, disk.cred.id)
    BY <1>2 DEF AppStarted
  <2> QED  BY <1>1, <2>1, <2>2, StartedTyped
<1>3. CASE ~Confirmed(disk)
  <2>1. app' = [app EXCEPT !.at = "running", !.durable = DurableOnDisk(disk)]
    BY <1>3 DEF AppStarted
  <2> QED  BY <1>1, <2>1, DurableTyped DEF App
<1> QED  BY <1>2, <1>3

\* What the end of a commit does to it.
LEMMA CommitEndsDoes ==
  ASSUME NilIsNothing, TypedInv, CommitEnds
  PROVE  /\ app.at = "committing" /\ commit # Nil /\ commit.who = "app" /\ commit' = Nil
         /\ app' \in App /\ app'.at = "running" /\ app'.cand = Nil
         /\ app'.owner \in {app.owner, Nil, commit.id}
         /\ UNCHANGED <<disk, minted, retired, yes, setup, confirm>>
<1>1. app \in App /\ app.at = "committing" /\ commit # Nil /\ commit.who = "app" /\ commit' = Nil
      /\ commit.id \in Ids /\ UNCHANGED <<disk, minted, retired, yes, setup, confirm>>
  BY DEF CommitEnds, Ended, TypedInv, Typed, Holders, Ids
<1>2. CASE commit.ok
  <2> DEFINE a == [app EXCEPT !.cand = Nil]
  <2>1. a \in App /\ a.cand = Nil /\ a.owner = app.owner
    BY <1>1 DEF App, Ids
  <2>2. app' \in Started(a, commit.id)
    BY <1>2 DEF CommitEnds
  <2> HIDE DEF a
  <2> QED  BY <1>1, <2>1, <2>2 DEF Started, App, Ids
<1>3. CASE ~commit.ok
  <2>1. app' = NotCommitted(app, IF Uncertain THEN commit.id ELSE app.failed)
    BY <1>3 DEF CommitEnds
  <2>2. (IF Uncertain THEN commit.id ELSE app.failed) \in Ids
    BY <1>1 DEF App
  <2> QED  BY <1>1, <2>1, <2>2, NotCommittedTyped
<1> QED  BY <1>2, <1>3

\* What the owner's yes does: a commit of the candidate, or a candidate given up.
LEMMA AnswerPairingDoes ==
  ASSUME NilIsNothing, TypedInv, AnswerPairing
  PROVE  /\ app.at = "running" /\ app.cand # Nil /\ yes' = yes \cup {app.cand}
         /\ app' \in App /\ app'.owner = Nil /\ UNCHANGED <<disk, minted, setup, confirm>>
         /\ \/ /\ commit = Nil /\ commit' \in Holders /\ commit'.who = "app" /\ commit'.id = app.cand
               /\ app'.at = "committing" /\ app'.cand = app.cand /\ UNCHANGED retired
            \/ /\ commit' = commit /\ app'.at = "running" /\ app'.cand = Nil
               /\ retired' \in {retired, retired \cup {app.cand}}
<1>1. /\ app \in App /\ app.at = "running" /\ app.cand # Nil /\ Accept(app.cand)
      /\ UNCHANGED <<disk, setup, confirm>>
  BY DEF AnswerPairing, Idle, TypedInv, Typed
<1>2. yes' = yes \cup {app.cand} /\ UNCHANGED minted
  BY <1>1 DEF Accept
<1>3. CASE Lock("app", app.cand, "intent") /\ app' = [app EXCEPT !.owner = Nil, !.cand = app.cand, !.at = "committing"] /\ UNCHANGED retired
  <2>1. app.cand \in Ids /\ "intent" \in Writes
    BY <1>1 DEF App, Writes
  <2>2. app' \in App /\ app'.owner = Nil /\ app'.at = "committing" /\ app'.cand = app.cand
    BY <1>1, <1>3 DEF App, Ids
  <2> QED  BY <1>1, <1>2, <1>3, <2>1, <2>2, LockTyped
<1>4. CASE UNCHANGED <<commit, retired>> /\ app' = NotCommitted(app, app.failed)
  <2>1. app.failed \in Ids
    BY <1>1 DEF App
  <2> QED  BY <1>1, <1>2, <1>4, <2>1, NotCommittedTyped
<1>5. CASE UNCHANGED commit /\ app' = [app EXCEPT !.owner = Nil, !.blocked = TRUE, !.cand = Nil] /\ retired' = retired \cup {app.cand}
  BY <1>1, <1>2, <1>5 DEF App, Ids
<1> QED  BY <1>1, <1>3, <1>4, <1>5 DEF Accept

\* What the press on connect does: a new pairing is committed, or given up at once.
LEMMA ConnectDoes ==
  ASSUME NilIsNothing, TypedInv, ConnectLocalJournal
  PROVE  /\ app.at = "running" /\ app.cand = Nil /\ app.owner = Nil /\ disk.cred = Nil
         /\ app' \in App /\ app'.owner = Nil /\ UNCHANGED <<disk, setup, confirm>>
         /\ \E p \in Pairings \ minted :
              /\ minted' = minted \cup {p}
              /\ \/ /\ commit = Nil /\ commit' \in Holders /\ commit'.who = "app" /\ commit'.id = p
                    /\ yes' = yes \cup {p} /\ app'.at = "committing" /\ app'.cand = p /\ UNCHANGED retired
                 \/ retired' = retired \cup {p} /\ UNCHANGED <<app, yes, commit>>
<1>1. /\ app \in App /\ app.at = "running" /\ app.cand = Nil /\ app.owner = Nil
      /\ UNCHANGED <<disk, setup, confirm>>
  BY DEF ConnectLocalJournal, Idle, TypedInv, Typed
<1>2. disk.cred = Nil
  BY DEF ConnectLocalJournal, DurableOnDisk
<1>3. PICK p \in Pairings \ minted :
              /\ minted' = minted \cup {p}
              /\ \/ /\ Lock("app", p, "intent") /\ yes' = yes \cup {p}
                    /\ app' = [app EXCEPT !.cand = p, !.at = "committing"] /\ UNCHANGED retired
                 \/ retired' = retired \cup {p} /\ UNCHANGED <<app, yes, commit>>
  BY DEF ConnectLocalJournal
<1>4. CASE Lock("app", p, "intent") /\ yes' = yes \cup {p}
           /\ app' = [app EXCEPT !.cand = p, !.at = "committing"] /\ UNCHANGED retired
  <2>1. app' \in App /\ app'.at = "committing" /\ app'.cand = p /\ app'.owner = Nil
    BY <1>1, <1>4 DEF App, Ids
  <2>2. p \in Ids /\ "intent" \in Writes
    BY DEF Ids, Writes
  <2> QED  BY <1>1, <1>2, <1>3, <1>4, <2>1, <2>2, LockTyped
<1> QED  BY <1>1, <1>2, <1>3, <1>4

\* What the lock held for a write to p is.
LEMMA SetupAcceptsDoes ==
  ASSUME TypedInv, SetupAccepts
  PROVE  /\ setup.at = "asking" /\ commit = Nil /\ commit' \in Holders /\ commit'.who = "setup"
         /\ commit'.id = setup.id /\ commit'.at = "cred" /\ yes' = yes \cup {setup.id}
         /\ setup' \in Run /\ setup'.at = "writing" /\ setup'.id = setup.id
         /\ UNCHANGED <<disk, minted, retired, app, confirm>>
<1>1. setup \in Run /\ setup.id \in Ids /\ "cred" \in Writes
  BY DEF TypedInv, Typed, Run, Writes
<1>2. setup' \in Run /\ setup'.at = "writing" /\ setup'.id = setup.id
  BY <1>1 DEF SetupAccepts, Run
<1> QED  BY <1>1, <1>2, LockTyped DEF SetupAccepts

\* What the walk away does: the new pairing is given up, or kept.
LEMMA SetupWalksDoes ==
  ASSUME TypedInv, SetupWalksAway
  PROVE  /\ setup.at = "walked" /\ commit = Nil /\ UNCHANGED <<disk, minted, yes, app, confirm>>
         /\ \/ setup' = Off /\ retired' = retired \cup {setup.id} /\ UNCHANGED commit
            \/ /\ commit' \in Holders /\ commit'.who = "setup" /\ commit'.id = setup.id /\ commit'.at = "keep"
               /\ setup' \in Run /\ setup'.at = "writing" /\ setup'.id = setup.id /\ UNCHANGED retired
<1>1. setup \in Run /\ setup.id \in Ids /\ "keep" \in Writes
  BY DEF TypedInv, Typed, Run, Writes
<1>2. CASE setup.stood
  BY <1>2 DEF SetupWalksAway
<1>3. CASE ~setup.stood
  <2>1. setup' \in Run /\ setup'.at = "writing" /\ setup'.id = setup.id
    BY <1>1, <1>3 DEF SetupWalksAway, Run
  <2> QED  BY <1>1, <1>3, <2>1, LockTyped DEF SetupWalksAway
<1> QED  BY <1>2, <1>3

\* What the look does: nothing but to remember what stood.
LEMMA SetupLooksDoes ==
  ASSUME TypedInv, SetupLooks
  PROVE  /\ setup.at = "asking" /\ setup' \in Run /\ setup'.at = "walked" /\ setup'.id = setup.id
         /\ UNCHANGED <<disk, minted, retired, yes, app, confirm, commit>>
BY ConfirmedIsBoolean DEF SetupLooks, TypedInv, Typed, Run

\* What the question at the terminal is about: the stored pairing, unconfirmed.
LEMMA ConfirmAsksDoes ==
  ASSUME TypedInv, ConfirmAsks
  PROVE  /\ commit # Nil /\ commit.at = "done" /\ commit.who = "confirm" /\ commit' = Nil
         /\ confirm.at = "starting" /\ UNCHANGED <<disk, minted, retired, yes, app, setup>>
         /\ \/ confirm' = Off
            \/ /\ commit.ok /\ disk.cred # Nil /\ ~Confirmed(disk) /\ confirm' \in Run
               /\ confirm'.at = "asking" /\ confirm'.id = disk.cred.id /\ confirm'.id \in Pairings
<1>1. CASE commit.ok /\ disk.cred # Nil /\ ~Confirmed(disk)
  <2>1. disk.cred.id \in Pairings
    BY <1>1 DEF TypedInv, Typed, Files
  <2>2. confirm' = [Off EXCEPT !.at = "asking", !.id = disk.cred.id]
    BY <1>1 DEF ConfirmAsks
  <2> QED  BY <1>1, <2>1, <2>2 DEF ConfirmAsks, Ended, Off, Run, Ids
<1>2. CASE ~(commit.ok /\ disk.cred # Nil /\ ~Confirmed(disk))
  BY <1>2 DEF ConfirmAsks, Ended
<1> QED  BY <1>1, <1>2

\* What the yes at the terminal does: the lock is taken for the pairing that is still stored.
LEMMA ConfirmAcceptsDoes ==
  ASSUME TypedInv, ConfirmAccepts
  PROVE  /\ confirm.at = "asking" /\ commit = Nil /\ UNCHANGED <<disk, minted, retired, app, setup>>
         /\ \/ confirm' = Off /\ UNCHANGED <<yes, commit>>
            \/ /\ Holds(disk, confirm.id) /\ yes' = yes \cup {confirm.id}
               /\ commit' \in Holders /\ commit'.who = "confirm" /\ commit'.id = confirm.id /\ commit'.at = "note"
               /\ confirm' \in Run /\ confirm'.at = "writing" /\ confirm'.id = confirm.id
<1>1. confirm \in Run /\ confirm.id \in Ids /\ "note" \in Writes
  BY DEF TypedInv, Typed, Run, Writes
<1>2. CASE Holds(disk, confirm.id)
  <2>1. confirm' \in Run /\ confirm'.at = "writing" /\ confirm'.id = confirm.id
    BY <1>1, <1>2 DEF ConfirmAccepts, Run
  <2> QED  BY <1>1, <1>2, <2>1, LockTyped DEF ConfirmAccepts
<1>3. CASE ~Holds(disk, confirm.id)
  BY <1>3 DEF ConfirmAccepts
<1> QED  BY <1>2, <1>3

\* What the walk of setup does: a new pairing is asked about, or setup is over.
LEMMA SetupPairsDoes ==
  ASSUME TypedInv, SetupPairs
  PROVE  /\ setup.at = "starting" /\ commit # Nil /\ commit.who = "setup" /\ commit' = Nil
         /\ UNCHANGED <<disk, retired, yes, app, confirm>>
         /\ \/ setup' = Off /\ UNCHANGED minted
            \/ /\ commit.ok /\ commit.at = "done"
               /\ \E p \in Pairings \ minted : /\ minted' = minted \cup {p} /\ setup' \in Run
                                               /\ setup'.at = "asking" /\ setup'.id = p
<1>1. /\ setup.at = "starting" /\ commit # Nil /\ commit.who = "setup" /\ commit' = Nil /\ commit.at = "done"
      /\ UNCHANGED <<disk, retired, yes, app, confirm>>
  BY DEF SetupPairs, Ended
<1>2. CASE setup' = Off /\ UNCHANGED minted
  BY <1>1, <1>2
<1>3. CASE commit.ok /\ \E p \in Pairings \ minted : minted' = minted \cup {p} /\ setup' = [Off EXCEPT !.at = "asking", !.id = p]
  <2>1. PICK p \in Pairings \ minted : minted' = minted \cup {p} /\ setup' = [Off EXCEPT !.at = "asking", !.id = p]
    BY <1>3
  <2>2. setup' \in Run /\ setup'.at = "asking" /\ setup'.id = p
    BY <2>1 DEF Off, Run, Ids
  <2> QED  BY <1>1, <1>3, <2>1, <2>2
<1> QED  BY <1>2, <1>3 DEF SetupPairs

-----------------------------------------------------------------------------
(* Each operation keeps the invariant, and retires no confirmed pairing *)

LEMMA AppStartKeeps ==
  ASSUME Names, NilIsNothing, WellFormed, InOrder, RetireInv, AppStart
  PROVE  RetireInv' /\ ConfirmedIsNotRetired
<1>1. TypedInv'
  BY GrandfatherTyped DEF AppStart, RetireInv, TypedInv, Typed, SeriesNames, App
<1>2. IdsAreMinted'
  BY GrandfatherTyped DEF AppStart, RetireInv, IdsAreMinted
<1>3. LockIsHeld'
  BY GrandfatherTyped DEF AppStart, LockIsHeld
<1>4. OneAtATime'
  BY DEF AppStart, RetireInv, OneAtATime
<1>5. NewIsNew'
  BY DEF AppStart, RetireInv, NewIsNew
<1>6. AskedIsUnconfirmed'
  BY GrandfatherTyped DEF AppStart, RetireInv, AskedIsUnconfirmed, Settled
<1>8. ConfirmedIsNotRetired
  BY DEF AppStart, ConfirmedIsNotRetired
<1> QED  BY <1>1, <1>2, <1>3, <1>4, <1>5, <1>6, <1>8 DEF RetireInv

LEMMA AppStartedKeeps ==
  ASSUME Names, NilIsNothing, WellFormed, InOrder, RetireInv, AppStarted
  PROVE  RetireInv' /\ ConfirmedIsNotRetired
<1>0. /\ app.at = "starting" /\ commit # Nil /\ commit.who = "app" /\ commit' = Nil
      /\ app' \in App /\ app'.at = "running" /\ app'.cand = app.cand
      /\ app'.owner = app.owner \/ (disk.cred # Nil /\ app'.owner = disk.cred.id)
      /\ UNCHANGED <<disk, minted, retired, yes, setup, confirm>>
  BY AppStartedDoes DEF RetireInv
<1>1. TypedInv'
  BY <1>0 DEF RetireInv, TypedInv, Typed, SeriesNames
<1>2. IdsAreMinted'
  BY <1>0 DEF RetireInv, IdsAreMinted
<1>3. LockIsHeld'
  BY <1>0 DEF RetireInv, LockIsHeld
<1>4. OneAtATime'
  BY <1>0 DEF RetireInv, OneAtATime
<1>5. NewIsNew'
  BY <1>0 DEF RetireInv, NewIsNew
<1>6. AskedIsUnconfirmed'
  BY <1>0 DEF RetireInv, AskedIsUnconfirmed, Settled
<1>8. ConfirmedIsNotRetired
  BY <1>0 DEF ConfirmedIsNotRetired
<1> QED  BY <1>1, <1>2, <1>3, <1>4, <1>5, <1>6, <1>8 DEF RetireInv

LEMMA RecheckCliConfirmKeeps ==
  ASSUME Names, NilIsNothing, WellFormed, InOrder, RetireInv, RecheckCliConfirm
  PROVE  RetireInv' /\ ConfirmedIsNotRetired
<1>1. TypedInv'
  BY StartedTyped DEF RecheckCliConfirm, RetireInv, TypedInv, Typed, SeriesNames, App, Files, Confirmed
<1>2. IdsAreMinted'
  BY StartedTyped DEF RecheckCliConfirm, RetireInv, TypedInv, Typed, IdsAreMinted, App, Confirmed
<1>3. LockIsHeld'
  BY StartedTyped DEF RecheckCliConfirm, Idle, RetireInv, TypedInv, Typed, LockIsHeld, App, Files, Confirmed
<1>4. OneAtATime'
  BY StartedTyped DEF RecheckCliConfirm, Idle, RetireInv, TypedInv, Typed, OneAtATime, App, Files, Confirmed
<1>5. NewIsNew'
  BY StartedTyped DEF RecheckCliConfirm, Idle, RetireInv, TypedInv, Typed, NewIsNew, App, Files, Confirmed
<1>6. AskedIsUnconfirmed'
  BY DEF RecheckCliConfirm, RetireInv, AskedIsUnconfirmed, Settled
<1>8. ConfirmedIsNotRetired
  BY DEF RecheckCliConfirm, ConfirmedIsNotRetired
<1> QED  BY <1>1, <1>2, <1>3, <1>4, <1>5, <1>6, <1>8 DEF RetireInv

LEMMA BeginPairingKeeps ==
  ASSUME Names, NilIsNothing, WellFormed, InOrder, RetireInv, BeginPairing
  PROVE  RetireInv' /\ ConfirmedIsNotRetired
<1>1. TypedInv'
  BY DEF BeginPairing, RetireInv, TypedInv, Typed, SeriesNames, App, Ids
<1>2. IdsAreMinted'
  BY DEF BeginPairing, Candidates, RetireInv, TypedInv, Typed, IdsAreMinted, App
<1>3. LockIsHeld'
  BY DEF BeginPairing, Idle, RetireInv, TypedInv, Typed, LockIsHeld, App
<1>4. OneAtATime'
  BY DEF BeginPairing, Idle, RetireInv, TypedInv, Typed, OneAtATime, App
<1>5. NewIsNew'
  BY DEF BeginPairing, RetireInv, TypedInv, Typed, IdsAreMinted, NewIsNew, App, Holds
<1>6. AskedIsUnconfirmed'
  BY DEF BeginPairing, RetireInv, AskedIsUnconfirmed, Settled
<1>8. ConfirmedIsNotRetired
  BY DEF BeginPairing, Candidates, Idle, RetireInv, IdsAreMinted, NewIsNew, ConfirmedIsNotRetired, Holds
<1> QED  BY <1>1, <1>2, <1>3, <1>4, <1>5, <1>6, <1>8 DEF RetireInv

LEMMA RetireCandidateKeeps ==
  ASSUME Names, NilIsNothing, WellFormed, InOrder, RetireInv, RetireCandidate
  PROVE  RetireInv' /\ ConfirmedIsNotRetired
<1>1. TypedInv'
  BY DEF RetireCandidate, RetireInv, TypedInv, Typed, SeriesNames, App, Ids
<1>2. IdsAreMinted'
  BY DEF RetireCandidate, Candidates, RetireInv, IdsAreMinted
<1>3. LockIsHeld'
  BY DEF RetireCandidate, Idle, RetireInv, LockIsHeld
<1>4. OneAtATime'
  BY DEF RetireCandidate, RetireInv, OneAtATime
<1>5. NewIsNew'
  BY DEF RetireCandidate, RetireInv, NewIsNew
<1>6. AskedIsUnconfirmed'
  BY DEF RetireCandidate, RetireInv, AskedIsUnconfirmed, Settled
<1>8. ConfirmedIsNotRetired
  BY DEF RetireCandidate, Candidates, Idle, RetireInv, NewIsNew, ConfirmedIsNotRetired
<1> QED  BY <1>1, <1>2, <1>3, <1>4, <1>5, <1>6, <1>8 DEF RetireInv

LEMMA AnswerPairingKeeps ==
  ASSUME Names, NilIsNothing, WellFormed, InOrder, RetireInv, AnswerPairing
  PROVE  RetireInv' /\ ConfirmedIsNotRetired
<1>0. /\ app.at = "running" /\ app.cand # Nil /\ yes' = yes \cup {app.cand}
      /\ app' \in App /\ app'.owner = Nil /\ UNCHANGED <<disk, minted, setup, confirm>>
      /\ \/ /\ commit = Nil /\ commit' \in Holders /\ commit'.who = "app" /\ commit'.id = app.cand
            /\ app'.at = "committing" /\ app'.cand = app.cand /\ UNCHANGED retired
         \/ /\ commit' = commit /\ app'.at = "running" /\ app'.cand = Nil
            /\ retired' \in {retired, retired \cup {app.cand}}
  BY AnswerPairingDoes DEF RetireInv
<1>1. TypedInv'
  BY <1>0 DEF RetireInv, TypedInv, Typed, SeriesNames
<1>2. IdsAreMinted'
  BY <1>0 DEF RetireInv, IdsAreMinted
<1>3. LockIsHeld'
  BY <1>0 DEF RetireInv, LockIsHeld, NilIsNothing
<1>4. OneAtATime'
  BY <1>0 DEF RetireInv, OneAtATime
<1>5. NewIsNew'
  BY <1>0 DEF RetireInv, NewIsNew
<1>6. AskedIsUnconfirmed'
  BY <1>0 DEF RetireInv, AskedIsUnconfirmed, Settled
<1>8. ConfirmedIsNotRetired
  BY <1>0 DEF RetireInv, NewIsNew, ConfirmedIsNotRetired
<1> QED  BY <1>1, <1>2, <1>3, <1>4, <1>5, <1>6, <1>8 DEF RetireInv

LEMMA ConnectLocalJournalKeeps ==
  ASSUME Names, NilIsNothing, WellFormed, InOrder, RetireInv, ConnectLocalJournal
  PROVE  RetireInv' /\ ConfirmedIsNotRetired
<1>0. /\ app.at = "running" /\ app.cand = Nil /\ app.owner = Nil /\ disk.cred = Nil
      /\ app' \in App /\ app'.owner = Nil /\ UNCHANGED <<disk, setup, confirm>>
      /\ \E p \in Pairings \ minted :
           /\ minted' = minted \cup {p}
           /\ \/ /\ commit = Nil /\ commit' \in Holders /\ commit'.who = "app" /\ commit'.id = p
                 /\ yes' = yes \cup {p} /\ app'.at = "committing" /\ app'.cand = p /\ UNCHANGED retired
              \/ retired' = retired \cup {p} /\ UNCHANGED <<app, yes, commit>>
  BY ConnectDoes DEF RetireInv
<1>1. TypedInv'
  BY <1>0 DEF RetireInv, TypedInv, Typed, SeriesNames, NilIsNothing
<1>2. IdsAreMinted'
  BY <1>0 DEF RetireInv, IdsAreMinted
<1>3. LockIsHeld'
  BY <1>0 DEF RetireInv, LockIsHeld, NilIsNothing
<1>4. OneAtATime'
  BY <1>0 DEF RetireInv, OneAtATime
<1>5. NewIsNew'
  BY <1>0 DEF RetireInv, IdsAreMinted, NewIsNew
<1>6. AskedIsUnconfirmed'
  BY <1>0 DEF RetireInv, AskedIsUnconfirmed, Settled
<1>8. ConfirmedIsNotRetired
  BY <1>0 DEF ConfirmedIsNotRetired, Confirmed
<1> QED  BY <1>1, <1>2, <1>3, <1>4, <1>5, <1>6, <1>8 DEF RetireInv

LEMMA CommitEndsKeeps ==
  ASSUME Names, NilIsNothing, WellFormed, InOrder, RetireInv, CommitEnds
  PROVE  RetireInv' /\ ConfirmedIsNotRetired
<1>0. /\ app.at = "committing" /\ commit # Nil /\ commit.who = "app" /\ commit' = Nil
      /\ app' \in App /\ app'.at = "running" /\ app'.cand = Nil
      /\ app'.owner \in {app.owner, Nil, commit.id}
      /\ UNCHANGED <<disk, minted, retired, yes, setup, confirm>>
  BY CommitEndsDoes DEF RetireInv
<1>1. TypedInv'
  BY <1>0 DEF RetireInv, TypedInv, Typed, SeriesNames
<1>2. IdsAreMinted'
  BY <1>0 DEF RetireInv, IdsAreMinted
<1>3. LockIsHeld'
  BY <1>0 DEF RetireInv, LockIsHeld
<1>4. OneAtATime'
  BY <1>0 DEF RetireInv, OneAtATime
<1>5. NewIsNew'
  BY <1>0 DEF RetireInv, NewIsNew
<1>6. AskedIsUnconfirmed'
  BY <1>0 DEF RetireInv, AskedIsUnconfirmed, Settled
<1>8. ConfirmedIsNotRetired
  BY <1>0 DEF ConfirmedIsNotRetired
<1> QED  BY <1>1, <1>2, <1>3, <1>4, <1>5, <1>6, <1>8 DEF RetireInv

LEMMA ShutdownKeeps ==
  ASSUME Names, NilIsNothing, WellFormed, InOrder, RetireInv, Shutdown
  PROVE  RetireInv' /\ ConfirmedIsNotRetired
<1>1. TypedInv'
  BY DownTyped DEF Shutdown, RetireInv, TypedInv, Typed, SeriesNames
<1>2. IdsAreMinted'
  BY DownTyped DEF Shutdown, Candidates, RetireInv, IdsAreMinted
<1>3. LockIsHeld'
  BY DownTyped DEF Shutdown, Idle, RetireInv, LockIsHeld
<1>4. OneAtATime'
  BY DownTyped DEF Shutdown, RetireInv, OneAtATime
<1>5. NewIsNew'
  BY DownTyped DEF Shutdown, RetireInv, NewIsNew
<1>6. AskedIsUnconfirmed'
  BY DEF Shutdown, RetireInv, AskedIsUnconfirmed, Settled
<1>8. ConfirmedIsNotRetired
  BY DEF Shutdown, Candidates, Idle, RetireInv, NewIsNew, ConfirmedIsNotRetired
<1> QED  BY <1>1, <1>2, <1>3, <1>4, <1>5, <1>6, <1>8 DEF RetireInv

LEMMA AppCrashKeeps ==
  ASSUME Names, NilIsNothing, WellFormed, InOrder, RetireInv, AppCrash
  PROVE  RetireInv' /\ ConfirmedIsNotRetired
<1>1. TypedInv'
  BY DownTyped DEF AppCrash, Released, RetireInv, TypedInv, Typed, SeriesNames, Files
<1>2. IdsAreMinted'
  BY DownTyped DEF AppCrash, Released, RetireInv, TypedInv, Typed, IdsAreMinted, Files
<1>3. LockIsHeld'
  BY DownTyped DEF AppCrash, Released, RetireInv, LockIsHeld
<1>4. OneAtATime'
  BY DownTyped DEF AppCrash, RetireInv, OneAtATime
<1>5. NewIsNew'
  BY DownTyped DEF AppCrash, RetireInv, OneAtATime, NewIsNew
<1>6. AskedIsUnconfirmed'
  BY DEF AppCrash, Released, RetireInv, TypedInv, Typed, AskedIsUnconfirmed, Files, Settled, Confirmed, Holds
<1>8. ConfirmedIsNotRetired
  BY DEF AppCrash, ConfirmedIsNotRetired
<1> QED  BY <1>1, <1>2, <1>3, <1>4, <1>5, <1>6, <1>8 DEF RetireInv

LEMMA SetupStartKeeps ==
  ASSUME Names, NilIsNothing, WellFormed, InOrder, RetireInv, SetupStart
  PROVE  RetireInv' /\ ConfirmedIsNotRetired
<1>1. TypedInv'
  BY GrandfatherTyped, OffTyped DEF SetupStart, RetireInv, TypedInv, Typed, SeriesNames, Run
<1>2. IdsAreMinted'
  BY GrandfatherTyped, OffTyped DEF SetupStart, RetireInv, IdsAreMinted
<1>3. LockIsHeld'
  BY GrandfatherTyped DEF SetupStart, LockIsHeld
<1>4. OneAtATime'
  BY OffTyped DEF SetupStart, RetireInv, OneAtATime
<1>5. NewIsNew'
  BY OffTyped DEF SetupStart, RetireInv, NewIsNew
<1>6. AskedIsUnconfirmed'
  BY GrandfatherTyped DEF SetupStart, RetireInv, AskedIsUnconfirmed, Settled
<1>8. ConfirmedIsNotRetired
  BY DEF SetupStart, ConfirmedIsNotRetired
<1> QED  BY <1>1, <1>2, <1>3, <1>4, <1>5, <1>6, <1>8 DEF RetireInv

LEMMA SetupPairsKeeps ==
  ASSUME Names, NilIsNothing, WellFormed, InOrder, RetireInv, SetupPairs
  PROVE  RetireInv' /\ ConfirmedIsNotRetired
<1>0. /\ setup.at = "starting" /\ commit # Nil /\ commit.who = "setup" /\ commit' = Nil
      /\ UNCHANGED <<disk, retired, yes, app, confirm>>
      /\ \/ setup' = Off /\ UNCHANGED minted
         \/ /\ commit.ok /\ commit.at = "done"
            /\ \E p \in Pairings \ minted : /\ minted' = minted \cup {p} /\ setup' \in Run
                                            /\ setup'.at = "asking" /\ setup'.id = p
  BY SetupPairsDoes DEF RetireInv
<1>1. TypedInv'
  BY <1>0, OffTyped DEF RetireInv, TypedInv, Typed, SeriesNames
<1>2. IdsAreMinted'
  BY <1>0, OffTyped DEF RetireInv, IdsAreMinted
<1>3. LockIsHeld'
  BY <1>0, OffTyped DEF RetireInv, LockIsHeld
<1>4. OneAtATime'
  BY <1>0, OffTyped DEF RetireInv, OneAtATime, NilIsNothing
<1>5. NewIsNew'
  BY <1>0, OffTyped DEF RetireInv, IdsAreMinted, NewIsNew, Holds
<1>6. AskedIsUnconfirmed'
  BY <1>0 DEF RetireInv, AskedIsUnconfirmed, Settled
<1>8. ConfirmedIsNotRetired
  BY <1>0 DEF ConfirmedIsNotRetired
<1> QED  BY <1>1, <1>2, <1>3, <1>4, <1>5, <1>6, <1>8 DEF RetireInv

LEMMA SetupAcceptsKeeps ==
  ASSUME Names, NilIsNothing, WellFormed, InOrder, RetireInv, SetupAccepts
  PROVE  RetireInv' /\ ConfirmedIsNotRetired
<1>0. /\ setup.at = "asking" /\ commit = Nil /\ commit' \in Holders /\ commit'.who = "setup"
      /\ commit'.id = setup.id /\ commit'.at = "cred" /\ yes' = yes \cup {setup.id}
      /\ setup' \in Run /\ setup'.at = "writing" /\ setup'.id = setup.id
      /\ UNCHANGED <<disk, minted, retired, app, confirm>>
  BY SetupAcceptsDoes DEF RetireInv
<1>1. TypedInv'
  BY <1>0 DEF RetireInv, TypedInv, Typed, SeriesNames, OneAtATime
<1>2. IdsAreMinted'
  BY <1>0 DEF RetireInv, IdsAreMinted, OneAtATime
<1>3. LockIsHeld'
  BY <1>0 DEF RetireInv, LockIsHeld, NilIsNothing
<1>4. OneAtATime'
  BY <1>0 DEF RetireInv, OneAtATime
<1>5. NewIsNew'
  BY <1>0 DEF RetireInv, NewIsNew
<1>6. AskedIsUnconfirmed'
  BY <1>0 DEF RetireInv, AskedIsUnconfirmed, Settled
<1>8. ConfirmedIsNotRetired
  BY <1>0 DEF ConfirmedIsNotRetired
<1> QED  BY <1>1, <1>2, <1>3, <1>4, <1>5, <1>6, <1>8 DEF RetireInv

LEMMA SetupRefusesKeeps ==
  ASSUME Names, NilIsNothing, WellFormed, InOrder, RetireInv, SetupRefuses
  PROVE  RetireInv' /\ ConfirmedIsNotRetired
<1>1. TypedInv'
  BY OffTyped DEF SetupRefuses, RetireInv, TypedInv, Typed, SeriesNames
<1>2. IdsAreMinted'
  BY OffTyped DEF SetupRefuses, RetireInv, IdsAreMinted, OneAtATime
<1>3. LockIsHeld'
  BY OffTyped DEF SetupRefuses, RetireInv, LockIsHeld
<1>4. OneAtATime'
  BY OffTyped DEF SetupRefuses, RetireInv, OneAtATime
<1>5. NewIsNew'
  BY OffTyped DEF SetupRefuses, RetireInv, NewIsNew
<1>6. AskedIsUnconfirmed'
  BY DEF SetupRefuses, RetireInv, AskedIsUnconfirmed, Settled
<1>8. ConfirmedIsNotRetired
  BY DEF SetupRefuses, RetireInv, OneAtATime, NewIsNew, ConfirmedIsNotRetired
<1> QED  BY <1>1, <1>2, <1>3, <1>4, <1>5, <1>6, <1>8 DEF RetireInv

LEMMA SetupLooksKeeps ==
  ASSUME Names, NilIsNothing, WellFormed, InOrder, RetireInv, SetupLooks
  PROVE  RetireInv' /\ ConfirmedIsNotRetired
<1>0. /\ setup.at = "asking" /\ setup' \in Run /\ setup'.at = "walked" /\ setup'.id = setup.id
      /\ UNCHANGED <<disk, minted, retired, yes, app, confirm, commit>>
  BY SetupLooksDoes DEF RetireInv
<1>1. TypedInv'
  BY <1>0 DEF RetireInv, TypedInv, Typed, SeriesNames
<1>2. IdsAreMinted'
  BY <1>0 DEF RetireInv, IdsAreMinted
<1>3. LockIsHeld'
  BY <1>0 DEF RetireInv, LockIsHeld
<1>4. OneAtATime'
  BY <1>0 DEF RetireInv, OneAtATime
<1>5. NewIsNew'
  BY <1>0 DEF RetireInv, NewIsNew
<1>6. AskedIsUnconfirmed'
  BY <1>0 DEF RetireInv, AskedIsUnconfirmed, Settled
<1>8. ConfirmedIsNotRetired
  BY <1>0 DEF ConfirmedIsNotRetired
<1> QED  BY <1>1, <1>2, <1>3, <1>4, <1>5, <1>6, <1>8 DEF RetireInv

LEMMA SetupWalksAwayKeeps ==
  ASSUME Names, NilIsNothing, WellFormed, InOrder, RetireInv, SetupWalksAway
  PROVE  RetireInv' /\ ConfirmedIsNotRetired
<1>0. /\ setup.at = "walked" /\ commit = Nil /\ UNCHANGED <<disk, minted, yes, app, confirm>>
      /\ \/ setup' = Off /\ retired' = retired \cup {setup.id} /\ UNCHANGED commit
         \/ /\ commit' \in Holders /\ commit'.who = "setup" /\ commit'.id = setup.id /\ commit'.at = "keep"
            /\ setup' \in Run /\ setup'.at = "writing" /\ setup'.id = setup.id /\ UNCHANGED retired
  BY SetupWalksDoes DEF RetireInv
<1>1. TypedInv'
  BY <1>0, OffTyped DEF RetireInv, TypedInv, Typed, SeriesNames, OneAtATime
<1>2. IdsAreMinted'
  BY <1>0, OffTyped DEF RetireInv, IdsAreMinted, OneAtATime
<1>3. LockIsHeld'
  BY <1>0, OffTyped DEF RetireInv, LockIsHeld, NilIsNothing
<1>4. OneAtATime'
  BY <1>0, OffTyped DEF RetireInv, OneAtATime
<1>5. NewIsNew'
  BY <1>0, OffTyped DEF RetireInv, NewIsNew
<1>6. AskedIsUnconfirmed'
  BY <1>0 DEF RetireInv, AskedIsUnconfirmed, Settled
<1>8. ConfirmedIsNotRetired
  BY <1>0 DEF RetireInv, OneAtATime, NewIsNew, ConfirmedIsNotRetired
<1> QED  BY <1>1, <1>2, <1>3, <1>4, <1>5, <1>6, <1>8 DEF RetireInv

LEMMA SetupEndsKeeps ==
  ASSUME Names, NilIsNothing, WellFormed, InOrder, RetireInv, SetupEnds
  PROVE  RetireInv' /\ ConfirmedIsNotRetired
<1>1. TypedInv'
  BY OffTyped DEF SetupEnds, Ended, RetireInv, TypedInv, Typed, SeriesNames
<1>2. IdsAreMinted'
  BY OffTyped DEF SetupEnds, Ended, RetireInv, IdsAreMinted
<1>3. LockIsHeld'
  BY OffTyped DEF SetupEnds, Ended, RetireInv, LockIsHeld
<1>4. OneAtATime'
  BY OffTyped DEF SetupEnds, RetireInv, OneAtATime
<1>5. NewIsNew'
  BY OffTyped DEF SetupEnds, RetireInv, NewIsNew
<1>6. AskedIsUnconfirmed'
  BY DEF SetupEnds, RetireInv, AskedIsUnconfirmed, InOrder, SetupInOrder, Settled
<1>8. ConfirmedIsNotRetired
  BY DEF SetupEnds, ConfirmedIsNotRetired
<1> QED  BY <1>1, <1>2, <1>3, <1>4, <1>5, <1>6, <1>8 DEF RetireInv

LEMMA SetupKilledKeeps ==
  ASSUME Names, NilIsNothing, WellFormed, InOrder, RetireInv, SetupKilled
  PROVE  RetireInv' /\ ConfirmedIsNotRetired
<1>1. TypedInv'
  BY OffTyped DEF SetupKilled, Released, RetireInv, TypedInv, Typed, SeriesNames
<1>2. IdsAreMinted'
  BY OffTyped DEF SetupKilled, Released, RetireInv, IdsAreMinted
<1>3. LockIsHeld'
  BY OffTyped DEF SetupKilled, Released, RetireInv, LockIsHeld
<1>4. OneAtATime'
  BY OffTyped DEF SetupKilled, RetireInv, OneAtATime
<1>5. NewIsNew'
  BY OffTyped DEF SetupKilled, RetireInv, NewIsNew
<1>6. AskedIsUnconfirmed'
  BY DEF SetupKilled, Released, RetireInv, AskedIsUnconfirmed, Settled
<1>8. ConfirmedIsNotRetired
  BY DEF SetupKilled, ConfirmedIsNotRetired
<1> QED  BY <1>1, <1>2, <1>3, <1>4, <1>5, <1>6, <1>8 DEF RetireInv

LEMMA ConfirmStartKeeps ==
  ASSUME Names, NilIsNothing, WellFormed, InOrder, RetireInv, ConfirmStart
  PROVE  RetireInv' /\ ConfirmedIsNotRetired
<1>1. TypedInv'
  BY GrandfatherTyped, OffTyped DEF ConfirmStart, RetireInv, TypedInv, Typed, SeriesNames, Run
<1>2. IdsAreMinted'
  BY GrandfatherTyped, OffTyped DEF ConfirmStart, RetireInv, IdsAreMinted
<1>3. LockIsHeld'
  BY GrandfatherTyped DEF ConfirmStart, RetireInv, LockIsHeld
<1>4. OneAtATime'
  BY OffTyped DEF ConfirmStart, RetireInv, OneAtATime
<1>5. NewIsNew'
  BY OffTyped DEF ConfirmStart, RetireInv, NewIsNew
<1>6. AskedIsUnconfirmed'
  BY GrandfatherTyped, OffTyped DEF ConfirmStart, AskedIsUnconfirmed, Settled
<1>8. ConfirmedIsNotRetired
  BY DEF ConfirmStart, ConfirmedIsNotRetired
<1> QED  BY <1>1, <1>2, <1>3, <1>4, <1>5, <1>6, <1>8 DEF RetireInv

LEMMA ConfirmAsksKeeps ==
  ASSUME Names, NilIsNothing, WellFormed, InOrder, RetireInv, ConfirmAsks
  PROVE  RetireInv' /\ ConfirmedIsNotRetired
<1>0. /\ commit # Nil /\ commit.at = "done" /\ commit.who = "confirm" /\ commit' = Nil
      /\ confirm.at = "starting" /\ UNCHANGED <<disk, minted, retired, yes, app, setup>>
      /\ \/ confirm' = Off
         \/ /\ commit.ok /\ disk.cred # Nil /\ ~Confirmed(disk) /\ confirm' \in Run
            /\ confirm'.at = "asking" /\ confirm'.id = disk.cred.id /\ confirm'.id \in Pairings
  BY ConfirmAsksDoes DEF RetireInv
<1>1. TypedInv'
  BY <1>0, OffTyped DEF RetireInv, TypedInv, Typed, SeriesNames
<1>2. IdsAreMinted'
  BY <1>0, OffTyped DEF RetireInv, IdsAreMinted
<1>3. LockIsHeld'
  BY <1>0 DEF RetireInv, LockIsHeld
<1>4. OneAtATime'
  BY <1>0, OffTyped DEF RetireInv, OneAtATime, NilIsNothing
<1>5. NewIsNew'
  BY <1>0, OffTyped DEF RetireInv, LockIsHeld, NewIsNew, Holds
<1>6. AskedIsUnconfirmed'
  BY <1>0, OffTyped DEF RetireInv, AskedIsUnconfirmed, Settled
<1>8. ConfirmedIsNotRetired
  BY <1>0 DEF ConfirmedIsNotRetired
<1> QED  BY <1>1, <1>2, <1>3, <1>4, <1>5, <1>6, <1>8 DEF RetireInv

LEMMA ConfirmAcceptsKeeps ==
  ASSUME Names, NilIsNothing, WellFormed, InOrder, RetireInv, ConfirmAccepts
  PROVE  RetireInv' /\ ConfirmedIsNotRetired
<1>0. /\ confirm.at = "asking" /\ commit = Nil /\ UNCHANGED <<disk, minted, retired, app, setup>>
      /\ \/ confirm' = Off /\ UNCHANGED <<yes, commit>>
         \/ /\ Holds(disk, confirm.id) /\ yes' = yes \cup {confirm.id}
            /\ commit' \in Holders /\ commit'.who = "confirm" /\ commit'.id = confirm.id /\ commit'.at = "note"
            /\ confirm' \in Run /\ confirm'.at = "writing" /\ confirm'.id = confirm.id
  BY ConfirmAcceptsDoes DEF RetireInv
<1>1. TypedInv'
  BY <1>0, OffTyped DEF RetireInv, TypedInv, Typed, SeriesNames, OneAtATime
<1>2. IdsAreMinted'
  BY <1>0, OffTyped DEF RetireInv, IdsAreMinted, OneAtATime
<1>3. LockIsHeld'
  BY <1>0 DEF RetireInv, LockIsHeld
<1>4. OneAtATime'
  BY <1>0, OffTyped DEF RetireInv, OneAtATime
<1>5. NewIsNew'
  BY <1>0, OffTyped DEF RetireInv, NewIsNew
<1>6. AskedIsUnconfirmed'
  BY <1>0, OffTyped DEF RetireInv, OneAtATime, AskedIsUnconfirmed, Settled
<1>8. ConfirmedIsNotRetired
  BY <1>0 DEF ConfirmedIsNotRetired
<1> QED  BY <1>1, <1>2, <1>3, <1>4, <1>5, <1>6, <1>8 DEF RetireInv

LEMMA ConfirmRefusesKeeps ==
  ASSUME Names, NilIsNothing, WellFormed, InOrder, RetireInv, ConfirmRefuses
  PROVE  RetireInv' /\ ConfirmedIsNotRetired
<1>1. TypedInv'
  BY DEF ConfirmRefuses, RetireInv, TypedInv, Typed, SeriesNames, Run
<1>2. IdsAreMinted'
  BY DEF ConfirmRefuses, RetireInv, IdsAreMinted, OneAtATime
<1>3. LockIsHeld'
  BY DEF ConfirmRefuses, RetireInv, LockIsHeld
<1>4. OneAtATime'
  BY DEF ConfirmRefuses, RetireInv, OneAtATime
<1>5. NewIsNew'
  BY DEF ConfirmRefuses, RetireInv, NewIsNew
<1>6. AskedIsUnconfirmed'
  BY DEF ConfirmRefuses, RetireInv, AskedIsUnconfirmed, Settled
<1>8. ConfirmedIsNotRetired
  BY DEF ConfirmRefuses, RetireInv, AskedIsUnconfirmed, ConfirmedIsNotRetired
<1> QED  BY <1>1, <1>2, <1>3, <1>4, <1>5, <1>6, <1>8 DEF RetireInv

LEMMA ConfirmDropsKeeps ==
  ASSUME Names, NilIsNothing, WellFormed, InOrder, RetireInv, ConfirmDrops
  PROVE  RetireInv' /\ ConfirmedIsNotRetired
<1>1. TypedInv'
  BY OffTyped DEF ConfirmDrops, RetireInv, TypedInv, Typed, SeriesNames, Files
<1>2. IdsAreMinted'
  BY OffTyped DEF ConfirmDrops, RetireInv, IdsAreMinted
<1>3. LockIsHeld'
  BY DEF ConfirmDrops, RetireInv, LockIsHeld
<1>4. OneAtATime'
  BY OffTyped DEF ConfirmDrops, RetireInv, OneAtATime
<1>5. NewIsNew'
  BY OffTyped DEF ConfirmDrops, RetireInv, NewIsNew, Holds
<1>6. AskedIsUnconfirmed'
  BY OffTyped DEF ConfirmDrops, AskedIsUnconfirmed
<1>8. ConfirmedIsNotRetired
  BY DEF ConfirmDrops, ConfirmedIsNotRetired
<1> QED  BY <1>1, <1>2, <1>3, <1>4, <1>5, <1>6, <1>8 DEF RetireInv

LEMMA ConfirmEndsKeeps ==
  ASSUME Names, NilIsNothing, WellFormed, InOrder, RetireInv, ConfirmEnds
  PROVE  RetireInv' /\ ConfirmedIsNotRetired
<1>1. TypedInv'
  BY OffTyped DEF ConfirmEnds, Ended, RetireInv, TypedInv, Typed, SeriesNames
<1>2. IdsAreMinted'
  BY OffTyped DEF ConfirmEnds, Ended, RetireInv, IdsAreMinted
<1>3. LockIsHeld'
  BY OffTyped DEF ConfirmEnds, Ended, RetireInv, LockIsHeld
<1>4. OneAtATime'
  BY OffTyped DEF ConfirmEnds, RetireInv, OneAtATime
<1>5. NewIsNew'
  BY OffTyped DEF ConfirmEnds, RetireInv, NewIsNew
<1>6. AskedIsUnconfirmed'
  BY OffTyped DEF ConfirmEnds, RetireInv, OneAtATime, AskedIsUnconfirmed, Settled
<1>8. ConfirmedIsNotRetired
  BY DEF ConfirmEnds, ConfirmedIsNotRetired
<1> QED  BY <1>1, <1>2, <1>3, <1>4, <1>5, <1>6, <1>8 DEF RetireInv

LEMMA ConfirmKilledKeeps ==
  ASSUME Names, NilIsNothing, WellFormed, InOrder, RetireInv, ConfirmKilled
  PROVE  RetireInv' /\ ConfirmedIsNotRetired
<1>1. TypedInv'
  BY OffTyped DEF ConfirmKilled, Released, RetireInv, TypedInv, Typed, SeriesNames
<1>2. IdsAreMinted'
  BY OffTyped DEF ConfirmKilled, Released, RetireInv, IdsAreMinted
<1>3. LockIsHeld'
  BY DEF ConfirmKilled, Released, RetireInv, LockIsHeld
<1>4. OneAtATime'
  BY OffTyped DEF ConfirmKilled, RetireInv, OneAtATime
<1>5. NewIsNew'
  BY OffTyped DEF ConfirmKilled, RetireInv, NewIsNew
<1>6. AskedIsUnconfirmed'
  BY OffTyped DEF ConfirmKilled, Released, AskedIsUnconfirmed
<1>8. ConfirmedIsNotRetired
  BY DEF ConfirmKilled, ConfirmedIsNotRetired
<1> QED  BY <1>1, <1>2, <1>3, <1>4, <1>5, <1>6, <1>8 DEF RetireInv

-----------------------------------------------------------------------------
(* The writes of a series keep it too *)

\* The series that goes on is the one that was, with the same holder and pairing.
LEMMA WriteGoesOn ==
  ASSUME NilIsNothing, WellFormed, RetireInv, WriteStep
  PROVE  /\ commit # Nil /\ commit \in Holders /\ commit.at \in Writes
         /\ UNCHANGED <<minted, retired, yes, app, setup, confirm>>
         /\ commit' # Nil /\ commit'.who = commit.who /\ commit'.id = commit.id /\ (commit'.ok => commit.ok)
         /\ commit'.at # "grandfather"
<1>1. /\ commit # Nil /\ commit \in Holders /\ commit.at \in Writes
      /\ UNCHANGED <<minted, retired, yes, app, setup, confirm>>
  BY WriteStepCases DEF WriteStep, RetireInv, TypedInv, Typed, WellFormed
<1>2. commit' \in Holders
  <2>1. Follows(commit.at) \in Writes \cup {"done"}
    BY <1>1, FollowsInOrder
  <2> QED  BY <1>1, <2>1 DEF WriteStep, Holders
<1>3. commit'.who = commit.who /\ commit'.id = commit.id /\ (commit'.ok => commit.ok)
      /\ commit'.at \in {"done", Follows(commit.at)}
  BY WriteStepCases DEF WellFormed
<1>4. commit'.at # "grandfather"
  BY <1>1, <1>3, FollowsInOrder
<1> QED  BY <1>1, <1>2, <1>3, <1>4 DEF NilIsNothing

\* What a write stores is the pairing of its series, and a pairing asked about in a terminal
\* is in no series.
LEMMA WriteStores ==
  ASSUME NilIsNothing, WellFormed, RetireInv, WriteStep
  PROVE  /\ disk'.cred # Nil =>
              \/ disk.cred # Nil /\ disk'.cred.id = disk.cred.id
              \/ commit.id # Nil /\ commit.at \in {"cred", "keep"} /\ disk'.cred.id = commit.id
         /\ confirm.at \in {"asking", "refused"} => commit.id # confirm.id
<1>1. commit # Nil /\ commit \in Holders /\ commit.at \in Writes
  BY WriteGoesOn
<1>2. disk'.cred # Nil =>
              \/ disk.cred # Nil /\ disk'.cred.id = disk.cred.id
              \/ commit.id # Nil /\ commit.at \in {"cred", "keep"} /\ disk'.cred.id = commit.id
  <2>1. CASE disk' = disk
    BY <2>1
  <2>2. CASE ~Skipped(disk, commit) /\ disk' = Written(disk, commit)
    <3>1. \/ disk'.cred = disk.cred
          \/ disk.cred # Nil /\ disk'.cred.id = disk.cred.id
          \/ commit.at \in {"cred", "keep"} /\ disk'.cred.id = commit.id
      BY <1>1, <2>2, WrittenFields DEF WellFormed, Shaped
    <3> QED  BY <1>1, <3>1 DEF RetireInv, TypedInv, SeriesNames
  <2>3. CASE disk' = [disk EXCEPT !.intent = "unsynced"]
    BY <2>3 DEF WellFormed, Shaped, IsRecord
  <2> QED  BY <2>1, <2>2, <2>3, WriteStepCases DEF WellFormed
<1>3. confirm.at \in {"asking", "refused"} => commit.id # confirm.id
  BY <1>1 DEF RetireInv, LockIsHeld, OneAtATime, NewIsNew, Holders
<1> QED  BY <1>2, <1>3

LEMMA WriteAsks ==
  ASSUME Names, NilIsNothing, WellFormed, InOrder, RetireInv, WriteStep,
         confirm.at \in {"asking", "refused"}, Holds(disk', confirm.id)
  PROVE  ~Confirmed(disk')
<1>1. commit # Nil /\ commit.at \in Writes /\ commit.id # confirm.id /\ confirm.id # Nil
  BY WriteGoesOn, WriteStores DEF RetireInv, OneAtATime
<1>2. disk.cred # Nil /\ disk.cred.id = confirm.id /\ disk'.cred # Nil /\ disk'.cred.id = confirm.id
  BY <1>1, WriteStores DEF Holds
<1>3. ~Confirmed(disk) /\ Settled
  BY <1>1, <1>2 DEF RetireInv, AskedIsUnconfirmed, Holds
<1>4. ~Removable
  BY <1>1, <1>2 DEF Removable, Holds
<1>5. CASE disk' = disk
  BY <1>3, <1>5
<1>6. CASE ~Skipped(disk, commit) /\ disk' = Written(disk, commit) /\ (commit.at = "finish" => Removable)
  <2>1. /\ \/ disk'.answer = disk.answer
           \/ disk'.answer = "empty"
           \/ commit.at = "grandfather" /\ disk.answer = "absent"
           \/ disk'.answer = commit.id
        /\ disk'.intent = disk.intent \/ disk'.intent = "yes"
    <3>1. commit.at # "finish"
      BY <1>4, <1>6
    <3>2. /\ \/ disk'.answer = disk.answer
             \/ disk'.answer = "empty"
             \/ commit.at = "grandfather"
             \/ disk'.answer = commit.id
          /\ commit.at = "grandfather" => disk.answer = "absent"
          /\ commit.at = "intent" => disk'.intent = "yes"
          /\ commit.at # "intent" => disk'.intent = disk.intent
      BY <1>1, <1>6, <3>1, WrittenFields DEF WellFormed, Shaped
    <3> QED  BY <3>2
  <2>2. ~(commit.at = "grandfather" /\ disk.answer = "absent")
    BY <1>1, <1>3 DEF Settled, InOrder, SeriesInOrder
  <2> QED  BY <1>1, <1>2, <1>3, <2>1, <2>2 DEF Confirmed
<1> QED  BY <1>4, <1>5, <1>6, WriteStepCases DEF WellFormed

LEMMA WriteKeeps ==
  ASSUME Names, NilIsNothing, WellFormed, InOrder, RetireInv, WriteStep
  PROVE  RetireInv' /\ ConfirmedIsNotRetired
<1>1. TypedInv'
  BY WriteTyped DEF RetireInv
<1>2. IdsAreMinted'
  BY WriteGoesOn, WriteStores DEF RetireInv, IdsAreMinted
<1>3. LockIsHeld' /\ OneAtATime'
  BY WriteGoesOn DEF RetireInv, LockIsHeld, OneAtATime
<1>4. NewIsNew'
  BY WriteGoesOn, WriteStores DEF RetireInv, LockIsHeld, OneAtATime, NewIsNew, Holds, Holders
<1>5. AskedIsUnconfirmed'
  <2>1. Settled => Settled'
    BY WriteStepSettled DEF InOrder
  <2>2. commit # Nil /\ commit.who = "confirm" /\ commit'.ok /\ commit.at = "grandfather" => Settled'
    BY GrandfatherSettles
  <2> QED  BY <2>1, <2>2, WriteGoesOn, WriteAsks DEF RetireInv, AskedIsUnconfirmed
<1>6. ConfirmedIsNotRetired
  BY WriteGoesOn DEF ConfirmedIsNotRetired
<1> QED  BY <1>1, <1>2, <1>3, <1>4, <1>5, <1>6 DEF RetireInv

LEMMA RetireInit == ASSUME Names, Init  PROVE RetireInv
<1>1. disk \in Files /\ disk.cred \in {Nil} \cup [id : OldStored, sound : BOOLEAN]
  <2>1. PICK d \in [cred : {Nil} \cup [id : OldStored, sound : BOOLEAN],
                    answer : {"absent"}, intent : {"no"}, noted : {Nil}] : disk = d
    BY DEF Init
  <2>2. d.cred \in {Nil} \cup [id : Pairings, sound : BOOLEAN]
    BY DEF Names
  <2> QED  BY <2>1, <2>2 DEF Files
<1>2. minted \subseteq Pairings /\ (disk.cred # Nil => disk.cred.id \in minted)
  BY <1>1 DEF Init, Names
<1>3. /\ app = Down /\ setup = Off /\ confirm = Off /\ commit = Nil /\ yes = minted /\ retired = {}
  BY DEF Init
<1> QED
  BY <1>1, <1>2, <1>3, OffTyped, DownTyped DEF RetireInv, TypedInv, Typed, SeriesNames, IdsAreMinted,
     LockIsHeld,
     OneAtATime, NewIsNew, AskedIsUnconfirmed

LEMMA RetireNext ==
  ASSUME Names, NilIsNothing, WellFormed, InOrder, RetireInv, [Next]_pvars
  PROVE  RetireInv' /\ [ConfirmedIsNotRetired]_pvars
<1>1. CASE WriteStep
  BY <1>1, WriteKeeps
<1>2. CASE \/ AppStart \/ AppStarted \/ RecheckCliConfirm \/ BeginPairing \/ RetireCandidate
           \/ AnswerPairing \/ ConnectLocalJournal \/ CommitEnds \/ Shutdown \/ AppCrash
  BY <1>2, AppStartKeeps, AppStartedKeeps, RecheckCliConfirmKeeps, BeginPairingKeeps, RetireCandidateKeeps,
     AnswerPairingKeeps, ConnectLocalJournalKeeps, CommitEndsKeeps, ShutdownKeeps, AppCrashKeeps
<1>3. CASE \/ SetupStart \/ SetupPairs \/ SetupAccepts \/ SetupRefuses \/ SetupLooks
           \/ SetupWalksAway \/ SetupEnds \/ SetupKilled
  BY <1>3, SetupStartKeeps, SetupPairsKeeps, SetupAcceptsKeeps, SetupRefusesKeeps, SetupLooksKeeps,
     SetupWalksAwayKeeps, SetupEndsKeeps, SetupKilledKeeps
<1>4. CASE \/ ConfirmStart \/ ConfirmAsks \/ ConfirmAccepts \/ ConfirmRefuses \/ ConfirmDrops
           \/ ConfirmEnds \/ ConfirmKilled
  BY <1>4, ConfirmStartKeeps, ConfirmAsksKeeps, ConfirmAcceptsKeeps, ConfirmRefusesKeeps, ConfirmDropsKeeps,
     ConfirmEndsKeeps, ConfirmKilledKeeps
<1>5. CASE UNCHANGED pvars
  BY <1>5 DEF pvars, RetireInv, TypedInv, Typed, SeriesNames, IdsAreMinted, LockIsHeld, OneAtATime, NewIsNew,
     AskedIsUnconfirmed, Settled, Confirmed, Holds
<1> QED
  BY <1>1, <1>2, <1>3, <1>4, <1>5 DEF Next, CheckExpiry, CancelPairing, RejectPairing

LEMMA RetireInvTyped == RetireInv => TypeOK
BY DEF RetireInv, TypedInv, Typed, IdsAreMinted, TypeOK, Files, App

-----------------------------------------------------------------------------
(* The theorems *)

PairingInv == WellFormed /\ InOrder /\ OwnerInOrder /\ RetireInv

LEMMA PairingConstants == Names /\ NilIsNothing
BY PairingAssumption DEF Names, NilIsNothing, Holders, Ids

LEMMA PairingInvInit == Init => PairingInv
<1>1. Init => OwnerInOrder
  BY DownOwner DEF Init, OwnerInOrder
<1> QED  BY <1>1, PairingConstants, InitIInv, RetireInit DEF PairingInv

LEMMA PairingInvNext == PairingInv /\ [Next]_pvars => PairingInv' /\ [ConfirmedIsNotRetired]_pvars
BY PairingConstants, NextIInv, NextOwner, RetireNext DEF PairingInv

\* The files, the app, the two commands and the holder of the answer lock keep the types
\* window_control.rs, cli.rs and journal_mark.rs give them, whatever is written, fails or is killed.
THEOREM PairingTypeCorrect == Spec => []TypeOK
<1>1. PairingInv => TypeOK
  BY RetireInvTyped DEF PairingInv
<1> QED  BY <1>1, PairingInvInit, PairingInvNext, PTL DEF Spec

\* Whatever setup, confirm and the app do between them, and wherever they are stopped, the
\* pairing the files call confirmed is one its owner said yes to (confirmed in journal_mark.rs,
\* run_setup and run_confirm in cli.rs), for any pairings.
THEOREM ConfirmedPairingIsAccepted == Spec => []ConfirmedIsAccepted
<1>1. PairingInv => ConfirmedIsAccepted
  BY InOrderIsAccepted DEF PairingInv
<1> QED  BY <1>1, PairingInvInit, PairingInvNext, PTL DEF Spec

\* The supervisor runs no owner but for a pairing its owner said yes to, and none
\* beside one that could not be stopped (start_owner, recheck_cli_confirm and
\* handle_answer_pairing in window_control.rs).
THEOREM RunningOwnerIsAccepted == Spec => []OwnerIsAccepted
<1>1. PairingInv => OwnerIsAccepted
  BY DEF PairingInv, OwnerInOrder, OwnerIsAccepted
<1> QED  BY <1>1, PairingInvInit, PairingInvNext, PTL DEF Spec

\* No step retires a registration while it is the one the files call confirmed: what
\* retire_candidate, a commit that failed and the ends of setup and confirm give back is
\* another, or is not confirmed.
THEOREM ConfirmedStays == Spec => [][ConfirmedIsNotRetired]_pvars
BY PairingInvInit, PairingInvNext, PTL DEF Spec

-----------------------------------------------------------------------------
(* The sound *)

AudioBounds == Limit \in Nat /\ MaxChanges \in Nat /\ MaxMishaps \in Nat

Places == {"top", "connecting", "sink", "mute", "sources", "driven", "starting", "loop", "degraded", "failed", "ended"}
WorkerRecord == [at : Places,
                 reset : BOOLEAN, broken : BOOLEAN, first : BOOLEAN, found : Selections \cup {NoSource},
                 moved : BOOLEAN, sink : {"none", "current", "old"},
                 mute : {"unknown", "muted", "unmuted", "failed"}, degraded : BOOLEAN,
                 whole : BOOLEAN, news : BOOLEAN, reading : SUBSET A!Legs, threshold : BOOLEAN]
CounterRecord == [failures : 0..Limit, legs : SUBSET A!Legs]
ToldRecord == [available : BOOLEAN, muted : BOOLEAN, failures : 0..Limit]
SoundRecord == [up : BOOLEAN, sources : Selections \cup {NoSource}, sink : BOOLEAN, muted : BOOLEAN]

AudioShaped == /\ sound \in SoundRecord /\ notices \subseteq {"source", "sink", "server"} /\ worker \in WorkerRecord
         /\ counter \in CounterRecord /\ heard \in ToldRecord /\ halted \in BOOLEAN /\ changed \in 0..MaxChanges
         /\ mishaps \in 0..MaxMishaps

LEMMA TypedIs == AudioShaped <=> A!TypeOK
BY DEF AudioShaped, A!TypeOK, SoundRecord, WorkerRecord, CounterRecord, ToldRecord, Places

LEMMA FreshTyped == ASSUME NEW at \in Places, NEW reset \in BOOLEAN  PROVE A!Fresh(at, reset) \in WorkerRecord
BY DEF A!Fresh, WorkerRecord, Places, A!Legs

LEMMA MishapTyped == ASSUME AudioBounds, AudioShaped, A!Mishap \/ UNCHANGED mishaps  PROVE mishaps' \in 0..MaxMishaps
BY DEF AudioBounds, AudioShaped, A!Mishap

LEMMA OneMoreTyped == ASSUME AudioBounds, NEW n \in 0..Limit  PROVE A!OneMore(n) \in 0..Limit
BY DEF AudioBounds, A!OneMore

LEMMA CountTyped == ASSUME AudioBounds, AudioShaped  PROVE A!Detected \in CounterRecord /\ A!Failed \in CounterRecord
BY OneMoreTyped DEF AudioBounds, AudioShaped, A!Detected, A!Failed, CounterRecord, A!Legs

LEMMA TellTyped ==
  ASSUME AudioBounds, AudioShaped, NEW m \in BOOLEAN,
         \/ A!Ready(m) \/ A!DegradedIsTold \/ A!FailedIsTold \/ A!SuccessfulRecord \/ A!DetectedIsTold(m)
         \/ UNCHANGED heard \/ heard' = [heard EXCEPT !.available = FALSE, !.muted = m]
  PROVE  heard' \in ToldRecord
<1>1. A!OneMore(heard.failures) \in 0..Limit /\ (A!OneMore(heard.failures) < Limit) \in BOOLEAN
  BY OneMoreTyped DEF AudioShaped, ToldRecord
<1>2. CASE A!FailedIsTold
  <2>1. (heard.available /\ A!OneMore(heard.failures) < Limit) \in BOOLEAN
    BY DEF AudioShaped, ToldRecord
  <2> QED  BY <1>1, <1>2, <2>1 DEF AudioShaped, ToldRecord, A!FailedIsTold
<1>a. heard \in ToldRecord /\ 0 \in 0..Limit
  BY DEF AudioBounds, AudioShaped
<1>3. CASE A!Ready(m) \/ A!DegradedIsTold
  BY <1>3, <1>a DEF ToldRecord, A!Ready, A!DegradedIsTold
<1>4. CASE A!SuccessfulRecord \/ A!DetectedIsTold(m)
  <2>1. CASE A!SuccessfulRecord
    BY <1>a, <2>1 DEF ToldRecord, A!SuccessfulRecord
  <2>2. CASE A!DetectedIsTold(m)
    BY <1>a, <2>2 DEF ToldRecord, A!DetectedIsTold
  <2> QED  BY <1>4, <2>1, <2>2
<1>5. CASE UNCHANGED heard \/ heard' = [heard EXCEPT !.available = FALSE, !.muted = m]
  BY <1>5 DEF AudioShaped, ToldRecord
<1> QED  BY <1>2, <1>3, <1>4, <1>5

LEMMA DropTyped ==
  ASSUME NEW at \in Places, NEW reset \in BOOLEAN, A!Drops(at, reset)
  PROVE  worker' \in WorkerRecord /\ notices' \subseteq {"source", "sink", "server"}
BY FreshTyped DEF A!Drops

LEMMA RunFailsTyped ==
  ASSUME AudioBounds, AudioShaped, A!RunDegraded \/ A!SetupFails, A!Mishap \/ UNCHANGED mishaps, UNCHANGED <<sound, halted, changed>>
  PROVE  AudioShaped'
<1>1. worker.reset \in BOOLEAN /\ {"degraded", "failed"} \subseteq Places
  BY DEF AudioShaped, WorkerRecord, Places
<1>2. worker' \in WorkerRecord /\ notices' \subseteq {"source", "sink", "server"}
  BY <1>1, DropTyped DEF A!RunDegraded, A!SetupFails
<1>3. heard' \in ToldRecord
  BY TellTyped DEF A!RunDegraded, A!SetupFails
<1>4. counter' \in CounterRecord
  BY CountTyped DEF A!RunDegraded, A!SetupFails, AudioShaped
<1> QED  BY <1>2, <1>3, <1>4, MishapTyped DEF AudioShaped

LEMMA ThreadTyped == ASSUME AudioBounds, AudioShaped, A!Thread, UNCHANGED A!Apart  PROVE AudioShaped'
<1>0. /\ UNCHANGED <<sound, halted, changed>> /\ worker \in WorkerRecord /\ heard \in ToldRecord /\ counter \in CounterRecord
      /\ notices \subseteq {"source", "sink", "server"} /\ halted \in BOOLEAN
  BY DEF A!Apart, AudioShaped
<1>1. CASE A!Runs
  <2>1. worker' \in WorkerRecord
    BY <1>0, <1>1 DEF A!Runs, WorkerRecord, Places
  <2> QED  BY <1>0, <1>1, <2>1 DEF A!Runs, AudioShaped
<1>2. CASE A!WaitEnds
  <2>1. worker' \in WorkerRecord
    BY <1>0, <1>2 DEF A!WaitEnds, WorkerRecord, Places
  <2> QED  BY <1>0, <1>2, <2>1, CountTyped DEF A!WaitEnds, AudioShaped
<1>3. CASE A!Connects
  <2>1. worker' \in WorkerRecord
    BY <1>0, <1>3 DEF A!Connects, WorkerRecord, Places
  <2> QED  BY <1>0, <1>3, <2>1 DEF A!Connects, AudioShaped
<1>4. CASE A!ConnectFails
  BY <1>0, <1>4, RunFailsTyped DEF A!ConnectFails
<1>5. CASE A!QueryDefaultSink
  <2>1. worker' \in WorkerRecord
    <3>1. CASE worker' = [worker EXCEPT !.sink = "current", !.at = "mute"]
      BY <1>0, <3>1 DEF WorkerRecord, Places
    <3>2. CASE worker' = [worker EXCEPT !.sink = "none", !.mute = "failed", !.news = TRUE, !.at = "sources"]
      BY <1>0, <3>2 DEF WorkerRecord, Places
    <3> QED  BY <1>5, <3>1, <3>2 DEF A!QueryDefaultSink
  <2> QED  BY <1>0, <1>5, <2>1, MishapTyped DEF A!QueryDefaultSink, A!Answered, A!Unanswered, AudioShaped
<1>6. CASE A!QueryMute
  <2>1. worker' \in WorkerRecord
    <3>1. PICK status \in {"muted", "unmuted", "failed"} :
            worker' = [worker EXCEPT !.mute = status, !.news = @ \/ status # worker.mute,
                                     !.at = IF worker.whole THEN "sources" ELSE "driven"]
      BY <1>6 DEF A!QueryMute
    <3>2. (worker.news \/ status # worker.mute) \in BOOLEAN
      BY <1>0 DEF WorkerRecord
    <3>3. (IF worker.whole THEN "sources" ELSE "driven") \in Places
      BY DEF Places
    <3> QED  BY <1>0, <3>1, <3>2, <3>3 DEF WorkerRecord
  <2>2. A!Mishap \/ UNCHANGED mishaps
    BY <1>6 DEF A!QueryMute, A!Answered, A!Unanswered
  <2> QED  BY <1>0, <1>6, <2>1, <2>2, MishapTyped DEF A!QueryMute, AudioShaped
<1>7. CASE A!QuerySources
  <2>1. PICK found \in Selections \cup {NoSource} :
          worker' = [worker EXCEPT !.degraded = found = NoSource,
                                   !.found = IF found = NoSource THEN @ ELSE found,
                                   !.moved = found \notin {NoSource, worker.found}, !.at = "driven"]
    BY <1>7 DEF A!QuerySources
  <2>2. worker' \in WorkerRecord
    BY <1>0, <2>1 DEF WorkerRecord, Places
  <2>3. A!Mishap \/ UNCHANGED mishaps
    BY <1>7 DEF A!QuerySources
  <2> QED  BY <1>0, <1>7, <2>2, <2>3, MishapTyped DEF A!QuerySources, AudioShaped
<1>8. CASE A!FirstLook
  <2>1. CASE worker.found = NoSource
    BY <1>0, <1>8, <2>1, RunFailsTyped DEF A!FirstLook
  <2>2. CASE worker.found # NoSource
    <3>1. worker' \in WorkerRecord
      <4>1. worker' = [worker EXCEPT !.at = "starting", !.first = FALSE, !.moved = FALSE, !.news = FALSE]
        BY <1>8, <2>2 DEF A!FirstLook
      <4> QED  BY <1>0, <4>1 DEF WorkerRecord, Places
    <3> QED  BY <1>0, <1>8, <2>2, <3>1, CountTyped DEF A!FirstLook, AudioShaped
  <2> QED  BY <2>1, <2>2
<1>9. CASE A!StartStream
  <2>1. worker' \in WorkerRecord
    <3>1. \/ worker' = [worker EXCEPT !.reading = {"microphone"}]
          \/ worker' = [worker EXCEPT !.reading = A!Legs, !.at = "loop"]
      BY <1>9 DEF A!StartStream
    <3>2. {{"microphone"}, A!Legs} \subseteq SUBSET A!Legs /\ "loop" \in Places
      BY DEF A!Legs, Places
    <3> QED  BY <1>0, <3>1, <3>2 DEF WorkerRecord
  <2>2. heard' \in ToldRecord
    <3>1. (worker.mute = "muted") \in BOOLEAN
      OBVIOUS
    <3> QED  BY <1>9, <3>1, TellTyped DEF A!StartStream
  <2> QED  BY <1>0, <1>9, <2>1, <2>2 DEF A!StartStream, AudioShaped
<1>10. CASE A!StreamFails
  BY <1>0, <1>10, RunFailsTyped DEF A!StreamFails
<1>11. CASE A!Backstop
  <2>1. worker' \in WorkerRecord
    BY <1>0, <1>11 DEF A!Backstop, WorkerRecord, Places
  <2> QED  BY <1>0, <1>11, <2>1 DEF A!Backstop, AudioShaped
<1>12. CASE A!Driven
  <2>1. worker' \in WorkerRecord
    BY <1>0, <1>12 DEF A!Driven, WorkerRecord, Places
  <2>2. heard' \in ToldRecord
    <3>1. (IF worker.news THEN worker.mute = "muted" ELSE heard.muted) \in BOOLEAN
      BY <1>0 DEF ToldRecord
    <3> QED  BY <1>12, <3>1, TellTyped DEF A!Driven
  <2> QED  BY <1>0, <1>12, <2>1, <2>2, CountTyped DEF A!Driven, AudioShaped
<1>13. CASE A!RunEnds
  <2>1. (IF halted THEN "ended" ELSE "top") \in Places
    BY DEF Places
  <2> QED  BY <1>0, <1>13, <2>1, DropTyped, CountTyped DEF A!RunEnds, AudioShaped
<1>14. CASE \E kind \in notices : A!Takes(kind)
  <2>1. PICK kind \in {"source", "sink", "server"} : A!Takes(kind)
    BY <1>0, <1>14
  <2>2. worker' \in WorkerRecord
    BY <1>0, <2>1 DEF A!Takes, WorkerRecord, Places
  <2> QED  BY <1>0, <2>1, <2>2 DEF A!Takes, AudioShaped
<1> QED
  BY <1>1, <1>2, <1>3, <1>4, <1>5, <1>6, <1>7, <1>8, <1>9, <1>10, <1>11, <1>12, <1>13, <1>14 DEF A!Thread

LEMMA CallbackTyped == ASSUME AudioBounds, AudioShaped, A!Callbacks, UNCHANGED A!Apart  PROVE AudioShaped'
<1>0. /\ UNCHANGED <<sound, halted, changed>> /\ worker \in WorkerRecord /\ counter \in CounterRecord
  BY DEF A!Apart, AudioShaped
<1>1. PICK leg \in A!Legs : A!Reads(leg) \/ A!ReadFails(leg)
  BY DEF A!Callbacks
<1>2. heard' \in ToldRecord
  BY <1>1, TellTyped DEF A!Reads, A!ReadFails
<1>3. counter' \in CounterRecord
  <2>1. [counter EXCEPT !.legs = @ \cup {leg}] \in CounterRecord
    BY <1>0 DEF CounterRecord
  <2> QED  BY <1>1, <2>1, CountTyped DEF A!Reads, A!ReadFails
<1>4. CASE A!Reads(leg)
  BY <1>0, <1>2, <1>3, <1>4 DEF A!Reads, AudioShaped
<1>5. CASE A!ReadFails(leg)
  <2>1. worker' \in WorkerRecord
    <3>1. (worker.threshold \/ A!Failed.failures = Limit) \in BOOLEAN
      BY <1>0 DEF WorkerRecord
    <3> QED  BY <1>0, <1>5, <3>1 DEF A!ReadFails, WorkerRecord
  <2> QED  BY <1>0, <1>2, <1>3, <1>5, <2>1, MishapTyped DEF A!ReadFails, AudioShaped
<1> QED  BY <1>1, <1>4, <1>5

LEMMA DesktopTyped == ASSUME AudioBounds, AudioShaped, A!Desktop  PROVE AudioShaped'
<1>0. /\ UNCHANGED <<counter, heard, halted, mishaps>> /\ changed' \in 0..MaxChanges
      /\ worker \in WorkerRecord /\ sound \in SoundRecord
  BY DEF A!Desktop, AudioShaped, AudioBounds
<1>1. CASE A!ServerGoesOrComes
  <2>1. sound' \in SoundRecord
    BY <1>0, <1>1 DEF A!ServerGoesOrComes, SoundRecord
  <2>2. worker' \in WorkerRecord
    <3>1. (worker.broken \/ (sound.up /\ A!Connected)) \in BOOLEAN
      BY <1>0 DEF WorkerRecord
    <3> QED  BY <1>0, <1>1, <3>1 DEF A!ServerGoesOrComes, WorkerRecord
  <2> QED  BY <1>0, <1>1, <2>1, <2>2 DEF A!ServerGoesOrComes, AudioShaped
<1>2. CASE A!SourcesChange
  <2>1. sound' \in SoundRecord
    BY <1>0, <1>2 DEF A!SourcesChange, SoundRecord
  <2> QED  BY <1>0, <1>2, <2>1 DEF A!SourcesChange, A!Notice, AudioShaped
<1>3. CASE A!MuteChanges
  <2>1. sound' \in SoundRecord
    BY <1>0, <1>3 DEF A!MuteChanges, SoundRecord
  <2> QED  BY <1>0, <1>3, <2>1 DEF A!MuteChanges, A!Notice, AudioShaped
<1>4. CASE A!DefaultChanges
  <2>1. sound' \in SoundRecord
    BY <1>0, <1>4 DEF A!DefaultChanges, SoundRecord
  <2>2. worker' \in WorkerRecord
    BY <1>0, <1>4 DEF A!DefaultChanges, WorkerRecord
  <2> QED  BY <1>0, <1>4, <2>1, <2>2 DEF A!DefaultChanges, A!Notice, AudioShaped
<1> QED  BY <1>1, <1>2, <1>3, <1>4 DEF A!Desktop

LEMMA AudioTypeInit == ASSUME AudioBounds, A!Init  PROVE A!TypeOK
<1>1. sound \in SoundRecord
  BY DEF A!Init, SoundRecord
<1>2. worker \in WorkerRecord
  <2>1. "top" \in Places
    BY DEF Places
  <2> QED  BY <2>1, FreshTyped DEF A!Init
<1>3. 0 \in 0..Limit /\ 0 \in 0..MaxChanges /\ 0 \in 0..MaxMishaps
  BY DEF AudioBounds
<1>4. counter \in CounterRecord /\ heard \in ToldRecord
  BY <1>3 DEF A!Init, CounterRecord, ToldRecord
<1> QED  BY <1>1, <1>2, <1>3, <1>4, TypedIs DEF A!Init, AudioShaped

LEMMA AudioTypeNext == ASSUME AudioBounds, A!TypeOK, [A!Next]_(A!avars)  PROVE A!TypeOK'
<1>1. AudioShaped
  BY TypedIs
<1>2. AudioShaped'
  <2>1. CASE A!Thread /\ UNCHANGED A!Apart
    BY <1>1, <2>1, ThreadTyped
  <2>2. CASE A!Callbacks /\ UNCHANGED A!Apart
    BY <1>1, <2>2, CallbackTyped
  <2>3. CASE A!Stop \/ UNCHANGED A!avars
    BY <1>1, <2>3 DEF A!Stop, A!avars, AudioShaped
  <2>4. CASE A!Desktop
    BY <1>1, <2>4, DesktopTyped
  <2> QED  BY <2>1, <2>2, <2>3, <2>4 DEF A!Next
<1> QED  BY <1>2 DEF AudioShaped, A!TypeOK, SoundRecord, WorkerRecord, CounterRecord, ToldRecord, Places

-----------------------------------------------------------------------------
(* The runtime *)

\* The stages of a stop up to the end of the walker, and the rest.
EarlyStages == {"starting", "loop", "gate", "closing", "desktop", "observer"}
Stages == EarlyStages \cup {"sync", "drain", "notify", "join", "ended"}

MainRecord == [at : Stages, of : Nat]
LinkRecord == [at : {"starting", "idle", "opening", "closing", "stopping", "launching", "installing",
                     "arming", "ended"},
               owner : Nat, then : {"end", "replace"}, blocked : BOOLEAN]
GateRecord == [current : Nat, open : SUBSET Nat]
NotesRecord == [fresh : SUBSET Nat, excused : BOOLEAN]
PageRecord == [R!Openers -> [at : {"no", "cloned", "opening"}, of : Nat]]

RuntimeShaped == /\ main \in MainRecord /\ link \in LinkRecord /\ gate \in GateRecord /\ notes \in NotesRecord
         /\ page \in PageRecord /\ owners \in Nat

\* Owners are numbered as they start, from 1.
Numbered ==
  /\ link.owner <= owners /\ gate.current <= owners /\ \A who \in R!Openers : page[who].of <= owners
  /\ link.at = "installing" => /\ link.owner \notin {0, gate.current}
                               /\ \A who \in R!Openers : page[who].of # link.owner

Starting == link.at = "installing"

\* Only the owner of the supervisor has an open gate, and it is the installed one but for its start.
OnlyTheInstalled ==
  /\ gate.open \subseteq {link.owner} \ {0}
  /\ link.at \in {"starting", "launching", "stopping", "ended"} => gate.open = {}
  /\ ~Starting => gate.open \subseteq {gate.current}

\* What a stop leaves open was installed after it looked, or is about to be.
OnlyTheFresh ==
  /\ main.at = "closing" => \A i \in gate.open : i = main.of \/ i \in notes.fresh \/ Starting
  /\ ~R!GateStands => \A i \in gate.open : i \in notes.fresh \/ Starting

\* Who opens a page holds a gate that is open.
OpenersHold == \A who \in R!Openers : page[who].at = "opening" => page[who].of \in gate.open

GateInv == RuntimeShaped /\ Numbered /\ OnlyTheInstalled /\ OnlyTheFresh /\ OpenersHold

-----------------------------------------------------------------------------

WorkerTyped ==
  /\ walker \in [at : {"waits", "looks", "passing", "last", "ended"}, got : BOOLEAN, saw : BOOLEAN]
  /\ trigger \in BOOLEAN /\ running \in BOOLEAN /\ waiting \in BOOLEAN /\ told \in BOOLEAN

\* Before it is told to end the walker goes on, and the capture loop keeps its handler to the link.
InStages ==
  /\ main.at \in EarlyStages \cup {"sync"} => running /\ walker.at \notin {"last", "ended"}
  /\ main.at \in EarlyStages \cup {"sync", "drain", "notify"} => ~told /\ "kept" \in handlers
  /\ main.at \in EarlyStages => ~waiting

\* The walker is still to look at the last segment, or has it in its pass.
ToBeSent ==
  \/ walker.at \in {"waits", "passing"} /\ trigger
  \/ walker.at = "looks" /\ walker.got
  \/ walker.at \in {"passing", "last"} /\ walker.saw

\* While it is not sent, its way is open.
ItsWayIsOpen == waiting /\ ~notes.excused => main.at \in {"sync", "drain"} /\ R!LinkIsUp /\ ToBeSent

SendInv == WorkerTyped /\ InStages /\ ItsWayIsOpen

-----------------------------------------------------------------------------
(* No page is opened late *)

LEMMA GateInit == R!Init => GateInv
BY DEF R!Init, R!Shut, MainRecord, LinkRecord, GateRecord, NotesRecord, PageRecord, Stages, EarlyStages,
   GateInv,
       RuntimeShaped, Numbered, Starting, OnlyTheInstalled, OnlyTheFresh, OpenersHold, R!GateStands, R!Before

\* Steps of the loop's thread, the walker and the commands: only where the stop is changes, and
\* not to where the gate is being closed or has just been.
LEMMA LoopMoves ==
  ASSUME GateInv, UNCHANGED <<link, gate, page, owners>>,
         main' \in MainRecord, notes' \in NotesRecord,
         notes'.fresh = notes.fresh,
         main' = main \/ main'.at \in R!Before \/ (~R!GateStands /\ ~R!GateStands')
  PROVE  GateInv'
<1>1. RuntimeShaped' /\ Numbered' /\ OnlyTheInstalled' /\ OpenersHold'
  BY DEF GateInv, RuntimeShaped, Numbered, Starting, OnlyTheInstalled, OnlyTheFresh, OpenersHold
<1>2. OnlyTheFresh'
  BY DEF GateInv, RuntimeShaped, Numbered, Starting, OnlyTheInstalled, OnlyTheFresh, OpenersHold,
     R!GateStands,
     R!Before
<1> QED  BY <1>1, <1>2 DEF GateInv

\* Steps of the supervisor that start and stop no owner: nothing that has an open gate is given up.
LEMMA LinkMoves ==
  ASSUME GateInv, UNCHANGED <<main, gate, page, owners>>,
         link' \in LinkRecord,
         notes' \in NotesRecord, notes'.fresh = notes.fresh,
         link'.owner = link.owner, ~Starting, ~Starting',
         link'.at \in {"starting", "launching", "stopping", "ended"} => gate.open = {}
  PROVE  GateInv'
<1>1. RuntimeShaped' /\ Numbered' /\ OpenersHold'
  BY DEF GateInv, RuntimeShaped, Numbered, Starting, OnlyTheInstalled, OnlyTheFresh, OpenersHold
<1>2. OnlyTheInstalled'
  BY DEF GateInv, RuntimeShaped, Numbered, Starting, OnlyTheInstalled, OnlyTheFresh, OpenersHold
<1>3. OnlyTheFresh'
  BY DEF GateInv, RuntimeShaped, Numbered, Starting, OnlyTheInstalled, OnlyTheFresh, OpenersHold, R!GateStands
<1> QED  BY <1>1, <1>2, <1>3 DEF GateInv

LEMMA GateStep == GateInv /\ [R!Next]_(R!rvars) => GateInv'
<1> SUFFICES ASSUME GateInv, [R!Next]_(R!rvars)  PROVE  GateInv'
  OBVIOUS
<1> USE DEF GateInv, RuntimeShaped, MainRecord, LinkRecord, GateRecord, NotesRecord, PageRecord, Stages, EarlyStages

\* The loop's thread: only the reading of the current capability and the closing of its gate matter.
<1>1. ASSUME R!Initialized  PROVE  GateInv'
  <2>1. /\ UNCHANGED <<link, gate, page, owners>> /\ notes' \in NotesRecord
        /\ notes'.fresh = notes.fresh
    BY <1>1 DEF R!Initialized, R!At, R!Others
  <2>2. main' \in MainRecord /\ main'.at = "loop"
    BY <1>1 DEF R!Initialized, R!At, R!Others
  <2> QED  BY <2>1, <2>2, LoopMoves DEF R!GateStands, R!Before
<1>2. ASSUME R!Leaves  PROVE  GateInv'
  <2>1. /\ UNCHANGED <<link, gate, page, owners>> /\ notes' \in NotesRecord
        /\ notes'.fresh = notes.fresh
    BY <1>2 DEF R!Leaves, R!Leaving, R!At, R!Others
  <2>2. main' \in MainRecord /\ main'.at = "gate"
    BY <1>2 DEF R!Leaves, R!Leaving, R!At, R!Others
  <2> QED  BY <2>1, <2>2, LoopMoves DEF R!GateStands, R!Before
<1>3. ASSUME R!LoopFails  PROVE  GateInv'
  <2>1. /\ UNCHANGED <<link, gate, page, owners>> /\ notes' \in NotesRecord
        /\ notes'.fresh = notes.fresh
    BY <1>3 DEF R!LoopFails, R!Leaving, R!At, R!Others
  <2>2. main' \in MainRecord /\ main'.at = "gate"
    BY <1>3 DEF R!LoopFails, R!Leaving, R!At, R!Others
  <2> QED  BY <2>1, <2>2, LoopMoves DEF R!GateStands, R!Before
<1>4. ASSUME R!DesktopDown  PROVE  GateInv'
  <2>1. /\ UNCHANGED <<link, gate, page, owners>> /\ notes' \in NotesRecord
        /\ notes'.fresh = notes.fresh
    BY <1>4 DEF R!DesktopDown, R!At
  <2>2. main' \in MainRecord /\ main'.at = "observer" /\ main.at = "desktop"
    BY <1>4 DEF R!DesktopDown, R!At
  <2> QED  BY <2>1, <2>2, LoopMoves DEF R!GateStands, R!Before
<1>5. ASSUME R!ObserverDown  PROVE  GateInv'
  <2>1. /\ UNCHANGED <<link, gate, page, owners>> /\ notes' \in NotesRecord
        /\ notes'.fresh = notes.fresh
    BY <1>5 DEF R!ObserverDown, R!At, R!Excuse
  <2>2. main' \in MainRecord /\ main'.at = "sync" /\ main.at = "observer"
    BY <1>5 DEF R!ObserverDown, R!At, R!Excuse
  <2> QED  BY <2>1, <2>2, LoopMoves DEF R!GateStands, R!Before
<1>6. ASSUME R!SyncTold  PROVE  GateInv'
  <2>1. /\ UNCHANGED <<link, gate, page, owners>> /\ notes' \in NotesRecord
        /\ notes'.fresh = notes.fresh
    BY <1>6 DEF R!SyncTold, R!At
  <2>2. main' \in MainRecord /\ main'.at = "drain" /\ main.at = "sync"
    BY <1>6 DEF R!SyncTold, R!At
  <2> QED  BY <2>1, <2>2, LoopMoves DEF R!GateStands, R!Before
<1>7. ASSUME R!Drained  PROVE  GateInv'
  <2>1. /\ UNCHANGED <<link, gate, page, owners>> /\ notes' \in NotesRecord
        /\ notes'.fresh = notes.fresh
    BY <1>7 DEF R!Drained, R!At, R!Others
  <2>2. main' \in MainRecord /\ main'.at = "notify" /\ main.at = "drain"
    BY <1>7 DEF R!Drained, R!At, R!Others
  <2> QED  BY <2>1, <2>2, LoopMoves DEF R!GateStands, R!Before
<1>8. ASSUME R!CutsWalker  PROVE  GateInv'
  <2>1. /\ UNCHANGED <<link, gate, page, owners>> /\ notes' \in NotesRecord
        /\ notes'.fresh = notes.fresh
    BY <1>8 DEF R!CutsWalker, R!At, R!Excuse
  <2>2. main' \in MainRecord /\ main'.at = "notify" /\ main.at = "drain"
    BY <1>8 DEF R!CutsWalker, R!At, R!Excuse
  <2> QED  BY <2>1, <2>2, LoopMoves DEF R!GateStands, R!Before
<1>9. ASSUME R!TellsLink  PROVE  GateInv'
  <2>1. /\ UNCHANGED <<link, gate, page, owners>> /\ notes' \in NotesRecord
        /\ notes'.fresh = notes.fresh
    BY <1>9 DEF R!TellsLink, R!At
  <2>2. main' \in MainRecord /\ main'.at = "join" /\ main.at = "notify"
    BY <1>9 DEF R!TellsLink, R!At
  <2> QED  BY <2>1, <2>2, LoopMoves DEF R!GateStands, R!Before
<1>10. ASSUME R!Joined  PROVE  GateInv'
  <2>1. /\ UNCHANGED <<link, gate, page, owners>> /\ notes' \in NotesRecord
        /\ notes'.fresh = notes.fresh
    BY <1>10 DEF R!Joined, R!At, R!Others
  <2>2. main' \in MainRecord /\ main'.at = "ended" /\ main.at = "join"
    BY <1>10 DEF R!Joined, R!At, R!Others
  <2> QED  BY <2>1, <2>2, LoopMoves DEF R!GateStands, R!Before
<1>11. ASSUME R!ReadCurrent  PROVE  GateInv'
  <2>1. /\ main' \in MainRecord /\ main'.of = gate.current
        /\ main'.at = IF gate.current = 0 THEN "desktop" ELSE "closing"
        /\ UNCHANGED <<link, gate, page, owners, notes>>
    BY <1>11 DEF R!ReadCurrent, R!Others
  <2>2. RuntimeShaped' /\ Numbered' /\ OnlyTheInstalled' /\ OpenersHold'
    BY <2>1 DEF Numbered, Starting, OnlyTheInstalled, OpenersHold
  <2>3. OnlyTheFresh'
    BY <2>1 DEF OnlyTheFresh, OnlyTheInstalled, Starting, R!GateStands, R!Before
  <2> QED  BY <2>2, <2>3
<1>12. ASSUME R!CloseGate  PROVE  GateInv'
  <2>1. /\ main' \in MainRecord /\ main'.at = "desktop" /\ main.at = "closing" /\ main'.of = main.of
        /\ gate' \in GateRecord /\ gate'.open = gate.open \ {main.of}
        /\ gate'.current = (IF gate.current = main.of THEN 0 ELSE gate.current)
        /\ UNCHANGED <<link, page, owners, notes>>
    BY <1>12 DEF R!CloseGate, R!At
  <2>2. \A who \in R!Openers : page[who].at = "opening" => page[who].of # main.of
    BY <1>12 DEF R!CloseGate, R!Held
  <2>3. RuntimeShaped' /\ Numbered' /\ OpenersHold'
    BY <2>1, <2>2 DEF Numbered, Starting, OpenersHold, OnlyTheInstalled
  <2>4. OnlyTheInstalled'
    BY <2>1 DEF OnlyTheInstalled, Starting
  <2>5. OnlyTheFresh'
    BY <2>1 DEF OnlyTheFresh, Starting, R!GateStands, R!Before
  <2> QED  BY <2>3, <2>4, <2>5

\* The walker and the commands change nothing the gates depend on.
<1>13. ASSUME R!TakesTrigger  PROVE  GateInv'
  BY <1>13, LoopMoves DEF R!TakesTrigger, R!Elsewhere
<1>14. ASSUME R!Looks  PROVE  GateInv'
  BY <1>14, LoopMoves DEF R!Looks, R!Elsewhere
<1>15. ASSUME R!Passes  PROVE  GateInv'
  BY <1>15, LoopMoves DEF R!Passes, R!Elsewhere
<1>16. ASSUME R!Signalled  PROVE  GateInv'
  BY <1>16, LoopMoves DEF R!Signalled, R!Signalled
<1>17. ASSUME NEW kind \in {"open", "pair"}, R!WindowAsks(kind)  PROVE  GateInv'
  BY <1>17, LoopMoves DEF R!WindowAsks, R!Beyond

\* The supervisor.
<1>18. ASSUME R!LinkStarts  PROVE  GateInv'
  <2>1. UNCHANGED <<main, gate, page, owners>> /\ notes' \in NotesRecord
        /\ notes'.fresh = notes.fresh
    BY <1>18 DEF R!LinkStarts, R!LinkAt, R!Outside
  <2>2. link' \in LinkRecord /\ link'.owner = link.owner
    BY <1>18 DEF R!LinkStarts, R!LinkAt, R!Outside
  <2>3. /\ ~Starting /\ ~Starting'
        /\ link'.at \in {"starting", "launching", "stopping", "ended"} => gate.open = {}
    BY <1>18 DEF R!LinkStarts, R!LinkAt, R!Outside, Starting, OnlyTheInstalled
  <2> QED  BY <2>1, <2>2, <2>3, LinkMoves
<1>19. ASSUME R!Arms  PROVE  GateInv'
  <2>1. UNCHANGED <<main, gate, page, owners>> /\ notes' \in NotesRecord
        /\ notes'.fresh = notes.fresh
    BY <1>19 DEF R!Arms, R!LinkAt, R!Outside
  <2>2. link' \in LinkRecord /\ link'.owner = link.owner
    BY <1>19 DEF R!Arms, R!LinkAt, R!Outside
  <2>3. /\ ~Starting /\ ~Starting'
        /\ link'.at \in {"starting", "launching", "stopping", "ended"} => gate.open = {}
    BY <1>19 DEF R!Arms, R!LinkAt, R!Outside, Starting, OnlyTheInstalled
  <2> QED  BY <2>1, <2>2, <2>3, LinkMoves
<1>20. ASSUME R!Rechecks  PROVE  GateInv'
  <2>1. UNCHANGED <<main, gate, page, owners>> /\ notes' \in NotesRecord
        /\ notes'.fresh = notes.fresh
    BY <1>20 DEF R!Rechecks, R!LinkAt, R!Outside
  <2>2. link' \in LinkRecord /\ link'.owner = link.owner
    BY <1>20 DEF R!Rechecks, R!LinkAt, R!Outside
  <2>3. /\ ~Starting /\ ~Starting'
        /\ link'.at \in {"starting", "launching", "stopping", "ended"} => gate.open = {}
    BY <1>20 DEF R!Rechecks, R!LinkAt, R!Outside, Starting, OnlyTheInstalled
  <2> QED  BY <2>1, <2>2, <2>3, LinkMoves
<1>21. ASSUME R!TakesPair  PROVE  GateInv'
  <2>1. UNCHANGED <<main, gate, page, owners>> /\ notes' \in NotesRecord
        /\ notes'.fresh = notes.fresh
    BY <1>21 DEF R!TakesPair, R!LinkAt, R!Outside, R!Excuse
  <2>2. link' \in LinkRecord /\ link'.owner = link.owner
    BY <1>21 DEF R!TakesPair, R!LinkAt, R!Outside, R!Excuse
  <2>3. /\ ~Starting /\ ~Starting'
        /\ link'.at \in {"starting", "launching", "stopping", "ended"} => gate.open = {}
    BY <1>21 DEF R!TakesPair, R!LinkAt, R!Outside, R!Excuse, Starting, OnlyTheInstalled
  <2> QED  BY <2>1, <2>2, <2>3, LinkMoves
<1>22. ASSUME R!Opened  PROVE  GateInv'
  <2>1. UNCHANGED <<main, gate, page, owners>> /\ notes' \in NotesRecord
        /\ notes'.fresh = notes.fresh
    BY <1>22 DEF R!Opened, R!LinkAt, R!Outside
  <2>2. link' \in LinkRecord /\ link'.owner = link.owner
    BY <1>22 DEF R!Opened, R!LinkAt, R!Outside
  <2>3. /\ ~Starting /\ ~Starting'
        /\ link'.at \in {"starting", "launching", "stopping", "ended"} => gate.open = {}
    BY <1>22 DEF R!Opened, R!LinkAt, R!Outside, Starting, OnlyTheInstalled
  <2> QED  BY <2>1, <2>2, <2>3, LinkMoves
<1>23. ASSUME R!LinkEnds  PROVE  GateInv'
  <2>1. UNCHANGED <<main, gate, page, owners>> /\ notes' \in NotesRecord
        /\ notes'.fresh = notes.fresh
    BY <1>23 DEF R!LinkEnds, R!Outside
  <2>2. link' \in LinkRecord /\ link'.owner = link.owner
    BY <1>23 DEF R!LinkEnds, R!Outside
  <2>3. /\ ~Starting /\ ~Starting'
        /\ link'.at \in {"starting", "launching", "stopping", "ended"} => gate.open = {}
    BY <1>23 DEF R!LinkEnds, R!Outside, Starting, OnlyTheInstalled
  <2> QED  BY <2>1, <2>2, <2>3, LinkMoves
<1>24. ASSUME R!Launched  PROVE  GateInv'
  <2>1. /\ link' \in LinkRecord
        /\ link'.at = "installing" /\ link'.owner = owners + 1 /\ owners' = owners + 1 /\ link.at = "launching"
        /\ gate' \in GateRecord /\ gate'.open = gate.open \cup {owners + 1}
        /\ gate'.current = gate.current /\ UNCHANGED <<main, page, notes>>
    <3>1. /\ owners' = owners + 1 /\ owners' \in Nat /\ link.at = "launching"
          /\ link' = [link EXCEPT !.at = "installing", !.owner = owners']
          /\ gate' = [gate EXCEPT !.open = @ \cup {owners'}] /\ UNCHANGED <<main, page, notes>>
      BY <1>24 DEF R!Launched, R!Outside
    <3>2. link' \in LinkRecord /\ link'.at = "installing" /\ link'.owner = owners'
      BY <3>1
    <3>3. gate' \in GateRecord /\ gate'.open = gate.open \cup {owners'} /\ gate'.current = gate.current
      BY <3>1
    <3> QED  BY <3>1, <3>2, <3>3
  <2>2. gate.open = {}
    BY <2>1 DEF OnlyTheInstalled
  <2>3. RuntimeShaped' /\ Numbered'
    BY <2>1 DEF Numbered
  <2>4. OnlyTheInstalled' /\ OpenersHold'
    BY <2>1, <2>2 DEF OnlyTheInstalled, OpenersHold, Starting
  <2>5. OnlyTheFresh'
    BY <2>1 DEF OnlyTheFresh, Starting, R!GateStands
  <2> QED  BY <2>3, <2>4, <2>5
<1>25. ASSUME R!LaunchFails  PROVE  GateInv'
  <2>1. /\ link' \in LinkRecord
        /\ link'.at = "idle" /\ link.at = "launching" /\ link'.owner = link.owner
        /\ owners' \in Nat /\ owners <= owners' /\ UNCHANGED <<main, gate, page, notes>>
    BY <1>25 DEF R!LaunchFails, R!LinkAt, R!Outside
  <2>2. gate.open = {}
    BY <2>1 DEF OnlyTheInstalled
  <2>3. RuntimeShaped' /\ Numbered'
    BY <2>1 DEF Numbered
  <2>4. OnlyTheInstalled' /\ OpenersHold' /\ OnlyTheFresh'
    BY <2>1, <2>2 DEF OnlyTheInstalled, OnlyTheFresh, OpenersHold
  <2> QED  BY <2>3, <2>4
<1>26. ASSUME R!Installs  PROVE  GateInv'
  <2>1. /\ link' \in LinkRecord
        /\ link'.at = "arming" /\ link.at = "installing" /\ link'.owner = link.owner
        /\ gate' \in GateRecord /\ gate'.open = gate.open /\ gate'.current = link.owner
        /\ UNCHANGED <<main, page, owners>>
    BY <1>26 DEF R!Installs, R!LinkAt, R!Outside
  <2>2. /\ notes' \in NotesRecord
        /\ main.at \notin R!Before => notes'.fresh = notes.fresh \cup {link.owner}
    BY <1>26 DEF R!Installs
  <2>3. RuntimeShaped' /\ Numbered'
    BY <2>1, <2>2 DEF Numbered
  <2>4. OnlyTheInstalled' /\ OpenersHold'
    BY <2>1 DEF OnlyTheInstalled, OpenersHold, Starting
  <2>5. \A i \in gate'.open : i = link.owner
    BY <2>1 DEF OnlyTheInstalled
  <2>6. OnlyTheFresh'
    BY <2>1, <2>2, <2>5 DEF OnlyTheFresh, R!GateStands, R!Before
  <2> QED  BY <2>3, <2>4, <2>6
<1>27. ASSUME R!CloseOwner  PROVE  GateInv'
  <2>1. /\ link' \in LinkRecord
        /\ link'.at = "stopping" /\ link'.owner = link.owner
        /\ gate' \in GateRecord /\ gate'.open = {} /\ gate'.current = gate.current
        /\ UNCHANGED <<main, page, owners, notes>>
    BY <1>27 DEF R!CloseOwner, R!LinkAt, R!Outside, OnlyTheInstalled
  <2>2. \A who \in R!Openers : page[who].at = "opening" => page[who].of # link.owner
    BY <1>27 DEF R!CloseOwner, R!Held
  <2>3. \A who \in R!Openers : page[who].at # "opening"
    BY <2>2 DEF OpenersHold, OnlyTheInstalled
  <2>4. RuntimeShaped' /\ Numbered' /\ OpenersHold'
    BY <2>1, <2>3 DEF Numbered, OpenersHold
  <2>5. OnlyTheInstalled' /\ OnlyTheFresh'
    BY <2>1 DEF OnlyTheInstalled, OnlyTheFresh
  <2> QED  BY <2>4, <2>5
<1>28. ASSUME R!StopOwner  PROVE  GateInv'
  <2>1. /\ link' \in LinkRecord
        /\ link'.owner \in {link.owner, 0} /\ link'.at # "installing"
        /\ link.at = "stopping" /\ UNCHANGED <<main, page, owners, notes, gate>>
    <3>1. UNCHANGED <<main, page, owners, notes, gate>> /\ link.at = "stopping"
      BY <1>28 DEF R!StopOwner, R!Outside
    <3>2. CASE link' = [link EXCEPT !.at = "ended"]
      BY <3>1, <3>2
    <3>3. CASE link' = [link EXCEPT !.at = "launching", !.owner = 0]
      BY <3>1, <3>3
    <3>4. CASE link' = [link EXCEPT !.at = "idle", !.owner = 0, !.blocked = TRUE]
      BY <3>1, <3>4
    <3> QED  BY <1>28, <3>2, <3>3, <3>4 DEF R!StopOwner, R!LinkAt
  <2>2. gate.open = {}
    BY <2>1 DEF OnlyTheInstalled
  <2>3. RuntimeShaped' /\ Numbered' /\ OpenersHold'
    BY <2>1 DEF Numbered, OpenersHold
  <2>4. OnlyTheInstalled' /\ OnlyTheFresh'
    BY <2>1, <2>2 DEF OnlyTheInstalled, OnlyTheFresh
  <2> QED  BY <2>3, <2>4
<1>29. ASSUME R!TakesOpen  PROVE  GateInv'
  <2>1. /\ UNCHANGED <<main, gate, owners, notes>> /\ link.at = "idle"
        /\ link' \in LinkRecord
        /\ link'.at \in {"idle", "opening"} /\ link'.owner = link.owner
    BY <1>29 DEF R!TakesOpen, R!LinkAt, R!Outside
  <2>2. page' = page \/ page' = [page EXCEPT !["link"] = [at |-> "cloned", of |-> gate.current]]
    BY <1>29 DEF R!TakesOpen
  <2>3. /\ page' \in PageRecord
        /\ \A who \in R!Openers : page'[who] = page[who] \/ page'[who] = [at |-> "cloned", of |-> gate.current]
    BY <2>2 DEF R!Openers
  <2>4. RuntimeShaped' /\ Numbered' /\ OpenersHold'
    BY <2>1, <2>3 DEF Numbered, OpenersHold
  <2>5. OnlyTheInstalled' /\ OnlyTheFresh'
    BY <2>1 DEF OnlyTheInstalled, OnlyTheFresh, Starting, R!GateStands
  <2> QED  BY <2>4, <2>5

\* The pages.
<1>30. ASSUME R!PanelOpens  PROVE  GateInv'
  <2>1. UNCHANGED <<main, gate, owners, notes, link>> /\ main.at = "loop"
    BY <1>30 DEF R!PanelOpens, R!Beyond
  <2>2. /\ page' \in PageRecord
        /\ \A who \in R!Openers : page'[who] = page[who] \/ page'[who] = [at |-> "cloned", of |-> gate.current]
    BY <1>30 DEF R!PanelOpens, R!Openers
  <2>3. RuntimeShaped' /\ Numbered' /\ OpenersHold'
    BY <2>1, <2>2 DEF Numbered, OpenersHold
  <2>4. OnlyTheInstalled' /\ OnlyTheFresh'
    BY <2>1 DEF OnlyTheInstalled, OnlyTheFresh, Starting, R!GateStands
  <2> QED  BY <2>3, <2>4
<1>31. ASSUME R!Pages  PROVE  GateInv'
  <2>1. UNCHANGED <<main, gate, owners, notes, link>>
    BY <1>31 DEF R!Pages, R!Enters, R!Opens, R!Beyond
  <2>2. PICK who \in R!Openers : R!Enters(who) \/ R!Opens(who)
    BY <1>31 DEF R!Pages
  <2>3. /\ page' \in PageRecord
        /\ \A other \in R!Openers : \/ page'[other] = page[other] \/ page'[other] = R!Shut
                                  \/ /\ page'[other] = [at |-> "opening", of |-> page[other].of]
                                     /\ page[other].of \in gate.open
    BY <2>2 DEF R!Enters, R!Opens, R!Shut
  <2>4. RuntimeShaped' /\ OpenersHold'
    BY <2>1, <2>3 DEF OpenersHold, R!Shut
  <2>5. \A other \in R!Openers : page'[other].of \in {page[other].of, 0}
    BY <2>3 DEF R!Shut
  <2>6. Starting => link.owner # 0
    BY DEF Starting, Numbered, OnlyTheInstalled
  <2>7. Numbered'
    BY <2>1, <2>5, <2>6 DEF Numbered, Starting
  <2>8. OnlyTheInstalled' /\ OnlyTheFresh'
    BY <2>1 DEF OnlyTheInstalled, OnlyTheFresh, Starting, R!GateStands
  <2> QED  BY <2>4, <2>7, <2>8
<1>32. ASSUME UNCHANGED R!rvars  PROVE  GateInv'
  BY <1>32, LoopMoves DEF R!rvars
<1> QED  BY <1>1, <1>2, <1>3, <1>4, <1>5, <1>6, <1>7, <1>8, <1>9, <1>10, <1>11, <1>12, <1>13, <1>14, <1>15,
       <1>16, <1>17, <1>18, <1>19, <1>20, <1>21, <1>22, <1>23, <1>24, <1>25, <1>26, <1>27, <1>28, <1>29,
       <1>30, <1>31, <1>32 DEF R!Next, R!Main, R!Walk, R!Link

-----------------------------------------------------------------------------
(* The last segment is sent *)

LEMMA SendInit == R!Init => SendInv
<1> SUFFICES ASSUME R!Init  PROVE  SendInv
  OBVIOUS
<1>1. WorkerTyped
  BY DEF R!Init, WorkerTyped
<1>2. InStages
  BY DEF R!Init, InStages
<1>3. ItsWayIsOpen
  BY DEF R!Init, ItsWayIsOpen
<1> QED  BY <1>1, <1>2, <1>3 DEF SendInv

\* Steps that change neither the walker nor the link, nor where the stop is.
LEMMA WayStaysOpen ==
  ASSUME SendInv, UNCHANGED <<waiting, walker, trigger, running, link, handlers, told, armed, carried, notes>>,
         main' = main \/ (main.at \in EarlyStages /\ main'.at \in EarlyStages)
  PROVE  SendInv'
BY DEF SendInv, WorkerTyped, InStages, ItsWayIsOpen, ToBeSent, R!LinkIsUp, EarlyStages

LEMMA SendStep == GateInv /\ SendInv /\ [R!Next]_(R!rvars) => SendInv'
<1> SUFFICES ASSUME RuntimeShaped, SendInv, [R!Next]_(R!rvars)  PROVE  SendInv'
  BY DEF GateInv
<1> USE DEF RuntimeShaped, SendInv, WorkerTyped, MainRecord, LinkRecord, NotesRecord, Stages, EarlyStages

\* The capture loop's thread.
<1>1. ASSUME R!Initialized  PROVE  SendInv'
  BY <1>1, WayStaysOpen DEF R!Initialized, R!At, R!Others
<1>2. ASSUME R!Leaves  PROVE  SendInv'
  BY <1>2, WayStaysOpen DEF R!Leaves, R!Leaving, R!At, R!Others
<1>3. ASSUME R!LoopFails  PROVE  SendInv'
  BY <1>3, WayStaysOpen DEF R!LoopFails, R!Leaving, R!At, R!Others
<1>4. ASSUME R!ReadCurrent  PROVE  SendInv'
  BY <1>4, WayStaysOpen DEF R!ReadCurrent, R!Others
<1>5. ASSUME R!CloseGate  PROVE  SendInv'
  BY <1>5, WayStaysOpen DEF R!CloseGate, R!At
<1>6. ASSUME R!DesktopDown  PROVE  SendInv'
  <2>1. WorkerTyped'
    BY <1>6 DEF R!DesktopDown, R!At
  <2>2. InStages'
    BY <1>6 DEF R!DesktopDown, R!At, InStages
  <2>3. ItsWayIsOpen'
    BY <1>6 DEF R!DesktopDown, R!At, InStages, ItsWayIsOpen, ToBeSent, R!LinkIsUp
  <2> QED  BY <2>1, <2>2, <2>3
<1>7. ASSUME R!ObserverDown  PROVE  SendInv'
  <2>1. WorkerTyped'
    BY <1>7 DEF R!ObserverDown, R!At, R!Excuse
  <2>2. InStages'
    BY <1>7 DEF R!ObserverDown, R!At, R!Excuse, InStages
  <2>3. ItsWayIsOpen'
    BY <1>7 DEF R!ObserverDown, R!At, R!Excuse, InStages, ItsWayIsOpen, ToBeSent, R!LinkIsUp
  <2> QED  BY <2>1, <2>2, <2>3
<1>8. ASSUME R!SyncTold  PROVE  SendInv'
  <2>1. WorkerTyped'
    BY <1>8 DEF R!SyncTold, R!At
  <2>2. InStages'
    BY <1>8 DEF R!SyncTold, R!At, InStages
  <2>3. ItsWayIsOpen'
    BY <1>8 DEF R!SyncTold, R!At, InStages, ItsWayIsOpen, ToBeSent, R!LinkIsUp
  <2> QED  BY <2>1, <2>2, <2>3
<1>9. ASSUME R!Drained  PROVE  SendInv'
  <2>1. WorkerTyped'
    BY <1>9 DEF R!Drained, R!At, R!Others
  <2>2. InStages'
    BY <1>9 DEF R!Drained, R!At, R!Others, InStages
  <2>3. ItsWayIsOpen'
    BY <1>9 DEF R!Drained, R!At, R!Others, InStages, ItsWayIsOpen, ToBeSent, R!LinkIsUp
  <2> QED  BY <2>1, <2>2, <2>3
<1>10. ASSUME R!CutsWalker  PROVE  SendInv'
  <2>1. WorkerTyped'
    BY <1>10 DEF R!CutsWalker, R!At, R!Excuse
  <2>2. InStages'
    BY <1>10 DEF R!CutsWalker, R!At, R!Excuse, InStages
  <2>3. ItsWayIsOpen'
    BY <1>10 DEF R!CutsWalker, R!At, R!Excuse, InStages, ItsWayIsOpen, ToBeSent, R!LinkIsUp
  <2> QED  BY <2>1, <2>2, <2>3
<1>11. ASSUME R!TellsLink  PROVE  SendInv'
  <2>1. WorkerTyped'
    BY <1>11 DEF R!TellsLink, R!At
  <2>2. InStages'
    BY <1>11 DEF R!TellsLink, R!At, InStages
  <2>3. ItsWayIsOpen'
    BY <1>11 DEF R!TellsLink, R!At, InStages, ItsWayIsOpen, ToBeSent, R!LinkIsUp
  <2> QED  BY <2>1, <2>2, <2>3
<1>12. ASSUME R!Joined  PROVE  SendInv'
  <2>1. WorkerTyped'
    BY <1>12 DEF R!Joined, R!At, R!Others
  <2>2. InStages'
    BY <1>12 DEF R!Joined, R!At, R!Others, InStages
  <2>3. ItsWayIsOpen'
    BY <1>12 DEF R!Joined, R!At, R!Others, InStages, ItsWayIsOpen, ToBeSent, R!LinkIsUp
  <2> QED  BY <2>1, <2>2, <2>3

\* The walker.
<1>13. ASSUME R!TakesTrigger  PROVE  SendInv'
  <2>1. WorkerTyped'
    BY <1>13 DEF R!TakesTrigger, R!Elsewhere
  <2>2. InStages'
    BY <1>13 DEF R!TakesTrigger, R!Elsewhere, InStages
  <2>3. ItsWayIsOpen'
    BY <1>13 DEF R!TakesTrigger, R!Elsewhere, InStages, ItsWayIsOpen, ToBeSent, R!LinkIsUp
  <2> QED  BY <2>1, <2>2, <2>3
<1>14. ASSUME R!Looks  PROVE  SendInv'
  <2>1. WorkerTyped'
    BY <1>14 DEF R!Looks, R!Elsewhere
  <2>2. InStages'
    BY <1>14 DEF R!Looks, R!Elsewhere, InStages
  <2>3. ItsWayIsOpen'
    BY <1>14 DEF R!Looks, R!Elsewhere, InStages, ItsWayIsOpen, ToBeSent, R!LinkIsUp
  <2> QED  BY <2>1, <2>2, <2>3
<1>15. ASSUME R!Passes  PROVE  SendInv'
  <2>1. WorkerTyped'
    BY <1>15 DEF R!Passes, R!Elsewhere
  <2>2. InStages'
    BY <1>15 DEF R!Passes, R!Elsewhere, InStages
  <2>3. ItsWayIsOpen'
    BY <1>15 DEF R!Passes, R!Elsewhere, InStages, ItsWayIsOpen, ToBeSent, R!LinkIsUp
  <2> QED  BY <2>1, <2>2, <2>3

\* The supervisor: while a segment waits it is idle or opens a page, and is not told to end.
<1>16. ASSUME R!LinkStarts  PROVE  SendInv'
  <2>1. WorkerTyped'
    BY <1>16 DEF R!LinkStarts, R!LinkAt, R!Outside
  <2>2. InStages'
    BY <1>16 DEF R!LinkStarts, R!LinkAt, R!Outside, InStages
  <2>3. ItsWayIsOpen'
    BY <1>16 DEF R!LinkStarts, R!LinkAt, R!Outside, InStages, ItsWayIsOpen, ToBeSent, R!LinkIsUp
  <2> QED  BY <2>1, <2>2, <2>3
<1>17. ASSUME R!Rechecks  PROVE  SendInv'
  <2>1. WorkerTyped'
    BY <1>17 DEF R!Rechecks, R!LinkAt, R!Outside
  <2>2. InStages'
    BY <1>17 DEF R!Rechecks, R!LinkAt, R!Outside, InStages
  <2>3. ItsWayIsOpen'
    BY <1>17 DEF R!Rechecks, R!LinkAt, R!Outside, InStages, ItsWayIsOpen, ToBeSent, R!LinkIsUp
  <2> QED  BY <2>1, <2>2, <2>3
<1>18. ASSUME R!Launched  PROVE  SendInv'
  <2>1. WorkerTyped'
    BY <1>18 DEF R!Launched, R!Outside
  <2>2. InStages'
    BY <1>18 DEF R!Launched, R!Outside, InStages
  <2>3. ItsWayIsOpen'
    BY <1>18 DEF R!Launched, R!Outside, InStages, ItsWayIsOpen, ToBeSent, R!LinkIsUp
  <2> QED  BY <2>1, <2>2, <2>3
<1>19. ASSUME R!LaunchFails  PROVE  SendInv'
  <2>1. WorkerTyped'
    BY <1>19 DEF R!LaunchFails, R!LinkAt, R!Outside
  <2>2. InStages'
    BY <1>19 DEF R!LaunchFails, R!LinkAt, R!Outside, InStages
  <2>3. ItsWayIsOpen'
    BY <1>19 DEF R!LaunchFails, R!LinkAt, R!Outside, InStages, ItsWayIsOpen, ToBeSent, R!LinkIsUp
  <2> QED  BY <2>1, <2>2, <2>3
<1>20. ASSUME R!Installs  PROVE  SendInv'
  <2>1. WorkerTyped'
    BY <1>20 DEF R!Installs, R!LinkAt, R!Outside
  <2>2. InStages'
    BY <1>20 DEF R!Installs, R!LinkAt, R!Outside, InStages
  <2>3. ItsWayIsOpen'
    BY <1>20 DEF R!Installs, R!LinkAt, R!Outside, InStages, ItsWayIsOpen, ToBeSent, R!LinkIsUp
  <2> QED  BY <2>1, <2>2, <2>3
<1>21. ASSUME R!Arms  PROVE  SendInv'
  <2>1. WorkerTyped'
    BY <1>21 DEF R!Arms, R!LinkAt, R!Outside
  <2>2. InStages'
    BY <1>21 DEF R!Arms, R!LinkAt, R!Outside, InStages
  <2>3. ItsWayIsOpen'
    BY <1>21 DEF R!Arms, R!LinkAt, R!Outside, InStages, ItsWayIsOpen, ToBeSent, R!LinkIsUp
  <2> QED  BY <2>1, <2>2, <2>3
<1>22. ASSUME R!TakesOpen  PROVE  SendInv'
  <2>1. WorkerTyped'
    BY <1>22 DEF R!TakesOpen, R!LinkAt, R!Outside
  <2>2. InStages'
    BY <1>22 DEF R!TakesOpen, R!LinkAt, R!Outside, InStages
  <2>3. ItsWayIsOpen'
    BY <1>22 DEF R!TakesOpen, R!LinkAt, R!Outside, InStages, ItsWayIsOpen, ToBeSent, R!LinkIsUp
  <2> QED  BY <2>1, <2>2, <2>3
<1>23. ASSUME R!TakesPair  PROVE  SendInv'
  <2>1. WorkerTyped'
    BY <1>23 DEF R!TakesPair, R!LinkAt, R!Outside, R!Excuse
  <2>2. InStages'
    BY <1>23 DEF R!TakesPair, R!LinkAt, R!Outside, R!Excuse, InStages
  <2>3. ItsWayIsOpen'
    BY <1>23 DEF R!TakesPair, R!LinkAt, R!Outside, R!Excuse, InStages, ItsWayIsOpen, ToBeSent, R!LinkIsUp
  <2> QED  BY <2>1, <2>2, <2>3
<1>24. ASSUME R!Opened  PROVE  SendInv'
  <2>1. WorkerTyped'
    BY <1>24 DEF R!Opened, R!LinkAt, R!Outside
  <2>2. InStages'
    BY <1>24 DEF R!Opened, R!LinkAt, R!Outside, InStages
  <2>3. ItsWayIsOpen'
    BY <1>24 DEF R!Opened, R!LinkAt, R!Outside, InStages, ItsWayIsOpen, ToBeSent, R!LinkIsUp
  <2> QED  BY <2>1, <2>2, <2>3
<1>25. ASSUME R!LinkEnds  PROVE  SendInv'
  <2>1. WorkerTyped'
    BY <1>25 DEF R!LinkEnds, R!Outside
  <2>2. InStages'
    BY <1>25 DEF R!LinkEnds, R!Outside, InStages
  <2>3. ItsWayIsOpen'
    BY <1>25 DEF R!LinkEnds, R!Outside, InStages, ItsWayIsOpen, ToBeSent, R!LinkIsUp
  <2> QED  BY <2>1, <2>2, <2>3
<1>26. ASSUME R!CloseOwner  PROVE  SendInv'
  <2>1. WorkerTyped'
    BY <1>26 DEF R!CloseOwner, R!LinkAt, R!Outside
  <2>2. InStages'
    BY <1>26 DEF R!CloseOwner, R!LinkAt, R!Outside, InStages
  <2>3. ItsWayIsOpen'
    BY <1>26 DEF R!CloseOwner, R!LinkAt, R!Outside, InStages, ItsWayIsOpen, ToBeSent, R!LinkIsUp
  <2> QED  BY <2>1, <2>2, <2>3
<1>27. ASSUME R!StopOwner  PROVE  SendInv'
  <2>1. WorkerTyped'
    BY <1>27 DEF R!StopOwner, R!LinkAt, R!Outside
  <2>2. InStages'
    BY <1>27 DEF R!StopOwner, R!LinkAt, R!Outside, InStages
  <2>3. ItsWayIsOpen'
    BY <1>27 DEF R!StopOwner, R!LinkAt, R!Outside, InStages, ItsWayIsOpen, ToBeSent, R!LinkIsUp
  <2> QED  BY <2>1, <2>2, <2>3

\* The pages and the commands.
<1>28. ASSUME R!Pages  PROVE  SendInv'
  BY <1>28, WayStaysOpen DEF R!Pages, R!Enters, R!Opens, R!Beyond
<1>29. ASSUME R!Signalled  PROVE  SendInv'
  BY <1>29, WayStaysOpen DEF R!Signalled, R!Signalled
<1>30. ASSUME R!PanelOpens  PROVE  SendInv'
  BY <1>30, WayStaysOpen DEF R!PanelOpens, R!Beyond
<1>31. ASSUME NEW kind \in {"open", "pair"}, R!WindowAsks(kind)  PROVE  SendInv'
  BY <1>31, WayStaysOpen DEF R!WindowAsks, R!Beyond
<1>32. ASSUME UNCHANGED R!rvars  PROVE  SendInv'
  BY <1>32, WayStaysOpen DEF R!rvars
<1> QED  BY <1>1, <1>2, <1>3, <1>4, <1>5, <1>6, <1>7, <1>8, <1>9, <1>10, <1>11, <1>12, <1>13, <1>14, <1>15,
       <1>16, <1>17, <1>18, <1>19, <1>20, <1>21, <1>22, <1>23, <1>24, <1>25, <1>26, <1>27, <1>28, <1>29,
       <1>30, <1>31, <1>32 DEF R!Next, R!Main, R!Walk, R!Link

-----------------------------------------------------------------------------
(* What is counted *)

RuntimeBounds == MaxOwners \in Nat /\ MaxCommands \in Nat

\* What is counted stays within its bound.
Counted ==
  /\ owners <= MaxOwners /\ main.of <= owners /\ armed \in 0..owners /\ carried \in 0..owners
  /\ commands \in [{"open", "pair"} -> Nat] /\ asked \in 0..MaxCommands
  /\ commands["open"] + commands["pair"] <= asked
  /\ handlers \subseteq {"shell", "kept"}

LEMMA CountedInit == ASSUME RuntimeBounds, R!Init  PROVE Counted
BY DEF RuntimeBounds, R!Init, Counted

\* Steps that count nothing.
LEMMA CountedStays ==
  ASSUME Counted, UNCHANGED <<owners, commands, asked>>, main'.of = main.of, armed' \in {armed, 0}, carried' \in {carried, 0},
         owners \in Nat, handlers' \subseteq handlers
  PROVE  Counted'
BY DEF Counted

LEMMA CountedStep == ASSUME RuntimeBounds, GateInv, Counted, [R!Next]_(R!rvars)  PROVE Counted'
<1>0. main \in MainRecord /\ link \in LinkRecord /\ gate \in GateRecord /\ owners \in Nat /\ gate.current <= owners /\ link.owner <= owners
  BY DEF GateInv, RuntimeShaped, Numbered
<1>1. ASSUME R!Initialized \/ R!Leaves \/ R!LoopFails \/ R!CloseGate \/ R!DesktopDown \/ R!ObserverDown
         \/ R!SyncTold \/ R!Drained \/ R!CutsWalker \/ R!TellsLink \/ R!Joined  PROVE Counted'
  <2>1. main'.of = main.of
    BY <1>0, <1>1 DEF R!Initialized, R!Leaves, R!LoopFails, R!Leaving, R!CloseGate, R!DesktopDown,
       R!ObserverDown, R!SyncTold, R!Drained, R!CutsWalker, R!TellsLink, R!Joined, R!At, MainRecord
  <2>2. UNCHANGED <<owners, commands, asked, armed, carried>> /\ handlers' \subseteq handlers
    BY <1>1 DEF R!Initialized, R!Leaves, R!LoopFails, R!Leaving, R!CloseGate, R!DesktopDown, R!ObserverDown,
       R!SyncTold, R!Drained, R!CutsWalker, R!TellsLink, R!Joined, R!Others
  <2> QED  BY <1>0, <2>1, <2>2, CountedStays
<1>2. ASSUME R!ReadCurrent  PROVE Counted'
  <2>1. main'.of = gate.current /\ UNCHANGED <<owners, commands, asked, armed, carried, handlers>>
    BY <1>2 DEF R!ReadCurrent, R!Others
  <2> QED  BY <1>0, <2>1 DEF Counted
<1>3. ASSUME R!Walk \/ R!Signalled  PROVE Counted'
  BY <1>0, <1>3, CountedStays DEF R!Walk, R!TakesTrigger, R!Looks, R!Passes, R!Elsewhere, R!Signalled
<1>4. ASSUME R!LinkStarts \/ R!Rechecks \/ R!Installs \/ R!Opened \/ R!LinkEnds \/ R!CloseOwner \/ R!StopOwner  PROVE Counted'
  BY <1>0, <1>4, CountedStays DEF R!LinkStarts, R!Rechecks, R!Installs, R!Opened, R!LinkEnds, R!CloseOwner,
     R!StopOwner, R!Outside
<1>5. ASSUME R!Launched  PROVE Counted'
  <2>1. owners' = owners + 1 /\ carried' = owners + 1 /\ owners < MaxOwners /\ UNCHANGED <<main, commands, asked, armed, handlers>>
    BY <1>5 DEF R!Launched, R!Outside
  <2> QED  BY <1>0, <2>1 DEF Counted, RuntimeBounds, MainRecord
<1>6. ASSUME R!LaunchFails  PROVE Counted'
  <2>1. owners' = (IF owners < MaxOwners THEN owners + 1 ELSE owners) /\ UNCHANGED <<main, commands, asked, armed, carried, handlers>>
    BY <1>6 DEF R!LaunchFails, R!Outside
  <2> QED  BY <1>0, <2>1 DEF Counted, RuntimeBounds, MainRecord
<1>7. ASSUME R!Arms  PROVE Counted'
  <2>1. armed' = link.owner /\ UNCHANGED <<main, commands, asked, carried, handlers, owners>>
    BY <1>7 DEF R!Arms, R!Outside
  <2> QED  BY <1>0, <2>1 DEF Counted, LinkRecord
<1>8. ASSUME R!TakesOpen \/ R!TakesPair  PROVE Counted'
  <2>1. PICK kind \in {"open", "pair"} : commands[kind] > 0 /\ commands' = [commands EXCEPT ![kind] = @ - 1]
    BY <1>8 DEF R!TakesOpen, R!TakesPair
  <2>2. armed' \in {armed, 0} /\ UNCHANGED <<main, asked, carried, handlers, owners>>
    BY <1>8 DEF R!TakesOpen, R!TakesPair, R!Outside
  <2> QED  BY <1>0, <2>1, <2>2 DEF Counted
<1>9. ASSUME R!Pages \/ UNCHANGED R!rvars  PROVE Counted'
  BY <1>0, <1>9, CountedStays DEF R!Pages, R!Enters, R!Opens, R!Beyond, R!rvars
<1>10. ASSUME R!PanelOpens  PROVE Counted'
  <2>1. asked' = asked + 1 /\ asked < MaxCommands /\ UNCHANGED <<main, commands, armed, carried, handlers, owners>>
    BY <1>10 DEF R!PanelOpens, R!Beyond
  <2> QED  BY <2>1 DEF Counted, RuntimeBounds
<1>11. ASSUME NEW kind \in {"open", "pair"}, R!WindowAsks(kind)  PROVE Counted'
  <2>1. asked' = asked + 1 /\ asked < MaxCommands /\ commands' = [commands EXCEPT ![kind] = @ + 1] /\ UNCHANGED <<main, armed, carried, handlers, owners>>
    BY <1>11 DEF R!WindowAsks, R!Beyond
  <2> QED  BY <2>1 DEF Counted, RuntimeBounds
<1> QED  BY <1>1, <1>2, <1>3, <1>4, <1>5, <1>6, <1>7, <1>8, <1>9, <1>10, <1>11 DEF R!Next, R!Main, R!Link

LEMMA RuntimeTyped == ASSUME RuntimeBounds, GateInv, SendInv, Counted  PROVE R!TypeOK
<1>1. \A n \in Nat : n <= owners => n \in {0} \cup R!Owners
  BY DEF Counted, R!Owners, RuntimeBounds, GateInv, RuntimeShaped
<1>2. main \in [at : {"starting", "loop", "gate", "closing", "desktop", "observer", "sync", "drain",
                     "notify", "join", "ended"}, of : {0} \cup R!Owners]
  BY <1>1 DEF GateInv, RuntimeShaped, Counted, MainRecord, Stages, EarlyStages
<1>3. link \in [at : {"starting", "idle", "opening", "closing", "stopping", "launching", "installing", "arming",
                     "ended"}, owner : {0} \cup R!Owners, then : {"end", "replace"}, blocked : BOOLEAN]
  BY <1>1 DEF GateInv, RuntimeShaped, Numbered, LinkRecord
<1>4. page \in [R!Openers -> [at : {"no", "cloned", "opening"}, of : {0} \cup R!Owners]]
  BY <1>1 DEF GateInv, RuntimeShaped, Numbered, PageRecord
<1>5. commands \in [{"open", "pair"} -> 0..MaxCommands] /\ handlers \subseteq {"shell", "kept"}
  BY DEF Counted, RuntimeBounds
<1>6. gate.open \subseteq R!Owners /\ {gate.current, armed, carried} \subseteq {0} \cup R!Owners
  BY <1>1 DEF GateInv, RuntimeShaped, Numbered, OnlyTheInstalled, LinkRecord, GateRecord, Counted, R!Owners
<1> QED  BY <1>2, <1>3, <1>4, <1>5, <1>6 DEF R!TypeOK, SendInv, WorkerTyped

-----------------------------------------------------------------------------
(* The components together *)

RuntimeInv == GateInv /\ SendInv /\ Counted

EventualInv == PairingInv /\ RuntimeInv /\ A!TypeOK

LEMMA EventualConstants == RuntimeBounds /\ AudioBounds
BY EventualAssumption DEF RuntimeBounds, AudioBounds

LEMMA EventualInvInit == EventualInit => EventualInv
<1> SUFFICES ASSUME EventualInit  PROVE EventualInv
  OBVIOUS
<1>1. Init /\ R!Init /\ A!Init
  BY DEF EventualInit
<1>2. RuntimeInv
  BY <1>1, EventualConstants, GateInit, SendInit, CountedInit DEF RuntimeInv
<1> QED  BY <1>1, <1>2, EventualConstants, PairingInvInit, AudioTypeInit DEF EventualInv

\* A step is one of a component, or leaves it as it is.
LEMMA EventualSteps ==
  ASSUME [EventualNext]_EventualVars
  PROVE  [Next]_pvars /\ [R!Next]_(R!rvars) /\ [A!Next]_(A!avars)
<1>1. UNCHANGED RVars => UNCHANGED R!rvars
  BY DEF RVars, R!rvars
<1>2. UNCHANGED AVars => UNCHANGED A!avars
  BY DEF AVars, A!avars
<1>3. UNCHANGED EventualVars => UNCHANGED <<pvars, RVars, AVars>>
  BY DEF EventualVars
<1> QED  BY <1>1, <1>2, <1>3 DEF EventualNext

LEMMA EventualInvNext == EventualInv /\ [EventualNext]_EventualVars => EventualInv'
<1> SUFFICES ASSUME EventualInv, [EventualNext]_EventualVars  PROVE EventualInv'
  OBVIOUS
<1>1. RuntimeInv'
  BY EventualSteps, EventualConstants, GateStep, SendStep, CountedStep DEF EventualInv, RuntimeInv
<1>2. A!TypeOK'
  BY EventualSteps, EventualConstants, AudioTypeNext DEF EventualInv
<1> QED  BY <1>1, <1>2, EventualSteps, PairingInvNext DEF EventualInv

LEMMA EventualInvHolds == EventualSpec => []EventualInv
BY EventualInvInit, EventualInvNext, PTL DEF EventualSpec

\* Each component's state keeps its types: the files, the app and the commands of a pairing
\* (window_control.rs, cli.rs), the threads, owners and gates of the app (run.rs,
\* private_link.rs), and the worker of the sound with its counter (audio/pulse.rs).
THEOREM EventualTypeCorrect == EventualSpec => []EventualTypeOK
<1>1. EventualInv => EventualTypeOK
  BY EventualConstants, RetireInvTyped, RuntimeTyped
  DEF EventualInv, PairingInv, RuntimeInv, EventualTypeOK
<1> QED  BY <1>1, EventualInvHolds, PTL

\* A stop takes things down in order (run_event_loop's end in run.rs): the segment it finishes
\* is delivered before the app has ended, unless there was no link for it or the walker was cut
\* short, and once close_gate has shut the gate of the owner it found installed no page of the
\* journal is opened but that of an owner installed later: for any number of owners and commands.
THEOREM StopsInOrder == EventualSpec => []StopIsOrderly
<1>1. EventualInv => R!LastSegmentIsSent
  BY DEF EventualInv, RuntimeInv, SendInv, ItsWayIsOpen, R!LastSegmentIsSent
<1>2. EventualInv => R!NothingOpensLate
  BY DEF EventualInv, RuntimeInv, GateInv, RuntimeShaped, Numbered, OnlyTheInstalled, OnlyTheFresh,
         OpenersHold, R!NothingOpensLate, Starting
<1> QED  BY <1>1, <1>2, EventualInvHolds, PTL DEF StopIsOrderly

\* A registration is not given back while it is the confirmed one (retire_candidate and a commit
\* that failed in window_control.rs, the ends of setup and confirm in cli.rs), whatever writes
\* fail and whoever is killed.
THEOREM ConfirmedStaysRegistered == EventualSpec => RetiredIsNotConfirmed
<1>1. EventualInv /\ [EventualNext]_EventualVars => [ConfirmedIsNotRetired]_pvars
  BY EventualSteps, PairingInvNext DEF EventualInv
<1> QED  BY <1>1, EventualInvHolds, PTL DEF EventualSpec, RetiredIsNotConfirmed
==============================================================================
