------------------------------ MODULE Pairing ------------------------------
(* Which journal this computer is paired with, and who said so                *)
(* (src/window_control.rs, journal_mark.rs, private_link.rs, cli.rs).         *)
(*                                                                            *)
(* Four files decide: the credential, the owner's answer (the pairing whose   *)
(* mark the owner confirmed), an intent that stands while the window commits, *)
(* and a note that the owner went on without a mark.  Three programs write    *)
(* them: the app's supervisor, `setup` and `confirm`.  `setup` and the app    *)
(* exclude each other by the private state lock; every writer holds the       *)
(* answer lock, here `commit`, the one series of writes under way.            *)
(* A write is done, or fails without a trace, or fails after its rename.      *)
EXTENDS Integers

CONSTANTS
  Pairings,    \* the registrations a journal can make for this computer
  Unread,      \* of these: no CA can be read from the chain, so no mark
  OldStored,   \* of these: one may have been stored by an older build
  MaxFaults,   \* bound: failed writes, failed stops, crashes and kills
  Nil

\* The writes of the series, and the records of the lock's holders.
Writes == {"grandfather", "hold", "claim", "intent", "cred", "keep", "note", "answer", "finish"}
Holders == [who : {"app", "setup", "confirm"}, id : Pairings \cup {Nil}, at : Writes \cup {"done"}, ok : BOOLEAN]

\* No pairing is named like the words for "no answer"; Nil is no pairing and no holder.
ASSUME PairingAssumption ==
  /\ OldStored \subseteq Pairings /\ "absent" \notin Pairings \cup {Nil}
  /\ Nil \notin Pairings \cup Holders

VARIABLES
  disk,      \* the four files
  minted,    \* registrations a journal has made
  retired,   \* registrations this computer has asked a journal to delete
  yes,       \* pairings the owner has said yes to
  app,       \* the supervisor
  setup,     \* a run of `solstone-linux setup`
  confirm,   \* a run of `solstone-linux confirm`
  commit,    \* the holder of the answer lock and the write it is at, or Nil
  faults

pvars == <<disk, minted, retired, yes, app, setup, confirm, commit, faults>>

Off == [at |-> "off", id |-> Nil, stood |-> FALSE]

Down == [at |-> "down", cand |-> Nil, owner |-> Nil, blocked |-> FALSE,
         failed |-> Nil, durable |-> "unavailable"]

\* A credential kept by an older build may name another journal than the one
\* its CA shows; it has no answer beside it.
Init ==
  /\ disk \in [cred : {Nil} \cup [id : OldStored, sound : BOOLEAN],
               answer : {"absent"}, intent : {"no"}, noted : {Nil}]
  /\ minted = IF disk.cred = Nil THEN {} ELSE {disk.cred.id}
  /\ yes = minted /\ retired = {}
  /\ app = Down /\ setup = Off /\ confirm = Off /\ commit = Nil /\ faults = 0

Fault == faults < MaxFaults /\ faults' = faults + 1
NoFault == UNCHANGED faults

-----------------------------------------------------------------------------
(* Reading the files *)

Holds(d, p) == d.cred # Nil /\ d.cred.id = p

\* A standing intent holds everything back, whatever the other files say.
Confirmed(d) ==
  /\ d.cred # Nil /\ d.intent # "yes"
  /\ d.answer \notin {"absent", "empty"} /\ d.answer = d.cred.id

DurableOnDisk(d) ==
  IF d.intent = "yes" THEN "held"
  ELSE IF d.cred = Nil THEN "unpaired"
  ELSE IF Confirmed(d) THEN "confirmed" ELSE "held"

-----------------------------------------------------------------------------
(* A series of writes under the answer lock *)

\* The first start of a build that asks: a pairing stored before it is taken
\* as answered, and from then on an answer file exists.
Grandfathered(d) ==
  [d EXCEPT !.answer = IF d.cred = Nil THEN "empty" ELSE d.cred.id]

MayStand(d) ==
  IF d.cred = Nil THEN TRUE
  ELSE IF d.cred.id \in Unread THEN d.noted = d.cred.id ELSE d.cred.sound

\* What the write at `c` leaves, and the write that follows it.
Written(d, c) ==
  CASE c.at = "grandfather" -> Grandfathered(d)
    [] c.at = "hold"   -> [d EXCEPT !.answer = "empty"]
    [] c.at = "claim"  -> [d EXCEPT !.cred.sound = TRUE]
    [] c.at = "intent" -> [d EXCEPT !.intent = "yes"]
    [] c.at \in {"cred", "keep"} -> [d EXCEPT !.cred = [id |-> c.id, sound |-> TRUE]]
    [] c.at = "note"   -> [d EXCEPT !.noted = c.id]
    [] c.at = "answer" -> [d EXCEPT !.answer = c.id]
    [] c.at = "finish" -> [d EXCEPT !.intent = "no"]

\* The order of the writes of each series.
Follows(at) ==
  CASE at = "grandfather" -> "hold" [] at = "hold" -> "claim"
    [] at = "intent" -> "cred" [] at = "cred" -> "note"
    [] at = "note" -> "answer" [] at = "answer" -> "finish"
    [] OTHER -> "done"

\* Mutant of Skipped: every chain is noted as one that cannot be read.
SkippedButNotes(d, c) ==
  CASE c.at = "grandfather" -> d.answer # "absent"
    [] c.at = "hold" -> MayStand(d)
    [] c.at = "claim" -> MayStand(d) \/ d.cred.id \in Unread
    [] c.at = "finish" -> d.intent # "yes"
    [] OTHER -> FALSE

\* A write with nothing to do is passed over.
Skipped(d, c) ==
  CASE c.at = "grandfather" -> d.answer # "absent"
    [] c.at = "hold" -> MayStand(d)
    [] c.at = "claim" -> MayStand(d) \/ d.cred.id \in Unread
    [] c.at = "note" -> c.id \notin Unread
    [] c.at = "finish" -> d.intent # "yes"
    [] OTHER -> FALSE

Lock(who, p, at) == commit = Nil /\ commit' = [who |-> who, id |-> p, at |-> at, ok |-> TRUE]

\* finish_pairing_commit looks at both files again before the intent goes.
Removable == Holds(disk, commit.id) /\ disk.answer = commit.id

WriteStep ==
  /\ commit # Nil /\ commit.at # "done"
  /\ \/ /\ Skipped(disk, commit) = TRUE
        /\ commit' = [commit EXCEPT !.at = Follows(@)] /\ UNCHANGED disk /\ NoFault
     \/ /\ ~Skipped(disk, commit) /\ (commit.at = "finish" => Removable)
        /\ disk' = Written(disk, commit) /\ commit' = [commit EXCEPT !.at = Follows(@)] /\ NoFault
     \/ /\ ~Skipped(disk, commit)
        /\ commit' = [commit EXCEPT !.at = "done", !.ok = FALSE] /\ UNCHANGED disk
        /\ IF commit.at = "finish" /\ ~Removable THEN NoFault ELSE Fault
     \/ \* the rename is made, the directory cannot be synced: the intent may
        \* come back with a loss of power
        /\ ~Skipped(disk, commit) /\ (commit.at = "finish" => Removable)
        /\ disk' = IF commit.at = "finish" THEN [disk EXCEPT !.intent = "unsynced"]
                   ELSE Written(disk, commit)
        /\ commit' = [commit EXCEPT !.at = "done", !.ok = FALSE] /\ Fault
  /\ UNCHANGED <<minted, retired, yes, app, setup, confirm>>

\* Mutant of LockAndGrandfather: setup does not look for an older pairing first.
LockWithoutGrandfather(who) ==
  Lock(who, Nil, IF disk.intent = "yes" \/ who = "setup" THEN "done" ELSE "grandfather")

\* grandfather_answer_file does nothing while an intent stands.
LockAndGrandfather(who) ==
  Lock(who, Nil, IF disk.intent = "yes" THEN "done" ELSE "grandfather")

Ended(who) == commit # Nil /\ commit.who = who /\ commit.at = "done" /\ commit' = Nil

-----------------------------------------------------------------------------
(* The supervisor *)

Idle == app.at = "running"

AppStart ==
  /\ app.at = "down" /\ setup.at = "off"
  /\ LockAndGrandfather("app")
  /\ app' = [app EXCEPT !.at = "starting"] /\ NoFault
  /\ UNCHANGED <<disk, minted, retired, yes, setup, confirm>>

\* An owner is started for p, or cannot be and is not tried again.
Started(a, p) ==
  {[a EXCEPT !.owner = p, !.failed = Nil, !.durable = "confirmed", !.at = "running"],
   [a EXCEPT !.failed = p, !.durable = "confirmed", !.at = "running"]}

\* The error of the first writes is dropped; what counts is what is read next.
AppStarted ==
  /\ app.at = "starting" /\ Ended("app")
  /\ app' \in IF Confirmed(disk) THEN Started(app, disk.cred.id)
              ELSE {[app EXCEPT !.at = "running", !.durable = DurableOnDisk(disk)]}
  /\ NoFault /\ UNCHANGED <<disk, minted, retired, yes, setup, confirm>>

\* Mutant of RecheckCliConfirm: an owner that could not be stopped is forgotten.
RecheckUnblocked ==
  /\ Idle /\ app.owner = Nil
  /\ Confirmed(disk) /\ app.failed # disk.cred.id
  /\ app' \in Started(app, disk.cred.id)
  /\ NoFault /\ UNCHANGED <<disk, minted, retired, yes, setup, confirm, commit>>

\* Mutant of RecheckCliConfirm: only a pairing that was held is looked at again.
RecheckHeldOnly ==
  /\ Idle /\ app.owner = Nil /\ ~app.blocked /\ app.durable = "held"
  /\ Confirmed(disk) /\ app.failed # disk.cred.id
  /\ app' \in Started(app, disk.cred.id)
  /\ NoFault /\ UNCHANGED <<disk, minted, retired, yes, setup, confirm, commit>>

\* Every minute: a pairing confirmed in a terminal takes effect.
RecheckCliConfirm ==
  /\ Idle /\ app.owner = Nil /\ ~app.blocked
  /\ \/ /\ Confirmed(disk) /\ app.failed # disk.cred.id
        /\ app' \in Started(app, disk.cred.id)
     \/ /\ DurableOnDisk(disk) = "unpaired" /\ app.durable = "held"
        /\ app' = [app EXCEPT !.durable = "unpaired"]
  /\ NoFault /\ UNCHANGED <<disk, minted, retired, yes, setup, confirm, commit>>

Candidates == {app.cand} \ {Nil}

\* A new attempt gives up the one before it; pairing fails, or the mark cannot
\* be shown, or the owner is asked.
BeginPairing ==
  /\ Idle
  /\ \/ app' = [app EXCEPT !.cand = Nil] /\ retired' = retired \cup Candidates /\ UNCHANGED minted
     \/ \E p \in Pairings \ minted :
          /\ minted' = minted \cup {p}
          /\ \/ app' = [app EXCEPT !.cand = Nil] /\ retired' = retired \cup Candidates \cup {p}
             \/ app' = [app EXCEPT !.cand = p] /\ retired' = retired \cup Candidates
  /\ NoFault /\ UNCHANGED <<disk, yes, setup, confirm, commit>>

\* The journal is asked to forget the candidate; its answer changes nothing.
RetireCandidate ==
  /\ Idle /\ app.cand # Nil
  /\ app' = [app EXCEPT !.cand = Nil] /\ retired' = retired \cup Candidates
  /\ NoFault /\ UNCHANGED <<disk, minted, yes, setup, confirm, commit>>

NotCommitted(a, failed) ==
  [a EXCEPT !.cand = Nil, !.at = "running", !.failed = failed, !.owner = Nil,
            !.durable = IF failed # a.failed THEN "unavailable" ELSE DurableOnDisk(disk)]

CheckExpiry == RetireCandidate
CancelPairing == RetireCandidate       \* or the window went away
RejectPairing == RetireCandidate       \* or its mark is no longer the one shown

\* The old owner is stopped first; one that cannot be stopped blocks every
\* later owner of this process.
Accept(p) ==
  /\ yes' = yes \cup {p}
  /\ \/ /\ ~app.blocked /\ NoFault /\ UNCHANGED <<minted, retired>>
        /\ \/ Lock("app", p, "intent")
              /\ app' = [app EXCEPT !.owner = Nil, !.cand = p, !.at = "committing"]
           \/ commit # Nil /\ UNCHANGED commit   \* the lock is not got in time
              /\ app' = NotCommitted(app, app.failed)
     \/ /\ \/ app.blocked /\ NoFault
           \/ app.owner # Nil /\ Fault
        /\ app' = [app EXCEPT !.owner = Nil, !.blocked = TRUE, !.cand = Nil]
        /\ retired' = retired \cup {p} /\ UNCHANGED <<minted, commit>>

AnswerPairing ==
  /\ Idle /\ app.cand # Nil /\ Accept(app.cand)
  /\ UNCHANGED <<disk, setup, confirm>>

\* The owner pressed connect on the journal found on this computer: only while
\* no pairing is stored or asked about.
ConnectLocalJournal ==
  /\ Idle /\ app.cand = Nil /\ app.owner = Nil /\ DurableOnDisk(disk) = "unpaired"
  /\ \E p \in Pairings \ (minted \cup Unread) :
       /\ minted' = minted \cup {p}
       /\ \/ /\ ~app.blocked /\ Lock("app", p, "intent") /\ yes' = yes \cup {p}
             /\ app' = [app EXCEPT !.cand = p, !.at = "committing"] /\ UNCHANGED retired
          \/ \* not proved, or an owner could not be stopped before
             retired' = retired \cup {p} /\ UNCHANGED <<app, yes, commit>>
  /\ NoFault /\ UNCHANGED <<disk, setup, confirm>>

Uncertain == disk.intent = "unsynced"

\* Mutant of CommitEnds: a candidate that was not committed is retired.
CommitEndsAndRetires ==
  /\ app.at = "committing" /\ Ended("app")
  /\ app' \in IF commit.ok THEN Started([app EXCEPT !.cand = Nil], commit.id)
              ELSE {NotCommitted(app, IF Uncertain THEN commit.id ELSE app.failed)}
  /\ retired' = IF commit.ok THEN retired ELSE retired \cup Candidates
  /\ NoFault /\ UNCHANGED <<disk, minted, yes, setup, confirm>>

CommitEnds ==
  /\ app.at = "committing" /\ Ended("app")
  /\ app' \in IF commit.ok THEN Started([app EXCEPT !.cand = Nil], commit.id)
              ELSE {NotCommitted(app, IF Uncertain THEN commit.id ELSE app.failed)}
  /\ NoFault /\ UNCHANGED <<disk, minted, retired, yes, setup, confirm>>

Shutdown ==
  /\ Idle /\ app' = Down /\ retired' = retired \cup Candidates
  /\ NoFault /\ UNCHANGED <<disk, minted, yes, setup, confirm, commit>>

Released(who) == IF commit # Nil /\ commit.who = who THEN Nil ELSE commit

\* With the power gone, a removal that was not synced may be undone.
AppCrash ==
  /\ app.at # "down" /\ Fault
  /\ app' = Down /\ commit' = Released("app")
  /\ disk' \in {disk} \cup (IF disk.intent = "unsynced"
                            THEN {[disk EXCEPT !.intent = i] : i \in {"yes", "no"}} ELSE {})
  /\ UNCHANGED <<minted, retired, yes, setup, confirm>>

-----------------------------------------------------------------------------
(* solstone-linux setup *)

SetupStart ==
  /\ setup.at = "off" /\ app.at = "down"
  /\ LockAndGrandfather("setup")
  /\ setup' = [Off EXCEPT !.at = "starting"]
  /\ NoFault /\ UNCHANGED <<disk, minted, retired, yes, app, confirm>>

SetupPairs ==
  /\ setup.at = "starting" /\ Ended("setup")
  /\ \/ setup' = Off /\ UNCHANGED minted
     \/ \E p \in Pairings \ minted :
          /\ commit.ok /\ minted' = minted \cup {p}
          /\ setup' = [Off EXCEPT !.at = "asking", !.id = p]
  /\ NoFault /\ UNCHANGED <<disk, retired, yes, app, confirm>>

\* The words given match, or the owner says yes at the terminal.
SetupAccepts ==
  /\ setup.at = "asking" /\ Lock("setup", setup.id, "cred")
  /\ setup' = [setup EXCEPT !.at = "writing"] /\ yes' = yes \cup {setup.id}
  /\ NoFault /\ UNCHANGED <<disk, minted, retired, app, confirm>>

SetupRefuses ==
  /\ setup.at = "asking" /\ commit = Nil
  /\ setup' = Off /\ retired' = retired \cup {setup.id}
  /\ NoFault /\ UNCHANGED <<disk, minted, yes, app, confirm, commit>>

\* Nobody answers: the lock is taken to look, given back, and taken again.
SetupLooks ==
  /\ setup.at = "asking" /\ commit = Nil
  /\ setup' = [setup EXCEPT !.at = "walked", !.stood = Confirmed(disk)]
  /\ NoFault /\ UNCHANGED <<disk, minted, retired, yes, app, confirm, commit>>

SetupWalksAway ==
  /\ setup.at = "walked"
  /\ IF setup.stood
     THEN /\ commit = Nil /\ setup' = Off /\ retired' = retired \cup {setup.id} /\ UNCHANGED commit
     ELSE /\ Lock("setup", setup.id, "keep") /\ setup' = [setup EXCEPT !.at = "writing"]
          /\ UNCHANGED retired
  /\ NoFault /\ UNCHANGED <<disk, minted, yes, app, confirm>>

SetupEnds ==
  /\ setup.at = "writing" /\ Ended("setup") /\ setup' = Off
  /\ NoFault /\ UNCHANGED <<disk, minted, retired, yes, app, confirm>>

SetupKilled ==
  /\ setup.at # "off" /\ Fault /\ setup' = Off /\ commit' = Released("setup")
  /\ UNCHANGED <<disk, minted, retired, yes, app, confirm>>

-----------------------------------------------------------------------------
(* solstone-linux confirm *)

ConfirmStart ==
  /\ confirm.at = "off" /\ LockAndGrandfather("confirm")
  /\ confirm' = [Off EXCEPT !.at = "starting"]
  /\ NoFault /\ UNCHANGED <<disk, minted, retired, yes, app, setup>>

\* Nothing to ask about, or the lock is given back for the question.
ConfirmAsks ==
  /\ confirm.at = "starting" /\ Ended("confirm")
  /\ confirm' = IF commit.ok /\ disk.cred # Nil /\ ~Confirmed(disk)
                THEN [Off EXCEPT !.at = "asking", !.id = disk.cred.id] ELSE Off
  /\ NoFault /\ UNCHANGED <<disk, minted, retired, yes, app, setup>>

\* Between the question and the answer another pairing may have come.
ConfirmAccepts ==
  /\ confirm.at = "asking"
  /\ IF Holds(disk, confirm.id)
     THEN /\ Lock("confirm", confirm.id, "note") /\ yes' = yes \cup {confirm.id}
          /\ confirm' = [confirm EXCEPT !.at = "writing"]
     ELSE commit = Nil /\ confirm' = Off /\ UNCHANGED <<yes, commit>>
  /\ NoFault /\ UNCHANGED <<disk, minted, retired, app, setup>>

ConfirmRefuses ==
  /\ confirm.at = "asking"
  /\ confirm' = [confirm EXCEPT !.at = "refused"] /\ retired' = retired \cup {confirm.id}
  /\ NoFault /\ UNCHANGED <<disk, minted, yes, app, setup, commit>>

ConfirmDrops ==
  /\ confirm.at = "refused" /\ commit = Nil /\ confirm' = Off
  /\ disk' = IF Holds(disk, confirm.id) THEN [disk EXCEPT !.cred = Nil] ELSE disk
  /\ NoFault /\ UNCHANGED <<minted, retired, yes, app, setup, commit>>

ConfirmEnds ==
  /\ \/ confirm.at = "writing" /\ Ended("confirm")
     \/ confirm.at = "asking" /\ UNCHANGED commit      \* the owner walks away
  /\ confirm' = Off /\ NoFault /\ UNCHANGED <<disk, minted, retired, yes, app, setup>>

ConfirmKilled ==
  /\ confirm.at # "off" /\ Fault /\ confirm' = Off /\ commit' = Released("confirm")
  /\ UNCHANGED <<disk, minted, retired, yes, app, setup>>

-----------------------------------------------------------------------------
Next ==
  \/ WriteStep
  \/ AppStart \/ AppStarted \/ RecheckCliConfirm \/ BeginPairing \/ CheckExpiry
  \/ CancelPairing \/ RejectPairing \/ AnswerPairing \/ ConnectLocalJournal \/ CommitEnds \/ Shutdown \/ AppCrash
  \/ SetupStart \/ SetupPairs \/ SetupAccepts \/ SetupRefuses \/ SetupLooks
  \/ SetupWalksAway \/ SetupEnds \/ SetupKilled
  \/ ConfirmStart \/ ConfirmAsks \/ ConfirmAccepts \/ ConfirmRefuses \/ ConfirmDrops
  \/ ConfirmEnds \/ ConfirmKilled

Spec == Init /\ [][Next]_pvars

\* The writes of a series come to an end, the supervisor is never kept from going on,
\* and the recheck is due every minute.
Fairness ==
  /\ WF_pvars(WriteStep) /\ WF_pvars(AppStarted) /\ WF_pvars(CommitEnds)
  /\ WF_pvars(RecheckCliConfirm)

-----------------------------------------------------------------------------
(* What must hold *)

TypeOK ==
  /\ disk.cred = Nil \/ disk.cred \in [id : Pairings, sound : BOOLEAN]
  /\ disk.answer \in Pairings \cup {"absent", "empty"}
  /\ disk.intent \in {"no", "yes", "unsynced"} /\ disk.noted \in Unread \cup {Nil}
  /\ retired \subseteq minted /\ minted \subseteq Pairings /\ yes \subseteq minted
  /\ app.at \in {"down", "starting", "running", "committing"}
  /\ app.cand \in minted \cup {Nil} /\ app.owner \in minted \cup {Nil}
  /\ commit \in Holders \cup {Nil}

\* Whatever stops, fails or is killed on the way, the pairing the files call
\* confirmed is one the owner has said yes to.
ConfirmedIsAccepted == Confirmed(disk) => disk.cred.id \in yes

\* The running owner is for a pairing the owner said yes to, and it is alone:
\* none runs beside one that could not be stopped.
OwnerIsAccepted == app.owner # Nil => app.owner \in yes /\ ~app.blocked

\* A registration that is the confirmed one is not retired.
ConfirmedIsNotRetired ==
  \A p \in retired' \ retired : ~(Confirmed(disk) /\ Holds(disk, p))

\* A confirmed pairing the running app has still to take up: it runs no owner, it has not
\* tried this one and failed, and it can still start one.
Untaken ==
  /\ Confirmed(disk) /\ app.at # "down" /\ app.owner = Nil
  /\ ~app.blocked /\ app.failed # disk.cred.id

\* A setup the owner walked away from leaves a confirmed pairing in its place.
WalkAwayKeepsPairing ==
  [][commit # Nil /\ commit.at = "keep" => ~Confirmed(disk) \/ disk'.cred = disk.cred]_pvars
=============================================================================
