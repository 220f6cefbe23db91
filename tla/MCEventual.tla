----------------------------- MODULE MCEventual -----------------------------
(* What must come about in four components that are checked without the      *)
(* others: the delivery of what a crash or a late answer left behind, the     *)
(* taking up of a confirmed pairing, the end of an app that is stopped, and   *)
(* the recording of the sound there is.                                       *)
(* Which of them runs is chosen at the start.  Constants and composition only. *)
EXTENDS Pairing

CONSTANTS p1, p2, s1, n1, c1, c2, Absent, NoOne, NoSegment, x2, MaxOwners, MaxCommands,
          Selections, NoSource, Limit, MaxChanges, MaxMishaps

ASSUME EventualAssumption ==
  /\ MaxOwners \in Nat /\ MaxCommands \in Nat /\ MaxChanges \in Nat /\ MaxMishaps \in Nat
  /\ Limit \in Nat /\ NoSource \notin Selections

VARIABLES
  part,
  place, payloads, ack, retry, cutover, assoc, inflight, held, withdrawn,
  pc, seen, todo, seg, from, pre, req, attempt, listing, floors, taken, edits,
  main, stopped, waiting, walker, trigger, running, link, commands, handlers, told, gate, page,
  armed, carried, asked, owners, notes,
  sound, notices, worker, counter, heard, halted, changed, mishaps

D == INSTANCE Delivery WITH Segments <- {s1}, Names <- {n1}, Contents <- {c1, c2}, Empty <- c2, Pairings <- {p1, p2},
                            MaxEpoch <- 2, MaxEdits <- 0, MaxAttempts <- 2, MaxInFlight <- 2, disk <- payloads

R == INSTANCE Runtime

A == INSTANCE Audio WITH told <- heard

DVars == <<place, payloads, ack, retry, cutover, assoc, inflight, held, withdrawn,
           pc, seen, todo, seg, from, pre, req, attempt, listing, floors, taken, edits>>
RVars == <<main, stopped, waiting, walker, trigger, running, link, commands, handlers, told, gate, page,
           armed, carried, asked, owners, notes>>
AVars == <<sound, notices, worker, counter, heard, halted, changed, mishaps>>
EventualVars == <<part, pvars, DVars, RVars, AVars>>

EventualInit ==
  /\ part \in {"delivery", "pairing", "runtime", "audio"}
  /\ Init /\ D!Init /\ R!Init /\ A!Init
  /\ (part # "pairing" => disk.cred = Nil) /\ (part # "delivery" => assoc.by = NoOne)
  \* Selections are alike; the others start beside one sound server.
  /\ sound.sources # x2
  /\ (part # "audio" => sound = [up |-> FALSE, sources |-> NoSource, sink |-> TRUE, muted |-> FALSE])

EventualNext ==
  /\ UNCHANGED part
  /\ \/ part = "delivery" /\ D!Next /\ UNCHANGED <<pvars, RVars, AVars>>
     \/ part = "pairing" /\ Next /\ UNCHANGED <<DVars, RVars, AVars>>
     \/ part = "runtime" /\ R!Next /\ UNCHANGED <<pvars, DVars, AVars>>
     \/ part = "audio" /\ A!Next /\ UNCHANGED <<pvars, DVars, RVars>>

\* The fairness of each component, asked of it when it runs.
EventualSpec ==
  /\ EventualInit /\ [][EventualNext]_EventualVars
  /\ WF_DVars(part = "delivery" /\ D!Worker) /\ <>[][~D!GoesWrong]_DVars
  /\ WF_pvars(part = "pairing" /\ WriteStep) /\ WF_pvars(part = "pairing" /\ AppStarted)
  /\ WF_pvars(part = "pairing" /\ CommitEnds) /\ WF_pvars(part = "pairing" /\ RecheckCliConfirm)
  /\ WF_RVars(part = "runtime" /\ R!Main) /\ WF_RVars(part = "runtime" /\ R!Walk)
  /\ WF_RVars(part = "runtime" /\ R!Link) /\ WF_RVars(part = "runtime" /\ R!Pages)
  /\ WF_AVars(part = "audio" /\ A!Thread /\ UNCHANGED <<sound, halted, changed>>)

\* The state of each component is well typed.
EventualTypeOK == TypeOK /\ R!TypeOK /\ A!TypeOK

\* A stop takes things down in order: the segment it finishes goes out over the link before
\* the link is ended, and once the gate is closed no page of the journal is opened.
StopIsOrderly == R!LastSegmentIsSent /\ R!NothingOpensLate

\* What the component that runs has still to do.
Undone ==
  CASE part = "delivery" -> D!Stays(s1)
    [] part = "pairing"  -> Untaken
    [] part = "runtime"  -> R!Unended
    [] part = "audio"    -> A!Behind

\* What must come about: while a journal is paired, a segment it has acknowledged does not stay on
\* the device, nor one whose payload is gone, whichever step a crash, a failed unlink or a journal
\* change interrupted; a confirmed pairing is taken up by an app that goes on running; an app that
\* is told to end ends; and sound is recorded from where it is, with its mute, when the desktop has
\* settled, until the thread that records it is stopped and ends.  One formula for the four, since
\* a behaviour is of one component.
NothingIsLeftUndone == []<>~Undone

\* A registration that is the confirmed one is not retired.
RetiredIsNotConfirmed == [][ConfirmedIsNotRetired]_pvars
=============================================================================
