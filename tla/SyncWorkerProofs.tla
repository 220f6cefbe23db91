-------------------------- MODULE SyncWorkerProofs --------------------------
(***************************************************************************)
(* The walker of sync.rs, for any number of segments, days and changes of  *)
(* the association: an open circuit is quiet and stays open longer with    *)
(* every failed probe, and shutdown drops no completion the walker took.   *)
(*                                                                         *)
(* The argument for shutdown.  A finished segment no pass has looked at is *)
(* announced (pending), or taken up and on its way into a pass, or among   *)
(* what a pass that shutdown cannot cut short has still to do.             *)
(***************************************************************************)
EXTENDS SyncWorker, TLAPS, FiniteSetTheorems

\* While the walker asks for anything but a probe its circuit is closed.
CircuitIsClosed ==
  pc \in {"decide", "checking", "asking", "sending", "listing", "settling", "unproven"} => circuit = "closed"

\* The settling of phase 2 is about segments of an earlier pairing only.
SettlesLegacy ==
  pc \in {"settling", "unproven"} \/ (pc = "sending" /\ from # "phase1") => todo \subseteq Legacy

\* A segment no pass has looked at is there to upload, and was made under this pairing.
OwedAreHeld ==
  /\ owed \subseteq Held \ Legacy
  /\ \A s \in Legacy : status[s] # "none"

\* The completion is a local of the turn that took it.
TakenUp == completion /\ pc \in {"swapped", "loaded", "probe", "probing", "decide"}

\* What a pass that shutdown does not cut short has still to do.
InPass ==
  /\ pc \in {"phase1", "sending"} /\ from = "phase1" /\ draining # "no"
  /\ owed \subseteq todo

OwedAreCovered == pending \/ owed = {} \/ TakenUp \/ InPass

IInv == TypeOK /\ CircuitIsClosed /\ SettlesLegacy /\ OwedAreHeld /\ OwedAreCovered

-----------------------------------------------------------------------------
(* The maximum of a set of segments is one of them *)

\* A finite set of numbers that is not empty has a largest member.
LEMMA MaximumIsMember ==
  ASSUME NEW S \in SUBSET Nat, IsFiniteSet(S), S # {}
  PROVE  Maximum(S) \in S
<1> DEFINE HasNone == {T \in SUBSET S : T # {} /\ \A x \in T : \E y \in T : ~(y <= x)}
<1>1. HasNone = {}
  <2> SUFFICES ASSUME HasNone # {}  PROVE FALSE
    OBVIOUS
  <2>1. IsWellFoundedOn(StrictSubsetOrdering(S), SUBSET S)
    BY FS_StrictSubsetOrderingWellFounded, FS_FiniteSubsetsOfFinite
  <2>2. PICK T \in HasNone : \A U \in HasNone : ~(<<U, T>> \in StrictSubsetOrdering(S))
    BY <2>1, WFMin
  <2>3. PICK x \in T : TRUE
    OBVIOUS
  <2>4. T \ {x} # {}
    BY <2>3
  <2>5. T \ {x} \notin HasNone
    <3>1. <<T \ {x}, T>> \in (SUBSET S) \X (SUBSET S) /\ T \ {x} # T
      BY <2>3
    <3>2. <<T \ {x}, T>> \in StrictSubsetOrdering(S)
      BY <3>1 DEF StrictSubsetOrdering
    <3> QED  BY <2>2, <3>2
  <2>6. PICK m \in T \ {x} : \A y \in T \ {x} : y <= m
    BY <2>4, <2>5
  <2>7. x \in Nat /\ m \in Nat /\ \A y \in T : y \in Nat
    BY <2>3, <2>6
  <2>8. \E z \in T : \A y \in T : y <= z
    <3>1. CASE x <= m
      BY <2>6, <2>7, <3>1
    <3>2. CASE ~(x <= m)
      BY <2>3, <2>6, <2>7, <3>2
    <3> QED  BY <3>1, <3>2
  <2> QED  BY <2>8
<1>2. \E x \in S : \A y \in S : y <= x
  BY <1>1
<1> QED  BY <1>2 DEF Maximum

\* What is offered next is one of those still to do.
LEMMA SegIsTodo == ASSUME todo \subseteq Segments, todo # {}  PROVE Seg \in todo
<1>1. todo \in SUBSET Nat /\ IsFiniteSet(todo)
  BY WorkerAssumption, FS_Subset
<1> QED  BY <1>1, MaximumIsMember DEF Seg

-----------------------------------------------------------------------------
(* The invariant *)

\* The types, in parts that the provers can take at a time.
Truth         == {TRUE, FALSE}
SegmentStates == {"none", "held", "deferred", "gone"}
Places == {"waiting", "swap", "swapped", "loaded", "probe", "probing", "decide", "checking",
           "phase1", "phase2", "listing", "settling", "unproven", "phase3", "asking", "sending",
           "commit", "stopped"}

SharedOK ==
  /\ pending \in Truth /\ requested \in Truth /\ permit \in Truth
  /\ running \in Truth /\ unblock \in Truth /\ paired \in Truth /\ revoked \in Truth

TurnOK ==
  /\ notified \in Truth /\ completion \in Truth /\ fresh \in Truth
  /\ stopped \in Truth /\ bounded \in Truth
  /\ passDue \in Truth /\ checkDue \in Truth /\ cooled \in Truth /\ healthy \in Truth

SegmentsOK ==
  /\ status \in [Segments -> SegmentStates] /\ posting \subseteq Callers
  /\ todo \subseteq Segments /\ days \subseteq Days /\ owed \subseteq Segments

PlaceOK ==
  /\ pc \in Places /\ from \in {"phase1", "settling", "unproven"} /\ draining \in {"no", "yes", "last"}
  /\ epoch \in Nat /\ seen \in Nat
  /\ failures \in Nat /\ circuit \in {"closed", "open", "permanent"} /\ cooldown \in 0..Longest

LEMMA TypeOKParts ==
  /\ TypeOK <=> SharedOK /\ TurnOK /\ SegmentsOK /\ PlaceOK
  /\ TypeOK' <=> SharedOK' /\ TurnOK' /\ SegmentsOK' /\ PlaceOK'
  BY Zenon DEF TypeOK, SharedOK, TurnOK, SegmentsOK, PlaceOK, Truth, SegmentStates, Places

LEMMA InitIInv == Init => IInv
<1> SUFFICES ASSUME Init  PROVE IInv
  OBVIOUS
<1>1. SharedOK /\ TurnOK
  BY DEF Init, SharedOK, TurnOK, Truth
<1>2. SegmentsOK /\ PlaceOK
  BY WorkerAssumption DEF Init, SegmentsOK, PlaceOK, SegmentStates, Places
<1>3. OwedAreHeld
  BY WorkerAssumption DEF Init, OwedAreHeld
<1> QED
  BY <1>1, <1>2, <1>3, TypeOKParts DEF Init, IInv, CircuitIsClosed, SettlesLegacy, OwedAreCovered

\* What other threads and the association share.
LEMMA SharedNext == ASSUME SharedOK, TurnOK, Next  PROVE SharedOK'
<1> USE DEF SharedOK, TurnOK, Truth, sharedVars, assocVars, wakeVars, passVars, circVars, timeVars,
      passRest
<1>1. CASE \E s \in Segments : Complete(s) \/ DeferralEnds(s)
  BY <1>1 DEF Complete, DeferralEnds
<1>2. CASE RequestCheck \/ Shutdown
  BY <1>2 DEF RequestCheck, Shutdown
<1>3. CASE \E c \in Callers : NotifyOne(c)
  BY <1>3 DEF NotifyOne
<1>4. CASE \E p \in BOOLEAN : ChangeAssociation(p)
  BY <1>4 DEF ChangeAssociation
<1>5. CASE PassFallsDue \/ CheckFallsDue \/ CooldownEnds \/ JournalHeals
  BY <1>5 DEF PassFallsDue, CheckFallsDue, CooldownEnds, JournalHeals
<1>6. CASE Wake \/ TakeTrigger \/ Unpaired \/ Refused \/ Proceed
  BY <1>6 DEF Wake, TakeTrigger, Unpaired, Sleep, Forget, Refused, Excuse, Proceed
<1>7. CASE TakeCheck \/ Probe
  BY <1>7 DEF TakeCheck, Refreshed, Current, Probe, Sleep, Forget, Excuse
<1>8. CASE LeaveLoop
  BY <1>8 DEF LeaveLoop, BeginPass, Reassociate, Current, Forget
<1>9. CASE ProbeAnswer
  BY <1>9 DEF ProbeAnswer, Current, Sleep, Forget, Excuse, NoCount, BeginPass, Drain, Count, Opens,
     Classes
<1>10. CASE Decide
  BY <1>10 DEF Decide, BeginPass, Reassociate, Current, Drain, Sleep, Forget, PassIsDue
<1>11. CASE StatusCheck
  BY <1>11 DEF StatusCheck, CheckAnswer, Current, NoCount, Reset, CountFailure, Count, Opens, Classes
<1>12. CASE Phase1Halts \/ Phase1Skips \/ ReservationRefused \/ Phase1Ends
  BY <1>12 DEF Phase1Halts, Halt, Excuse, Interrupted, Active, Phase1Skips, Drop, ReservationRefused,
     Phase1Ends
<1>13. CASE Phase1Sends
  BY <1>13 DEF Phase1Sends, Send, Stale, Leave, Rest, Excuse, NoCount, Interrupted, Active
<1>14. CASE Answer
  BY <1>14 DEF Answer, Stale, Leave, Rest, Excuse, NoCount, Stored, Bounded, Unanswered, Denied,
     Identity, TooLarge, Next1, Stop1, Halt, Drop, Reset, CountFailure, Count, Opens, Current
<1>15. CASE Phase2Lists \/ Phase2Ends \/ DaySettled \/ Phase3 \/ Commit
  BY <1>15 DEF Phase2Lists, Interrupted, Phase2Ends, Halt, DaySettled, Phase3, Commit, Leave, Rest,
     NoCount, Reset
<1>16. CASE ListingAnswer
  BY <1>16 DEF ListingAnswer, Stale, Leave, Rest, Excuse, NoCount, Halt, CountFailure, Count, Opens
<1>17. CASE Settle
  BY <1>17 DEF Settle, Stale, Leave, Rest, Excuse, NoCount, Send, Drop
<1>18. CASE Phase3Answer
  BY <1>18 DEF Phase3Answer, CheckAnswer, Rest, Current, NoCount, Reset, CountFailure, Count, Opens,
     Classes
<1> QED
  BY <1>1, <1>2, <1>3, <1>4, <1>5, <1>6, <1>7, <1>8, <1>9, <1>10, <1>11, <1>12, <1>13, <1>14, <1>15,
     <1>16, <1>17, <1>18 DEF Next, Others, Walker

\* What woke the walker, the marks of a pass, and what falls due.
LEMMA TurnNext == ASSUME SharedOK, TurnOK, Next  PROVE TurnOK'
<1> USE DEF SharedOK, TurnOK, Truth, sharedVars, assocVars, wakeVars, passVars, circVars, timeVars,
      passRest
<1>1. CASE \E s \in Segments : Complete(s) \/ DeferralEnds(s)
  BY <1>1 DEF Complete, DeferralEnds
<1>2. CASE RequestCheck \/ Shutdown
  BY <1>2 DEF RequestCheck, Shutdown
<1>3. CASE \E c \in Callers : NotifyOne(c)
  BY <1>3 DEF NotifyOne
<1>4. CASE \E p \in BOOLEAN : ChangeAssociation(p)
  BY <1>4 DEF ChangeAssociation
<1>5. CASE PassFallsDue \/ CheckFallsDue \/ CooldownEnds \/ JournalHeals
  BY <1>5 DEF PassFallsDue, CheckFallsDue, CooldownEnds, JournalHeals
<1>6. CASE Wake
  BY <1>6 DEF Wake
<1>7. CASE TakeTrigger
  BY <1>7 DEF TakeTrigger
<1>8. CASE Unpaired
  BY <1>8 DEF Unpaired, Sleep, Forget
<1>9. CASE Refused
  BY <1>9 DEF Refused, Sleep, Forget, Excuse
<1>10. CASE Proceed
  BY <1>10 DEF Proceed
<1>11. CASE TakeCheck \/ Probe
  BY <1>11 DEF TakeCheck, Refreshed, Current, Probe, Sleep, Forget, Excuse
<1>12. CASE LeaveLoop
  BY <1>12 DEF LeaveLoop, BeginPass, Reassociate, Current, Forget
<1>13. CASE ProbeAnswer
  BY <1>13 DEF ProbeAnswer, Current, Sleep, Forget, Excuse, NoCount, BeginPass, Drain, Count, Opens,
     Classes
<1>14. CASE Decide
  BY <1>14 DEF Decide, BeginPass, Reassociate, Current, Drain, Sleep, Forget, PassIsDue
<1>15. CASE StatusCheck
  BY <1>15 DEF StatusCheck, CheckAnswer, Current, NoCount, Reset, CountFailure, Count, Opens, Classes
<1>16. CASE Phase1Halts \/ Phase1Skips \/ ReservationRefused \/ Phase1Ends
  <2>1. CASE Phase1Halts
    BY <2>1 DEF Phase1Halts, Halt, Excuse, Interrupted, Active
  <2>2. CASE Phase1Skips
    BY <2>2 DEF Phase1Skips, Drop
  <2>3. CASE ReservationRefused
    BY <2>3 DEF ReservationRefused, Halt, Excuse
  <2>4. CASE Phase1Ends
    BY <2>4 DEF Phase1Ends
  <2> QED  BY <1>16, <2>1, <2>2, <2>3, <2>4
<1>17. CASE Phase1Sends
  BY <1>17 DEF Phase1Sends, Send, Stale, Leave, Rest, Excuse, NoCount, Interrupted, Active
<1>18. CASE Answer
  BY <1>18 DEF Answer, Stale, Leave, Rest, Excuse, NoCount, Stored, Bounded, Unanswered, Denied,
     Identity, TooLarge, Next1, Stop1, Halt, Drop, Reset, CountFailure, Count, Opens, Current
<1>19. CASE Phase2Lists
  BY <1>19 DEF Phase2Lists, Interrupted
<1>20. CASE Phase2Ends
  BY <1>20 DEF Phase2Ends, Halt
<1>21. CASE DaySettled
  BY <1>21 DEF DaySettled
<1>22. CASE Phase3
  BY <1>22 DEF Phase3, Interrupted
<1>23. CASE Commit
  BY <1>23 DEF Commit, Leave, Rest, NoCount, Reset
<1>24. CASE ListingAnswer
  BY <1>24 DEF ListingAnswer, Stale, Leave, Rest, Excuse, NoCount, Halt, CountFailure, Count, Opens
<1>25. CASE Settle
  BY <1>25 DEF Settle, Stale, Leave, Rest, Excuse, NoCount, Send, Drop
<1>26. CASE Phase3Answer
  BY <1>26 DEF Phase3Answer, CheckAnswer, Rest, Current, NoCount, Reset, CountFailure, Count, Opens,
     Classes
<1> QED
  BY <1>1, <1>2, <1>3, <1>4, <1>5, <1>6, <1>7, <1>8, <1>9, <1>10, <1>11, <1>12, <1>13, <1>14, <1>15,
     <1>16, <1>17, <1>18, <1>19, <1>20, <1>21, <1>22, <1>23, <1>24, <1>25, <1>26 DEF Next, Others, Walker

\* The segments, and what the pass has still to do.
LEMMA SegmentsNext == ASSUME SegmentsOK, Next  PROVE SegmentsOK'
<1> USE WorkerAssumption DEF SegmentsOK, SegmentStates, Callers, Days, Held, sharedVars, assocVars,
      wakeVars, passVars, circVars, timeVars, passRest
<1>1. CASE \E s \in Segments : Complete(s) \/ DeferralEnds(s)
  BY <1>1 DEF Complete, DeferralEnds
<1>2. CASE RequestCheck \/ Shutdown
  BY <1>2 DEF RequestCheck, Shutdown
<1>3. CASE \E c \in Callers : NotifyOne(c)
  BY <1>3 DEF NotifyOne
<1>4. CASE \E p \in BOOLEAN : ChangeAssociation(p)
  BY <1>4 DEF ChangeAssociation
<1>5. CASE PassFallsDue \/ CheckFallsDue \/ CooldownEnds \/ JournalHeals
  BY <1>5 DEF PassFallsDue, CheckFallsDue, CooldownEnds, JournalHeals
<1>6. CASE Wake \/ TakeTrigger \/ Unpaired \/ Refused \/ Proceed
  BY <1>6 DEF Wake, TakeTrigger, Unpaired, Sleep, Forget, Refused, Excuse, Proceed
<1>7. CASE TakeCheck \/ Probe
  BY <1>7 DEF TakeCheck, Refreshed, Current, Probe, Sleep, Forget, Excuse
<1>8. CASE LeaveLoop
  BY <1>8 DEF LeaveLoop, BeginPass, Reassociate, Current, Forget
<1>9. CASE ProbeAnswer
  BY <1>9 DEF ProbeAnswer, Current, Sleep, Forget, Excuse, NoCount, BeginPass, Drain, Count, Opens,
     Classes
<1>10. CASE Decide
  BY <1>10 DEF Decide, BeginPass, Reassociate, Current, Drain, Sleep, Forget, PassIsDue
<1>11. CASE StatusCheck
  BY <1>11 DEF StatusCheck, CheckAnswer, Current, NoCount, Reset, CountFailure, Count, Opens, Classes
<1>12. CASE Phase1Halts
  BY <1>12 DEF Phase1Halts, Halt, Excuse, Interrupted, Active
<1>13. CASE Phase1Skips
  BY <1>13 DEF Phase1Skips, Drop
<1>14. CASE ReservationRefused
  BY <1>14 DEF ReservationRefused, Halt, Excuse
<1>15. CASE Phase1Ends
  BY <1>15 DEF Phase1Ends
<1>16. CASE Phase1Sends
  BY <1>16 DEF Phase1Sends, Send, Stale, Leave, Rest, Excuse, NoCount, Interrupted, Active
<1>17. CASE Answer
  BY <1>17 DEF Answer, Stale, Leave, Rest, Excuse, NoCount, Stored, Bounded, Unanswered, Denied,
     Identity, TooLarge, Next1, Stop1, Halt, Drop, Reset, CountFailure, Count, Opens, Current
<1>18. CASE Phase2Lists \/ Phase2Ends \/ DaySettled \/ Phase3 \/ Commit
  BY <1>18 DEF Phase2Lists, Interrupted, Phase2Ends, Halt, DaySettled, Phase3, Commit, Leave, Rest,
     NoCount, Reset
<1>19. CASE ListingAnswer
  BY <1>19 DEF ListingAnswer, Stale, Leave, Rest, Excuse, NoCount, Halt, CountFailure, Count, Opens
<1>20. CASE Settle
  BY <1>20 DEF Settle, Stale, Leave, Rest, Excuse, NoCount, Send, Drop
<1>21. CASE Phase3Answer
  BY <1>21 DEF Phase3Answer, CheckAnswer, Rest, Current, NoCount, Reset, CountFailure, Count, Opens,
     Classes
<1> QED
  BY <1>1, <1>2, <1>3, <1>4, <1>5, <1>6, <1>7, <1>8, <1>9, <1>10, <1>11, <1>12, <1>13, <1>14, <1>15,
     <1>16, <1>17, <1>18, <1>19, <1>20, <1>21 DEF Next, Others, Walker

\* Where the walker is, and its counters.
LEMMA PlaceNext == ASSUME PlaceOK, Next  PROVE PlaceOK'
<1> USE WorkerAssumption DEF PlaceOK, Places, sharedVars, assocVars, wakeVars, passVars, circVars,
      timeVars, passRest
<1>1. CASE \E s \in Segments : Complete(s) \/ DeferralEnds(s)
  BY <1>1 DEF Complete, DeferralEnds
<1>2. CASE RequestCheck \/ Shutdown
  BY <1>2 DEF RequestCheck, Shutdown
<1>3. CASE \E c \in Callers : NotifyOne(c)
  BY <1>3 DEF NotifyOne
<1>4. CASE \E p \in BOOLEAN : ChangeAssociation(p)
  BY <1>4 DEF ChangeAssociation
<1>5. CASE PassFallsDue \/ CheckFallsDue \/ CooldownEnds \/ JournalHeals
  BY <1>5 DEF PassFallsDue, CheckFallsDue, CooldownEnds, JournalHeals
<1>6. CASE Wake \/ TakeTrigger \/ Unpaired \/ Refused \/ Proceed
  BY <1>6 DEF Wake, TakeTrigger, Unpaired, Sleep, Forget, Refused, Excuse, Proceed
<1>7. CASE TakeCheck \/ Probe
  BY <1>7 DEF TakeCheck, Refreshed, Current, Probe, Sleep, Forget, Excuse
<1>8. CASE LeaveLoop
  BY <1>8 DEF LeaveLoop, BeginPass, Reassociate, Current, Forget
<1>9. CASE ProbeAnswer
  BY <1>9 DEF ProbeAnswer, Current, Sleep, Forget, Excuse, NoCount, BeginPass, Drain, Count, Opens,
     Classes
<1>10. CASE Decide
  BY <1>10 DEF Decide, BeginPass, Reassociate, Current, Drain, Sleep, Forget, PassIsDue
<1>11. CASE StatusCheck
  BY <1>11 DEF StatusCheck, CheckAnswer, Current, NoCount, Reset, CountFailure, Count, Opens, Classes
<1>12. CASE Phase1Halts \/ Phase1Skips \/ ReservationRefused \/ Phase1Ends
  BY <1>12 DEF Phase1Halts, Halt, Excuse, Interrupted, Active, Phase1Skips, Drop, ReservationRefused,
     Phase1Ends
<1>13. CASE Phase1Sends
  BY <1>13 DEF Phase1Sends, Send, Stale, Leave, Rest, Excuse, NoCount, Interrupted, Active
<1>14. CASE Answer
  <2> USE <1>14 DEF Answer
  <2>1. CASE Stale
    BY <2>1 DEF Stale, Leave, Rest, NoCount
  <2>2. CASE Stored \/ Bounded
    BY <2>2 DEF Stored, Bounded, Next1, Reset, NoCount
  <2>3. CASE Unanswered
    <3>1. failures' \in Nat /\ circuit' \in {"closed", "open", "permanent"} /\ cooldown' \in 0..Longest
      BY <2>3 DEF Unanswered, CountFailure, Count
    <3> QED  BY <2>3, <3>1 DEF Unanswered, Next1, Stop1, Halt
  <2>4. CASE Denied \/ Identity
    <3>1. CountFailure("denied") \/ CountFailure("silent")
      BY <2>4 DEF Denied, Identity
    <3>2. failures' \in Nat /\ circuit' \in {"closed", "open", "permanent"} /\ cooldown' \in 0..Longest
      BY <3>1 DEF CountFailure, Count
    <3> QED  BY <2>4, <3>2 DEF Denied, Identity, Stop1, Halt
  <2>5. CASE TooLarge
    BY <2>5 DEF TooLarge, NoCount, Stop1, Halt
  <2> QED  BY <2>1, <2>2, <2>3, <2>4, <2>5
<1>15. CASE Phase2Lists \/ Phase2Ends \/ DaySettled \/ Phase3 \/ Commit
  BY <1>15 DEF Phase2Lists, Interrupted, Phase2Ends, Halt, DaySettled, Phase3, Commit, Leave, Rest,
     NoCount, Reset
<1>16. CASE ListingAnswer
  <2> USE <1>16 DEF ListingAnswer
  <2>1. CASE Stale
    BY <2>1 DEF Stale, Leave, Rest, NoCount
  <2>2. CASE CountFailure("denied") /\ Halt
    <3>1. failures' \in Nat /\ circuit' \in {"closed", "open", "permanent"} /\ cooldown' \in 0..Longest
      BY <2>2 DEF CountFailure, Count
    <3> QED  BY <2>2, <3>1 DEF Halt
  <2>3. CASE pc' \in {"settling", "unproven"} /\ NoCount /\ UNCHANGED <<draining, from>>
    BY <2>3 DEF NoCount
  <2> QED  BY <2>1, <2>2, <2>3
<1>17. CASE Settle
  BY <1>17 DEF Settle, Stale, Leave, Rest, Excuse, NoCount, Send, Drop
<1>18. CASE Phase3Answer
  BY <1>18 DEF Phase3Answer, CheckAnswer, Rest, Current, NoCount, Reset, CountFailure, Count, Opens,
     Classes
<1> QED
  BY <1>1, <1>2, <1>3, <1>4, <1>5, <1>6, <1>7, <1>8, <1>9, <1>10, <1>11, <1>12, <1>13, <1>14, <1>15,
     <1>16, <1>17, <1>18 DEF Next, Others, Walker

\* The circuit is looked at before anything is asked for, and an answer that opens it ends the walk.
LEMMA CircuitNext == ASSUME TypeOK, CircuitIsClosed, Next  PROVE CircuitIsClosed'
<1> USE DEF TypeOK, CircuitIsClosed, sharedVars, assocVars, wakeVars, passVars, circVars, timeVars,
      passRest
<1>1. CASE \E s \in Segments : Complete(s) \/ DeferralEnds(s)
  BY <1>1 DEF Complete, DeferralEnds
<1>2. CASE RequestCheck \/ Shutdown
  BY <1>2 DEF RequestCheck, Shutdown
<1>3. CASE \E c \in Callers : NotifyOne(c)
  BY <1>3 DEF NotifyOne
<1>4. CASE \E p \in BOOLEAN : ChangeAssociation(p)
  BY <1>4 DEF ChangeAssociation
<1>5. CASE PassFallsDue \/ CheckFallsDue \/ CooldownEnds \/ JournalHeals
  BY <1>5 DEF PassFallsDue, CheckFallsDue, CooldownEnds, JournalHeals
<1>6. CASE Wake \/ TakeTrigger \/ Unpaired \/ Refused \/ Proceed
  BY <1>6 DEF Wake, TakeTrigger, Unpaired, Sleep, Forget, Refused, Excuse, Proceed
<1>7. CASE TakeCheck \/ Probe
  BY <1>7 DEF TakeCheck, Refreshed, Current, Probe, Sleep, Forget, Excuse
<1>8. CASE LeaveLoop
  BY <1>8 DEF LeaveLoop, BeginPass, Reassociate, Current, Forget
<1>9. CASE ProbeAnswer
  BY <1>9 DEF ProbeAnswer, Current, Sleep, Forget, Excuse, NoCount, BeginPass, Drain, Count, Opens,
     Classes
<1>10. CASE Decide
  BY <1>10 DEF Decide, BeginPass, Reassociate, Current, Drain, Sleep, Forget, PassIsDue
<1>11. CASE StatusCheck
  BY <1>11 DEF StatusCheck, CheckAnswer, Current, NoCount, Reset, CountFailure, Count, Opens, Classes
<1>12. CASE Phase1Halts \/ Phase1Skips \/ ReservationRefused \/ Phase1Ends
  BY <1>12 DEF Phase1Halts, Halt, Excuse, Interrupted, Active, Phase1Skips, Drop, ReservationRefused,
     Phase1Ends
<1>13. CASE Phase1Sends
  BY <1>13 DEF Phase1Sends, Send, Stale, Leave, Rest, Excuse, NoCount, Interrupted, Active
<1>14. CASE Answer
  BY <1>14 DEF Answer, Stale, Leave, Rest, Excuse, NoCount, Stored, Bounded, Unanswered, Denied,
     Identity, TooLarge, Next1, Stop1, Halt, Drop, Reset, CountFailure, Count, Opens, Current
<1>15. CASE Phase2Lists \/ Phase2Ends \/ DaySettled \/ Phase3 \/ Commit
  BY <1>15 DEF Phase2Lists, Interrupted, Phase2Ends, Halt, DaySettled, Phase3, Commit, Leave, Rest,
     NoCount, Reset
<1>16. CASE ListingAnswer
  BY <1>16 DEF ListingAnswer, Stale, Leave, Rest, Excuse, NoCount, Halt, CountFailure, Count, Opens
<1>17. CASE Settle
  BY <1>17 DEF Settle, Stale, Leave, Rest, Excuse, NoCount, Send, Drop
<1>18. CASE Phase3Answer
  BY <1>18 DEF Phase3Answer, CheckAnswer, Rest, Current, NoCount, Reset, CountFailure, Count, Opens,
     Classes
<1> QED
  BY <1>1, <1>2, <1>3, <1>4, <1>5, <1>6, <1>7, <1>8, <1>9, <1>10, <1>11, <1>12, <1>13, <1>14, <1>15,
     <1>16, <1>17, <1>18 DEF Next, Others, Walker

\* A listing is settled for the segments of the earlier pairing.
LEMMA SettlesNext == ASSUME TypeOK, SettlesLegacy, Next  PROVE SettlesLegacy'
<1> USE DEF TypeOK, SettlesLegacy, Held, Due, sharedVars, assocVars, wakeVars, passVars, circVars,
      timeVars, passRest
<1>1. CASE \E s \in Segments : Complete(s) \/ DeferralEnds(s)
  BY <1>1 DEF Complete, DeferralEnds
<1>2. CASE RequestCheck \/ Shutdown
  BY <1>2 DEF RequestCheck, Shutdown
<1>3. CASE \E c \in Callers : NotifyOne(c)
  BY <1>3 DEF NotifyOne
<1>4. CASE \E p \in BOOLEAN : ChangeAssociation(p)
  BY <1>4 DEF ChangeAssociation
<1>5. CASE PassFallsDue \/ CheckFallsDue \/ CooldownEnds \/ JournalHeals
  BY <1>5 DEF PassFallsDue, CheckFallsDue, CooldownEnds, JournalHeals
<1>6. CASE Wake \/ TakeTrigger \/ Unpaired \/ Refused \/ Proceed
  BY <1>6 DEF Wake, TakeTrigger, Unpaired, Sleep, Forget, Refused, Excuse, Proceed
<1>7. CASE TakeCheck \/ Probe
  BY <1>7 DEF TakeCheck, Refreshed, Current, Probe, Sleep, Forget, Excuse
<1>8. CASE LeaveLoop
  BY <1>8 DEF LeaveLoop, BeginPass, Reassociate, Current, Forget
<1>9. CASE ProbeAnswer
  BY <1>9 DEF ProbeAnswer, Current, Sleep, Forget, Excuse, NoCount, BeginPass, Drain, Count, Opens,
     Classes
<1>10. CASE Decide
  BY <1>10 DEF Decide, BeginPass, Reassociate, Current, Drain, Sleep, Forget, PassIsDue
<1>11. CASE StatusCheck
  BY <1>11 DEF StatusCheck, CheckAnswer, Current, NoCount, Reset, CountFailure, Count, Opens, Classes
<1>12. CASE Phase1Halts \/ Phase1Skips \/ ReservationRefused \/ Phase1Ends
  BY <1>12 DEF Phase1Halts, Halt, Excuse, Interrupted, Active, Phase1Skips, Drop, ReservationRefused,
     Phase1Ends
<1>13. CASE Phase1Sends
  BY <1>13 DEF Phase1Sends, Send, Stale, Leave, Rest, Excuse, NoCount, Interrupted, Active
<1>14. CASE Answer
  BY <1>14 DEF Answer, Stale, Leave, Rest, Excuse, NoCount, Stored, Bounded, Unanswered, Denied,
     Identity, TooLarge, Next1, Stop1, Halt, Drop, Reset, CountFailure, Count, Opens, Current
<1>15. CASE Phase2Lists \/ Phase2Ends \/ DaySettled \/ Phase3 \/ Commit
  BY <1>15 DEF Phase2Lists, Interrupted, Phase2Ends, Halt, DaySettled, Phase3, Commit, Leave, Rest,
     NoCount, Reset
<1>16. CASE ListingAnswer
  BY <1>16 DEF ListingAnswer, Stale, Leave, Rest, Excuse, NoCount, Halt, CountFailure, Count, Opens
<1>17. CASE Settle
  BY <1>17 DEF Settle, Stale, Leave, Rest, Excuse, NoCount, Send, Drop
<1>18. CASE Phase3Answer
  BY <1>18 DEF Phase3Answer, CheckAnswer, Rest, Current, NoCount, Reset, CountFailure, Count, Opens,
     Classes
<1> QED
  BY <1>1, <1>2, <1>3, <1>4, <1>5, <1>6, <1>7, <1>8, <1>9, <1>10, <1>11, <1>12, <1>13, <1>14, <1>15,
     <1>16, <1>17, <1>18 DEF Next, Others, Walker

\* A segment leaves the disk when a pass has looked at it, or when a listing proves one of the earlier pairing.
LEMMA HeldNext == ASSUME TypeOK, SettlesLegacy, OwedAreHeld, Next  PROVE OwedAreHeld'
<1> USE WorkerAssumption DEF TypeOK, OwedAreHeld, Held, Due, sharedVars, assocVars, wakeVars, passVars,
      circVars, timeVars, passRest
<1>1. CASE \E s \in Segments : Complete(s) \/ DeferralEnds(s)
  <2>1. PICK s \in Segments : Complete(s) \/ DeferralEnds(s)
    BY <1>1
  <2>2. CASE Complete(s)
    BY <2>2 DEF Complete
  <2>3. CASE DeferralEnds(s)
    BY <2>3 DEF DeferralEnds
  <2> QED  BY <2>1, <2>2, <2>3
<1>2. CASE RequestCheck \/ Shutdown
  BY <1>2 DEF RequestCheck, Shutdown
<1>3. CASE \E c \in Callers : NotifyOne(c)
  BY <1>3 DEF NotifyOne
<1>4. CASE \E p \in BOOLEAN : ChangeAssociation(p)
  BY <1>4 DEF ChangeAssociation
<1>5. CASE PassFallsDue \/ CheckFallsDue \/ CooldownEnds \/ JournalHeals
  BY <1>5 DEF PassFallsDue, CheckFallsDue, CooldownEnds, JournalHeals
<1>6. CASE Wake \/ TakeTrigger \/ Unpaired \/ Refused \/ Proceed
  BY <1>6 DEF Wake, TakeTrigger, Unpaired, Sleep, Forget, Refused, Excuse, Proceed
<1>7. CASE TakeCheck \/ Probe
  BY <1>7 DEF TakeCheck, Refreshed, Current, Probe, Sleep, Forget, Excuse
<1>8. CASE LeaveLoop
  BY <1>8 DEF LeaveLoop, BeginPass, Reassociate, Current, Forget
<1>9. CASE ProbeAnswer
  BY <1>9 DEF ProbeAnswer, Current, Sleep, Forget, Excuse, NoCount, BeginPass, Drain, Count, Opens,
     Classes
<1>10. CASE Decide
  BY <1>10 DEF Decide, BeginPass, Reassociate, Current, Drain, Sleep, Forget, PassIsDue
<1>11. CASE StatusCheck
  BY <1>11 DEF StatusCheck, CheckAnswer, Current, NoCount, Reset, CountFailure, Count, Opens, Classes
<1>12. CASE Phase1Halts \/ Phase1Skips \/ ReservationRefused \/ Phase1Ends
  BY <1>12 DEF Phase1Halts, Halt, Excuse, Interrupted, Active, Phase1Skips, Drop, ReservationRefused,
     Phase1Ends
<1>13. CASE Phase1Sends
  BY <1>13 DEF Phase1Sends, Send, Stale, Leave, Rest, Excuse, NoCount, Interrupted, Active
<1>14. CASE Answer
  BY <1>14 DEF Answer, Stale, Leave, Rest, Excuse, NoCount, Stored, Bounded, Unanswered, Denied,
     Identity, TooLarge, Next1, Stop1, Halt, Drop, Reset, CountFailure, Count, Opens, Current
<1>15. CASE Phase2Lists \/ Phase2Ends \/ DaySettled \/ Phase3 \/ Commit
  BY <1>15 DEF Phase2Lists, Interrupted, Phase2Ends, Halt, DaySettled, Phase3, Commit, Leave, Rest,
     NoCount, Reset
<1>16. CASE ListingAnswer
  BY <1>16 DEF ListingAnswer, Stale, Leave, Rest, Excuse, NoCount, Halt, CountFailure, Count, Opens
<1>17. CASE Settle
  <2>1. Seg \in Legacy
    BY <1>17, SegIsTodo DEF SettlesLegacy, Settle
  <2> QED  BY <1>17, <2>1 DEF Settle, Stale, Leave, Excuse, Send, Drop
<1>18. CASE Phase3Answer
  BY <1>18 DEF Phase3Answer, CheckAnswer, Rest, Current, NoCount, Reset, CountFailure, Count, Opens,
     Classes
<1> QED
  BY <1>1, <1>2, <1>3, <1>4, <1>5, <1>6, <1>7, <1>8, <1>9, <1>10, <1>11, <1>12, <1>13, <1>14, <1>15,
     <1>16, <1>17, <1>18 DEF Next, Others, Walker

\* What is owed is announced, taken up, or before a pass that is not cut short.
LEMMA CoverNext == ASSUME TypeOK, OwedAreHeld, OwedAreCovered, Next  PROVE OwedAreCovered'
<1> USE DEF TypeOK, OwedAreHeld, OwedAreCovered, TakenUp, InPass, Held, Due, sharedVars, assocVars,
      wakeVars, passVars, circVars, timeVars, passRest
<1>1. CASE \E s \in Segments : Complete(s) \/ DeferralEnds(s)
  BY <1>1 DEF Complete, DeferralEnds
<1>2. CASE RequestCheck \/ Shutdown
  BY <1>2 DEF RequestCheck, Shutdown
<1>3. CASE \E c \in Callers : NotifyOne(c)
  BY <1>3 DEF NotifyOne
<1>4. CASE \E p \in BOOLEAN : ChangeAssociation(p)
  BY <1>4 DEF ChangeAssociation
<1>5. CASE PassFallsDue \/ CheckFallsDue \/ CooldownEnds \/ JournalHeals
  BY <1>5 DEF PassFallsDue, CheckFallsDue, CooldownEnds, JournalHeals
<1>6. CASE Wake \/ TakeTrigger \/ Unpaired \/ Refused \/ Proceed
  BY <1>6 DEF Wake, TakeTrigger, Unpaired, Sleep, Forget, Refused, Excuse, Proceed
<1>7. CASE TakeCheck \/ Probe
  BY <1>7 DEF TakeCheck, Refreshed, Current, Probe, Sleep, Forget, Excuse
<1>8. CASE LeaveLoop
  BY <1>8 DEF LeaveLoop, BeginPass, Reassociate, Current, Forget
<1>9. CASE ProbeAnswer
  BY <1>9 DEF ProbeAnswer, Current, Sleep, Forget, Excuse, NoCount, BeginPass, Drain, Count, Opens,
     Classes
<1>10. CASE Decide
  BY <1>10 DEF Decide, BeginPass, Reassociate, Current, Drain, Sleep, Forget, PassIsDue
<1>11. CASE StatusCheck
  BY <1>11 DEF StatusCheck, CheckAnswer, Current, NoCount, Reset, CountFailure, Count, Opens, Classes
<1>12. CASE Phase1Halts \/ Phase1Skips \/ ReservationRefused \/ Phase1Ends
  BY <1>12 DEF Phase1Halts, Halt, Excuse, Interrupted, Active, Phase1Skips, Drop, ReservationRefused,
     Phase1Ends
<1>13. CASE Phase1Sends
  BY <1>13 DEF Phase1Sends, Send, Stale, Leave, Rest, Excuse, NoCount, Interrupted, Active
<1>14. CASE Answer
  BY <1>14 DEF Answer, Stale, Leave, Rest, Excuse, NoCount, Stored, Bounded, Unanswered, Denied,
     Identity, TooLarge, Next1, Stop1, Halt, Drop, Reset, CountFailure, Count, Opens, Current
<1>15. CASE Phase2Lists \/ Phase2Ends \/ DaySettled \/ Phase3 \/ Commit
  BY <1>15 DEF Phase2Lists, Interrupted, Phase2Ends, Halt, DaySettled, Phase3, Commit, Leave, Rest,
     NoCount, Reset
<1>16. CASE ListingAnswer
  BY <1>16 DEF ListingAnswer, Stale, Leave, Rest, Excuse, NoCount, Halt, CountFailure, Count, Opens
<1>17. CASE Settle
  BY <1>17 DEF Settle, Stale, Leave, Rest, Excuse, NoCount, Send, Drop
<1>18. CASE Phase3Answer
  BY <1>18 DEF Phase3Answer, CheckAnswer, Rest, Current, NoCount, Reset, CountFailure, Count, Opens,
     Classes
<1> QED
  BY <1>1, <1>2, <1>3, <1>4, <1>5, <1>6, <1>7, <1>8, <1>9, <1>10, <1>11, <1>12, <1>13, <1>14, <1>15,
     <1>16, <1>17, <1>18 DEF Next, Others, Walker

LEMMA NextIInv == ASSUME IInv, Next  PROVE IInv'
<1>1. TypeOK'
  BY SharedNext, TurnNext, SegmentsNext, PlaceNext, TypeOKParts DEF IInv
<1>2. CircuitIsClosed' /\ SettlesLegacy'
  BY CircuitNext, SettlesNext DEF IInv
<1>3. OwedAreHeld' /\ OwedAreCovered'
  BY HeldNext, CoverNext DEF IInv
<1> QED  BY <1>1, <1>2, <1>3 DEF IInv

LEMMA StutterIInv == ASSUME IInv, UNCHANGED vars  PROVE IInv'
  BY DEF IInv, vars, sharedVars, assocVars, wakeVars, passVars, circVars, timeVars, TypeOK,
     CircuitIsClosed, SettlesLegacy, OwedAreHeld, Held, OwedAreCovered, TakenUp, InPass

\* The invariant of the walker.
LEMMA Invariant == Spec => []IInv
<1>1. IInv /\ [Next]_vars => IInv'
  BY NextIInv, StutterIInv
<1> QED  BY InitIInv, <1>1, PTL DEF Spec

-----------------------------------------------------------------------------
(* The theorems *)

\* Every variable of the walker, of its callers and of its association keeps
\* its type: its backoff never leaves 0..Longest, and it walks segments only.
THEOREM TypeCorrect == Spec => []TypeOK
<1>1. IInv => TypeOK
  BY DEF IInv
<1> QED  BY Invariant, <1>1, PTL

\* A completion the walker has taken up is never dropped on shutdown: what it
\* announced has been looked at by a pass when the walker has stopped.
THEOREM TakenUpIsNotDropped == Spec => []NothingTakenUpIsDropped
<1>1. IInv => NothingTakenUpIsDropped
  BY DEF IInv, OwedAreCovered, TakenUp, InPass, NothingTakenUpIsDropped
<1> QED  BY Invariant, <1>1, PTL

\* Only a step of the walker that refreshes its association or counts an
\* answer touches the circuit and the wait.
LEMMA BackoffStep == ASSUME IInv, IInv', Next  PROVE BackoffGrows
<1> SUFFICES ASSUME circuit # "closed", circuit' # "closed", seen' = seen
             PROVE  IF pc = "probing" /\ pc' # pc /\ Current
                      THEN cooldown' > cooldown \/ cooldown' = Longest
                      ELSE cooldown' = cooldown
  BY DEF BackoffGrows
<1> USE DEF sharedVars, assocVars, wakeVars, passVars, circVars, timeVars, passRest
<1>1. CASE Others
  BY <1>1 DEF Others, Complete, RequestCheck, Shutdown, NotifyOne, ChangeAssociation, DeferralEnds,
     PassFallsDue, CheckFallsDue, CooldownEnds, JournalHeals
<1>2. CASE TakeCheck \/ Probe
  BY <1>2 DEF TakeCheck, Probe, Refreshed, Current
<1>3. CASE ProbeAnswer
  <2>1. cooldown \in 0..Longest /\ Longest \in Nat /\ pc' # "probing"
    BY <1>3, WorkerAssumption DEF IInv, TypeOK, ProbeAnswer, Sleep, BeginPass
  <2> QED  BY <1>3, <2>1 DEF ProbeAnswer, NoCount
<1>4. pc \notin {"decide", "checking", "asking", "sending", "listing", "settling", "unproven"}
  BY DEF IInv, CircuitIsClosed
<1>5. CASE Wake \/ TakeTrigger \/ LeaveLoop \/ Unpaired \/ Refused \/ Proceed
  BY <1>5 DEF Wake, TakeTrigger, LeaveLoop, Reassociate, Current, Unpaired, Refused, Proceed
<1>6. CASE Decide \/ StatusCheck \/ Answer \/ ListingAnswer \/ Settle \/ DaySettled \/ Phase3Answer
  BY <1>4, <1>6 DEF Decide, StatusCheck, Answer, ListingAnswer, Settle, DaySettled, Phase3Answer
<1>7. CASE Phase1Halts \/ Phase1Skips \/ Phase1Sends \/ ReservationRefused \/ Phase1Ends
  BY <1>7 DEF Phase1Halts, Phase1Skips, Phase1Sends, ReservationRefused, Phase1Ends, Interrupted
<1>8. CASE Phase2Lists \/ Phase2Ends \/ Phase3 \/ Commit
  BY <1>8 DEF Phase2Lists, Phase2Ends, Phase3, Commit, NoCount, Reset
<1> QED
  BY <1>1, <1>2, <1>3, <1>5, <1>6, <1>7, <1>8 DEF Next, Walker

\* While the circuit is open nothing is uploaded or listed, and only a failed
\* probe changes the wait for the next one: it grows, up to the limit.
THEOREM OpenCircuitHolds == Spec => CircuitHolds
<1>1. IInv /\ IInv' /\ [Next]_vars => [IsQuiet' /\ BackoffGrows]_vars
  BY BackoffStep DEF IInv, CircuitIsClosed, IsQuiet
<1> QED  BY Invariant, <1>1, PTL DEF Spec, CircuitHolds
=============================================================================
