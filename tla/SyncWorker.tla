----------------------------- MODULE SyncWorker -----------------------------
(***************************************************************************)
(* The walker of sync.rs (SyncWorker::run): what wakes it, which passes it *)
(* makes and in which order it offers segments to the journal, how its     *)
(* circuit opens, backs off and closes, and how it stops.  Its callers run *)
(* on other threads: a trigger stores a flag and then notifies, and so     *)
(* does shutdown.                                                          *)
(*                                                                         *)
(* What is abstracted.  Time is a set of flags that fall due.  An answer   *)
(* is its class.  What an upload does to files and markers is in Delivery; *)
(* here a segment is held, deferred (its retry floor is ahead) or gone.    *)
(***************************************************************************)
EXTENDS Naturals, FiniteSets

CONSTANTS
  Segments,    \* segments as numbers, the newest the largest
  Legacy,      \* those of ingest_cutover.json or marked for another pairing
  Day,         \* Day[s]: the day folder of s
  Threshold,   \* CIRCUIT_THRESHOLD_TRANSIENT
  Longest,     \* the longest cooldown: 30 s doubled Longest times
  MaxChanges,  \* bound: changes of the association
  Heals        \* the journal may come to answer everything for good

ASSUME WorkerAssumption ==
  /\ IsFiniteSet(Segments) /\ Segments \subseteq Nat /\ Legacy \subseteq Segments
  /\ Day \in [Segments -> Nat]
  /\ Threshold \in Nat \ {0} /\ Longest \in Nat /\ MaxChanges \in Nat
  /\ Heals \in BOOLEAN

VARIABLES
  status,     \* of each segment: "none", "held", "deferred" or "gone"
  \* shared with other threads
  pending,    \* pending_trigger
  requested,  \* check_requested
  permit,     \* the Notify holds a permit
  posting,    \* callers that have stored their flag and not notified yet
  running, unblock,
  \* the association installed in UploadClient
  epoch, paired, revoked,
  \* the worker
  pc,
  seen,       \* epoch of the association captured
  notified, completion, fresh,   \* what woke it
  draining,   \* draining_shutdown: "no", "yes", or "last" in the pass made on shutdown
  todo, days, from,              \* what the pass has still to do
  stopped, bounded,              \* pass_stopped, pass_bounded_error_class
  failures, circuit, cooldown,
  \* time
  passDue, checkDue, cooled,
  healthy,    \* from now on the journal answers every request
  \* observation only
  owed        \* finished segments no pass has looked at

sharedVars == <<pending, requested, permit, posting, running, unblock>>
assocVars  == <<epoch, paired, revoked>>
wakeVars   == <<notified, completion, fresh>>
passVars   == <<draining, todo, days, from, stopped, bounded>>
circVars   == <<failures, circuit, cooldown>>
timeVars   == <<passDue, checkDue, cooled, healthy>>
vars == <<status, sharedVars, assocVars, pc, seen, wakeVars, passVars, circVars, timeVars, owed>>

Callers == {"trigger", "check"}
Days    == {Day[s] : s \in Segments}

TypeOK ==
  /\ status \in [Segments -> {"none", "held", "deferred", "gone"}]
  /\ pending \in BOOLEAN /\ requested \in BOOLEAN /\ permit \in BOOLEAN
  /\ posting \subseteq Callers /\ running \in BOOLEAN /\ unblock \in BOOLEAN
  /\ epoch \in Nat /\ paired \in BOOLEAN /\ revoked \in BOOLEAN
  /\ pc \in {"waiting", "swap", "swapped", "loaded", "probe", "probing", "decide", "checking",
             "phase1", "phase2", "listing", "settling", "unproven", "phase3", "asking", "sending",
             "commit", "stopped"}
  /\ seen \in Nat
  /\ notified \in BOOLEAN /\ completion \in BOOLEAN /\ fresh \in BOOLEAN
  /\ draining \in {"no", "yes", "last"} /\ todo \subseteq Segments /\ days \subseteq Days
  /\ from \in {"phase1", "settling", "unproven"} /\ stopped \in BOOLEAN /\ bounded \in BOOLEAN
  /\ failures \in Nat /\ circuit \in {"closed", "open", "permanent"} /\ cooldown \in 0..Longest
  /\ passDue \in BOOLEAN /\ checkDue \in BOOLEAN /\ cooled \in BOOLEAN /\ healthy \in BOOLEAN
  /\ owed \subseteq Segments

Init ==
  /\ status = [s \in Segments |-> IF s \in Legacy THEN "held" ELSE "none"]
  /\ pending = FALSE /\ requested = FALSE /\ permit = FALSE /\ posting = {}
  /\ running = TRUE /\ unblock = FALSE
  /\ epoch = 0 /\ paired \in BOOLEAN /\ revoked = FALSE
  /\ pc = "waiting" /\ seen = 0
  /\ notified = FALSE /\ completion = FALSE /\ fresh = FALSE
  /\ draining = "no" /\ todo = {} /\ days = {} /\ from = "phase1"
  /\ stopped = FALSE /\ bounded = FALSE
  /\ failures = 0 /\ circuit = "closed" /\ cooldown = 0
  /\ passDue = FALSE /\ checkDue = TRUE /\ cooled = FALSE /\ healthy = FALSE
  /\ owed = {}

Maximum(S) == CHOOSE x \in S : \A y \in S : y <= x
Held  == {s \in Segments : status[s] \in {"held", "deferred"}}
Due(s) == status[s] = "held"
Current == seen = epoch
Active  == running \/ draining # "no"

-----------------------------------------------------------------------------
(* Other threads *)

\* The observer finishes a segment and its event sink triggers the walker.
Complete(s) ==
  /\ running /\ status[s] = "none"
  /\ status' = [status EXCEPT ![s] = "held"]
  /\ pending' = TRUE
  /\ posting' = posting \cup {"trigger"}
  /\ owed' = owed \cup {s}
  /\ UNCHANGED <<requested, permit, running, unblock, assocVars, pc, seen, wakeVars, passVars, circVars, timeVars>>

\* FreshCheck::request: the network came back or went, or the owner looks.
RequestCheck ==
  /\ running /\ ~requested
  /\ requested' = TRUE
  /\ posting' = posting \cup {"check"}
  /\ UNCHANGED <<status, pending, permit, running, unblock, assocVars, pc, seen, wakeVars, passVars, circVars, timeVars, owed>>

\* SyncService::shutdown, after Observer::shutdown has finished its segment.
\* Once running is false the walker takes no other turn, so the notify that
\* follows the store is one step with it.
Shutdown ==
  /\ running /\ "trigger" \notin posting
  /\ running' = FALSE
  /\ permit' = TRUE
  /\ UNCHANGED <<status, pending, requested, posting, unblock, assocVars, pc, seen, wakeVars, passVars, circVars, timeVars, owed>>

NotifyOne(c) ==
  /\ c \in posting
  /\ posting' = posting \ {c}
  /\ permit' = TRUE
  /\ UNCHANGED <<status, pending, requested, running, unblock, assocVars, pc, seen, wakeVars, passVars, circVars, timeVars, owed>>

\* prepare_new_owner, then install_capability and a trigger (run.rs, window_control.rs).
ChangeAssociation(p) ==
  /\ epoch < MaxChanges
  /\ epoch' = epoch + 1 /\ paired' = p /\ revoked' = FALSE
  /\ unblock' = TRUE
  /\ pending' = (pending \/ p)
  /\ posting' = posting \cup (IF p THEN {"trigger"} ELSE {})
  /\ UNCHANGED <<status, requested, permit, running, pc, seen, wakeVars, passVars, circVars, timeVars, owed>>

DeferralEnds(s) ==
  /\ status[s] = "deferred"
  /\ status' = [status EXCEPT ![s] = "held"]
  /\ UNCHANGED <<sharedVars, assocVars, pc, seen, wakeVars, passVars, circVars, timeVars, owed>>

PassFallsDue ==
  /\ ~passDue /\ passDue' = TRUE
  /\ UNCHANGED <<status, sharedVars, assocVars, pc, seen, wakeVars, passVars, circVars, checkDue, cooled, healthy, owed>>

CheckFallsDue ==
  /\ ~checkDue /\ checkDue' = TRUE
  /\ UNCHANGED <<status, sharedVars, assocVars, pc, seen, wakeVars, passVars, circVars, passDue, cooled, healthy, owed>>

CooldownEnds ==
  /\ circuit = "open" /\ ~cooled /\ cooled' = TRUE
  /\ UNCHANGED <<status, sharedVars, assocVars, pc, seen, wakeVars, passVars, circVars, passDue, checkDue, healthy, owed>>

JournalHeals ==
  /\ Heals /\ ~healthy /\ healthy' = TRUE
  /\ UNCHANGED <<status, sharedVars, assocVars, pc, seen, wakeVars, passVars, circVars, passDue, checkDue, cooled, owed>>

-----------------------------------------------------------------------------
(* Counting failures: record_failure, count_failure, reset_failures *)

NoCount == UNCHANGED <<circVars, cooled>>
Reset   == failures' = 0 /\ UNCHANGED <<circuit, cooldown, cooled>>

\* Auth and Incompatible open the circuit at once, and for good when the
\* pairing was revoked; a transient failure opens it at the threshold.
Opens(class) == class = "denied" \/ failures + 1 >= Threshold
Count(class) ==
  /\ failures' = IF failures < Threshold THEN failures + 1 ELSE failures
  /\ circuit' = CASE ~Opens(class) -> circuit
                  [] Opens(class) /\ class = "denied" /\ revoked' -> "permanent"
                  [] OTHER -> "open"
  /\ cooled' = (cooled /\ ~Opens(class))
CountFailure(class) == Count(class) /\ cooldown' = IF Opens(class) THEN 0 ELSE cooldown

Classes == IF healthy THEN {"ok"} ELSE {"ok", "silent", "denied"}

\* refresh_association and the unblock request.
Refreshed ==
  /\ seen' = epoch
  /\ unblock' = FALSE
  /\ IF Current
       THEN /\ circuit' = IF unblock /\ circuit = "permanent" THEN "open" ELSE circuit
            /\ UNCHANGED <<failures, cooldown>>
       ELSE failures' = 0 /\ circuit' = "closed" /\ cooldown' = 0

\* What woke the walker is a local of the turn.
Forget == notified' = FALSE /\ completion' = FALSE /\ fresh' = FALSE
Sleep == pc' = "waiting" /\ Forget
Excuse == owed' = {}

-----------------------------------------------------------------------------
(* The loop *)

Wake ==
  /\ pc = "waiting"
  /\ permit \/ passDue \/ (circuit = "closed" /\ checkDue) \/ (circuit = "open" /\ cooled)
  /\ notified' = permit /\ permit' = FALSE
  /\ pc' = "swap"
  /\ UNCHANGED <<status, pending, requested, posting, running, unblock, assocVars, seen, completion, fresh, passVars, circVars, timeVars, owed>>

TakeTrigger ==
  /\ pc = "swap"
  /\ completion' = pending /\ pending' = FALSE
  /\ pc' = "swapped"
  /\ UNCHANGED <<status, requested, permit, posting, running, unblock, assocVars, seen, notified, fresh, passVars, circVars, timeVars, owed>>

TakeCheck ==
  /\ pc = "swapped"
  /\ fresh' = requested /\ requested' = FALSE
  /\ Refreshed
  /\ pc' = "loaded"
  /\ UNCHANGED <<status, pending, permit, posting, running, assocVars, notified, completion, passVars, timeVars, owed>>

\* finish_confirmed_locally and the segment list.
BeginPass(drain) ==
  /\ pc' = "phase1" /\ Forget
  /\ draining' = drain
  /\ todo' = Held /\ days' = {} /\ from' = "phase1"
  /\ stopped' = FALSE /\ bounded' = FALSE
  /\ passDue' = FALSE

\* The pass is made for the pairing there is now, whatever the loop saw.  A pass that follows the
\* answer to a probe finds the one it has just compared.
Reassociate ==
  /\ seen' = epoch
  /\ IF Current THEN UNCHANGED circVars ELSE failures' = 0 /\ circuit' = "closed" /\ cooldown' = 0

\* Mutant of Drain: shutdown cuts short the pass made for a completion.
DrainNever == "no"

\* A pass made for a completion is not cut short by shutdown.
Drain == IF completion THEN "yes" ELSE "no"

\* Shutting down: a completion gets one last pass, if there is a journal.
LeaveLoop ==
  /\ pc = "loaded" /\ ~running
  /\ IF completion /\ paired
       THEN BeginPass("last") /\ Reassociate /\ UNCHANGED owed
       ELSE /\ pc' = "stopped" /\ Forget
            /\ owed' = IF paired THEN owed ELSE {}
            /\ UNCHANGED <<passVars, passDue, seen, circVars>>
  /\ UNCHANGED <<status, sharedVars, assocVars, checkDue, cooled, healthy>>

\* Without a journal the completion is kept for the one that comes.
Unpaired ==
  /\ pc = "loaded" /\ running /\ ~paired
  /\ pending' = (pending \/ completion)
  /\ Sleep
  /\ UNCHANGED <<status, requested, permit, posting, running, unblock, assocVars, seen, passVars, circVars, timeVars, owed>>

Refused ==
  /\ pc = "loaded" /\ running /\ paired /\ revoked
  /\ Sleep /\ Excuse
  /\ UNCHANGED <<status, sharedVars, assocVars, seen, passVars, circVars, timeVars>>

Proceed ==
  /\ pc = "loaded" /\ running /\ paired /\ ~revoked
  /\ pc' = IF circuit = "closed" THEN "decide" ELSE "probe"
  /\ UNCHANGED <<status, sharedVars, assocVars, seen, wakeVars, passVars, circVars, timeVars, owed>>

\* Mutant of Probe: an open circuit waits for somebody to ask.
ProbeWhenAsked ==
  /\ pc = "probe"
  /\ Refreshed
  /\ IF circuit' # "permanent" /\ fresh
       THEN pc' = "probing" /\ UNCHANGED <<wakeVars, owed>>
       ELSE Sleep /\ Excuse
  /\ UNCHANGED <<status, pending, requested, permit, posting, running, assocVars, passVars, timeVars>>

\* try_probe up to the request; a fresh check does not wait for the cooldown.
Probe ==
  /\ pc = "probe"
  /\ Refreshed
  /\ IF circuit' # "permanent" /\ (fresh \/ cooled)
       THEN pc' = "probing" /\ UNCHANGED <<wakeVars, owed>>
       ELSE Sleep /\ Excuse
  /\ UNCHANGED <<status, pending, requested, permit, posting, running, assocVars, passVars, timeVars>>

\* Mutant of ProbeAnswer: the cooldown count_failure has just reset is doubled.
ProbeAnswerForgetsBackoff ==
  /\ pc = "probing"
  /\ \E class \in Classes :
       /\ revoked' \in IF class = "denied" /\ Current THEN {revoked, TRUE} ELSE {revoked}
       /\ \/ ~Current /\ Sleep /\ Excuse /\ NoCount /\ UNCHANGED <<passVars, passDue, checkDue>>
          \/ /\ Current /\ class = "ok"
             /\ failures' = 0 /\ circuit' = "closed" /\ cooldown' = 0
             /\ checkDue' = FALSE
             /\ BeginPass(Drain) /\ UNCHANGED <<owed, cooled>>
          \/ /\ Current /\ class # "ok"
             /\ Count(class)
             /\ cooldown' = IF Opens(class) THEN 1 ELSE cooldown + 1
             /\ cooled' = FALSE
             /\ Sleep /\ Excuse /\ UNCHANGED <<passVars, passDue, checkDue>>
  /\ UNCHANGED <<status, sharedVars, epoch, paired, seen, healthy>>

\* Mutant of ProbeAnswer: the cooldown is doubled without a limit.
ProbeAnswerWithoutLimit ==
  /\ pc = "probing"
  /\ \E class \in Classes :
       /\ revoked' \in IF class = "denied" /\ Current THEN {revoked, TRUE} ELSE {revoked}
       /\ \/ ~Current /\ Sleep /\ Excuse /\ NoCount /\ UNCHANGED <<passVars, passDue, checkDue>>
          \/ /\ Current /\ class = "ok"
             /\ failures' = 0 /\ circuit' = "closed" /\ cooldown' = 0
             /\ checkDue' = FALSE
             /\ BeginPass(Drain) /\ UNCHANGED <<owed, cooled>>
          \/ /\ Current /\ class # "ok"
             /\ Count(class)
             /\ cooldown' = cooldown + 1
             /\ cooled' = FALSE
             /\ Sleep /\ Excuse /\ UNCHANGED <<passVars, passDue, checkDue>>
  /\ UNCHANGED <<status, sharedVars, epoch, paired, seen, healthy>>

\* The answer to a probe: it closes the circuit and a pass follows, or the
\* next probe waits twice as long.
ProbeAnswer ==
  /\ pc = "probing"
  /\ \E class \in Classes :
       /\ revoked' \in IF class = "denied" /\ Current THEN {revoked, TRUE} ELSE {revoked}
       /\ \/ ~Current /\ Sleep /\ Excuse /\ NoCount /\ UNCHANGED <<passVars, passDue, checkDue>>
          \/ /\ Current /\ class = "ok"
             /\ failures' = 0 /\ circuit' = "closed" /\ cooldown' = 0
             /\ checkDue' = FALSE
             /\ BeginPass(Drain) /\ UNCHANGED <<owed, cooled>>
          \/ /\ Current /\ class # "ok"
             /\ Count(class)
             /\ cooldown' = IF cooldown < Longest THEN cooldown + 1 ELSE Longest
             /\ cooled' = FALSE
             /\ Sleep /\ Excuse /\ UNCHANGED <<passVars, passDue, checkDue>>
  /\ UNCHANGED <<status, sharedVars, epoch, paired, seen, healthy>>

PassIsDue == completion \/ (notified /\ ~fresh) \/ passDue

Decide ==
  /\ pc = "decide"
  /\ IF PassIsDue
       THEN BeginPass(Drain) /\ Reassociate /\ UNCHANGED checkDue
       ELSE /\ IF fresh \/ checkDue
                 THEN pc' = "checking" /\ Forget /\ checkDue' = FALSE
                 ELSE Sleep /\ UNCHANGED checkDue
            /\ UNCHANGED <<passVars, passDue, seen, circVars>>
  /\ UNCHANGED <<status, sharedVars, assocVars, cooled, healthy, owed>>

\* check_journal's answer.
CheckAnswer(next, giveUp) ==
  \E class \in Classes :
    /\ revoked' \in IF class = "denied" /\ Current THEN {revoked, TRUE} ELSE {revoked}
    /\ \/ ~Current /\ NoCount /\ pc' = giveUp
       \/ Current /\ class = "ok" /\ Reset /\ pc' = next
       \/ Current /\ class # "ok" /\ CountFailure(class) /\ pc' = next

StatusCheck ==
  /\ pc = "checking"
  /\ CheckAnswer("waiting", "waiting")
  /\ UNCHANGED <<status, sharedVars, epoch, paired, seen, wakeVars, passVars, passDue, checkDue, healthy, owed>>

-----------------------------------------------------------------------------
(* One pass *)

passRest == <<sharedVars, epoch, paired, seen, wakeVars, passDue, healthy>>

Rest == IF draining = "last" THEN "stopped" ELSE "waiting"
Leave ==
  /\ pc' = Rest /\ draining' = "no" /\ todo' = {} /\ days' = {}
  /\ from' = "phase1" /\ stopped' = FALSE /\ bounded' = FALSE

\* The association changed under the pass: it ends without a word.
Stale == ~Current /\ Leave /\ Excuse /\ NoCount /\ UNCHANGED <<status, revoked, checkDue>>

Seg == Maximum(todo)
Drop == todo' = todo \ {Seg}

\* The walk stops: the circuit opened, or the worker is no longer active.
Interrupted == ~Active \/ circuit # "closed"
Halt ==
  /\ stopped' = TRUE /\ pc' = "phase3" /\ todo' = {} /\ days' = {}
  /\ from' = "phase1" /\ UNCHANGED <<draining, bounded>>

Phase1Halts ==
  /\ pc = "phase1" /\ todo # {} /\ Interrupted
  /\ Halt
  /\ IF circuit # "closed" THEN Excuse ELSE UNCHANGED owed
  /\ UNCHANGED <<passRest, status, revoked, circVars, cooled, checkDue>>

Phase1Skips ==
  /\ pc = "phase1" /\ todo # {} /\ ~Interrupted
  /\ ~Due(Seg) \/ Seg \in Legacy
  /\ Drop /\ owed' = owed \ {Seg}
  /\ UNCHANGED <<passRest, status, revoked, circVars, cooled, checkDue, pc, draining, days, from, stopped, bounded>>

Send(loop) ==
  \/ Stale
  \/ /\ Current
     /\ pc' = "sending" /\ from' = loop
     /\ UNCHANGED <<status, revoked, circVars, cooled, checkDue, draining, todo, days, stopped, bounded, owed>>

\* Mutant of Phase1Sends: the last pass, made with an open circuit, sends.
Phase1SendsAnyway ==
  /\ pc = "phase1" /\ todo # {}
  /\ Due(Seg) /\ Seg \notin Legacy
  /\ Send("phase1")
  /\ UNCHANGED passRest

Phase1Sends ==
  /\ pc = "phase1" /\ todo # {} /\ ~Interrupted
  /\ Due(Seg) /\ Seg \notin Legacy
  /\ Send("phase1")
  /\ UNCHANGED passRest

\* A browser segment that is reserved, or that no open custody can reserve,
\* stops the pass like a refusal.
ReservationRefused ==
  /\ pc = "phase1" /\ todo # {} /\ ~Interrupted /\ Current
  /\ Due(Seg) /\ Seg \notin Legacy /\ ~healthy
  /\ Halt /\ Excuse
  /\ UNCHANGED <<passRest, status, revoked, circVars, cooled, checkDue>>

Phase1Ends ==
  /\ pc = "phase1" /\ todo = {}
  /\ IF Interrupted THEN pc' = "phase3" /\ days' = {}
                    ELSE pc' = "phase2" /\ days' = {Day[s] : s \in {l \in Legacy : Due(l)}}
  /\ UNCHANGED <<passRest, status, revoked, circVars, cooled, checkDue, draining, todo, from, stopped, bounded, owed>>

\* The answer to an upload.  In phase 1 a Stop ends the walk; in phase 2 it
\* ends the day, and the next day is tried unless the circuit opened.
Next1 == pc' = from /\ from' = "phase1" /\ Drop /\ UNCHANGED <<draining, days, stopped>>
Stop1 == IF from = "phase1" THEN Halt
         ELSE /\ stopped' = TRUE /\ pc' = "phase2" /\ todo' = {}
              /\ from' = "phase1" /\ UNCHANGED <<draining, days, bounded>>

Stored ==
  /\ Next1 /\ Reset /\ checkDue' = FALSE
  /\ status' = [status EXCEPT ![Seg] = "gone"]
  /\ owed' = owed \ {Seg} /\ UNCHANGED <<revoked, bounded>>

\* 4xx, a 5xx with a reason, a receipt that does not match, a local failure.
Bounded ==
  /\ Next1 /\ NoCount /\ bounded' = TRUE
  /\ status' = [status EXCEPT ![Seg] = "deferred"]
  /\ owed' = owed \ {Seg} /\ UNCHANGED <<revoked, checkDue>>

Unanswered ==
  /\ CountFailure("silent")
  /\ IF circuit' # "closed" THEN Stop1 /\ Excuse
                            ELSE Next1 /\ bounded' = TRUE /\ owed' = owed \ {Seg}
  /\ UNCHANGED <<status, revoked, checkDue>>

\* Auth, Incompatible and a revoked pairing; 409 of the identity; a journal's 413.
Denied ==
  /\ revoked' \in {revoked, TRUE}
  /\ CountFailure("denied") /\ Stop1 /\ Excuse /\ UNCHANGED <<status, checkDue>>
Identity == CountFailure("silent") /\ Stop1 /\ Excuse /\ UNCHANGED <<status, revoked, checkDue>>
TooLarge == NoCount /\ Stop1 /\ Excuse /\ UNCHANGED <<status, revoked, checkDue>>

Answer ==
  /\ pc = "sending"
  /\ \/ Stale
     \/ Current /\ Stored
     \/ Current /\ ~healthy /\ (Bounded \/ Unanswered \/ Denied \/ Identity \/ TooLarge)
  /\ UNCHANGED passRest

\* Phase 2 asks for one day's listing after the other, the newest first.
Phase2Lists ==
  /\ pc = "phase2" /\ days # {} /\ ~Interrupted
  /\ pc' = "listing"
  /\ UNCHANGED <<passRest, status, revoked, circVars, cooled, checkDue, draining, todo, days, from, stopped, bounded, owed>>

Phase2Ends ==
  /\ pc = "phase2" /\ (days = {} \/ Interrupted)
  /\ IF days = {} THEN pc' = "phase3" /\ UNCHANGED <<draining, todo, days, from, stopped, bounded>> ELSE Halt
  /\ UNCHANGED <<passRest, status, revoked, circVars, cooled, checkDue, owed>>

ListingAnswer ==
  /\ pc = "listing"
  /\ \/ Stale
     \/ /\ Current /\ ~healthy
        /\ revoked' \in {revoked, TRUE}
        /\ CountFailure("denied") /\ Halt
        /\ UNCHANGED <<status, checkDue, owed>>
     \/ /\ Current
        /\ pc' \in IF healthy THEN {"settling"} ELSE {"settling", "unproven"}
        /\ checkDue' = (checkDue /\ pc' = "unproven")
        /\ todo' = {s \in Legacy : Day[s] = Maximum(days) /\ status[s] # "gone"}
        /\ days' = days \ {Maximum(days)}
        /\ NoCount /\ UNCHANGED <<status, revoked, draining, from, stopped, bounded, owed>>
  /\ UNCHANGED passRest

\* A segment the listing proves is done; one whose rows are ambiguous, or that
\* is deferred, stays; every other one is uploaded.
Settle ==
  /\ pc \in {"settling", "unproven"} /\ todo # {}
  /\ \/ /\ ~Due(Seg) \/ (pc = "settling" /\ ~healthy)
        /\ Drop /\ UNCHANGED <<status, revoked, circVars, cooled, checkDue, pc, draining, days, from, stopped, bounded, owed>>
     \/ Due(Seg) /\ pc = "settling" /\ Stale
     \/ /\ Due(Seg) /\ pc = "settling" /\ Current
        /\ Drop /\ status' = [status EXCEPT ![Seg] = "gone"]
        /\ UNCHANGED <<revoked, circVars, cooled, checkDue, pc, draining, days, from, stopped, bounded, owed>>
     \/ Due(Seg) /\ Send(pc)
  /\ UNCHANGED passRest

DaySettled ==
  /\ pc \in {"settling", "unproven"} /\ todo = {}
  /\ pc' = "phase2"
  /\ UNCHANGED <<passRest, status, revoked, circVars, cooled, checkDue, draining, todo, days, from, stopped, bounded, owed>>

\* Phase 3: a status check when nothing was heard for an interval.
Phase3 ==
  /\ pc = "phase3"
  /\ IF ~stopped /\ ~bounded /\ ~Interrupted /\ checkDue
       THEN pc' = "asking" /\ checkDue' = FALSE
       ELSE pc' = "commit" /\ UNCHANGED checkDue
  /\ UNCHANGED <<passRest, status, revoked, circVars, cooled, draining, todo, days, from, stopped, bounded, owed>>

Phase3Answer ==
  /\ pc = "asking"
  /\ CheckAnswer("commit", Rest)
  /\ draining' = IF Current THEN draining ELSE "no"
  /\ IF Current THEN UNCHANGED owed ELSE owed' = {}
  /\ UNCHANGED <<passRest, status, checkDue, todo, days, from, stopped, bounded>>

\* commit_pass_result, and back to the loop.
Commit ==
  /\ pc = "commit"
  /\ Leave
  /\ IF Current /\ ~stopped /\ ~bounded /\ ~Interrupted THEN Reset ELSE NoCount
  /\ UNCHANGED <<passRest, status, revoked, checkDue, owed>>

-----------------------------------------------------------------------------
Others ==
  \/ \E s \in Segments : Complete(s) \/ DeferralEnds(s)
  \/ RequestCheck \/ Shutdown
  \/ \E c \in Callers : NotifyOne(c)
  \/ \E p \in BOOLEAN : ChangeAssociation(p)
  \/ PassFallsDue \/ CheckFallsDue \/ CooldownEnds \/ JournalHeals

Walker ==
  \/ Wake \/ TakeTrigger \/ TakeCheck \/ LeaveLoop \/ Unpaired \/ Refused \/ Proceed
  \/ Probe \/ ProbeAnswer \/ Decide \/ StatusCheck
  \/ Phase1Halts \/ Phase1Skips \/ Phase1Sends \/ ReservationRefused \/ Phase1Ends \/ Answer
  \/ Phase2Lists \/ Phase2Ends \/ ListingAnswer \/ Settle \/ DaySettled
  \/ Phase3 \/ Phase3Answer \/ Commit

Next == Others \/ Walker

Spec == Init /\ [][Next]_vars

-----------------------------------------------------------------------------
(* What must hold *)

\* Once the circuit is open no upload and no listing is asked for.
IsQuiet == pc \in {"sending", "listing"} => circuit = "closed"

\* A completion the walker has taken up is never dropped on shutdown: when it
\* has stopped, a segment no pass looked at is one whose trigger it never saw.
NothingTakenUpIsDropped == pc = "stopped" /\ ~pending => owed = {}

\* "A completion can race shutdown. Give the final local segment one bounded
\* reconciliation pass before the walker exits" (sync.rs, SyncWorker::run).
FinalSegmentIsReconciled == pc = "stopped" => owed = {}

\* While the circuit stays open the wait before the next probe changes with a
\* failed probe only, and every one of them makes it longer up to the limit.
BackoffGrows ==
  circuit # "closed" /\ circuit' # "closed" /\ seen' = seen =>
    IF pc = "probing" /\ pc' # pc /\ Current THEN cooldown' > cooldown \/ cooldown' = Longest
                                              ELSE cooldown' = cooldown

\* An open circuit is quiet, and stays open longer with every failed probe.
CircuitHolds == [][IsQuiet' /\ BackoffGrows]_vars

FairSpec ==
  /\ Spec
  /\ WF_vars(Walker)
  /\ \A c \in Callers : WF_vars(NotifyOne(c))
  /\ \A s \in Segments : WF_vars(DeferralEnds(s))
  /\ WF_vars(PassFallsDue) /\ WF_vars(CooldownEnds)

Served == healthy /\ paired /\ ~revoked /\ running

\* Once the journal answers and stays paired, every finished segment reaches
\* it: no trigger is needed, no open circuit or deferral is for ever.
EverythingDelivered ==
  <>[]Served => <>[](\A s \in Segments : status[s] \in {"none", "gone"})
=============================================================================
