---------------------------- MODULE PortalVideo ----------------------------
(* The screen taken through the desktop's portal: the capture loop asks, the *)
(* portal thread does, and each may give up on the other.  A start opens a   *)
(* session with the desktop, hands over the stored grant, which the desktop  *)
(* spends, stores the grant the answer brings, and films each monitor; the   *)
(* signal that ends the app cuts a start short.  Production always makes a   *)
(* new session (ReconnectStrategy::NewPortalSession), and its VideoBackend   *)
(* never forwards stop_for_shutdown, so that every stop is a plain one.      *)
EXTENDS Integers, Sequences, FiniteSets

CONSTANTS
  Streams,    \* the monitors of the desktop
  MaxAsks,    \* bound: starts and stops of the loop
  MaxFaults   \* bound: calls that fail, waits that run out, streams that end, panics

VARIABLES
  caller,     \* the loop: its call, the answer in its channel, and what it believes
  commands,   \* the commands the thread has not taken
  camera,     \* the thread: where it is, for which call, with which grant
  tracked,    \* the pipelines that run
  ended,      \* those of them whose stream has ended
  healthy,    \* the flag the loop's watchdog reads
  portal,     \* the desktop: is a session open, which grant does it honour, how many has it given
  grant,      \* the grant in the file of the app; 0 is none
  signal,     \* "none", "given", or "over" when the grace that follows it is over
  tally       \* bounds, and what excuses a property (see there)

VideoVars == <<caller, commands, camera, tracked, ended, healthy, portal, grant, signal, tally>>

Idle == [at |-> "idle", id |-> 0, carried |-> 0, session |-> FALSE, todo |-> {}, answer |-> "none"]

TypeOK ==
  /\ caller \in [at : {"free", "waiting", "late", "done"}, id : 0..MaxAsks, wants : {"start", "stop"},
                 answer : {"none", "films", "failed", "stopped"}, films : BOOLEAN, sound : BOOLEAN]
  /\ \A i \in DOMAIN commands : commands[i] \in [what : {"start", "stop", "shutdown"}, id : 0..MaxAsks]
  /\ camera \in [at : {"idle", "creating", "selecting", "starting", "opening", "replying", "gone"}, id : 0..MaxAsks,
                 carried : Nat, session : BOOLEAN, todo : SUBSET Streams, answer : {"none", "films", "failed", "stopped"}]
  /\ ended \subseteq tracked /\ tracked \subseteq Streams
  /\ healthy \in BOOLEAN /\ signal \in {"none", "given", "over"}
  /\ portal \in [open : BOOLEAN, honours : Nat, given : Nat]
  /\ grant \in 0..portal.given
  /\ tally \in [faults : 0..MaxFaults, lost : BOOLEAN, missed : BOOLEAN]

\* A grant of an earlier run may be stored.  tally.lost: the grant was lost by something no program
\* can help; tally.missed: an answer came between the end of a wait and the end of its channel.
Init ==
  /\ caller = [at |-> "free", id |-> 0, wants |-> "start", answer |-> "none", films |-> FALSE, sound |-> TRUE]
  /\ commands = <<>> /\ camera = Idle /\ tracked = {} /\ ended = {} /\ healthy = FALSE
  /\ \E stored \in {0, 1} : grant = stored /\ portal = [open |-> FALSE, honours |-> stored, given |-> stored]
  /\ signal = "none" /\ tally = [faults |-> 0, lost |-> FALSE, missed |-> FALSE]

Fault == tally.faults < MaxFaults
Faulted == [tally EXCEPT !.faults = @ + 1]
-----------------------------------------------------------------------------
(* The capture loop: one call at a time, each with a channel of its own.     *)

\* A start comes only when nothing is filmed as far as the loop knows; a stop also after a refused
\* start, whose mode stays that of a film.
Ask(what) ==
  /\ caller.at = "free" /\ caller.sound /\ caller.id < MaxAsks /\ camera.at # "gone"
  /\ what = "start" => ~caller.films
  /\ caller' = [caller EXCEPT !.at = "waiting", !.id = @ + 1, !.wants = what, !.answer = "none"]
  /\ commands' = Append(commands, [what |-> what, id |-> caller.id + 1])
  /\ UNCHANGED <<camera, tracked, ended, healthy, portal, grant, signal, tally>>

\* A refused start may be tried again; a refused stop ends the loop.
Answered(answer) ==
  [caller EXCEPT !.at = "free", !.answer = "none",
                 !.films = (answer = "films") \/ (@ /\ answer = "failed"),
                 !.sound = @ /\ (caller.wants = "stop" => answer = "stopped")]

Receive ==
  /\ caller.at = "waiting" /\ caller.answer # "none"
  /\ caller' = Answered(caller.answer)
  /\ UNCHANGED <<commands, camera, tracked, ended, healthy, portal, grant, signal, tally>>

\* The thread is gone, and the channel with it.
Disconnected ==
  /\ caller.at = "waiting" /\ caller.answer = "none" /\ camera.at = "gone"
  /\ caller' = Answered("failed")
  /\ UNCHANGED <<commands, camera, tracked, ended, healthy, portal, grant, signal, tally>>

\* The wait runs out, and only then is the channel closed.
RunOut ==
  /\ caller.at = "waiting" /\ caller.answer = "none" /\ camera.at # "gone" /\ Fault
  /\ caller' = [caller EXCEPT !.at = "late"]
  /\ tally' = Faulted
  /\ UNCHANGED <<commands, camera, tracked, ended, healthy, portal, grant, signal>>

GiveUp ==
  /\ caller.at = "late"
  /\ caller' = Answered("failed")
  /\ UNCHANGED <<commands, camera, tracked, ended, healthy, portal, grant, signal, tally>>

\* The loop ends, by itself or after a call it cannot do without, and drops the capture.
Quit ==
  /\ caller.at = "free" /\ (~caller.sound \/ signal # "none" \/ Fault)
  /\ caller' = [caller EXCEPT !.at = "done", !.films = FALSE]
  /\ commands' = Append(commands, [what |-> "shutdown", id |-> 0])
  /\ UNCHANGED <<camera, tracked, ended, healthy, portal, grant, signal, tally>>

\* The signal that ends the app reaches the thread at once, the loop when it looks.
Signalled ==
  /\ signal = "none" /\ signal' = "given"
  /\ UNCHANGED <<caller, commands, camera, tracked, ended, healthy, portal, grant, tally>>

\* Five seconds on, or five seconds into an exchange that began later.
GraceOver ==
  /\ signal = "given" /\ camera.at \in {"selecting", "starting"} /\ camera.carried # 0
  /\ signal' = "over"
  /\ UNCHANGED <<caller, commands, camera, tracked, ended, healthy, portal, grant, tally>>
-----------------------------------------------------------------------------
(* The portal thread.                                                        *)

\* It takes a start, unless pipelines of an earlier one still run.
TakeStart ==
  /\ camera.at = "idle" /\ commands # <<>> /\ Head(commands).what = "start"
  /\ commands' = Tail(commands)
  /\ camera' = [Idle EXCEPT !.id = Head(commands).id, !.at = IF tracked = {} THEN "creating" ELSE "replying",
                            !.answer = IF tracked = {} THEN "none" ELSE "failed", !.session = camera.session]
  /\ UNCHANGED <<caller, tracked, ended, healthy, portal, grant, signal, tally>>

\* Every pipeline ends: asked to, given five seconds to finish its file, or by force.
PipelinesEnd == tracked' = {} /\ ended' = {} /\ healthy' = FALSE

\* A start that failed: what was opened is closed, and the loop is told.
Failed ==
  /\ camera' = [camera EXCEPT !.at = "replying", !.answer = "failed", !.session = FALSE, !.todo = {}]
  /\ PipelinesEnd

\* What the desktop honours after a session was given up: the same, none if the grant was handed
\* over, or one it gives to nobody.  A close that fails is logged, and the session is the desktop's.
GivenUp(honours) ==
  portal' = [portal EXCEPT !.open = FALSE, !.honours = honours, !.given = IF honours > @ THEN honours ELSE @]

Create ==
  /\ camera.at = "creating"
  /\ camera' = [camera EXCEPT !.at = "selecting", !.carried = grant, !.session = TRUE]
  /\ portal' = [portal EXCEPT !.open = TRUE]
  /\ signal' = IF signal = "over" THEN "given" ELSE signal
  /\ UNCHANGED <<caller, commands, tracked, ended, healthy, grant, tally>>

CreateFails ==
  /\ camera.at = "creating" /\ (signal # "none" \/ Fault)
  /\ Failed /\ GivenUp(portal.honours)
  /\ tally' = IF signal = "none" THEN Faulted ELSE tally
  /\ UNCHANGED <<caller, commands, grant, signal>>

\* The desktop spends the grant as it is handed over.
Select ==
  /\ camera.at = "selecting"
  /\ camera' = [camera EXCEPT !.at = "starting"]
  /\ portal' = [portal EXCEPT !.honours = IF camera.carried = @ THEN 0 ELSE @]
  /\ UNCHANGED <<caller, commands, tracked, ended, healthy, grant, signal, tally>>

\* The signal is looked at once Start has answered.
AfterTheAnswer ==
  IF signal = "none"
    THEN /\ camera' = [camera EXCEPT !.at = "opening", !.todo = Streams]
         /\ UNCHANGED <<tracked, ended, healthy>>
    ELSE Failed

\* Start answers with the grant for the next one, and it is stored before anything else.
StartAnswers ==
  /\ camera.at = "starting"
  /\ portal' = [portal EXCEPT !.honours = portal.given + 1, !.given = @ + 1, !.open = signal = "none"]
  /\ \E stored \in BOOLEAN :
       /\ stored \/ Fault
       /\ grant' = IF stored THEN portal.given + 1 ELSE grant
       /\ tally' = IF stored THEN [tally EXCEPT !.lost = FALSE] ELSE [Faulted EXCEPT !.lost = TRUE]
  /\ AfterTheAnswer
  /\ UNCHANGED <<caller, commands, signal>>

\* Start answers with no grant: the file keeps the one that was handed over.
StartBringsNone ==
  /\ camera.at = "starting" /\ Fault
  /\ portal' = [portal EXCEPT !.open = signal = "none"]
  /\ tally' = [Faulted EXCEPT !.lost = TRUE]
  /\ AfterTheAnswer
  /\ UNCHANGED <<caller, commands, grant, signal>>

\* A call of the exchange fails, is refused by the owner or times out.
ExchangeFails ==
  /\ camera.at \in {"selecting", "starting"} /\ Fault
  /\ Failed /\ \E honours \in {portal.honours, 0} : GivenUp(honours)
  /\ tally' = [Faulted EXCEPT !.lost = TRUE]
  /\ UNCHANGED <<caller, commands, grant, signal>>

\* Mutant: the signal cuts every exchange short at once.
ExchangeIsCutAtOnce ==
  /\ camera.at \in {"selecting", "starting"} /\ signal # "none"
  /\ Failed /\ GivenUp(portal.honours)
  /\ tally' = [tally EXCEPT !.lost = @ \/ signal = "over"]
  /\ UNCHANGED <<caller, commands, grant, signal>>

\* The signal cuts the exchange short: at once if no grant was carried, else when the grace is over.
ExchangeIsCut ==
  /\ camera.at \in {"selecting", "starting"} /\ signal # "none" /\ (camera.carried = 0 \/ signal = "over")
  /\ Failed
  /\ \E honours \in {portal.honours} \cup (IF camera.at = "starting" THEN {portal.given + 1} ELSE {0}) :
       GivenUp(honours)
  /\ tally' = [tally EXCEPT !.lost = @ \/ signal = "over"]
  /\ UNCHANGED <<caller, commands, grant, signal>>

\* The monitors are looked up, and each stream is opened and its pipeline begun; one that fails
\* is left out.
OpenStream(s, begun) ==
  /\ camera.at = "opening" /\ s \in camera.todo
  /\ begun \/ Fault
  /\ camera' = [camera EXCEPT !.todo = @ \ {s}]
  /\ tracked' = IF begun THEN tracked \cup {s} ELSE tracked
  /\ tally' = IF begun THEN tally ELSE Faulted
  /\ UNCHANGED <<caller, commands, ended, healthy, portal, grant, signal>>

\* The monitors cannot be read, no stream could be begun, or the signal came before the next one.
OpenFails ==
  /\ camera.at = "opening"
  /\ \/ camera.todo = Streams /\ tracked = {} /\ Fault /\ tally' = Faulted
     \/ camera.todo = {} /\ tracked = {} /\ UNCHANGED tally
     \/ camera.todo # {} /\ signal # "none" /\ UNCHANGED tally
  /\ Failed /\ GivenUp(portal.honours)
  /\ UNCHANGED <<caller, commands, grant, signal>>

\* Mutant: the flag is left to the next look.
FilmsUnnoted ==
  /\ camera.at = "opening" /\ camera.todo = {} /\ tracked # {}
  /\ camera' = [camera EXCEPT !.at = "replying", !.answer = "films"]
  /\ UNCHANGED <<caller, commands, tracked, ended, healthy, portal, grant, signal, tally>>

\* The flag is set before the loop is told.
Films ==
  /\ camera.at = "opening" /\ camera.todo = {} /\ tracked # {}
  /\ camera' = [camera EXCEPT !.at = "replying", !.answer = "films"]
  /\ healthy' = TRUE
  /\ UNCHANGED <<caller, commands, tracked, ended, portal, grant, signal, tally>>

\* A panic inside a start closes the session and ends the thread.
Panics ==
  /\ camera.at = "opening" /\ Fault
  /\ camera' = [Idle EXCEPT !.at = "gone"]
  /\ PipelinesEnd
  /\ GivenUp(portal.honours) /\ tally' = Faulted
  /\ UNCHANGED <<caller, commands, grant, signal>>

\* A stop ends every pipeline and closes the session.
TakeStop ==
  /\ camera.at = "idle" /\ commands # <<>> /\ Head(commands).what = "stop"
  /\ commands' = Tail(commands)
  /\ camera' = [Idle EXCEPT !.at = "replying", !.id = Head(commands).id, !.answer = "stopped"]
  /\ PipelinesEnd
  /\ GivenUp(portal.honours)
  /\ UNCHANGED <<caller, grant, signal, tally>>

Heard == caller.id = camera.id /\ caller.at \in {"waiting", "late"}

\* Mutant: an answer nobody waits for is let go.
ReplyAnyway ==
  /\ camera.at = "replying"
  /\ caller' = IF Heard THEN [caller EXCEPT !.answer = camera.answer] ELSE caller
  /\ tally' = [tally EXCEPT !.missed = @ \/ (Heard /\ caller.at = "late")]
  /\ camera' = [Idle EXCEPT !.session = camera.session]
  /\ UNCHANGED <<commands, tracked, ended, healthy, portal, grant, signal>>

\* The answer of a start nobody waits for is taken back: its film is ended and its session closed.
Reply ==
  /\ camera.at = "replying"
  /\ caller' = IF Heard THEN [caller EXCEPT !.answer = camera.answer] ELSE caller
  /\ tally' = [tally EXCEPT !.missed = @ \/ (Heard /\ caller.at = "late")]
  /\ IF ~Heard /\ camera.answer = "films"
       THEN /\ camera' = Idle
            /\ PipelinesEnd
            /\ GivenUp(portal.honours)
       ELSE /\ camera' = [Idle EXCEPT !.session = camera.session]
            /\ UNCHANGED <<tracked, ended, healthy, portal>>
  /\ UNCHANGED <<commands, grant, signal>>

\* The capture was dropped: the session is closed, and the thread ends.
TakeShutdown ==
  /\ camera.at = "idle" /\ commands # <<>> /\ Head(commands).what = "shutdown"
  /\ commands' = Tail(commands)
  /\ camera' = [Idle EXCEPT !.at = "gone"]
  /\ PipelinesEnd
  /\ GivenUp(portal.honours)
  /\ UNCHANGED <<caller, grant, signal, tally>>

\* Ten times a second, when nothing is asked: is every pipeline well?
Look ==
  /\ camera.at = "idle" /\ commands = <<>>
  /\ healthy' = (tracked # {} /\ ended = {}) /\ healthy' # healthy
  /\ UNCHANGED <<caller, commands, camera, tracked, ended, portal, grant, signal, tally>>

\* The desktop ends a stream, as it does when it locks.
StreamEnds(s) ==
  /\ s \in tracked \ ended /\ Fault
  /\ ended' = ended \cup {s} /\ tally' = Faulted
  /\ UNCHANGED <<caller, commands, camera, tracked, healthy, portal, grant, signal>>
-----------------------------------------------------------------------------
Next ==
  \/ \E what \in {"start", "stop"} : Ask(what)
  \/ Receive
  \/ Disconnected
  \/ RunOut
  \/ GiveUp
  \/ Quit
  \/ Signalled
  \/ GraceOver
  \/ TakeStart
  \/ Create
  \/ CreateFails
  \/ Select
  \/ StartAnswers
  \/ StartBringsNone
  \/ ExchangeFails
  \/ ExchangeIsCut
  \/ \E s \in Streams, begun \in BOOLEAN : OpenStream(s, begun)
  \/ OpenFails
  \/ Films
  \/ Panics
  \/ TakeStop
  \/ Reply
  \/ TakeShutdown
  \/ Look
  \/ \E s \in Streams : StreamEnds(s)

Spec == Init /\ [][Next]_VideoVars
-----------------------------------------------------------------------------
\* The grant the owner gave is not lost by stopping the app: outside an exchange with the desktop, a
\* stored grant is the one the desktop honours, unless the desktop refused, failed or gave none, the
\* file could not be written, or the exchange took longer than the grace.
GrantIsKept ==
  camera.at \notin {"selecting", "starting"} /\ grant # 0 /\ ~tally.lost => grant = portal.honours

\* The screen is shared for a film the loop knows of, and for nothing else: when nothing is under
\* way no pipeline runs that the loop was not told of, and no session is open without a pipeline, but
\* for one whose close failed (see GivenUp).  An answer that came as its wait ran out is the one
\* exception to the first.
SharedOnlyForAFilm ==
  camera.at \in {"idle", "gone"} /\ commands = <<>> /\ caller.at \in {"free", "done"} =>
    /\ portal.open => tracked # {}
    /\ camera.session = portal.open
    /\ tracked # {} /\ ~tally.missed => caller.films

\* The watchdog is told that a film has ended only when a stream of it has, or the thread is gone.
WatchdogIsRight ==
  caller.films /\ caller.sound /\ caller.at = "free" /\ ~healthy => ended # {} \/ camera.at = "gone"
=============================================================================
