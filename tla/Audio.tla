------------------------------- MODULE Audio -------------------------------
(* The thread that records sound (audio/backend.rs, audio/pulse.rs) beside    *)
(* the sound server: a session is connected, finds its sources and the mute,  *)
(* starts two streams, subscribes, and is built again when the sources change *)
(* or reads fail.                                                             *)
(*                                                                            *)
(* What is abstracted.  A selection of sources is one value, and so is the    *)
(* list it is classified from; sources without a name, and the sound itself,  *)
(* are left out.  Messages are applied as they are sent: what the capture     *)
(* loop sees when it pumps them does not depend on when it does.              *)
(* Subscription notices are a set of kinds, taken in any order.  A session    *)
(* whose server has gone gets no answer to a query.                           *)
EXTENDS Naturals

CONSTANTS
  Selections,  \* what enumeration may come to: a microphone and a monitor
  NoSource,    \* none that can be recorded, or none chosen yet
  Limit,       \* MAX_CONSECUTIVE_FAILURES, 3 in the code
  MaxChanges,  \* bound: changes on the desktop
  MaxMishaps   \* bound: queries without an answer, streams that do not start, reads that fail

Legs == {"microphone", "system"}

VARIABLES
  sound,    \* the server: is it up, what may be recorded, is a default sink known, is it muted
  notices,  \* subscription events received and not yet taken
  worker,   \* the thread: where it is, supervise's flag, and the state of run_pulse
  counter,  \* FailureCounter: failures in a row, legs that succeeded since
  told,     \* CaptureState once every message sent is applied, as by a pump
  halted,   \* stopped: the flag of stop
  changed, mishaps

avars == <<sound, notices, worker, counter, told, halted, changed, mishaps>>

\* A session that is not connected yet, and run_pulse before its first query.
Fresh(at, reset) ==
  [at |-> at, reset |-> reset, broken |-> FALSE, first |-> TRUE, found |-> NoSource, moved |-> FALSE,
   sink |-> "none", mute |-> "unknown", degraded |-> FALSE, whole |-> TRUE, news |-> FALSE,
   reading |-> {}, threshold |-> FALSE]

TypeOK ==
  /\ sound \in [up : BOOLEAN, sources : Selections \cup {NoSource}, sink : BOOLEAN, muted : BOOLEAN]
  /\ notices \subseteq {"source", "sink", "server"}
  /\ worker \in [at : {"top", "connecting", "sink", "mute", "sources", "driven", "starting", "loop",
                       "degraded", "failed", "ended"},
                 reset : BOOLEAN, broken : BOOLEAN, first : BOOLEAN, found : Selections \cup {NoSource},
                 moved : BOOLEAN, sink : {"none", "current", "old"},
                 mute : {"unknown", "muted", "unmuted", "failed"}, degraded : BOOLEAN,
                 whole : BOOLEAN, news : BOOLEAN, reading : SUBSET Legs, threshold : BOOLEAN]
  /\ counter \in [failures : 0..Limit, legs : SUBSET Legs]
  /\ told \in [available : BOOLEAN, muted : BOOLEAN, failures : 0..Limit]
  /\ halted \in BOOLEAN /\ changed \in 0..MaxChanges /\ mishaps \in 0..MaxMishaps

Init ==
  /\ sound \in [up : BOOLEAN, sources : Selections \cup {NoSource}, sink : {TRUE}, muted : BOOLEAN]
  /\ notices = {} /\ halted = FALSE /\ changed = 0 /\ mishaps = 0
  /\ worker = Fresh("top", TRUE)
  /\ counter = [failures |-> 0, legs |-> {}]
  /\ told = [available |-> TRUE, muted |-> FALSE, failures |-> 0]

Mishap == mishaps < MaxMishaps /\ mishaps' = mishaps + 1
OneMore(n) == IF n < Limit THEN n + 1 ELSE n

(* ---- the messages, as CaptureState applies them ---- *)
Ready(muted)       == told' = [told EXCEPT !.muted = muted, !.available = TRUE]
DegradedIsTold     == told' = [told EXCEPT !.available = FALSE]
FailedIsTold       == told' = [told EXCEPT !.failures = OneMore(@), !.available = @ /\ OneMore(told.failures) < Limit]
SuccessfulRecord   == told' = [told EXCEPT !.failures = 0]
DetectedIsTold(m)  == told' = [told EXCEPT !.failures = 0, !.available = TRUE, !.muted = m]

(* ---- FailureCounter ---- *)
Detected == [failures |-> 0, legs |-> {}]
Failed   == [failures |-> OneMore(counter.failures), legs |-> {}]

(* ---- the supervisor ---- *)
\* The session ends: its streams and its subscription go with it.
Drops(at, reset) == worker' = Fresh(at, reset) /\ notices' = {}

Runs ==
  /\ worker.at = "top"
  /\ worker' = [worker EXCEPT !.at = IF halted THEN "ended" ELSE "connecting"]
  /\ UNCHANGED <<notices, counter, told, mishaps>>

\* run_pulse could not be set up: PulseRunError::Degraded, and PulseRunError::Setup.
RunDegraded == Drops("degraded", TRUE) /\ DegradedIsTold /\ UNCHANGED counter
SetupFails  == Drops("failed", worker.reset) /\ FailedIsTold /\ counter' = Failed

\* A wait of one second or of five is over, or was interrupted.
WaitEnds ==
  /\ worker.at \in {"degraded", "failed"}
  /\ LET limit == worker.at = "failed" /\ counter.failures = Limit IN
     /\ worker' = [worker EXCEPT !.at = IF halted THEN "ended" ELSE "top", !.reset = limit \/ worker.at = "degraded"]
     /\ counter' = IF limit /\ ~halted THEN Detected ELSE counter
  /\ UNCHANGED <<notices, told, mishaps>>

(* ---- run_pulse ---- *)
Connects ==
  /\ worker.at = "connecting" /\ sound.up
  /\ worker' = [worker EXCEPT !.at = "sink"]
  /\ UNCHANGED <<notices, counter, told, mishaps>>

ConnectFails ==
  /\ worker.at = "connecting" /\ ((UNCHANGED mishaps /\ ~sound.up) \/ Mishap) /\ RunDegraded

\* The answer to a query, or that there is none.
Unanswered == Mishap \/ (worker.broken /\ UNCHANGED mishaps)
Answered   == ~worker.broken /\ UNCHANGED mishaps

QueryDefaultSink ==
  /\ worker.at = "sink"
  /\ \/ /\ Answered /\ sound.sink
        /\ worker' = [worker EXCEPT !.sink = "current", !.at = "mute"]
     \/ /\ Unanswered \/ (Answered /\ ~sound.sink)
        /\ worker' = [worker EXCEPT !.sink = "none", !.mute = "failed", !.news = TRUE, !.at = "sources"]
  /\ UNCHANGED <<notices, counter, told>>

\* Of the sink that was the default one when it was asked for.
QueryMute ==
  /\ worker.at = "mute"
  /\ \E status \in {"muted", "unmuted", "failed"} :
       /\ IF status = "failed" THEN Unanswered
          ELSE Answered /\ (worker.sink = "current" => (status = "muted") = sound.muted)
       /\ worker' = [worker EXCEPT !.mute = status, !.news = @ \/ status # worker.mute,
                                   !.at = IF worker.whole THEN "sources" ELSE "driven"]
  /\ UNCHANGED <<notices, counter, told>>

\* The monitor is that of the remembered sink; a list that is cut off may come to anything.
Classified ==
  IF sound.sources = NoSource THEN {NoSource}
  ELSE IF worker.sink = "current" THEN {sound.sources} ELSE Selections

QuerySources ==
  /\ worker.at = "sources"
  /\ \E found \in Selections \cup {NoSource} :
       /\ IF worker.broken THEN found = NoSource /\ UNCHANGED mishaps
          ELSE (found \in Classified /\ UNCHANGED mishaps) \/ Mishap
       /\ worker' = [worker EXCEPT !.degraded = found = NoSource,
                                   !.found = IF found = NoSource THEN @ ELSE found,
                                   !.moved = found \notin {NoSource, worker.found}, !.at = "driven"]
  /\ UNCHANGED <<notices, counter, told>>

\* The first look came to something, or the run is over.
FirstLook ==
  /\ worker.at = "driven" /\ worker.first /\ UNCHANGED mishaps
  /\ IF worker.found = NoSource THEN RunDegraded
     ELSE /\ worker' = [worker EXCEPT !.at = "starting", !.first = FALSE, !.moved = FALSE, !.news = FALSE]
          /\ counter' = IF worker.reset THEN Detected ELSE counter
          /\ UNCHANGED <<notices, told>>

\* A stream is started; with the second one the run is ready, and only then it subscribes.
StartStream ==
  /\ worker.at = "starting" /\ ~worker.broken
  /\ IF worker.reading = {}
     THEN worker' = [worker EXCEPT !.reading = {"microphone"}] /\ UNCHANGED told
     ELSE worker' = [worker EXCEPT !.reading = Legs, !.at = "loop"] /\ Ready(worker.mute = "muted")
  /\ UNCHANGED <<notices, counter, mishaps>>

StreamFails ==
  /\ worker.at = "starting" /\ SetupFails
  /\ \/ UNCHANGED mishaps /\ (worker.broken \/ sound.sources # worker.found)
     \/ Mishap

InLoop == worker.at = "loop" /\ ~halted /\ ~worker.threshold /\ ~worker.moved

Takes(kind) ==
  /\ InLoop /\ kind \in notices
  /\ notices' = notices \ {kind}
  /\ worker' = [worker EXCEPT !.whole = kind # "sink",
                              !.at = CASE kind = "server" -> "sink"
                                       [] kind = "source" -> "sources"
                                       [] kind = "sink"   -> IF worker.sink = "none" THEN "driven" ELSE "mute"]
  /\ UNCHANGED <<counter, told, mishaps>>

\* Mutant: the backstop looks for sources only.
BackstopForSources ==
  /\ InLoop /\ notices = {}
  /\ worker' = [worker EXCEPT !.at = "sources"]
  /\ UNCHANGED <<notices, counter, told, mishaps>>

\* Five seconds have gone by with no notice: everything is asked again.
Backstop ==
  /\ InLoop /\ notices = {}
  /\ worker' = [worker EXCEPT !.at = "sink"]
  /\ UNCHANGED <<notices, counter, told, mishaps>>

\* What a later look came to is told; sources that changed end the run.
Driven ==
  /\ worker.at = "driven" /\ ~worker.first
  /\ worker' = [worker EXCEPT !.at = "loop", !.news = FALSE, !.whole = TRUE]
  /\ LET muted == IF worker.news THEN worker.mute = "muted" ELSE told.muted IN
     IF worker.degraded THEN told' = [told EXCEPT !.available = FALSE, !.muted = muted] /\ UNCHANGED counter
     ELSE DetectedIsTold(muted) /\ counter' = Detected
  /\ UNCHANGED <<notices, mishaps>>

RunEnds ==
  /\ worker.at = "loop" /\ ~InLoop
  /\ Drops(IF halted THEN "ended" ELSE "top", TRUE)
  /\ counter' = IF worker.threshold /\ ~halted THEN Detected ELSE counter
  /\ UNCHANGED <<told, mishaps>>

Thread ==
  \/ Runs \/ WaitEnds \/ Connects \/ ConnectFails \/ QueryDefaultSink \/ QueryMute \/ QuerySources
  \/ FirstLook \/ StartStream \/ StreamFails \/ Backstop \/ Driven \/ RunEnds
  \/ \E kind \in notices : Takes(kind)

(* ---- the read callback of a stream, on the thread of libpulse ---- *)
Reads(leg) ==
  /\ leg \in worker.reading /\ ~worker.broken
  /\ IF counter.legs \cup {leg} = Legs THEN counter' = Detected /\ SuccessfulRecord
     ELSE counter' = [counter EXCEPT !.legs = @ \cup {leg}] /\ UNCHANGED told
  /\ UNCHANGED <<notices, worker, mishaps>>

ReadFails(leg) ==
  /\ leg \in worker.reading /\ ~worker.broken /\ Mishap /\ FailedIsTold
  /\ counter' = Failed
  /\ worker' = [worker EXCEPT !.threshold = @ \/ Failed.failures = Limit]
  /\ UNCHANGED notices

Callbacks == \E leg \in Legs : Reads(leg) \/ ReadFails(leg)

(* ---- the capture loop, and the desktop ---- *)
Stop ==
  /\ ~halted /\ halted' = TRUE
  /\ UNCHANGED <<sound, notices, worker, counter, told, changed, mishaps>>

Connected == worker.at \notin {"top", "connecting", "degraded", "failed", "ended"}
Notice(kind) == notices' = IF worker.reading = Legs /\ ~worker.broken THEN notices \cup {kind} ELSE notices

\* A source comes or goes, or the default sink is muted, or another sink becomes the default.
SourcesChange ==
  /\ \E sources \in Selections \cup {NoSource} : sound' = [sound EXCEPT !.sources = sources]
  /\ Notice("source") /\ UNCHANGED worker

MuteChanges == sound' = [sound EXCEPT !.muted = ~@] /\ Notice("sink") /\ UNCHANGED worker

DefaultChanges ==
  /\ \E muted, sink \in BOOLEAN, sources \in Selections \cup {NoSource} :
       sound' = [sound EXCEPT !.muted = muted, !.sink = sink, !.sources = sources]
  /\ worker' = [worker EXCEPT !.sink = IF @ = "current" THEN "old" ELSE @]
  /\ Notice("server")

\* The server goes, and the session that was made with it gets no further answer; or it comes.
ServerGoesOrComes ==
  /\ sound' = [sound EXCEPT !.up = ~@] /\ UNCHANGED notices
  /\ worker' = [worker EXCEPT !.broken = @ \/ (sound.up /\ Connected)]

Desktop ==
  /\ changed < MaxChanges /\ changed' = changed + 1
  /\ ServerGoesOrComes \/ (sound.up /\ (SourcesChange \/ MuteChanges \/ DefaultChanges))
  /\ UNCHANGED <<counter, told, halted, mishaps>>

Apart == <<sound, halted, changed>>

Next == ((Thread \/ Callbacks) /\ UNCHANGED Apart) \/ Stop \/ Desktop

Spec == Init /\ [][Next]_avars

\* There is sound to record and it is not recorded from where it is, or the capture loop is told
\* wrong of it: that there is none, or whether it is muted.
Unheard ==
  /\ ~worker.broken /\ sound.up /\ sound.sink /\ sound.sources # NoSource
  /\ \/ ~told.available \/ told.muted # sound.muted
     \/ worker.reading # Legs \/ worker.moved \/ worker.found # sound.sources

\* What the thread has still to do: to end, once it is told to stop.
Behind == IF halted THEN worker.at # "ended" ELSE Unheard
=============================================================================
