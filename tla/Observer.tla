------------------------------ MODULE Observer ------------------------------
(***************************************************************************)
(* The capture loop: the tick of observer.rs, the owner's pause held in    *)
(* pause.json, and what a restart recovers.  Ticks, commands and shutdown  *)
(* run one after another on one thread (run.rs), so each is one step; the  *)
(* desktop, the sound server, the screen stream and the sync worker go on  *)
(* between them.                                                           *)
(*                                                                         *)
(* A tick is a sequence of calls, each of which changes the observer, the  *)
(* screen stream and the segment directories, or fails and ends the tick.  *)
(* A call is an operator from a state to the set of states it can leave;   *)
(* Then is the ? after a call.                                             *)
(*                                                                         *)
(* What is abstracted.  Time is counted in ticks and kept as what is left  *)
(* of each deadline.  Of sound only the tags remain that say it was heard  *)
(* when it should not be kept.                                             *)
(* Power saving counts as a locked screen.  A directory is tracked while it*)
(* is .incomplete; of finished ones it is known whether any still waits for*)
(* the sync worker.                                                        *)
(***************************************************************************)
EXTENDS Naturals, FiniteSets

CONSTANTS
  Dirs,        \* segment directories
  NoDir,
  Interval,    \* segment_interval
  Settle,      \* SESSION_SETTLE_SECONDS
  Retry,       \* VIDEO_RETRY_SECONDS
  Pauses,      \* lengths of the timed pauses the owner takes
  Forever,     \* "until I resume"
  StartPaused, \* config.start_paused
  Worlds,      \* what the desktop and the owner may set
  Activity,    \* desktop activity is on
  Watched,     \* tags and events to record; what is not asked about is not kept
  MaxFaults    \* bound: probes, devices and writes that fail

Countdown == Pauses \cup {Forever} \cup UNION {0..n : n \in Pauses}
Tags      == {"paused", "away", "stale"}
Contents  == {"screen", "sound", "rows"}

ASSUME ObserverAssumption ==
  /\ NoDir \notin Dirs /\ IsFiniteSet(Dirs)
  /\ Interval \in Nat \ {0} /\ Settle \in Nat /\ Retry \in Nat
  /\ Pauses \subseteq Nat \ {0} /\ Forever \in Nat
  /\ \A n \in Pauses : n < Forever
  /\ StartPaused \in BOOLEAN /\ Activity \in BOOLEAN
  /\ Worlds # {}
  /\ Worlds \subseteq [live : BOOLEAN, locked : BOOLEAN, muted : BOOLEAN, through : BOOLEAN, only : BOOLEAN]
  /\ Watched \subseteq Tags \cup {"told"} /\ MaxFaults \in Nat

VARIABLES
  up,    \* "run", "failed" (a call returned an error) or "down"
  o,     \* the observer, what it drives (screen stream, sound, pause.json) and its directories
  w,     \* the desktop: live, locked, muted; the owner's settings: through, only
  \* observation only
  wish,  \* the pause the owner has chosen and not ended: none, or what is left of it
  calm   \* no command and no change of the desktop since the last tick

vars == <<up, o, w, wish, calm>>

ActivityOnly == w.only

\* The fields of o that are lost when the process ends; the rest is on disk.
Blank ==
  [mode |-> "idle", target |-> "idle", dir |-> NoDir, age |-> 0, fresh |-> FALSE,
   live |-> FALSE, locked |-> FALSE, muted |-> FALSE, segMuted |-> FALSE, moved |-> TRUE,
   frames |-> {}, hit |-> FALSE, waited |-> FALSE, settle |-> 0, retry |-> 0,
   paused |-> FALSE, left |-> Forever, wall |-> Forever, hold |-> FALSE, alone |-> FALSE,
   span |-> FALSE, rows |-> FALSE, err |-> "ok",
   video |-> NoDir, healthy |-> FALSE, heard |-> {}, told |-> FALSE]
OnDisk == {"disk", "finished", "content", "saved", "unsaved", "written", "faults"}
Booted(x) == [f \in DOMAIN Blank \cup OnDisk |-> IF f \in OnDisk THEN x[f] ELSE Blank[f]]

-----------------------------------------------------------------------------
(* Calls.  err is "ok", "video" (VideoStart) or "fatal" (any other).       *)

Then(S, F(_)) == UNION {IF x.err = "ok" THEN F(x) ELSE {x} : x \in S}
Quietly(S)    == {[x EXCEPT !.err = "ok"] : x \in S}
Fails(x, e)   == IF x.faults > 0 THEN {[x EXCEPT !.err = e, !.faults = @ - 1]} ELSE {}

\* The rows of an open activity interval, when it is sealed.
Seal(x) == [x EXCEPT !.rows = @ \/ x.span, !.span = FALSE]

ActivityPaused(x) == x.paused /\ ~(Activity /\ w.through)
SyncHold(x) ==
  LET hold == ActivityPaused(x) IN
  IF hold = x.hold THEN x
  ELSE IF hold THEN [Seal(x) EXCEPT !.hold = TRUE] ELSE [x EXCEPT !.hold = FALSE]

\* Observation only: a tick met this sound in a pause, or with no session in front.
Met(x, tag) == [x EXCEPT !.heard = {IF t = tag THEN "stale" ELSE t : t \in @}]

TakeActivity(x) ==
  [IF w.live THEN x ELSE Met(x, "away")
   EXCEPT !.live = w.live, !.locked = w.locked, !.moved = FALSE,
          !.fresh = @ /\ ~x.moved, !.settle = IF x.moved THEN Settle ELSE @]

ProbeStatus(x, otherwise) ==
  {[TakeActivity(x) EXCEPT !.muted = w.muted,
      !.target = IF w.locked THEN "idle" ELSE "screencast"]}
    \cup Quietly({[y EXCEPT !.target = otherwise] : y \in Fails(x, "fatal")})

NoteActivity(x) ==
  IF ~Activity THEN {x}
  ELSE IF x.hold \/ ~x.live THEN {Seal(x)}
  ELSE {[x EXCEPT !.span = b, !.rows = @ \/ (x.span /\ ~b)] : b \in BOOLEAN}

StartSegment(x) ==
  (IF x.dir # NoDir THEN {x} ELSE {})     \* the same second
    \cup {[x EXCEPT !.dir = d, !.disk = @ \cup {d}, !.age = 0] : d \in Dirs \ x.disk}
    \cup Fails(x, "fatal")

Put(x, d, what) == [x EXCEPT !.content[d] = @ \cup what]

PersistActivity(x) ==
  IF ~x.rows THEN {x}
  ELSE Then(IF x.dir = NoDir THEN StartSegment(x) ELSE {x},
            LAMBDA y : {[Put(y, y.dir, {"rows"}) EXCEPT !.rows = FALSE]}
                         \cup Fails(y, "fatal"))

StartCapture(x) ==
  Then(StartSegment(x),
       LAMBDA y :
         LET z == [y EXCEPT !.fresh = TRUE] IN
         IF y.target = "screencast" /\ ~y.locked
         THEN {[Put(z, z.dir, {"screen"}) EXCEPT !.video = z.dir, !.healthy = TRUE]}
                \cup Fails([z EXCEPT !.healthy = FALSE], "video")
         ELSE {z})

\* A stream that wrote nothing leaves no file.
StopVideo(x) ==
  LET y == [x EXCEPT !.video = NoDir, !.healthy = FALSE] IN
  (IF x.video = NoDir THEN {y}
   ELSE {y, [y EXCEPT !.content[x.video] = @ \ {"screen"}]}) \cup Fails(x, "fatal")

StopIfScreencast(x) ==
  IF x.mode = "screencast" /\ ~ActivityOnly THEN StopVideo(x) ELSE {x}

WriteGatedAudio(x) ==
  IF ~x.hit \/ x.dir = NoDir THEN {x}
  ELSE {[Put(x, x.dir, {"sound"}) EXCEPT !.written = @ \cup x.frames]}
         \cup Fails(x, "fatal")

ClearFrames(x) == [x EXCEPT !.frames = {}, !.hit = FALSE]

\* A drain that keeps what it got; enough loud chunks and it will be saved.
DrainIntoFrames(x) ==
  {[x EXCEPT !.frames = @ \cup (x.heard \cap Watched), !.hit = h, !.heard = {}] :
     h \in {x.hit, TRUE}}
Drain(x) == [x EXCEPT !.heard = {}]

\* Finished segments and what is told of them are kept only where asked about.
Announced == "told" \in Watched

\* Mutants: the open segment is not let go of; nobody is told of it.
FinishDirectoryKeeps(x) ==
  IF x.dir = NoDir THEN {x}
  ELSE IF x.content[x.dir] = {} THEN {[x EXCEPT !.disk = @ \ {x.dir}]}
  ELSE {[x EXCEPT !.disk = @ \ {x.dir}, !.content[x.dir] = {},
                   !.finished = Announced, !.told = Announced]}
FinishDirectoryQuiet(x) ==
  IF x.dir = NoDir THEN {x}
  ELSE {[x EXCEPT !.dir = NoDir, !.disk = @ \ {x.dir}, !.content[x.dir] = {},
                  !.finished = @ \/ (Announced /\ x.content[x.dir] # {})]}

\* finish_segment_directory, which takes segment_dir before anything can fail.
FinishDirectory(x) ==
  IF x.dir = NoDir THEN {x}
  ELSE LET y == [x EXCEPT !.dir = NoDir] IN
       Fails(y, "fatal") \cup
       IF x.content[x.dir] = {}
       THEN {[y EXCEPT !.disk = @ \ {x.dir}]}
       ELSE {[y EXCEPT !.disk = @ \ {x.dir}, !.content[x.dir] = {},
                       !.finished = Announced, !.told = Announced]}

FinalizeSegment(x) == Then(PersistActivity(Seal(x)), FinishDirectory)

\* Open intervals go on in the next segment.
Continue(S, span) ==
  {IF y.dir # NoDir THEN [y EXCEPT !.span = span] ELSE y : y \in S}

\* Mutant: the pause closes the segment with the stream still running.
FinishPausedFilming(x) ==
  Then(UNION {Quietly(PersistActivity(y)) : y \in NoteActivity(x)},
       LAMBDA y : IF y.dir = NoDir THEN {y}
                  ELSE Then(WriteGatedAudio(y), LAMBDA t : FinalizeSegment(ClearFrames(t))))

FinishPaused(x) ==
  Then(UNION {Quietly(PersistActivity(y)) : y \in NoteActivity(x)},
       LAMBDA y :
         IF y.dir = NoDir THEN {y}
         ELSE Then(StopIfScreencast(y),
                   LAMBDA z :
                     IF ActivityOnly THEN FinalizeSegment(z)
                     ELSE Then(WriteGatedAudio(z),
                               LAMBDA t : FinalizeSegment(ClearFrames(t)))))

\* Mutant: only open activity closes the segment.
WaitForSessionOpen(x) ==
  Then(IF x.span THEN FinishPaused(x) ELSE {x},
       LAMBDA y : {[Drain(y) EXCEPT !.mode = "idle", !.waited = TRUE]})

WaitForSession(x) ==
  Then(IF x.dir # NoDir \/ x.span THEN FinishPaused(x) ELSE {x},
       LAMBDA y : {[Drain(y) EXCEPT !.mode = "idle", !.waited = TRUE]})

\* Mutant: the next segment opens and the last one is never finished.
HandleBoundaryKeeps(x) ==
  Then(StopIfScreencast(x),
       LAMBDA y : Then(WriteGatedAudio(y),
         LAMBDA z : StartCapture([ClearFrames(z) EXCEPT !.segMuted = z.muted, !.mode = z.target])))

\* What the segment held, closed; the next one, opened.
HandleBoundary(x) ==
  LET closed == Then(StopIfScreencast(x),
                     LAMBDA y : Then(WriteGatedAudio(y),
                                     LAMBDA z : FinalizeSegment(ClearFrames(z))))
  IN Then(closed,
          LAMBDA y : Continue(
            StartCapture([y EXCEPT !.segMuted = y.muted, !.mode = y.target]), x.span))

-----------------------------------------------------------------------------
(* The branches of a tick.                                                 *)

EndMediaForPause(x) ==
  Then(IF x.mode = "screencast" THEN StopVideo(x) ELSE {x},
       LAMBDA y : Then(IF y.dir # NoDir THEN WriteGatedAudio(y) ELSE {y},
                       LAMBDA z : Then(FinalizeSegment([ClearFrames(z) EXCEPT !.mode = "idle"]),
                                       LAMBDA t : {[t EXCEPT !.span = x.span]})))

\* Mutant: the activity segment is dropped, not finished.
EndActivityAloneDrops(x) ==
  {IF x.alone THEN [x EXCEPT !.alone = FALSE, !.dir = NoDir] ELSE x}

EndActivityAlone(x) ==
  LET y == [x EXCEPT !.alone = FALSE] IN
  IF ~x.alone \/ x.dir = NoDir THEN {y}
  ELSE Then(FinalizeSegment(y), LAMBDA z : {[z EXCEPT !.span = x.span]})

SplitActivity(x) ==
  IF x.dir = NoDir \/ x.age < Interval THEN {x}
  ELSE Then(Then(PersistActivity(Seal(x)), FinishDirectory),
            LAMBDA y : StartSegment([y EXCEPT !.span = x.span]))

EnsureActivitySegment(x) ==
  IF (ActivityOnly \/ x.alone) /\ x.dir = NoDir /\ x.span THEN StartSegment(x) ELSE {x}

NoteAndKeep(x) ==
  UNION {Then(EnsureActivitySegment(y), LAMBDA z : Quietly(PersistActivity(z))) :
           y \in NoteActivity(x)}

TickThroughPause(x) ==
  Then(IF x.alone THEN {x} ELSE EndMediaForPause(x),
       LAMBDA y : UNION {IF ~z.live THEN WaitForSession(z)
                         ELSE Then(SplitActivity(z), NoteAndKeep) :
                           z \in ProbeStatus(Drain([y EXCEPT !.alone = TRUE]), y.mode)})

\* Mutant: sound is left to gather while paused.
TickPausedUndrained(x) ==
  IF ~x.hold THEN TickThroughPause(x)
  ELSE Then(FinishPaused(x), LAMBDA y : {TakeActivity([y EXCEPT !.alone = FALSE])})

TickPaused(x) ==
  IF ~x.hold THEN TickThroughPause(x)
  ELSE Then(FinishPaused(x),
            LAMBDA y : LET z == Drain([y EXCEPT !.alone = FALSE]) IN
                       {TakeActivity(z)} \cup Quietly(Fails(z, "fatal")))

TickActivityOnly(x) ==
  IF x.hold THEN Then(FinishPaused(x), LAMBDA y : {Drain(y)})
  ELSE UNION {IF ~y.live THEN WaitForSession(y)
              ELSE Then(SplitActivity([y EXCEPT !.mode = y.target, !.segMuted = y.muted]),
                        NoteAndKeep) : y \in ProbeStatus(x, x.mode)}

\* No segment open: one starts, with the screen or, if it is refused, without.
OpenSegment(x) ==
  LET y == [IF x.waited THEN Drain(x) ELSE x
              EXCEPT !.waited = FALSE, !.segMuted = x.muted, !.mode = x.target]
      refused(z) == StartSegment([z EXCEPT !.err = "ok"])
  IN UNION {Then(UNION {IF z.err = "video" THEN refused(z) ELSE {z} : z \in StartCapture(n)},
                 LAMBDA z : Quietly(PersistActivity(z))) : n \in NoteActivity(y)}

\* Mutant: the dead stream is not taken down.
WatchdogLeaves(x) ==
  {IF x.mode = "screencast" /\ ~x.healthy THEN [x EXCEPT !.mode = "idle", !.retry = Retry] ELSE x}

\* A stream that ended by itself stays down for a while.
Watchdog(x) ==
  IF x.mode = "screencast" /\ ~x.healthy
  THEN Then(StopVideo(x), LAMBDA y : {[y EXCEPT !.mode = "idle", !.retry = Retry]})
  ELSE {x}

\* Mutant: a changed mute goes on in the same segment.
AtBoundarySameMute(x) == x.age >= Interval \/ x.target # x.mode \/ ~x.fresh

AtBoundary(x) ==
  \/ x.age >= Interval
  \/ x.target # x.mode
  \/ x.muted # x.segMuted
  \/ ~x.fresh

\* A start refused while the desktop settles keeps the segment, for its sound.
KeepGoing(x, S) ==
  {IF y.err = "video" /\ x.settle > 0 THEN [y EXCEPT !.err = "ok"] ELSE y : y \in S}

TickSegment(x) ==
  LET noted(y) == UNION {Quietly(PersistActivity(z)) : z \in NoteActivity(y)}
  IN Then(Watchdog(x),
          LAMBDA y :
            LET z == IF y.target = "screencast" /\ y.retry > 0
                     THEN [y EXCEPT !.target = "idle"] ELSE y
            IN UNION {IF AtBoundary(t) THEN KeepGoing(t, HandleBoundary(t)) ELSE {t} :
                        t \in UNION {DrainIntoFrames(n) : n \in noted(z)}})

TickScreen(x) ==
  UNION {IF ~y.live THEN WaitForSession(y)
         ELSE IF y.dir = NoDir THEN OpenSegment(y) ELSE TickSegment(y) :
           y \in ProbeStatus(x, x.mode)}

-----------------------------------------------------------------------------
(* Deadlines, the pause and pause.json.                                    *)

Less(n)     == IF n \in {0, Forever} THEN n ELSE n - 1
Lessened(S) == {Less(n) : n \in S}

\* The pause is over when either clock says so.
Over(x) == x.paused /\ 0 \in {x.left, x.wall}

\* Writing pause.json can fail; the code warns and goes on.
Save(x, S)  == {[x EXCEPT !.saved = S, !.unsaved = FALSE]}
                 \cup Quietly({[y EXCEPT !.unsaved = TRUE] : y \in Fails(x, "fatal")})
Resumed(x)  == {SyncHold(y) :
                 y \in Save([x EXCEPT !.paused = FALSE, !.left = Forever, !.wall = Forever], {})}
\* Mutant: the pause is not recorded.
PausedUnrecorded(x, n) ==
  Quietly(PersistActivity(SyncHold([x EXCEPT !.paused = TRUE, !.left = n, !.wall = n])))

Paused(x, n) ==
  UNION {Quietly(PersistActivity(y)) :
    y \in Save(SyncHold([x EXCEPT !.paused = TRUE, !.left = n, !.wall = n]), {n})}

\* Mutant: the wait for a restart of the stream does not pass.
ElapseStill(x) ==
  [x EXCEPT !.age = IF @ < Interval THEN @ + 1 ELSE @, !.settle = IF @ = 0 THEN 0 ELSE @ - 1,
            !.left = Less(@), !.wall = Less(@), !.saved = Lessened(@)]

\* Five seconds later.
Elapse(x) ==
  [x EXCEPT !.age = IF @ < Interval THEN @ + 1 ELSE @,
            !.settle = IF @ = 0 THEN 0 ELSE @ - 1, !.retry = IF @ = 0 THEN 0 ELSE @ - 1,
            !.left = Less(@), !.wall = Less(@), !.saved = Lessened(@)]

TickOutcomes(x) ==
  LET y == SyncHold(x) IN
  IF ActivityOnly THEN TickActivityOnly(y)
  ELSE IF y.paused THEN TickPaused(Met(y, "paused"))
  ELSE Then(EndActivityAlone(y), TickScreen)

-----------------------------------------------------------------------------
(* The steps.                                                              *)

After(x) ==
  /\ o' = [x EXCEPT !.target = "idle"]
  /\ up' = IF x.err = "ok" THEN "run" ELSE "failed"

Tick ==
  /\ up = "run"
  /\ LET x == Elapse(o) IN
     /\ \E y \in IF Over(x) THEN Resumed(x) ELSE {x} : \E z \in TickOutcomes(y) : After(z)
     /\ wish' = IF Over(x) THEN {} ELSE Lessened(wish)
  /\ calm' = TRUE
  /\ UNCHANGED w

Pause(n) ==
  /\ up = "run"
  /\ \E y \in Paused(o, n) : After(y)
  /\ wish' = {n} /\ calm' = FALSE
  /\ UNCHANGED w

Resume ==
  /\ up = "run"
  /\ \E y \in Resumed(o) : After(y)
  /\ wish' = {} /\ calm' = FALSE
  /\ UNCHANGED w

\* Observer::shutdown, asked for or after a call that failed; then the process exits.
Shutdown ==
  /\ up \in {"run", "failed"}
  /\ LET x == [Seal(o) EXCEPT !.err = "ok"] IN
     \E y \in Then(StopIfScreencast(x),
                   LAMBDA z : Then(IF ActivityOnly THEN {z} ELSE WriteGatedAudio(z),
                                   FinalizeSegment)) : o' = Booted(y)
  /\ up' = "down" /\ calm' = FALSE
  /\ UNCHANGED <<w, wish>>

Crash ==
  /\ up \in {"run", "failed"} /\ o.faults > 0
  /\ o' = [Booted(o) EXCEPT !.faults = @ - 1]
  /\ up' = "down" /\ calm' = FALSE
  /\ UNCHANGED <<w, wish>>

\* recover_incomplete_segments leaves what is less than two minutes old.
Recovered(x, old) ==
  [x EXCEPT !.disk = @ \ old, !.finished = @ \/ (Announced /\ \E d \in old : x.content[d] # {}),
            !.content = [d \in Dirs |-> IF d \in old THEN {} ELSE x.content[d]]]

\* StartingPause::read.
StartingPause(x) ==
  IF x.saved \in {{}, {0}}
  THEN {[y EXCEPT !.paused = StartPaused] : y \in IF x.saved = {} THEN {x} ELSE Save(x, {})}
  ELSE {[x EXCEPT !.paused = TRUE, !.left = n, !.wall = n] : n \in x.saved}

Initialize(x) ==
  LET opened(y) ==
        IF ActivityOnly
        THEN IF y.live
             THEN UNION {Then(EnsureActivitySegment(z), LAMBDA t : Quietly(PersistActivity(t))) :
                           z \in NoteActivity(y)}
             ELSE {[y EXCEPT !.mode = "idle"]}
        ELSE IF ~y.live THEN {[y EXCEPT !.mode = "idle"]}
        ELSE IF y.paused THEN {y} ELSE StartCapture(y)
  IN UNION {opened([y EXCEPT !.segMuted = y.muted, !.mode = y.target]) :
              y \in ProbeStatus([x EXCEPT !.hold = ActivityPaused(x)], "screencast")}

\* Recovery, then the first pass of the sync worker is asked for, then the observer.
Start ==
  /\ up = "down"
  /\ \E old \in SUBSET o.disk :
       \E y \in StartingPause([Recovered(o, old) EXCEPT !.told = Announced]) :
         \E z \in Initialize(y) : After(z)
  /\ wish' = LET kept == IF o.unsaved THEN o.saved ELSE wish IN
             IF kept = {0} THEN {} ELSE kept
  /\ calm' = FALSE
  /\ UNCHANGED w

\* The computer sleeps, or the process is not running: only the wall clock goes on.
WallClock ==
  /\ o' = [o EXCEPT !.wall = IF up = "run" THEN Less(@) ELSE @, !.saved = Lessened(@)]
  /\ wish' = Lessened(wish)
  /\ UNCHANGED <<up, w, calm>>

Desktop ==
  /\ w' \in Worlds /\ ActivityOnly' = ActivityOnly
  /\ o' = IF up = "run" THEN [o EXCEPT !.moved = @ \/ w'.live # w.live] ELSE o
  /\ w' # w /\ calm' = FALSE
  /\ UNCHANGED <<up, wish>>

\* Another of the owner's sessions comes to the front.
Switch ==
  /\ up = "run" /\ w.live /\ ~o.moved
  /\ \E v \in Worlds : ~v.live
  /\ o' = [o EXCEPT !.moved = TRUE] /\ calm' = FALSE
  /\ UNCHANGED <<up, w, wish>>

\* Sound heard where it must not be kept; any other is in DrainIntoFrames.
Sound ==
  /\ up = "run"
  /\ ~w.live \/ o.paused
  /\ o' = [o EXCEPT !.heard = @ \cup {IF w.live THEN "paused" ELSE "away"}]
  /\ UNCHANGED <<up, w, wish, calm>>

\* The desktop ends the stream, or it fails.
StreamEnds ==
  /\ up = "run" /\ o.healthy /\ o.faults > 0
  /\ o' = [o EXCEPT !.healthy = FALSE, !.faults = @ - 1] /\ calm' = FALSE
  /\ UNCHANGED <<up, w, wish>>

\* The sync worker, asked for a pass, looks at every finished segment.
SyncPass ==
  /\ up = "run" /\ o.told
  /\ o' = [o EXCEPT !.told = FALSE, !.finished = FALSE]
  /\ UNCHANGED <<up, w, wish, calm>>

Init ==
  /\ up = "down" /\ wish = {} /\ calm = FALSE
  /\ w \in Worlds
  /\ o = Booted([disk |-> {}, finished |-> FALSE, content |-> [d \in Dirs |-> {}],
                 saved |-> {}, unsaved |-> FALSE, written |-> {}, faults |-> MaxFaults])

Next ==
  \/ Tick \/ Resume \/ Shutdown \/ Crash \/ Start
  \/ \E n \in Pauses \cup {Forever} : Pause(n)
  \/ WallClock \/ Desktop \/ Switch \/ Sound \/ StreamEnds \/ SyncPass

Spec == Init /\ [][Next]_vars

\* The loop ticks; systemd starts the app again; the sync worker runs when asked.
FairSpec ==
  Spec /\ WF_vars(Tick) /\ WF_vars(Start) /\ WF_vars(SyncPass)
       /\ WF_vars(up = "failed" /\ Shutdown)

-----------------------------------------------------------------------------
(* Properties.                                                             *)

TypeOK ==
  /\ up \in {"run", "failed", "down"} /\ calm \in BOOLEAN
  /\ w \in Worlds
  /\ o.mode \in {"idle", "screencast"} /\ o.target \in {"idle", "screencast"}
  /\ o.dir \in Dirs \cup {NoDir} /\ o.video \in Dirs \cup {NoDir}
  /\ o.disk \subseteq Dirs /\ {o.finished, o.told} \subseteq BOOLEAN
  /\ o.content \in [Dirs -> SUBSET Contents]
  /\ o.dir # NoDir => o.dir \in o.disk
  /\ \A S \in {o.frames, o.heard, o.written} : S \subseteq Tags
  /\ o.age \in 0..Interval /\ o.settle \in 0..Settle /\ o.retry \in 0..Retry
  /\ \A S \in {o.saved, wish} : S \subseteq Countdown /\ Cardinality(S) <= 1
  /\ {o.left, o.wall} \subseteq Countdown /\ o.faults \in 0..MaxFaults
  /\ o.err = "ok" <=> up # "failed"

\* The screen stream writes into the segment that is open, and into no segment
\* that was closed or given up; every way out of a segment stops it first
\* (handle_boundary, finish_paused_segment, end_media_for_pause, the watchdog).
StreamFeedsOpenSegment ==
  up = "run" /\ o.video # NoDir => o.video = o.dir /\ o.mode = "screencast"

\* Once a tick has seen the owner's pause, no screen is taken in, no sound is
\* kept, and no segment is open unless desktop activity goes on alone.
PausedTakesNothing ==
  up = "run" /\ calm /\ o.paused =>
    o.video = NoDir /\ ~o.hit /\ (o.hold => o.dir = NoDir)

\* Once a tick has seen that no session of the owner is in front, nothing is
\* taken in and no segment is open (wait_for_session).
AwayTakesNothing ==
  up = "run" /\ calm /\ ~o.live => o.video = NoDir /\ o.dir = NoDir /\ ~o.hit

\* After a tick the open segment belongs to the session in front and was begun
\* under the mute that holds: a segment never goes on across either.
SegmentIsOfOneSession ==
  up = "run" /\ calm /\ o.dir # NoDir /\ ~o.alone /\ ~ActivityOnly =>
    o.fresh /\ o.segMuted = o.muted

\* Sound a tick met in a pause, or with no session in front, goes into no
\* segment afterwards, whatever became of the pause or the session.
StaleSoundIsDropped == "stale" \notin o.written

\* The app is paused exactly while the owner's own pause is in force, across
\* commands, deadlines on two clocks, sleep, crashes and restarts.
PauseIsTheOwners ==
  up = "run" =>
    /\ wish \notin {{}, {0}} => o.paused
    /\ o.paused => wish # {} \/ StartPaused

\* A finished segment the sync worker has not looked at has been announced to
\* it; nothing else wakes it (segment_completed, and the trigger at start-up).
FinishedIsAnnounced == up = "run" /\ o.finished => o.told

\* Nothing is taken in that the owner's pause or an absence forbids, at once or
\* by the sound of that time coming up later.
TakesOnlyWhatItMay == PausedTakesNothing /\ AwayTakesNothing /\ StaleSoundIsDropped

\* A segment is one thing from its first file to its announcement: of one
\* session and one mute, fed by its own stream, and told of when finished.
SegmentIsWhole == SegmentIsOfOneSession /\ StreamFeedsOpenSegment /\ FinishedIsAnnounced

\* While it runs, the app turns away from a segment that holds something only
\* by finishing it: nothing taken in waits for the next start to recover it.
AbandonsOnlyEmpty ==
  [][up = "run" /\ up' = "run" /\ o.dir # NoDir /\ o'.dir # o.dir =>
       o.dir \notin o'.disk \/ o'.content[o.dir] = {}]_vars

\* If from some time on a session is in front, unlocked and not paused, the
\* screen is taken in again and again: no lost stream, refusal, failure or
\* crash leaves it off for good.
ScreenComesBack ==
  <>[](w.live /\ ~w.locked /\ wish = {}) => []<>(o.video # NoDir /\ o.healthy)

-----------------------------------------------------------------------------
(* What the repository says and the code does not do.                      *)

\* "intake is paused until you resume" (copy.rs:15) and "Sound gathered while
\* no session was live never goes into a segment" (observer.rs:531).  The tick
\* that reopens after a resume does not drain, and a session that was away and
\* back between two ticks is noticed when its sound is already drained: what
\* was heard meanwhile is kept.
UnwantedSoundIsDropped == {"paused", "away"} \cap o.written = {}
=============================================================================
