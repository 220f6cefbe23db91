--------------------------- MODULE ObserverProofs ---------------------------
(***************************************************************************)
(* What is captured, for any directories, lengths of the deadlines and     *)
(* pauses, settings of the desktop and number of faults.                   *)
(*                                                                         *)
(* A call is an operator from a state to the set of states it can leave,   *)
(* so the lemmas go call by call: each says of any state a call can start  *)
(* from what holds of every state it leaves.  Core is what holds between   *)
(* any two calls, a failed one included; MediaInOrder what holds unless a  *)
(* call failed; Calm what a whole tick leaves and holds until the next     *)
(* command or change of the desktop.  The relations between the state      *)
(* before and after are SameBut (all fields but those named), Goes (a call *)
(* on a segment), Ends (a part of a tick) and Handled (no directory with   *)
(* something in it is given up).                                           *)
(***************************************************************************)
EXTENDS Observer, FiniteSetTheorems, TLAPS

-----------------------------------------------------------------------------
(* The invariant *)

Fields == {"mode", "target", "dir", "age", "fresh", "live", "locked", "muted", "segMuted", "moved",
           "frames", "hit", "waited", "settle", "retry", "paused", "left", "wall", "hold", "alone",
           "span", "rows", "err", "video", "healthy", "heard", "told",
           "disk", "finished", "content", "saved", "unsaved", "written", "faults"}

IsObserver(x) == x = [f \in Fields |-> x[f]]

\* None or one: the pause on disk, and the one in force.
Single(S) == S \subseteq Countdown /\ (S = {} \/ \E n \in Countdown : S = {n})

Truth == {TRUE, FALSE}

TypesOf(x) ==
  /\ x.mode \in {"idle", "screencast"} /\ x.target \in {"idle", "screencast"}
  /\ x.dir \in Dirs \cup {NoDir} /\ x.video \in Dirs \cup {NoDir}
  /\ x.disk \subseteq Dirs /\ x.content \in [Dirs -> SUBSET Contents]
  /\ x.finished \in Truth /\ x.told \in Truth
  /\ x.frames \subseteq Tags /\ x.heard \subseteq Tags /\ x.written \subseteq Tags
  /\ x.age \in 0..Interval /\ x.settle \in 0..Settle /\ x.retry \in 0..Retry /\ x.faults \in 0..MaxFaults
  /\ x.left \in Countdown /\ x.wall \in Countdown /\ Single(x.saved)
  /\ x.err \in {"ok", "video", "fatal"}

\* The directory that is open is on disk, and one that is not on disk is empty.
DirsInOrder(x) ==
  /\ x.dir # NoDir => x.dir \in x.disk
  /\ \A d \in Dirs \ x.disk : x.content[d] = {}

\* No sound of a pause or an absence was kept; what is finished is told of.
KeptInOrder(x) ==
  /\ "stale" \notin x.frames \cup x.written
  /\ x.finished => Announced

Core(x) == IsObserver(x) /\ TypesOf(x) /\ DirsInOrder(x) /\ KeptInOrder(x)

\* The stream feeds the open segment; what was drained will be saved in one; and
\* neither screen nor sound goes into a segment of activity alone.
MediaInOrder(x) ==
  /\ x.video # NoDir => x.video = x.dir /\ x.mode = "screencast"
  /\ x.dir = NoDir => ~x.hit
  /\ x.alone \/ ActivityOnly => x.video = NoDir /\ ~x.hit

\* A finished segment waits for the sync worker only with the worker told.
AllTold(x) == x.finished => x.told

\* What a tick leaves: the parts of the properties that hold until the next
\* command or change of the desktop.
Calm(x) ==
  /\ x.paused => x.video = NoDir /\ ~x.hit /\ (x.hold => x.dir = NoDir)
  /\ ~x.live => x.video = NoDir /\ x.dir = NoDir /\ ~x.hit
  /\ x.dir # NoDir /\ ~x.alone /\ ~ActivityOnly => x.fresh /\ x.segMuted = x.muted

\* The fields of the owner's pause.
SamePause(x, y) ==
  /\ y.paused = x.paused /\ y.left = x.left /\ y.wall = x.wall /\ y.hold = x.hold
  /\ y.saved = x.saved /\ y.unsaved = x.unsaved

\* Left for good, or empty, or open: nothing in d waits for the next start.
Settled(x, d) == x.dir = d \/ d \notin x.disk \/ x.content[d] = {}
Handled(x, y) == \A d \in Dirs : Settled(x, d) => Settled(y, d)

\* pause.json says what the owner's pause is, unless it could not be written.
PauseIsWritten ==
  ~o.unsaved => o.saved = wish \/ (o.saved \subseteq {0} /\ wish \subseteq {0})

Running ==
  /\ MediaInOrder(o) /\ AllTold(o) /\ "stale" \notin o.heard
  /\ calm => Calm(o)
  /\ PauseIsTheOwners

IInv ==
  /\ up \in {"run", "failed", "down"} /\ calm \in BOOLEAN /\ w \in Worlds /\ Single(wish)
  /\ Core(o) /\ PauseIsWritten
  /\ o.err = "ok" <=> up # "failed"
  /\ up = "down" => o = Booted(o)
  /\ up = "run" => Running

-----------------------------------------------------------------------------
(* Records: y is x but for the fields of F *)

SameBut(x, y, F) == IsObserver(y) /\ \A f \in Fields \ F : y[f] = x[f]

\* A failed call uses up a fault and changes nothing else.
LEMMA FailsOutcome ==
  ASSUME NEW x, IsObserver(x), NEW e, NEW y \in Fails(x, e)
  PROVE  SameBut(x, y, {"err", "faults"}) /\ y.err = e /\ y.faults = x.faults - 1 /\ x.faults > 0
<1>1. x.faults > 0 /\ y = [x EXCEPT !.err = e, !.faults = @ - 1]
  BY DEF Fails
<1> QED  BY <1>1 DEF IsObserver, SameBut, Fields

LEMMA FailsCore ==
  ASSUME NEW x, Core(x), NEW e \in {"video", "fatal"}, NEW y \in Fails(x, e)
  PROVE  Core(y)
<1>1. SameBut(x, y, {"err", "faults"}) /\ y.err = e /\ y.faults = x.faults - 1 /\ x.faults > 0
  BY FailsOutcome DEF Core
<1>2. IsObserver(y) /\ DirsInOrder(y) /\ KeptInOrder(y)
  BY <1>1 DEF Core, SameBut, Fields, DirsInOrder, KeptInOrder
<1>3. TypesOf(y)
  BY <1>1, ObserverAssumption DEF Core, SameBut, Fields, TypesOf
<1> QED  BY <1>2, <1>3 DEF Core

-----------------------------------------------------------------------------
(* The calls that work on a segment.  Each keeps the core, tells of what it *)
(* finishes, and leaves no directory behind with something in it unless it  *)
(* fails for good; each leaves alone what a tick decides by.                *)

SameCall(x, y) ==
  /\ y.mode = x.mode /\ y.target = x.target /\ y.live = x.live /\ y.locked = x.locked
  /\ y.muted = x.muted /\ y.segMuted = x.segMuted /\ y.moved = x.moved /\ y.waited = x.waited
  /\ y.settle = x.settle /\ y.retry = x.retry /\ y.alone = x.alone /\ y.heard = x.heard
  /\ SamePause(x, y)

Goes(x, y) ==
  /\ Core(y) /\ SameCall(x, y) /\ (AllTold(x) => AllTold(y))
  /\ y.err # "fatal" => Handled(x, y)

SameMedia(x, y) == y.video = x.video /\ y.hit = x.hit /\ y.fresh = x.fresh

LEMMA GoesOn ==
  ASSUME NEW x, NEW y, NEW z, Goes(x, y), Goes(y, z), y.err = "ok"
  PROVE  Goes(x, z)
<1>1. SameCall(x, z)
  BY DEF Goes, SameCall, SamePause
<1>2. z.err # "fatal" => Handled(x, z)
  BY DEF Goes, Handled
<1> QED  BY <1>1, <1>2 DEF Goes

\* The second step has no error, whatever the first one's was: it was dropped.
LEMMA GoesOnQuietly ==
  ASSUME NEW x, NEW y, NEW z, Goes(x, y), Handled(x, y), Goes(y, z)
  PROVE  Goes(x, z)
<1>1. SameCall(x, z)
  BY DEF Goes, SameCall, SamePause
<1>2. z.err # "fatal" => Handled(x, z)
  BY DEF Goes, Handled
<1> QED  BY <1>1, <1>2 DEF Goes

LEMMA GoesNowhere == ASSUME NEW x, Core(x)  PROVE Goes(x, x)
BY DEF Goes, SameCall, SamePause, Handled

LEMMA FailsGoes ==
  ASSUME NEW x, Core(x), NEW e \in {"video", "fatal"}, NEW y \in Fails(x, e)
  PROVE  Goes(x, y) /\ Handled(x, y) /\ SameMedia(x, y) /\ y.err = e
         /\ y.dir = x.dir /\ y.content = x.content /\ y.disk = x.disk
         /\ y.span = x.span /\ y.rows = x.rows
<1>1. SameBut(x, y, {"err", "faults"}) /\ y.err = e
  BY FailsOutcome DEF Core
<1>2. SameCall(x, y)
  BY <1>1 DEF SameBut, Fields, SameCall, SamePause
<1>3. /\ SameMedia(x, y) /\ y.dir = x.dir /\ y.content = x.content /\ y.disk = x.disk
      /\ y.told = x.told /\ y.finished = x.finished /\ y.span = x.span /\ y.rows = x.rows
  BY <1>1 DEF SameBut, Fields, SameMedia
<1>4. Core(y)
  BY FailsCore
<1> QED  BY <1>1, <1>2, <1>3, <1>4 DEF Goes, AllTold, Handled, Settled

\* The error of a call is dropped.
LEMMA QuietlyGoes ==
  ASSUME NEW x, NEW y, Goes(x, y), Handled(x, y), NEW z, z = [y EXCEPT !.err = "ok"]
  PROVE  Goes(x, z) /\ SameMedia(y, z) /\ z.err = "ok" /\ z.dir = y.dir /\ z.content = y.content /\ z.span = y.span
<1>1. SameBut(y, z, {"err"}) /\ z.err = "ok"
  BY DEF Goes, Core, IsObserver, SameBut, Fields
<1>2. SameCall(y, z)
  BY <1>1 DEF SameBut, Fields, SameCall, SamePause
<1>3. /\ SameMedia(y, z) /\ z.dir = y.dir /\ z.content = y.content /\ z.disk = y.disk
      /\ z.told = y.told /\ z.finished = y.finished /\ z.span = y.span
  BY <1>1 DEF SameBut, Fields, SameMedia
<1>4. TypesOf(z)
  BY <1>1 DEF Goes, Core, SameBut, Fields, TypesOf
<1>5. Core(z)
  BY <1>1, <1>4 DEF Goes, Core, SameBut, Fields, DirsInOrder, KeptInOrder
<1>6. Goes(y, z)
  BY <1>1, <1>2, <1>3, <1>5 DEF Goes, AllTold, Handled, Settled
<1> QED  BY <1>1, <1>3, <1>6, GoesOnQuietly

LEMMA SealGoes ==
  ASSUME NEW x, Core(x)
  PROVE  LET y == Seal(x)
         IN Goes(x, y) /\ Handled(x, y) /\ SameMedia(x, y) /\ y.err = x.err /\ y.dir = x.dir /\ y.content = x.content
<1> DEFINE y == Seal(x)
<1>1. SameBut(x, y, {"rows", "span"})
  <2>1. y = [x EXCEPT !.rows = @ \/ x.span, !.span = FALSE]
    BY DEF Seal
  <2> QED  BY <2>1 DEF Core, IsObserver, SameBut, Fields
<1> HIDE DEF y
<1>2. SameCall(x, y)
  BY <1>1 DEF SameBut, Fields, SameCall, SamePause
<1>3. /\ SameMedia(x, y) /\ y.dir = x.dir /\ y.content = x.content /\ y.disk = x.disk
      /\ y.told = x.told /\ y.finished = x.finished /\ y.err = x.err
  BY <1>1 DEF SameBut, Fields, SameMedia
<1>4. TypesOf(y)
  BY <1>1 DEF Core, SameBut, Fields, TypesOf
<1>5. Core(y)
  BY <1>1, <1>4 DEF Core, SameBut, Fields, DirsInOrder, KeptInOrder
<1>6. Goes(x, y) /\ Handled(x, y)
  BY <1>1, <1>2, <1>3, <1>5 DEF Goes, AllTold, Handled, Settled
<1> QED  BY <1>3, <1>6 DEF y

LEMMA NoteOutcome ==
  ASSUME NEW x, Core(x), NEW y \in NoteActivity(x)
  PROVE  Goes(x, y) /\ Handled(x, y) /\ SameMedia(x, y) /\ y.err = x.err /\ y.dir = x.dir /\ y.content = x.content
<1>1. CASE y = x
  BY <1>1, GoesNowhere DEF SameMedia, Handled
<1>2. CASE y = Seal(x)
  BY <1>2, SealGoes
<1>3. ASSUME NEW b \in BOOLEAN, y = [x EXCEPT !.span = b, !.rows = @ \/ (x.span /\ ~b)]
      PROVE  /\ Goes(x, y) /\ Handled(x, y) /\ SameMedia(x, y) /\ y.err = x.err
             /\ y.dir = x.dir /\ y.content = x.content
  <2>1. SameBut(x, y, {"rows", "span"})
    BY <1>3 DEF Core, IsObserver, SameBut, Fields
  <2>2. SameCall(x, y)
    BY <2>1 DEF SameBut, Fields, SameCall, SamePause
  <2>3. /\ SameMedia(x, y) /\ y.dir = x.dir /\ y.content = x.content /\ y.disk = x.disk
        /\ y.told = x.told /\ y.finished = x.finished /\ y.err = x.err
    BY <2>1 DEF SameBut, Fields, SameMedia
  <2>4. TypesOf(y)
    BY <2>1 DEF Core, SameBut, Fields, TypesOf
  <2>5. Core(y)
    BY <2>1, <2>4 DEF Core, SameBut, Fields, DirsInOrder, KeptInOrder
  <2> QED  BY <2>1, <2>2, <2>3, <2>5 DEF Goes, AllTold, Handled, Settled
<1> QED  BY <1>1, <1>2, <1>3 DEF NoteActivity

\* A segment starts in a directory that is not on disk; one that was open is kept
\* in the same second, or left, and then it must be empty.
LEMMA StartSegmentGoes ==
  ASSUME NEW x, Core(x), x.err = "ok", x.dir = NoDir \/ x.content[x.dir] = {}, NEW y \in StartSegment(x)
  PROVE  /\ Goes(x, y) /\ Handled(x, y) /\ SameMedia(x, y) /\ y.err \in {"ok", "fatal"} /\ y.content = x.content
         /\ y.err = "ok" => y.dir # NoDir /\ y.content[y.dir] = {}
         /\ y.err # "ok" => y.dir = x.dir
<1>1. CASE y = x /\ x.dir # NoDir
  BY <1>1, GoesNowhere DEF SameMedia, Handled
<1>2. CASE y \in Fails(x, "fatal")
  BY <1>2, FailsGoes
<1>3. ASSUME NEW d \in Dirs \ x.disk, y = [x EXCEPT !.dir = d, !.disk = @ \cup {d}, !.age = 0]
      PROVE  /\ Goes(x, y) /\ Handled(x, y) /\ SameMedia(x, y) /\ y.err = "ok" /\ y.content = x.content
             /\ y.dir = d /\ x.content[d] = {}
  <2>1. DOMAIN x = Fields
    BY DEF Core, IsObserver
  <2>2. "dir" \in Fields /\ "disk" \in Fields /\ "age" \in Fields
    BY DEF Fields
  <2>3. y = [f \in Fields |-> IF f = "age" THEN 0 ELSE IF f = "disk" THEN x.disk \cup {d}
                              ELSE IF f = "dir" THEN d ELSE x[f]]
    BY <1>3, <2>1, <2>2
  <2>4. y.dir = d /\ y.disk = x.disk \cup {d} /\ y.age = 0
    BY <2>2, <2>3
  <2>5. SameBut(x, y, {"dir", "disk", "age"})
    <3>1. IsObserver(y)
      BY <2>3 DEF IsObserver
    <3>2. \A f \in Fields \ {"dir", "disk", "age"} : y[f] = x[f]
      BY <2>3
    <3> QED  BY <3>1, <3>2 DEF SameBut
  <2>6. SameCall(x, y)
    BY <2>5 DEF SameBut, Fields, SameCall, SamePause
  <2>7. /\ SameMedia(x, y) /\ y.content = x.content /\ y.told = x.told /\ y.finished = x.finished /\ y.err = x.err
    BY <2>5 DEF SameBut, Fields, SameMedia
  <2>8. TypesOf(y)
    BY <2>4, <2>5, ObserverAssumption DEF Core, SameBut, Fields, TypesOf
  <2>9. Core(y)
    BY <2>4, <2>5, <2>8 DEF Core, SameBut, Fields, DirsInOrder, KeptInOrder
  <2>10. x.content[d] = {}
    BY DEF Core, DirsInOrder
  <2>11. Handled(x, y)
    BY <2>4, <2>7, <2>10, ObserverAssumption DEF Handled, Settled
  <2> QED  BY <2>4, <2>6, <2>7, <2>9, <2>10, <2>11 DEF Goes, AllTold
<1>4. \A d \in Dirs : d # NoDir
  BY ObserverAssumption
<1> QED  BY <1>1, <1>2, <1>3, <1>4 DEF StartSegment

\* Something is put into the open segment.
LEMMA PutGoes ==
  ASSUME NEW x, Core(x), x.dir \in Dirs, NEW what \in SUBSET Contents, NEW y, y = Put(x, x.dir, what)
  PROVE  /\ SameBut(x, y, {"content"}) /\ y.content = [x.content EXCEPT ![x.dir] = @ \cup what]
         /\ Core(y) /\ Handled(x, y)
<1>1. SameBut(x, y, {"content"}) /\ y.content = [x.content EXCEPT ![x.dir] = @ \cup what]
  BY DEF Put, Core, IsObserver, SameBut, Fields
<1>2. x.content \in [Dirs -> SUBSET Contents] /\ x.dir \in x.disk
  BY ObserverAssumption DEF Core, TypesOf, DirsInOrder
<1>3. y.content \in [Dirs -> SUBSET Contents] /\ \A d \in Dirs : d # x.dir => y.content[d] = x.content[d]
  BY <1>1, <1>2
<1>4. TypesOf(y)
  BY <1>1, <1>3 DEF Core, SameBut, Fields, TypesOf
<1>5. y.dir = x.dir /\ y.disk = x.disk
  BY <1>1 DEF SameBut, Fields
<1>6. DirsInOrder(y)
  BY <1>2, <1>3, <1>5 DEF Core, DirsInOrder
<1>7. Core(y)
  BY <1>1, <1>4, <1>6 DEF Core, SameBut, Fields, KeptInOrder
<1>8. Handled(x, y)
  BY <1>3, <1>5 DEF Handled, Settled
<1> QED  BY <1>1, <1>7, <1>8

LEMMA PersistGoes ==
  ASSUME NEW x, Core(x), x.err = "ok", NEW y \in PersistActivity(x)
  PROVE  /\ Goes(x, y) /\ Handled(x, y) /\ SameMedia(x, y) /\ y.err \in {"ok", "fatal"}
         /\ x.dir # NoDir => y.dir = x.dir
<1>1. CASE ~x.rows
  BY <1>1, GoesNowhere DEF PersistActivity, SameMedia, Handled
<1>2. CASE x.rows
  <2>1. PICK z \in IF x.dir = NoDir THEN StartSegment(x) ELSE {x} :
          y \in IF z.err = "ok" THEN {[Put(z, z.dir, {"rows"}) EXCEPT !.rows = FALSE]} \cup Fails(z, "fatal")
                ELSE {z}
    BY <1>2 DEF PersistActivity, Then
  <2>2. /\ Goes(x, z) /\ Handled(x, z) /\ SameMedia(x, z) /\ z.err \in {"ok", "fatal"}
        /\ x.dir # NoDir => z.dir = x.dir
        /\ z.err = "ok" => z.dir \in Dirs
    <3>1. CASE x.dir = NoDir
      BY <2>1, <3>1, StartSegmentGoes DEF Goes, Core, TypesOf
    <3>2. CASE x.dir # NoDir
      BY <2>1, <3>2, GoesNowhere DEF SameMedia, Handled, Core, TypesOf
    <3> QED  BY <3>1, <3>2
  <2>3. CASE z.err # "ok"
    BY <2>1, <2>2, <2>3
  <2>4. CASE z.err = "ok" /\ y \in Fails(z, "fatal")
    <3>1. Goes(z, y) /\ Handled(z, y) /\ SameMedia(z, y) /\ y.err = "fatal" /\ y.dir = z.dir
      BY <2>2, <2>4, FailsGoes DEF Goes
    <3>2. Goes(x, y)
      BY <2>2, <2>4, <3>1, GoesOn
    <3> QED  BY <2>2, <3>1, <3>2 DEF Handled, SameMedia
  <2>5. CASE z.err = "ok" /\ y = [Put(z, z.dir, {"rows"}) EXCEPT !.rows = FALSE]
    <3> DEFINE t == Put(z, z.dir, {"rows"})
    <3>1. SameBut(z, t, {"content"}) /\ Core(t) /\ Handled(z, t)
      BY <2>2, <2>5, PutGoes DEF Goes, Contents
    <3> HIDE DEF t
    <3>2. SameBut(t, y, {"rows"})
      BY <2>5, <3>1 DEF t, Core, IsObserver, SameBut, Fields
    <3>3. SameCall(z, y)
      BY <3>1, <3>2 DEF SameBut, Fields, SameCall, SamePause
    <3>4. /\ SameMedia(z, y) /\ y.content = t.content /\ y.dir = t.dir /\ y.disk = t.disk /\ y.dir = z.dir
          /\ y.told = z.told /\ y.finished = z.finished /\ y.err = z.err
      BY <3>1, <3>2 DEF SameBut, Fields, SameMedia
    <3>5. TypesOf(y)
      BY <3>1, <3>2 DEF Core, SameBut, Fields, TypesOf
    <3>6. Core(y)
      BY <3>1, <3>2, <3>5 DEF Core, SameBut, Fields, DirsInOrder, KeptInOrder
    <3>7. Handled(z, y)
      BY <3>1, <3>4 DEF Handled, Settled
    <3>8. Goes(z, y)
      BY <3>3, <3>4, <3>6, <3>7 DEF Goes, AllTold
    <3>9. Goes(x, y) /\ Handled(x, y)
      BY <2>2, <2>5, <3>7, <3>8, GoesOn DEF Handled
    <3> QED  BY <2>2, <2>5, <3>4, <3>9 DEF SameMedia
  <2> QED  BY <2>1, <2>3, <2>4, <2>5
<1> QED  BY <1>1, <1>2

\* The same with its error dropped, as most callers have it.
LEMMA PersistQuietly ==
  ASSUME NEW x, Core(x), x.err = "ok", NEW y \in Quietly(PersistActivity(x))
  PROVE  Goes(x, y) /\ Handled(x, y) /\ SameMedia(x, y) /\ y.err = "ok" /\ (x.dir # NoDir => y.dir = x.dir)
<1>1. PICK z \in PersistActivity(x) : y = [z EXCEPT !.err = "ok"]
  BY DEF Quietly
<1>2. Goes(x, z) /\ Handled(x, z) /\ SameMedia(x, z) /\ (x.dir # NoDir => z.dir = x.dir)
  BY PersistGoes
<1> QED  BY <1>1, <1>2, QuietlyGoes DEF SameMedia, Goes

LEMMA StopVideoGoes ==
  ASSUME NEW x, Core(x), x.err = "ok", NEW y \in StopVideo(x)
  PROVE  /\ Goes(x, y) /\ Handled(x, y) /\ y.err \in {"ok", "fatal"}
         /\ y.dir = x.dir /\ y.fresh = x.fresh /\ y.hit = x.hit
         /\ y.span = x.span /\ y.rows = x.rows
         /\ y.err = "ok" => y.video = NoDir
         /\ y.err # "ok" => y.video = x.video
<1> DEFINE z == [x EXCEPT !.video = NoDir, !.healthy = FALSE]
<1>1. SameBut(x, z, {"video", "healthy"}) /\ z.video = NoDir
  BY DEF Core, IsObserver, SameBut, Fields
<1>2. SameCall(x, z)
  BY <1>1 DEF SameBut, Fields, SameCall, SamePause
<1>3. /\ z.content = x.content /\ z.disk = x.disk /\ z.dir = x.dir /\ z.fresh = x.fresh /\ z.hit = x.hit
      /\ z.told = x.told /\ z.finished = x.finished /\ z.err = x.err /\ z.span = x.span /\ z.rows = x.rows
  BY <1>1 DEF SameBut, Fields
<1>4. TypesOf(z)
  BY <1>1 DEF Core, SameBut, Fields, TypesOf
<1>5. Core(z)
  BY <1>1, <1>4 DEF Core, SameBut, Fields, DirsInOrder, KeptInOrder
<1>6. y = z \/ (x.video # NoDir /\ y = [z EXCEPT !.content[x.video] = @ \ {"screen"}]) \/ y \in Fails(x, "fatal")
  BY DEF StopVideo
<1> HIDE DEF z
<1>7. CASE y = z
  BY <1>1, <1>2, <1>3, <1>5, <1>7 DEF Goes, AllTold, Handled, Settled
<1>8. CASE y \in Fails(x, "fatal")
  BY <1>8, FailsGoes DEF SameMedia
<1>9. CASE x.video # NoDir /\ y = [z EXCEPT !.content[x.video] = @ \ {"screen"}]
  <2>1. SameBut(z, y, {"content"}) /\ y.content = [z.content EXCEPT ![x.video] = @ \ {"screen"}]
    BY <1>5, <1>9 DEF Core, IsObserver, SameBut, Fields
  <2>2. x.video \in Dirs /\ z.content \in [Dirs -> SUBSET Contents]
    BY <1>5, <1>9 DEF Core, TypesOf
  <2>3. y.content \in [Dirs -> SUBSET Contents] /\ \A d \in Dirs : y.content[d] \subseteq z.content[d]
    BY <2>1, <2>2
  <2>4. TypesOf(y)
    BY <1>5, <2>1, <2>3 DEF Core, SameBut, Fields, TypesOf
  <2>5. /\ y.disk = z.disk /\ y.dir = z.dir /\ y.fresh = z.fresh /\ y.hit = z.hit /\ y.video = z.video
        /\ y.told = z.told /\ y.finished = z.finished /\ y.err = z.err /\ y.span = z.span /\ y.rows = z.rows
    BY <2>1 DEF SameBut, Fields
  <2>6. DirsInOrder(y)
    BY <1>5, <2>3, <2>5 DEF Core, DirsInOrder
  <2>7. Core(y)
    BY <1>5, <2>1, <2>4, <2>6 DEF Core, SameBut, Fields, KeptInOrder
  <2>8. SameCall(z, y)
    BY <2>1 DEF SameBut, Fields, SameCall, SamePause
  <2>9. Handled(z, y)
    BY <2>3, <2>5 DEF Handled, Settled
  <2>10. Handled(x, y)
    BY <1>3, <2>9 DEF Handled, Settled
  <2>11. SameCall(x, y)
    BY <1>2, <2>8 DEF SameCall, SamePause
  <2> QED  BY <1>1, <1>3, <2>5, <2>7, <2>10, <2>11 DEF Goes, AllTold
<1> QED  BY <1>6, <1>7, <1>8, <1>9

\* In a tick that takes the screen the stream is down after this, or it failed.
LEMMA StopIfGoes ==
  ASSUME NEW x, Core(x), x.err = "ok", NEW y \in StopIfScreencast(x)
  PROVE  /\ Goes(x, y) /\ Handled(x, y) /\ y.err \in {"ok", "fatal"}
         /\ y.dir = x.dir /\ y.fresh = x.fresh /\ y.hit = x.hit
         /\ y.video \in {x.video, NoDir}
         /\ MediaInOrder(x) /\ y.err = "ok" => y.video = NoDir
<1>1. CASE x.mode = "screencast" /\ ~ActivityOnly
  BY <1>1, StopVideoGoes DEF StopIfScreencast
<1>2. CASE ~(x.mode = "screencast" /\ ~ActivityOnly)
  <2>1. y = x
    BY <1>2 DEF StopIfScreencast
  <2> QED  BY <1>2, <2>1, GoesNowhere DEF Handled, MediaInOrder
<1> QED  BY <1>1, <1>2

LEMMA WriteAudioGoes ==
  ASSUME NEW x, Core(x), x.err = "ok", NEW y \in WriteGatedAudio(x)
  PROVE  Goes(x, y) /\ Handled(x, y) /\ SameMedia(x, y) /\ y.err \in {"ok", "fatal"} /\ y.dir = x.dir
<1>1. CASE y = x
  BY <1>1, GoesNowhere DEF Handled, SameMedia
<1>2. CASE y \in Fails(x, "fatal")
  BY <1>2, FailsGoes
<1>3. CASE x.dir # NoDir /\ y = [Put(x, x.dir, {"sound"}) EXCEPT !.written = @ \cup x.frames]
  <2> DEFINE t == Put(x, x.dir, {"sound"})
  <2>1. SameBut(x, t, {"content"}) /\ Core(t) /\ Handled(x, t)
    BY <1>3, PutGoes DEF Core, TypesOf, Contents
  <2>2. SameBut(t, y, {"written"}) /\ y.written = t.written \cup x.frames
    BY <1>3, <2>1 DEF Core, IsObserver, SameBut, Fields
  <2> HIDE DEF t
  <2>3. SameCall(x, y)
    BY <2>1, <2>2 DEF SameBut, Fields, SameCall, SamePause
  <2>4. /\ SameMedia(x, y) /\ y.content = t.content /\ y.dir = t.dir /\ y.disk = t.disk /\ y.dir = x.dir
        /\ y.told = x.told /\ y.finished = x.finished /\ y.err = x.err /\ t.frames = x.frames
    BY <2>1, <2>2 DEF SameBut, Fields, SameMedia
  <2>5. TypesOf(y)
    BY <2>1, <2>2, <2>4 DEF Core, SameBut, Fields, TypesOf
  <2>6. KeptInOrder(y)
    BY <2>1, <2>2, <2>4 DEF Core, SameBut, Fields, KeptInOrder
  <2>7. Core(y)
    BY <2>1, <2>2, <2>5, <2>6 DEF Core, SameBut, Fields, DirsInOrder
  <2>8. Handled(x, y)
    BY <2>1, <2>4 DEF Handled, Settled
  <2> QED  BY <1>3, <2>3, <2>4, <2>7, <2>8 DEF Goes, AllTold
<1> QED  BY <1>1, <1>2, <1>3 DEF WriteGatedAudio

LEMMA ClearGoes ==
  ASSUME NEW x, Core(x)
  PROVE  LET y == ClearFrames(x)
         IN Goes(x, y) /\ Handled(x, y) /\ y.err = x.err /\ y.dir = x.dir /\ y.video = x.video /\ y.fresh = x.fresh
            /\ ~y.hit /\ y.content = x.content
<1> DEFINE y == ClearFrames(x)
<1>1. SameBut(x, y, {"frames", "hit"}) /\ y.hit = FALSE /\ y.frames = {}
  BY DEF ClearFrames, Core, IsObserver, SameBut, Fields
<1> HIDE DEF y
<1>2. SameCall(x, y)
  BY <1>1 DEF SameBut, Fields, SameCall, SamePause
<1>3. /\ y.video = x.video /\ y.fresh = x.fresh /\ y.dir = x.dir /\ y.content = x.content /\ y.disk = x.disk
      /\ y.told = x.told /\ y.finished = x.finished /\ y.err = x.err
  BY <1>1 DEF SameBut, Fields
<1>4. TypesOf(y)
  BY <1>1 DEF Core, SameBut, Fields, TypesOf
<1>5. Core(y)
  BY <1>1, <1>4 DEF Core, SameBut, Fields, DirsInOrder, KeptInOrder
<1>6. Goes(x, y) /\ Handled(x, y)
  BY <1>1, <1>2, <1>3, <1>5 DEF Goes, AllTold, Handled, Settled
<1> QED  BY <1>1, <1>3, <1>6 DEF y

\* A finished segment has left the disk and the worker is told; an empty one is
\* removed; and the observer has let go of it before either can fail.
LEMMA FinishGoes ==
  ASSUME NEW x, Core(x), x.err = "ok", NEW y \in FinishDirectory(x)
  PROVE  Goes(x, y) /\ SameMedia(x, y) /\ y.err \in {"ok", "fatal"} /\ y.dir = NoDir
<1>1. CASE x.dir = NoDir
  BY <1>1, GoesNowhere DEF FinishDirectory, SameMedia
<1>2. CASE x.dir # NoDir
  <2> DEFINE z == [x EXCEPT !.dir = NoDir]
  <2>1. SameBut(x, z, {"dir"}) /\ z.dir = NoDir
    BY DEF Core, IsObserver, SameBut, Fields
  <2>2. x.dir \in Dirs /\ x.content \in [Dirs -> SUBSET Contents]
    BY <1>2 DEF Core, TypesOf
  <2>3. \/ y \in Fails(z, "fatal")
        \/ x.content[x.dir] = {} /\ y = [z EXCEPT !.disk = @ \ {x.dir}]
        \/ y = [z EXCEPT !.disk = @ \ {x.dir}, !.content[x.dir] = {}, !.finished = Announced, !.told = Announced]
    BY <1>2 DEF FinishDirectory
  <2> HIDE DEF z
  <2>4. SameCall(x, z)
    BY <2>1 DEF SameBut, Fields, SameCall, SamePause
  <2>5. /\ SameMedia(x, z) /\ z.content = x.content /\ z.disk = x.disk
        /\ z.told = x.told /\ z.finished = x.finished /\ z.err = x.err
        /\ z.frames = x.frames /\ z.written = x.written
    BY <2>1 DEF SameBut, Fields, SameMedia
  <2>6. TypesOf(z)
    BY <2>1 DEF Core, SameBut, Fields, TypesOf
  <2>7. Core(z)
    BY <2>1, <2>5, <2>6 DEF Core, SameBut, DirsInOrder, KeptInOrder
  <2>8. CASE y \in Fails(z, "fatal")
    <3>1. Goes(z, y) /\ SameMedia(z, y) /\ y.err = "fatal" /\ y.dir = NoDir
      BY <2>1, <2>7, <2>8, FailsGoes
    <3>2. SameCall(x, y) /\ SameMedia(x, y)
      BY <2>4, <2>5, <3>1 DEF Goes, SameCall, SamePause, SameMedia
    <3> QED  BY <2>5, <3>1, <3>2 DEF Goes, AllTold
  <2>9. CASE x.content[x.dir] = {} /\ y = [z EXCEPT !.disk = @ \ {x.dir}]
    <3>1. SameBut(z, y, {"disk"}) /\ y.disk = z.disk \ {x.dir}
      BY <2>7, <2>9 DEF Core, IsObserver, SameBut, Fields
    <3>2. SameCall(x, y)
      BY <2>1, <3>1 DEF SameBut, Fields, SameCall, SamePause
    <3>3. /\ SameMedia(x, y) /\ y.content = x.content /\ y.dir = NoDir
          /\ y.told = x.told /\ y.finished = x.finished /\ y.err = x.err
      BY <2>1, <3>1 DEF SameBut, Fields, SameMedia
    <3>4. TypesOf(y)
      BY <2>7, <3>1 DEF Core, SameBut, Fields, TypesOf
    <3>5. DirsInOrder(y)
      BY <2>5, <2>9, <3>1, <3>3 DEF Core, DirsInOrder
    <3>6. Core(y)
      BY <2>7, <3>1, <3>4, <3>5 DEF Core, SameBut, Fields, KeptInOrder
    <3>7. Handled(x, y)
      BY <2>5, <2>9, <3>1, <3>3 DEF Handled, Settled
    <3> QED  BY <3>2, <3>3, <3>6, <3>7 DEF Goes, AllTold
  <2>10. CASE y = [z EXCEPT !.disk = @ \ {x.dir}, !.content[x.dir] = {}, !.finished = Announced, !.told = Announced]
    <3>1. DOMAIN z = Fields
      BY <2>7 DEF Core, IsObserver
    <3>2. "disk" \in Fields /\ "content" \in Fields /\ "finished" \in Fields /\ "told" \in Fields
      BY DEF Fields
    <3>3. y = [f \in Fields |-> IF f = "disk" THEN x.disk \ {x.dir} 
                                ELSE IF f = "content" THEN [x.content EXCEPT ![x.dir] = {}]
                                ELSE IF f \in {"finished", "told"} THEN Announced ELSE z[f]]
      BY <2>5, <2>10, <3>1, <3>2
    <3>4. /\ y.disk = x.disk \ {x.dir} /\ y.content = [x.content EXCEPT ![x.dir] = {}]
          /\ y.finished = Announced /\ y.told = Announced
      BY <3>2, <3>3
    <3>5. SameBut(z, y, {"disk", "content", "finished", "told"})
      <4>1. IsObserver(y)
        BY <3>3 DEF IsObserver
      <4>2. \A f \in Fields \ {"disk", "content", "finished", "told"} : y[f] = z[f]
        BY <3>3
      <4> QED  BY <4>1, <4>2 DEF SameBut
    <3>6. SameCall(x, y)
      BY <2>1, <3>5 DEF SameBut, Fields, SameCall, SamePause
    <3>7. SameMedia(x, y) /\ y.dir = NoDir /\ y.err = x.err /\ y.frames = x.frames /\ y.written = x.written
      BY <2>1, <3>5 DEF SameBut, Fields, SameMedia
    <3>8. /\ y.content \in [Dirs -> SUBSET Contents]
          /\ \A d \in Dirs : y.content[d] = IF d = x.dir THEN {} ELSE x.content[d]
      BY <2>2, <3>4
    <3>9. Announced \in Truth
      <4>1. Announced \in BOOLEAN
        BY SMT DEF Announced
      <4>2. BOOLEAN = Truth
        BY DEF Truth
      <4> QED  BY <4>1, <4>2
    <3>10. TypesOf(y)
      BY <2>7, <3>4, <3>5, <3>8, <3>9 DEF Core, SameBut, Fields, TypesOf
    <3>11. DirsInOrder(y)
      BY <3>4, <3>7, <3>8 DEF Core, DirsInOrder
    <3>12. KeptInOrder(y)
      BY <3>4, <3>7 DEF Core, KeptInOrder
    <3>13. Handled(x, y)
      BY <3>4, <3>8 DEF Handled, Settled
    <3> QED  BY <3>4, <3>5, <3>6, <3>7, <3>10, <3>11, <3>12, <3>13 DEF Goes, AllTold, Core, SameBut
  <2> QED  BY <2>3, <2>8, <2>9, <2>10
<1> QED  BY <1>1, <1>2

LEMMA FinalizeGoes ==
  ASSUME NEW x, Core(x), x.err = "ok", NEW y \in FinalizeSegment(x)
  PROVE  Goes(x, y) /\ SameMedia(x, y) /\ y.err \in {"ok", "fatal"} /\ (y.err = "ok" => y.dir = NoDir)
<1> DEFINE s == Seal(x)
<1>1. Goes(x, s) /\ Handled(x, s) /\ SameMedia(x, s) /\ s.err = "ok"
  BY SealGoes
<1> HIDE DEF s
<1>2. PICK z \in PersistActivity(s) : y \in IF z.err = "ok" THEN FinishDirectory(z) ELSE {z}
  BY DEF FinalizeSegment, Then, s
<1>3. Goes(s, z) /\ SameMedia(s, z) /\ z.err \in {"ok", "fatal"}
  BY <1>1, <1>2, PersistGoes DEF Goes
<1>4. Goes(x, z)
  BY <1>1, <1>3, GoesOn
<1>5. CASE z.err # "ok"
  BY <1>1, <1>2, <1>3, <1>4, <1>5 DEF SameMedia
<1>6. CASE z.err = "ok"
  <2>1. Goes(z, y) /\ SameMedia(z, y) /\ y.err \in {"ok", "fatal"} /\ y.dir = NoDir
    BY <1>2, <1>4, <1>6, FinishGoes DEF Goes
  <2> QED  BY <1>1, <1>3, <1>4, <1>6, <2>1, GoesOn DEF SameMedia
<1> QED  BY <1>5, <1>6

-----------------------------------------------------------------------------
(* Parts of a tick, which also change what the observer decides by *)

Ends(x, y) ==
  /\ Core(y) /\ SamePause(x, y) /\ (AllTold(x) => AllTold(y))
  /\ y.err # "fatal" => Handled(x, y)

\* Fields that no invariant of the directories, the pause or the sync worker is about.
Aside == {"mode", "target", "fresh", "live", "locked", "muted", "segMuted", "moved", "waited",
          "settle", "retry", "alone", "span", "heard", "hit", "err", "age", "healthy", "faults"}

\* What the calls work on, and what a pause needs of the stream and the sound.
Ready(x)  == Core(x) /\ x.err = "ok" /\ MediaInOrder(x)
Silent(x) == x.video = NoDir /\ ~x.hit
Shut(x)   == Silent(x) /\ x.dir = NoDir

\* The same but for Aside; a failed call that was put right may have used up a fault.
LEMMA AsideEnds ==
  ASSUME NEW x, Core(x), NEW y, SameBut(x, y, Aside), TypesOf(y)
  PROVE  /\ Ends(x, y) /\ Handled(x, y) /\ y.dir = x.dir /\ y.video = x.video /\ y.content = x.content
         /\ y.disk = x.disk
<1>1. /\ y.dir = x.dir /\ y.video = x.video /\ y.content = x.content /\ y.disk = x.disk
      /\ y.told = x.told /\ y.finished = x.finished /\ y.frames = x.frames /\ y.written = x.written
  BY DEF SameBut, Fields, Aside
<1>2. SamePause(x, y)
  BY DEF SameBut, Fields, Aside, SamePause
<1>3. Core(y)
  BY <1>1 DEF Core, SameBut, DirsInOrder, KeptInOrder
<1> QED  BY <1>1, <1>2, <1>3 DEF Ends, AllTold, Handled, Settled

LEMMA GoesEnds == ASSUME NEW x, NEW y, Goes(x, y)  PROVE Ends(x, y)
BY DEF Goes, SameCall, Ends

LEMMA EndsOn ==
  ASSUME NEW x, NEW y, NEW z, Ends(x, y), Ends(y, z), y.err = "ok" \/ Handled(x, y)
  PROVE  Ends(x, z)
<1>1. SamePause(x, z)
  BY DEF Ends, SamePause
<1>2. z.err # "fatal" => Handled(x, z)
  BY DEF Ends, Handled
<1> QED  BY <1>1, <1>2 DEF Ends

LEMMA EndsNowhere == ASSUME NEW x, Core(x)  PROVE Ends(x, x)
BY GoesNowhere, GoesEnds

\* What is shut is in order, and calm.
LEMMA ShutIsCalm == ASSUME NEW x, Shut(x)  PROVE MediaInOrder(x) /\ Calm(x)
BY DEF Shut, Silent, MediaInOrder, Calm

LEMMA SilentInOrder == ASSUME NEW x, Silent(x)  PROVE MediaInOrder(x)
BY DEF Silent, MediaInOrder

LEMMA MediaKept ==
  ASSUME NEW x, NEW y, MediaInOrder(x), y.mode = x.mode, y.alone = x.alone, y.video = x.video, y.hit = x.hit,
         x.dir # NoDir => y.dir = x.dir
  PROVE  MediaInOrder(y)
BY DEF MediaInOrder

\* Activity is noted and kept; the error of that is dropped.
LEMMA NotedGoes ==
  ASSUME NEW x, Core(x), x.err = "ok", NEW n \in NoteActivity(x), NEW y \in Quietly(PersistActivity(n))
  PROVE  /\ Goes(x, y) /\ Handled(x, y) /\ SameMedia(x, y) /\ y.err = "ok" /\ (x.dir # NoDir => y.dir = x.dir)
         /\ MediaInOrder(x) => MediaInOrder(y)
<1>1. Goes(x, n) /\ Handled(x, n) /\ SameMedia(x, n) /\ n.err = "ok" /\ n.dir = x.dir
  BY NoteOutcome
<1>2. Goes(n, y) /\ Handled(n, y) /\ SameMedia(n, y) /\ y.err = "ok" /\ (n.dir # NoDir => y.dir = n.dir)
  BY <1>1, PersistQuietly DEF Goes
<1>3. Goes(x, y) /\ Handled(x, y) /\ SameMedia(x, y)
  BY <1>1, <1>2, GoesOn DEF Handled, SameMedia
<1>4. MediaInOrder(x) => MediaInOrder(y)
  BY <1>1, <1>2, <1>3, MediaKept DEF Goes, SameCall, SameMedia
<1> QED  BY <1>1, <1>2, <1>3, <1>4

\* The sound is saved, the frames are let go of, and the segment is closed.
LEMMA SaveAndClose ==
  ASSUME NEW x, Core(x), x.err = "ok",
         NEW y \in Then(WriteGatedAudio(x), LAMBDA t : FinalizeSegment(ClearFrames(t)))
  PROVE  /\ Goes(x, y) /\ y.err \in {"ok", "fatal"} /\ y.video = x.video
         /\ y.err = "ok" => y.dir = NoDir /\ ~y.hit
<1>1. PICK t \in WriteGatedAudio(x) : y \in IF t.err = "ok" THEN FinalizeSegment(ClearFrames(t)) ELSE {t}
  BY DEF Then
<1>2. Goes(x, t) /\ SameMedia(x, t) /\ t.err \in {"ok", "fatal"} /\ Core(t)
  BY WriteAudioGoes DEF Goes
<1>3. CASE t.err # "ok"
  BY <1>1, <1>2, <1>3 DEF SameMedia
<1>4. CASE t.err = "ok"
  <2> DEFINE c == ClearFrames(t)
  <2>1. Goes(t, c) /\ c.err = "ok" /\ c.video = t.video /\ ~c.hit /\ Core(c)
    BY <1>2, <1>4, ClearGoes DEF Goes
  <2>2. y \in FinalizeSegment(c)
    BY <1>1, <1>4
  <2> HIDE DEF c
  <2>3. Goes(c, y) /\ SameMedia(c, y) /\ y.err \in {"ok", "fatal"} /\ (y.err = "ok" => y.dir = NoDir)
    BY <2>1, <2>2, FinalizeGoes
  <2>4. Goes(x, c)
    BY <1>2, <1>4, <2>1, GoesOn
  <2>5. Goes(x, y)
    BY <2>1, <2>3, <2>4, GoesOn
  <2> QED  BY <1>2, <2>1, <2>3, <2>5 DEF SameMedia
<1> QED  BY <1>3, <1>4

\* However a pause or an absence finds it, the segment is shut.
LEMMA FinishPausedGoes ==
  ASSUME NEW x, Ready(x), NEW y \in FinishPaused(x)
  PROVE  Goes(x, y) /\ y.err \in {"ok", "fatal"} /\ (y.err = "ok" => Shut(y))
<1> DEFINE close(z) == IF ActivityOnly THEN FinalizeSegment(z)
                       ELSE Then(WriteGatedAudio(z), LAMBDA t : FinalizeSegment(ClearFrames(t)))
<1> DEFINE rest(p) == IF p.err = "ok" THEN IF p.dir = NoDir THEN {p} ELSE Then(StopIfScreencast(p), close) ELSE {p}
<1>0. PICK p \in UNION {Quietly(PersistActivity(n)) : n \in NoteActivity(x)} : y \in rest(p)
  BY DEF FinishPaused, Then
<1>1. y \in IF p.err = "ok" THEN IF p.dir = NoDir THEN {p} ELSE Then(StopIfScreencast(p), close) ELSE {p}
  BY <1>0
<1>9. PICK n \in NoteActivity(x) : p \in Quietly(PersistActivity(n))
  BY <1>0
<1>2. Goes(x, p) /\ p.err = "ok" /\ MediaInOrder(p) /\ Core(p)
  BY NotedGoes DEF Ready, Goes
<1>3. CASE p.dir = NoDir
  BY <1>1, <1>2, <1>3 DEF MediaInOrder, Shut, Silent
<1>4. CASE p.dir # NoDir
  <2>1. PICK z \in StopIfScreencast(p) : y \in IF z.err = "ok" THEN close(z) ELSE {z}
    BY <1>1, <1>2, <1>4 DEF Then
  <2>2. /\ Goes(p, z) /\ z.err \in {"ok", "fatal"} /\ z.hit = p.hit /\ Core(z)
        /\ z.err = "ok" => z.video = NoDir
    BY <1>2, StopIfGoes DEF Goes
  <2>3. Goes(x, z)
    BY <1>2, <2>2, GoesOn
  <2>4. CASE z.err # "ok"
    BY <2>1, <2>2, <2>3, <2>4
  <2>5. CASE z.err = "ok" /\ ActivityOnly
    <3>1. y \in FinalizeSegment(z)
      BY <2>1, <2>5
    <3>2. Goes(z, y) /\ SameMedia(z, y) /\ y.err \in {"ok", "fatal"} /\ (y.err = "ok" => y.dir = NoDir)
      BY <2>2, <2>5, <3>1, FinalizeGoes
    <3>3. ~z.hit
      BY <1>2, <2>2, <2>5 DEF MediaInOrder
    <3> QED  BY <2>2, <2>3, <2>5, <3>2, <3>3, GoesOn DEF Shut, Silent, SameMedia
  <2>6. CASE z.err = "ok" /\ ~ActivityOnly
    <3>1. y \in Then(WriteGatedAudio(z), LAMBDA t : FinalizeSegment(ClearFrames(t)))
      BY <2>1, <2>6
    <3>2. /\ Goes(z, y) /\ y.err \in {"ok", "fatal"} /\ y.video = z.video
          /\ y.err = "ok" => y.dir = NoDir /\ ~y.hit
      BY <2>2, <2>6, <3>1, SaveAndClose
    <3> QED  BY <2>2, <2>3, <2>6, <3>2, GoesOn DEF Shut, Silent
  <2> QED  BY <2>4, <2>5, <2>6
<1> QED  BY <1>3, <1>4

LEMMA WaitForSessionEnds ==
  ASSUME NEW x, Ready(x), NEW y \in WaitForSession(x)
  PROVE  /\ Ends(x, y) /\ y.err \in {"ok", "fatal"}
         /\ y.err = "ok" => Shut(y) /\ y.heard = {}
<1>1. PICK p \in IF x.dir # NoDir \/ x.span THEN FinishPaused(x) ELSE {x} :
        y \in IF p.err = "ok" THEN {[Drain(p) EXCEPT !.mode = "idle", !.waited = TRUE]} ELSE {p}
  BY DEF WaitForSession, Then
<1>2. Goes(x, p) /\ p.err \in {"ok", "fatal"} /\ (p.err = "ok" => Shut(p)) /\ Core(p)
  <2>1. CASE p \in FinishPaused(x)
    BY <2>1, FinishPausedGoes DEF Goes
  <2>2. CASE p = x /\ x.dir = NoDir
    BY <2>2, GoesNowhere DEF Ready, MediaInOrder, Shut, Silent
  <2> QED  BY <1>1, <2>1, <2>2
<1>3. Ends(x, p)
  BY <1>2, GoesEnds
<1>4. CASE p.err # "ok"
  BY <1>1, <1>2, <1>3, <1>4
<1>5. CASE p.err = "ok"
  <2>1. y = [[p EXCEPT !.heard = {}] EXCEPT !.mode = "idle", !.waited = TRUE]
    BY <1>1, <1>5 DEF Drain
  <2>2. /\ SameBut(p, y, {"heard", "mode", "waited"}) /\ y.heard = {} /\ y.mode = "idle"
    BY <1>2, <2>1 DEF Core, IsObserver, SameBut, Fields
  <2>3. TypesOf(y)
    BY <1>2, <2>2 DEF Core, SameBut, Fields, TypesOf
  <2>4. SameBut(p, y, Aside)
    BY <2>2 DEF SameBut, Aside
  <2>5. Ends(p, y) /\ y.dir = p.dir /\ y.video = p.video
    BY <1>2, <2>3, <2>4, AsideEnds
  <2>6. y.hit = p.hit /\ y.err = p.err
    BY <2>2 DEF SameBut, Fields
  <2> QED  BY <1>2, <1>3, <1>5, <2>2, <2>5, <2>6, EndsOn DEF Shut, Silent
<1> QED  BY <1>4, <1>5

\* A stream that starts writes into the segment just begun; one that is refused
\* leaves it empty.
LEMMA StartCaptureGoes ==
  ASSUME NEW x, Core(x), x.err = "ok", x.dir = NoDir, x.video = NoDir, NEW y \in StartCapture(x)
  PROVE  /\ Goes(x, y) /\ y.err \in {"ok", "video", "fatal"} /\ y.hit = x.hit
         /\ y.err # "fatal" => y.fresh /\ y.dir # NoDir
         /\ y.err = "ok" => y.video = NoDir \/ (y.video = y.dir /\ y.target = "screencast")
         /\ y.err = "video" => y.video = NoDir /\ y.content[y.dir] = {}
<1> DEFINE fresh(s) == [s EXCEPT !.fresh = TRUE]
           film(s) == IF s.target = "screencast" /\ ~s.locked
                      THEN {[Put(fresh(s), fresh(s).dir, {"screen"})
                               EXCEPT !.video = fresh(s).dir, !.healthy = TRUE]}
                             \cup Fails([fresh(s) EXCEPT !.healthy = FALSE], "video")
                      ELSE {fresh(s)}
<1>1. PICK s \in StartSegment(x) : y \in IF s.err = "ok" THEN film(s) ELSE {s}
  BY DEF StartCapture, Then
<1>2. /\ Goes(x, s) /\ SameMedia(x, s) /\ s.err \in {"ok", "fatal"} /\ Core(s)
      /\ s.err = "ok" => s.dir # NoDir /\ s.content[s.dir] = {}
  BY StartSegmentGoes DEF Goes
<1>3. CASE s.err # "ok"
  BY <1>1, <1>2, <1>3 DEF SameMedia
<1>4. CASE s.err = "ok"
  <2> DEFINE z == fresh(s)
  <2>1. SameBut(s, z, {"fresh"}) /\ z.fresh = TRUE
    BY <1>2 DEF Core, IsObserver, SameBut, Fields
  <2>2. \/ y = z
        \/ s.target = "screencast" /\ y = [Put(z, z.dir, {"screen"}) EXCEPT !.video = z.dir, !.healthy = TRUE]
        \/ y \in Fails([z EXCEPT !.healthy = FALSE], "video")
    BY <1>1, <1>4
  <2> HIDE DEF z
  <2>3. /\ Core(z) /\ z.dir = s.dir /\ z.content = s.content /\ z.video = s.video /\ z.hit = s.hit /\ z.err = s.err
        /\ z.disk = s.disk /\ z.target = s.target /\ Goes(s, z)
    <3>1. /\ z.dir = s.dir /\ z.content = s.content /\ z.video = s.video /\ z.hit = s.hit /\ z.err = s.err
          /\ z.told = s.told /\ z.finished = s.finished /\ z.disk = s.disk /\ z.target = s.target
      BY <2>1 DEF SameBut, Fields
    <3>2. SameCall(s, z)
      BY <2>1 DEF SameBut, Fields, SameCall, SamePause
    <3>3. TypesOf(z)
      BY <1>2, <2>1 DEF Core, SameBut, Fields, TypesOf
    <3>4. Core(z)
      BY <1>2, <2>1, <3>3 DEF Core, SameBut, Fields, DirsInOrder, KeptInOrder
    <3> QED  BY <3>1, <3>2, <3>4 DEF Goes, AllTold, Handled, Settled
  <2>4. Goes(x, z)
    BY <1>2, <1>4, <2>3, GoesOn
  <2>5. CASE y = z
    BY <1>2, <1>4, <2>1, <2>3, <2>4, <2>5 DEF SameMedia
  <2>6. CASE s.target = "screencast" /\ y = [Put(z, z.dir, {"screen"}) EXCEPT !.video = z.dir, !.healthy = TRUE]
    <3> DEFINE t == Put(z, z.dir, {"screen"})
    <3>0. z.dir \in Dirs
      BY <1>2, <1>4, <2>3 DEF Core, TypesOf
    <3>1. SameBut(z, t, {"content"}) /\ Core(t) /\ Handled(z, t)
      BY <2>3, <3>0, PutGoes DEF Contents
    <3>2. SameBut(t, y, {"video", "healthy"}) /\ y.video = z.dir
      BY <2>6, <3>1 DEF Core, IsObserver, SameBut, Fields
    <3> HIDE DEF t
    <3>3. SameCall(z, y)
      BY <3>1, <3>2 DEF SameBut, Fields, SameCall, SamePause
    <3>4. /\ y.content = t.content /\ y.disk = t.disk /\ y.dir = z.dir /\ y.dir = t.dir /\ y.hit = z.hit
          /\ y.fresh = z.fresh /\ y.err = z.err /\ y.target = z.target
          /\ y.told = z.told /\ y.finished = z.finished
      BY <3>1, <3>2 DEF SameBut, Fields
    <3>5. TypesOf(y)
      BY <3>0, <3>1, <3>2 DEF Core, SameBut, Fields, TypesOf
    <3>6. Core(y)
      BY <3>1, <3>2, <3>5 DEF Core, SameBut, Fields, DirsInOrder, KeptInOrder
    <3>7. Handled(z, y)
      BY <3>1, <3>4 DEF Handled, Settled
    <3>8. Goes(z, y)
      BY <3>3, <3>4, <3>6, <3>7 DEF Goes, AllTold
    <3>9. Goes(x, y)
      BY <1>4, <2>3, <2>4, <3>8, GoesOn
    <3> QED  BY <1>2, <1>4, <2>1, <2>3, <2>6, <3>2, <3>4, <3>9 DEF SameMedia
  <2>7. CASE y \in Fails([z EXCEPT !.healthy = FALSE], "video")
    <3> DEFINE t == [z EXCEPT !.healthy = FALSE]
    <3>1. SameBut(z, t, {"healthy"})
      BY <2>3 DEF Core, IsObserver, SameBut, Fields
    <3>2. y \in Fails(t, "video")
      BY <2>7
    <3> HIDE DEF t
    <3>3. SameCall(z, t)
      BY <3>1 DEF SameBut, Fields, SameCall, SamePause
    <3>4. /\ t.content = z.content /\ t.disk = z.disk /\ t.dir = z.dir /\ t.hit = z.hit /\ t.video = z.video
          /\ t.fresh = z.fresh /\ t.err = z.err /\ t.told = z.told /\ t.finished = z.finished
      BY <3>1 DEF SameBut, Fields
    <3>5. TypesOf(t)
      BY <2>3, <3>1 DEF Core, SameBut, Fields, TypesOf
    <3>6. Core(t)
      BY <2>3, <3>1, <3>5 DEF Core, SameBut, Fields, DirsInOrder, KeptInOrder
    <3>7. Goes(z, t)
      BY <3>3, <3>4, <3>6 DEF Goes, AllTold, Handled, Settled
    <3>8. /\ Goes(t, y) /\ SameMedia(t, y) /\ y.err = "video" /\ y.dir = t.dir /\ y.content = t.content
      BY <3>2, <3>6, FailsGoes
    <3>9. Goes(x, y)
      BY <1>4, <2>3, <2>4, <3>4, <3>7, <3>8, GoesOn
    <3> QED  BY <1>2, <1>4, <2>1, <2>3, <3>4, <3>8, <3>9 DEF SameMedia
  <2> QED  BY <2>2, <2>5, <2>6, <2>7
<1> QED  BY <1>3, <1>4

\* At a boundary the last segment is closed and the next one is of the session
\* in front and the mute that holds; a stream that is refused leaves it empty.
Opened(y) == /\ MediaInOrder(y) /\ y.dir # NoDir /\ ~y.hit /\ y.fresh /\ y.segMuted = y.muted

SameTick(x, y) ==
  /\ y.heard = x.heard /\ y.live = x.live /\ y.alone = x.alone /\ y.muted = x.muted
  /\ y.settle = x.settle

LEMMA HandleBoundaryEnds ==
  ASSUME NEW x, Ready(x), ~x.alone, ~ActivityOnly, NEW y \in HandleBoundary(x)
  PROVE  /\ Ends(x, y) /\ SameTick(x, y) /\ y.err \in {"ok", "video", "fatal"}
         /\ y.err # "fatal" => Opened(y)
<1> DEFINE save(u) == Then(WriteGatedAudio(u), LAMBDA z : FinalizeSegment(ClearFrames(z)))
           closed == Then(StopIfScreencast(x), save)
           next(c) == [c EXCEPT !.segMuted = c.muted, !.mode = c.target]
<1>1. PICK c \in closed : y \in IF c.err = "ok" THEN Continue(StartCapture(next(c)), x.span) ELSE {c}
  BY DEF HandleBoundary, Then
<1>2. PICK u \in StopIfScreencast(x) : c \in IF u.err = "ok" THEN save(u) ELSE {u}
  BY <1>1 DEF Then
<1>3. Goes(x, u) /\ u.err \in {"ok", "fatal"} /\ Core(u) /\ (u.err = "ok" => u.video = NoDir)
  BY StopIfGoes DEF Goes, Ready
<1>4. /\ Goes(x, c) /\ c.err \in {"ok", "fatal"} /\ Core(c)
      /\ c.err = "ok" => c.dir = NoDir /\ ~c.hit /\ c.video = NoDir
  <2>1. CASE u.err # "ok"
    BY <1>2, <1>3, <2>1
  <2>2. CASE u.err = "ok"
    <3>1. c \in Then(WriteGatedAudio(u), LAMBDA t : FinalizeSegment(ClearFrames(t)))
      BY <1>2, <2>2
    <3>2. /\ Goes(u, c) /\ c.err \in {"ok", "fatal"} /\ c.video = u.video
          /\ c.err = "ok" => c.dir = NoDir /\ ~c.hit
      BY <1>3, <2>2, <3>1, SaveAndClose
    <3>3. Goes(x, c)
      BY <1>3, <2>2, <3>2, GoesOn
    <3> QED  BY <1>3, <2>2, <3>2, <3>3 DEF Goes
  <2> QED  BY <2>1, <2>2
<1>5. Ends(x, c) /\ SameTick(x, c)
  BY <1>4, GoesEnds DEF Goes, SameCall, SameTick
<1>6. CASE c.err # "ok"
  BY <1>1, <1>4, <1>5, <1>6
<1>7. CASE c.err = "ok"
  <2> DEFINE n == next(c)
  <2>1. SameBut(c, n, {"segMuted", "mode"}) /\ n.segMuted = c.muted /\ n.mode = c.target
    BY <1>4 DEF Core, IsObserver, SameBut, Fields
  <2>2. PICK s \in StartCapture(n) : y = IF s.dir # NoDir THEN [s EXCEPT !.span = x.span] ELSE s
    BY <1>1, <1>7 DEF Continue
  <2> HIDE DEF n
  <2>3. TypesOf(n) /\ SameBut(c, n, Aside)
    BY <1>4, <2>1 DEF Core, SameBut, Fields, TypesOf, Aside
  <2>4. Ends(c, n) /\ n.dir = c.dir /\ n.video = c.video /\ Core(n)
    BY <1>4, <2>3, AsideEnds DEF Ends
  <2>5. /\ n.err = "ok" /\ n.hit = c.hit /\ n.alone = c.alone /\ n.target = c.target /\ n.muted = c.muted
        /\ SameTick(c, n)
    BY <1>7, <2>1 DEF SameBut, Fields, SameTick
  <2>6. /\ Goes(n, s) /\ s.err \in {"ok", "video", "fatal"} /\ s.hit = n.hit /\ Core(s)
        /\ s.err # "fatal" => s.fresh /\ s.dir # NoDir
        /\ s.err = "ok" => s.video = NoDir \/ (s.video = s.dir /\ s.target = "screencast")
        /\ s.err = "video" => s.video = NoDir
    BY <1>4, <1>7, <2>2, <2>4, <2>5, StartCaptureGoes DEF Goes
  <2>7. Ends(x, s)
    BY <1>5, <1>7, <2>4, <2>5, <2>6, GoesEnds, EndsOn
  <2>8. /\ SameTick(x, s) /\ s.mode = n.mode /\ s.target = n.target /\ s.segMuted = n.segMuted /\ s.muted = n.muted
        /\ s.alone = x.alone
    BY <1>5, <2>5, <2>6 DEF Goes, SameCall, SameTick
  <2>9. s.err # "fatal" => Opened(s)
    BY <1>4, <1>7, <2>1, <2>5, <2>6, <2>8 DEF Opened, MediaInOrder
  <2>10. CASE y = s
    BY <2>6, <2>7, <2>8, <2>9, <2>10
  <2>11. CASE y = [s EXCEPT !.span = x.span]
    <3>1. SameBut(s, y, {"span"})
      BY <2>6, <2>11 DEF Core, IsObserver, SameBut, Fields
    <3>2. TypesOf(y) /\ SameBut(s, y, Aside)
      BY <2>6, <3>1 DEF Core, SameBut, Fields, TypesOf, Aside
    <3>3. Ends(s, y) /\ Handled(s, y) /\ y.dir = s.dir /\ y.video = s.video
      BY <2>6, <3>2, AsideEnds
    <3>4. /\ y.err = s.err /\ y.hit = s.hit /\ y.fresh = s.fresh /\ y.segMuted = s.segMuted /\ y.muted = s.muted
          /\ y.mode = s.mode /\ y.alone = s.alone /\ SameTick(s, y)
      BY <3>1 DEF SameBut, Fields, SameTick
    <3>5. Ends(x, y)
      <4>1. SamePause(x, y) /\ (AllTold(x) => AllTold(y)) /\ Core(y)
        BY <2>7, <3>3 DEF Ends, SamePause
      <4>2. y.err # "fatal" => Handled(x, y)
        BY <2>7, <3>3, <3>4 DEF Ends, Handled
      <4> QED  BY <4>1, <4>2 DEF Ends
    <3>6. SameTick(x, y)
      BY <2>8, <3>4 DEF SameTick
    <3>7. y.err # "fatal" => Opened(y)
      BY <2>9, <3>3, <3>4 DEF Opened, MediaInOrder
    <3> QED  BY <2>6, <3>4, <3>5, <3>6, <3>7
  <2> QED  BY <2>2, <2>10, <2>11
<1> QED  BY <1>6, <1>7

\* A pause that leaves activity on ends the media only.
LEMMA EndMediaEnds ==
  ASSUME NEW x, Ready(x), NEW y \in EndMediaForPause(x)
  PROVE  Ends(x, y) /\ y.err \in {"ok", "fatal"} /\ (y.err = "ok" => Shut(y))
<1> DEFINE idle(u) == [ClearFrames(u) EXCEPT !.mode = "idle"]
           last(v) == {[v EXCEPT !.span = x.span]}
           close(u) == Then(FinalizeSegment(idle(u)), last)
           save(s) == Then(IF s.dir # NoDir THEN WriteGatedAudio(s) ELSE {s}, close)
<1>1. PICK s \in IF x.mode = "screencast" THEN StopVideo(x) ELSE {x} :
        y \in IF s.err = "ok" THEN save(s) ELSE {s}
  BY DEF EndMediaForPause, Then
<1>2. Goes(x, s) /\ s.err \in {"ok", "fatal"} /\ Core(s) /\ (s.err = "ok" => s.video = NoDir)
  <2>1. CASE x.mode = "screencast"
    BY <1>1, <2>1, StopVideoGoes DEF Ready, Goes
  <2>2. CASE x.mode # "screencast"
    <3>1. s = x
      BY <1>1, <2>2
    <3> QED  BY <2>2, <3>1, GoesNowhere DEF Ready, MediaInOrder
  <2> QED  BY <2>1, <2>2
<1>3. Ends(x, s)
  BY <1>2, GoesEnds
<1>4. CASE s.err # "ok"
  BY <1>1, <1>2, <1>3, <1>4
<1>5. CASE s.err = "ok"
  <2>1. PICK u \in IF s.dir # NoDir THEN WriteGatedAudio(s) ELSE {s} : y \in IF u.err = "ok" THEN close(u) ELSE {u}
    BY <1>1, <1>5 DEF Then
  <2>2. Goes(s, u) /\ u.err \in {"ok", "fatal"} /\ Core(u) /\ u.video = s.video
    <3>1. CASE s.dir # NoDir
      BY <1>2, <1>5, <2>1, <3>1, WriteAudioGoes DEF Goes, SameMedia
    <3>2. CASE s.dir = NoDir
      BY <1>2, <1>5, <2>1, <3>2, GoesNowhere
    <3> QED  BY <3>1, <3>2
  <2>3. Ends(x, u)
    BY <1>3, <1>5, <2>2, GoesEnds, EndsOn
  <2>4. CASE u.err # "ok"
    BY <2>1, <2>2, <2>3, <2>4
  <2>5. CASE u.err = "ok"
    <3> DEFINE c == ClearFrames(u)
               n == idle(u)
    <3>1. Ends(u, c) /\ Core(c) /\ c.err = "ok" /\ c.video = u.video /\ ~c.hit
      BY <2>2, <2>5, ClearGoes, GoesEnds DEF Goes
    <3>2. n = [c EXCEPT !.mode = "idle"]
      OBVIOUS
    <3>3. PICK v \in FinalizeSegment(n) : y \in IF v.err = "ok" THEN last(v) ELSE {v}
      BY <2>1, <2>5 DEF Then
    <3> HIDE DEF c, n
    <3>4. SameBut(c, n, {"mode"}) /\ n.mode = "idle"
      BY <3>1, <3>2 DEF Core, IsObserver, SameBut, Fields
    <3>5. TypesOf(n) /\ SameBut(c, n, Aside)
      BY <3>1, <3>4 DEF Core, SameBut, Fields, TypesOf, Aside
    <3>6. Ends(c, n) /\ Core(n) /\ n.video = c.video
      BY <3>1, <3>5, AsideEnds DEF Ends
    <3>7. n.err = c.err /\ n.hit = c.hit
      BY <3>4 DEF SameBut, Fields
    <3>8. /\ Goes(n, v) /\ SameMedia(n, v) /\ v.err \in {"ok", "fatal"} /\ Core(v)
          /\ v.err = "ok" => v.dir = NoDir
      BY <3>1, <3>3, <3>6, <3>7, FinalizeGoes DEF Goes
    <3>9. Ends(x, v)
      BY <2>3, <2>5, <3>1, <3>6, <3>7, <3>8, GoesEnds, EndsOn
    <3>10. v.video = NoDir /\ ~v.hit
      BY <1>2, <1>5, <2>2, <3>1, <3>6, <3>7, <3>8 DEF SameMedia
    <3>11. CASE v.err # "ok"
      BY <3>3, <3>8, <3>9, <3>11
    <3>12. CASE v.err = "ok"
      <4>1. SameBut(v, y, {"span"})
        BY <3>3, <3>8, <3>12 DEF Core, IsObserver, SameBut, Fields
      <4>2. TypesOf(y) /\ SameBut(v, y, Aside)
        BY <3>8, <4>1 DEF Core, SameBut, Fields, TypesOf, Aside
      <4>3. Ends(v, y) /\ y.dir = v.dir /\ y.video = v.video
        BY <3>8, <4>2, AsideEnds
      <4>4. y.err = v.err /\ y.hit = v.hit
        BY <4>1 DEF SameBut, Fields
      <4> QED  BY <3>8, <3>9, <3>10, <3>12, <4>3, <4>4, EndsOn DEF Shut, Silent
    <3> QED  BY <3>11, <3>12
  <2> QED  BY <2>4, <2>5
<1> QED  BY <1>4, <1>5

\* The pause over, the segment of activity alone is closed.
LEMMA EndAloneEnds ==
  ASSUME NEW x, Ready(x), NEW y \in EndActivityAlone(x)
  PROVE  /\ Ends(x, y) /\ y.err \in {"ok", "fatal"} /\ y.heard = x.heard
         /\ y.err = "ok" => Ready(y) /\ ~y.alone
<1> DEFINE n == [x EXCEPT !.alone = FALSE]
<1>1. SameBut(x, n, {"alone"}) /\ n.alone = FALSE
  BY DEF Ready, Core, IsObserver, SameBut, Fields
<1>2. \/ y = n
      \/ x.alone /\ y \in Then(FinalizeSegment(n), LAMBDA z : {[z EXCEPT !.span = x.span]})
  BY DEF EndActivityAlone
<1> HIDE DEF n
<1>3. TypesOf(n) /\ SameBut(x, n, Aside)
  BY <1>1 DEF Ready, Core, SameBut, Fields, TypesOf, Aside
<1>4. Ends(x, n) /\ Core(n) /\ n.dir = x.dir /\ n.video = x.video
  BY <1>3, AsideEnds DEF Ends, Ready
<1>5. n.err = "ok" /\ n.hit = x.hit /\ n.mode = x.mode /\ n.heard = x.heard
  BY <1>1 DEF Ready, SameBut, Fields
<1>6. MediaInOrder(n)
  BY <1>1, <1>4, <1>5 DEF Ready, MediaInOrder
<1>7. CASE y = n
  BY <1>1, <1>4, <1>5, <1>6, <1>7 DEF Ready
<1>8. CASE x.alone /\ y \in Then(FinalizeSegment(n), LAMBDA z : {[z EXCEPT !.span = x.span]})
  <2>1. PICK v \in FinalizeSegment(n) : y \in IF v.err = "ok" THEN {[v EXCEPT !.span = x.span]} ELSE {v}
    BY <1>8 DEF Then
  <2>2. /\ Goes(n, v) /\ SameMedia(n, v) /\ v.err \in {"ok", "fatal"} /\ Core(v)
        /\ v.err = "ok" => v.dir = NoDir
    BY <1>4, <1>5, <2>1, FinalizeGoes DEF Goes
  <2>3. Ends(x, v) /\ v.heard = x.heard /\ v.alone = n.alone
    BY <1>4, <1>5, <2>2, GoesEnds, EndsOn DEF Goes, SameCall
  <2>4. CASE v.err # "ok"
    BY <2>1, <2>2, <2>3, <2>4
  <2>5. CASE v.err = "ok"
    <3>1. SameBut(v, y, {"span"})
      BY <2>1, <2>2, <2>5 DEF Core, IsObserver, SameBut, Fields
    <3>2. TypesOf(y) /\ SameBut(v, y, Aside)
      BY <2>2, <3>1 DEF Core, SameBut, Fields, TypesOf, Aside
    <3>3. Ends(v, y) /\ Core(y) /\ y.dir = v.dir /\ y.video = v.video
      BY <2>2, <3>2, AsideEnds DEF Ends
    <3>4. y.err = v.err /\ y.hit = v.hit /\ y.heard = v.heard /\ y.alone = v.alone
      BY <3>1 DEF SameBut, Fields
    <3>5. Silent(y)
      BY <1>4, <1>5, <1>8, <2>2, <3>3, <3>4 DEF Ready, MediaInOrder, SameMedia, Silent
    <3> QED  BY <1>1, <2>2, <2>3, <2>5, <3>3, <3>4, <3>5, EndsOn, SilentInOrder DEF Ready
  <2> QED  BY <2>4, <2>5
<1> QED  BY <1>2, <1>7, <1>8

\* Without the media a segment of activity is closed in its time and another begun.
LEMMA SplitGoes ==
  ASSUME NEW x, Core(x), x.err = "ok", NEW y \in SplitActivity(x)
  PROVE  Goes(x, y) /\ SameMedia(x, y) /\ y.err \in {"ok", "fatal"}
<1>1. CASE y = x
  BY <1>1, GoesNowhere DEF SameMedia
<1>2. CASE y # x
  <2>1. PICK v \in FinalizeSegment(x) : y \in IF v.err = "ok" THEN StartSegment([v EXCEPT !.span = x.span]) ELSE {v}
    BY <1>2 DEF SplitActivity, FinalizeSegment, Then
  <2>2. Goes(x, v) /\ SameMedia(x, v) /\ v.err \in {"ok", "fatal"} /\ (v.err = "ok" => v.dir = NoDir)
    BY <2>1, FinalizeGoes
  <2>3. CASE v.err # "ok"
    BY <2>1, <2>2, <2>3
  <2>4. CASE v.err = "ok"
    <3> DEFINE n == [v EXCEPT !.span = x.span]
    <3>1. SameBut(v, n, {"span"})
      BY <2>2 DEF Goes, Core, IsObserver, SameBut, Fields
    <3>2. y \in StartSegment(n)
      BY <2>1, <2>4
    <3> HIDE DEF n
    <3>3. TypesOf(n) /\ SameBut(v, n, Aside)
      BY <2>2, <3>1 DEF Goes, Core, SameBut, Fields, TypesOf, Aside
    <3>4. Ends(v, n) /\ Core(n) /\ n.dir = v.dir /\ n.video = v.video
      BY <2>2, <3>3, AsideEnds DEF Ends, Goes
    <3>5. SameCall(v, n) /\ SameMedia(v, n) /\ n.err = v.err
      BY <3>1 DEF SameBut, Fields, SameCall, SamePause, SameMedia
    <3>6. Goes(v, n)
      BY <3>4, <3>5 DEF Goes, Ends
    <3>7. Goes(n, y) /\ SameMedia(n, y) /\ y.err \in {"ok", "fatal"}
      BY <2>2, <2>4, <3>2, <3>4, <3>5, StartSegmentGoes
    <3> QED  BY <2>2, <2>4, <3>5, <3>6, <3>7, GoesOn DEF SameMedia
  <2> QED  BY <2>3, <2>4
<1> QED  BY <1>1, <1>2

LEMMA NoteAndKeepGoes ==
  ASSUME NEW x, Core(x), x.err = "ok", NEW y \in NoteAndKeep(x)
  PROVE  Goes(x, y) /\ SameMedia(x, y) /\ y.err \in {"ok", "fatal"}
<1> DEFINE keep(z) == Quietly(PersistActivity(z))
<1>1. PICK n \in NoteActivity(x) : y \in Then(EnsureActivitySegment(n), keep)
  BY DEF NoteAndKeep
<1>2. PICK z \in EnsureActivitySegment(n) : y \in IF z.err = "ok" THEN keep(z) ELSE {z}
  BY <1>1 DEF Then
<1>3. Goes(x, n) /\ SameMedia(x, n) /\ n.err = "ok" /\ Core(n)
  BY <1>1, NoteOutcome DEF Goes
<1>4. Goes(n, z) /\ SameMedia(n, z) /\ z.err \in {"ok", "fatal"} /\ Core(z)
  <2>1. CASE z = n
    BY <1>3, <2>1, GoesNowhere DEF SameMedia
  <2>2. CASE n.dir = NoDir /\ z \in StartSegment(n)
    BY <1>3, <2>2, StartSegmentGoes DEF Goes
  <2> QED  BY <1>2, <2>1, <2>2 DEF EnsureActivitySegment
<1>5. Goes(x, z) /\ SameMedia(x, z)
  BY <1>3, <1>4, GoesOn DEF SameMedia
<1>6. CASE z.err # "ok"
  BY <1>2, <1>4, <1>5, <1>6
<1>7. CASE z.err = "ok"
  <2>1. y \in Quietly(PersistActivity(z))
    BY <1>2, <1>7
  <2>2. Goes(z, y) /\ SameMedia(z, y) /\ y.err = "ok"
    BY <1>4, <1>7, <2>1, PersistQuietly
  <2> QED  BY <1>5, <1>7, <2>2, GoesOn DEF SameMedia
<1> QED  BY <1>6, <1>7

-----------------------------------------------------------------------------
(* What a tick sees of the desktop *)

\* The sound of an absence turns stale, and only then, and with no session in front.
LEMMA TakeActivityOutcome ==
  ASSUME NEW x, Core(x), NEW y, y = TakeActivity(x)
  PROVE  /\ SameBut(x, y, {"heard", "live", "locked", "moved", "fresh", "settle"})
         /\ TypesOf(y) /\ y.live = w.live
         /\ y.heard = x.heard \/ (~y.live /\ x.heard # {})
<1> DEFINE m == IF w.live THEN x ELSE Met(x, "away")
<1>1. /\ SameBut(x, m, {"heard"}) /\ m.heard \subseteq Tags
      /\ m.heard = x.heard \/ (~w.live /\ x.heard # {})
  <2>1. CASE w.live
    BY <2>1 DEF Core, TypesOf, SameBut
  <2>2. CASE ~w.live
    <3>1. m = [x EXCEPT !.heard = {IF t = "away" THEN "stale" ELSE t : t \in @}]
      BY <2>2 DEF Met
    <3>2. x.heard \subseteq Tags
      BY DEF Core, TypesOf
    <3>3. SameBut(x, m, {"heard"}) /\ m.heard = {IF t = "away" THEN "stale" ELSE t : t \in x.heard}
      BY <3>1 DEF Core, IsObserver, SameBut, Fields
    <3> QED  BY <2>2, <3>2, <3>3 DEF Tags
  <2> QED  BY <2>1, <2>2
<1>2. y = [m EXCEPT !.live = w.live, !.locked = w.locked, !.moved = FALSE,
          !.fresh = @ /\ ~x.moved, !.settle = IF x.moved THEN Settle ELSE @]
  BY DEF TakeActivity
<1> HIDE DEF m
<1>3. DOMAIN m = Fields
  BY <1>1 DEF SameBut, IsObserver
<1>4. {"live", "locked", "moved", "fresh", "settle", "heard"} \subseteq Fields
  BY DEF Fields
<1> DEFINE settle == IF x.moved THEN Settle ELSE m.settle
           fresh == m.fresh /\ ~x.moved
<1>5. y = [f \in Fields |-> IF f = "live" THEN w.live ELSE IF f = "locked" THEN w.locked
             ELSE IF f = "moved" THEN FALSE
             ELSE IF f = "fresh" THEN fresh ELSE IF f = "settle" THEN settle ELSE m[f]]
  BY <1>2, <1>3, <1>4
<1> HIDE DEF settle, fresh
<1>6. y.live = w.live /\ y.settle = settle /\ y.heard = m.heard
  BY <1>4, <1>5
<1>7. SameBut(m, y, {"live", "locked", "moved", "fresh", "settle"})
  <2>1. IsObserver(y)
    BY <1>5 DEF IsObserver
  <2>2. \A f \in Fields \ {"live", "locked", "moved", "fresh", "settle"} : y[f] = m[f]
    BY <1>5
  <2> QED  BY <2>1, <2>2 DEF SameBut
<1>8. m.settle \in 0..Settle
  BY <1>1 DEF Core, TypesOf, SameBut, Fields
<1>9. settle \in 0..Settle
  BY <1>8, ObserverAssumption DEF settle
<1>10. SameBut(x, y, {"heard", "live", "locked", "moved", "fresh", "settle"})
  BY <1>1, <1>7 DEF SameBut
<1>11. TypesOf(y)
  BY <1>1, <1>6, <1>9, <1>10 DEF Core, SameBut, Fields, TypesOf
<1> QED  BY <1>1, <1>6, <1>10, <1>11

Seen(x, y) ==
  /\ Ends(x, y) /\ Handled(x, y) /\ y.err = "ok" /\ y.dir = x.dir /\ y.video = x.video /\ y.hit = x.hit
  /\ y.mode = x.mode /\ y.alone = x.alone
  /\ y.heard = x.heard \/ (~y.live /\ x.heard # {})

LEMMA ProbeSees ==
  ASSUME NEW x, Core(x), x.err = "ok", NEW otherwise \in {"idle", "screencast"}, NEW y \in ProbeStatus(x, otherwise)
  PROVE  Seen(x, y)
<1> DEFINE t == TakeActivity(x)
<1>1. CASE y = [t EXCEPT !.muted = w.muted, !.target = IF w.locked THEN "idle" ELSE "screencast"]
  <2>1. /\ SameBut(x, t, {"heard", "live", "locked", "moved", "fresh", "settle"})
        /\ TypesOf(t) /\ (t.heard = x.heard \/ (~t.live /\ x.heard # {}))
    BY TakeActivityOutcome
  <2> DEFINE target == IF w.locked THEN "idle" ELSE "screencast"
  <2>2. y = [t EXCEPT !.muted = w.muted, !.target = target]
    BY <1>1
  <2>3. target \in {"idle", "screencast"}
    OBVIOUS
  <2> HIDE DEF t, target
  <2>4. SameBut(t, y, {"muted", "target"}) /\ y.target = target
    BY <2>1, <2>2 DEF IsObserver, SameBut, Fields
  <2>5. SameBut(x, y, Aside) /\ TypesOf(y)
    <3>1. SameBut(x, y, Aside)
      BY <2>1, <2>4 DEF SameBut, Aside
    <3>2. TypesOf(y)
      BY <2>1, <2>3, <2>4 DEF SameBut, Fields, TypesOf
    <3> QED  BY <3>1, <3>2
  <2>6. /\ y.err = x.err /\ y.hit = x.hit /\ y.mode = x.mode /\ y.alone = x.alone
        /\ y.heard = t.heard /\ y.live = t.live
    BY <2>1, <2>4 DEF SameBut, Fields
  <2> QED  BY <2>1, <2>5, <2>6, AsideEnds DEF Seen
<1>2. CASE \E f \in Fails(x, "fatal") : y = [[f EXCEPT !.target = otherwise] EXCEPT !.err = "ok"]
  <2>1. PICK f \in Fails(x, "fatal") : y = [[f EXCEPT !.target = otherwise] EXCEPT !.err = "ok"]
    BY <1>2
  <2>2. Goes(x, f) /\ Handled(x, f) /\ SameMedia(x, f) /\ f.dir = x.dir /\ Core(f)
    BY FailsGoes DEF Goes
  <2>3. SameBut(f, y, {"target", "err"}) /\ y.target = otherwise /\ y.err = "ok"
    BY <2>1, <2>2 DEF Core, IsObserver, SameBut, Fields
  <2>4. SameBut(f, y, Aside) /\ TypesOf(y)
    BY <2>2, <2>3 DEF Core, SameBut, Fields, Aside, TypesOf
  <2>5. Ends(f, y) /\ Handled(f, y) /\ y.dir = f.dir /\ y.video = f.video
    BY <2>2, <2>4, AsideEnds
  <2>6. y.hit = f.hit /\ y.mode = f.mode /\ y.alone = f.alone /\ y.heard = f.heard
    BY <2>3 DEF SameBut, Fields
  <2>7. Ends(x, y) /\ Handled(x, y)
    BY <2>2, <2>5, GoesEnds, EndsOn DEF Handled
  <2> QED  BY <2>2, <2>3, <2>5, <2>6, <2>7 DEF Seen, Goes, SameCall, SameMedia
<1> QED  BY <1>1, <1>2 DEF ProbeStatus, Quietly

-----------------------------------------------------------------------------
(* The branches of a tick *)

Done(x, y) ==
  /\ Ends(x, y)
  /\ y.err = "ok" => MediaInOrder(y) /\ "stale" \notin y.heard /\ Calm(y)

LEMMA DrainEnds ==
  ASSUME NEW x, Core(x)
  PROVE  LET y == Drain(x)
         IN Ends(x, y) /\ Handled(x, y) /\ SameBut(x, y, {"heard"}) /\ y.heard = {} /\ y.dir = x.dir
            /\ y.video = x.video /\ y.hit = x.hit /\ y.err = x.err
<1> DEFINE y == Drain(x)
<1>1. SameBut(x, y, {"heard"}) /\ y.heard = {}
  BY DEF Drain, Core, IsObserver, SameBut, Fields
<1> HIDE DEF y
<1>2. TypesOf(y) /\ SameBut(x, y, Aside)
  BY <1>1 DEF Core, SameBut, Fields, TypesOf, Aside
<1>3. y.hit = x.hit /\ y.err = x.err
  BY <1>1 DEF SameBut, Fields
<1> QED  BY <1>1, <1>2, <1>3, AsideEnds DEF y

\* With a session in front and no media, activity goes on.
LEMMA ActivityGoesOn ==
  ASSUME NEW x, Core(x), x.err = "ok", Silent(x), x.alone \/ ActivityOnly, x.live, ~x.hold, "stale" \notin x.heard,
         NEW y \in Then(SplitActivity(x), NoteAndKeep)
  PROVE  Done(x, y)
<1>1. PICK s \in SplitActivity(x) : y \in IF s.err = "ok" THEN NoteAndKeep(s) ELSE {s}
  BY DEF Then
<1>2. Goes(x, s) /\ SameMedia(x, s) /\ s.err \in {"ok", "fatal"}
  BY <1>1, SplitGoes
<1>3. CASE s.err # "ok"
  BY <1>1, <1>2, <1>3, GoesEnds DEF Done
<1>4. CASE s.err = "ok"
  <2>1. Goes(s, y) /\ SameMedia(s, y)
    BY <1>1, <1>2, <1>4, NoteAndKeepGoes DEF Goes
  <2>2. Goes(x, y)
    BY <1>2, <1>4, <2>1, GoesOn
  <2>3. Silent(y)
    BY <1>2, <2>1 DEF Silent, SameMedia
  <2>4. y.live /\ ~y.hold /\ y.heard = x.heard /\ y.alone = x.alone
    BY <2>2 DEF Goes, SameCall, SamePause
  <2>5. Calm(y)
    BY <2>3, <2>4 DEF Calm, Silent
  <2> QED  BY <2>2, <2>3, <2>4, <2>5, GoesEnds, SilentInOrder DEF Done
<1> QED  BY <1>3, <1>4

LEMMA WaitDone ==
  ASSUME NEW x, Ready(x), NEW y \in WaitForSession(x)
  PROVE  Done(x, y)
BY WaitForSessionEnds, ShutIsCalm DEF Done

\* A pause under which activity goes on.
LEMMA ThroughPauseDone ==
  ASSUME NEW x, Ready(x), ~x.hold, NEW y \in TickThroughPause(x)
  PROVE  Done(x, y)
<1> DEFINE go(z) == IF ~z.live THEN WaitForSession(z) ELSE Then(SplitActivity(z), NoteAndKeep)
           look(s) == UNION {go(z) : z \in ProbeStatus(Drain([s EXCEPT !.alone = TRUE]), s.mode)}
<1>1. PICK s \in IF x.alone THEN {x} ELSE EndMediaForPause(x) : y \in IF s.err = "ok" THEN look(s) ELSE {s}
  BY DEF TickThroughPause, Then
<1>2. Ends(x, s) /\ s.err \in {"ok", "fatal"} /\ (s.err = "ok" => Silent(s)) /\ Core(s)
  <2>1. CASE x.alone
    BY <1>1, <2>1, EndsNowhere DEF Ready, MediaInOrder, Silent
  <2>2. CASE ~x.alone
    BY <1>1, <2>2, EndMediaEnds DEF Shut, Ends
  <2> QED  BY <2>1, <2>2
<1>3. CASE s.err # "ok"
  BY <1>1, <1>2, <1>3 DEF Done
<1>4. CASE s.err = "ok"
  <2> DEFINE a == [s EXCEPT !.alone = TRUE]
             d == Drain(a)
  <2>1. SameBut(s, a, {"alone"}) /\ a.alone = TRUE
    BY <1>2 DEF Core, IsObserver, SameBut, Fields
  <2>2. TypesOf(a) /\ SameBut(s, a, Aside)
    BY <1>2, <2>1 DEF Core, SameBut, Fields, TypesOf, Aside
  <2>3. y \in look(s)
    BY <1>1, <1>4
  <2>4. PICK z \in ProbeStatus(d, s.mode) : y \in go(z)
    BY <2>3
  <2> HIDE DEF a
  <2>5. Ends(s, a) /\ Core(a) /\ a.video = s.video
    BY <1>2, <2>2, AsideEnds DEF Ends
  <2>6. a.hit = s.hit /\ a.err = s.err
    BY <2>1 DEF SameBut, Fields
  <2>7. /\ Ends(a, d) /\ Core(d) /\ SameBut(a, d, {"heard"}) /\ d.heard = {} /\ d.video = a.video /\ d.hit = a.hit
        /\ d.err = a.err
    BY <2>5, DrainEnds DEF Ends
  <2> HIDE DEF d
  <2>8. d.alone = TRUE
    BY <2>1, <2>7 DEF SameBut, Fields
  <2>9. s.mode \in {"idle", "screencast"}
    BY <1>2 DEF Core, TypesOf
  <2>10. Seen(d, z) /\ Core(z) /\ z.err = "ok" /\ z.heard = {}
    BY <1>4, <2>4, <2>6, <2>7, <2>9, ProbeSees DEF Seen, Ends
  <2>11. Silent(z) /\ z.alone
    BY <1>2, <1>4, <2>5, <2>6, <2>7, <2>8, <2>10 DEF Seen, Silent
  <2>12. Ends(x, z)
    BY <1>2, <1>4, <2>5, <2>6, <2>7, <2>10, EndsOn DEF Seen
  <2>13. Ready(z) /\ ~z.hold
    BY <2>10, <2>11, <2>12, SilentInOrder DEF Ready, Ends, SamePause
  <2>14. Done(z, y)
    <3>1. CASE ~z.live
      BY <2>4, <2>13, <3>1, WaitDone
    <3>2. CASE z.live
      <4>1. y \in Then(SplitActivity(z), NoteAndKeep)
        BY <2>4, <3>2
      <4> QED  BY <2>10, <2>11, <2>13, <3>2, <4>1, ActivityGoesOn
    <3> QED  BY <3>1, <3>2
  <2> QED  BY <2>10, <2>12, <2>14, EndsOn DEF Done
<1> QED  BY <1>3, <1>4

\* A pause that holds shuts the segment and drops what was heard.
LEMMA PausedDone ==
  ASSUME NEW x, Ready(x), NEW y \in TickPaused(x)
  PROVE  Done(x, y)
<1>1. CASE ~x.hold
  BY <1>1, ThroughPauseDone DEF TickPaused
<1>2. CASE x.hold
  <2> DEFINE d(p) == Drain([p EXCEPT !.alone = FALSE])
             look(p) == {TakeActivity(d(p))} \cup Quietly(Fails(d(p), "fatal"))
  <2>1. PICK p \in FinishPaused(x) : y \in IF p.err = "ok" THEN look(p) ELSE {p}
    BY <1>2 DEF TickPaused, Then
  <2>2. Goes(x, p) /\ Ends(x, p) /\ Core(p) /\ p.err \in {"ok", "fatal"} /\ (p.err = "ok" => Shut(p))
    BY <2>1, FinishPausedGoes, GoesEnds DEF Goes
  <2>3. CASE p.err # "ok"
    BY <2>1, <2>2, <2>3 DEF Done
  <2>4. CASE p.err = "ok"
    <3> DEFINE a == [p EXCEPT !.alone = FALSE]
               z == Drain(a)
    <3>1. SameBut(p, a, {"alone"})
      BY <2>2 DEF Core, IsObserver, SameBut, Fields
    <3>2. TypesOf(a) /\ SameBut(p, a, Aside)
      BY <2>2, <3>1 DEF Core, SameBut, Fields, TypesOf, Aside
    <3>3. y = TakeActivity(z) \/ \E f \in Fails(z, "fatal") : y = [f EXCEPT !.err = "ok"]
      BY <2>1, <2>4 DEF Quietly
    <3> HIDE DEF a
    <3>4. Ends(p, a) /\ Core(a) /\ a.video = p.video /\ a.dir = p.dir
      BY <2>2, <3>2, AsideEnds DEF Ends
    <3>5. a.hit = p.hit /\ a.err = p.err
      BY <3>1 DEF SameBut, Fields
    <3>6. /\ Ends(a, z) /\ Core(z) /\ z.heard = {} /\ z.video = a.video /\ z.hit = a.hit
          /\ z.err = a.err /\ z.dir = a.dir
      BY <3>4, DrainEnds DEF Ends
    <3> HIDE DEF z
    <3>7. Ends(x, z) /\ Shut(z)
      BY <2>2, <2>4, <3>4, <3>5, <3>6, EndsOn DEF Shut, Silent
    <3>8. CASE y = TakeActivity(z)
      <4>1. /\ SameBut(z, y, {"heard", "live", "locked", "moved", "fresh", "settle"})
            /\ TypesOf(y) /\ y.heard = {}
        BY <3>6, <3>8, TakeActivityOutcome
      <4>2. SameBut(z, y, Aside)
        BY <4>1 DEF SameBut, Aside
      <4>3. Ends(z, y) /\ y.dir = z.dir /\ y.video = z.video
        BY <3>6, <4>1, <4>2, AsideEnds
      <4>4. y.hit = z.hit
        BY <4>1 DEF SameBut, Fields
      <4>5. Shut(y)
        BY <3>7, <4>3, <4>4 DEF Shut, Silent
      <4> QED  BY <2>4, <3>5, <3>6, <3>7, <4>1, <4>3, <4>5, EndsOn, ShutIsCalm DEF Done
    <3>9. CASE \E f \in Fails(z, "fatal") : y = [f EXCEPT !.err = "ok"]
      <4>1. PICK f \in Fails(z, "fatal") : y = [f EXCEPT !.err = "ok"]
        BY <3>9
      <4>2. Goes(z, f) /\ Handled(z, f) /\ SameMedia(z, f) /\ f.dir = z.dir
        BY <3>6, FailsGoes
      <4>3. Goes(z, y) /\ SameMedia(f, y) /\ y.dir = f.dir
        BY <4>1, <4>2, QuietlyGoes
      <4>4. Shut(y) /\ y.heard = {}
        BY <3>6, <3>7, <4>2, <4>3 DEF Shut, Silent, SameMedia, Goes, SameCall
      <4> QED  BY <2>4, <3>5, <3>6, <3>7, <4>3, <4>4, GoesEnds, EndsOn, ShutIsCalm DEF Done
    <3> QED  BY <3>3, <3>8, <3>9
  <2> QED  BY <2>3, <2>4
<1> QED  BY <1>1, <1>2

\* With activity the only thing taken in.
LEMMA ActivityOnlyDone ==
  ASSUME NEW x, Ready(x), ActivityOnly, "stale" \notin x.heard, NEW y \in TickActivityOnly(x)
  PROVE  Done(x, y)
<1>1. CASE x.hold
  <2>1. PICK p \in FinishPaused(x) : y \in IF p.err = "ok" THEN {Drain(p)} ELSE {p}
    BY <1>1 DEF TickActivityOnly, Then
  <2>2. Ends(x, p) /\ Core(p) /\ p.err \in {"ok", "fatal"} /\ (p.err = "ok" => Shut(p))
    BY <2>1, FinishPausedGoes, GoesEnds DEF Goes
  <2>3. CASE p.err # "ok"
    BY <2>1, <2>2, <2>3 DEF Done
  <2>4. CASE p.err = "ok"
    <3>1. Ends(p, y) /\ y.heard = {} /\ y.video = p.video /\ y.hit = p.hit /\ y.dir = p.dir
      BY <2>1, <2>2, <2>4, DrainEnds
    <3> QED  BY <2>2, <2>4, <3>1, EndsOn, ShutIsCalm DEF Done, Shut, Silent
  <2> QED  BY <2>3, <2>4
<1>2. CASE ~x.hold
  <2> DEFINE t(z) == [z EXCEPT !.mode = z.target, !.segMuted = z.muted]
  <2>1. PICK z \in ProbeStatus(x, x.mode) :
          y \in IF ~z.live THEN WaitForSession(z) ELSE Then(SplitActivity(t(z)), NoteAndKeep)
    BY <1>2 DEF TickActivityOnly
  <2>2. x.mode \in {"idle", "screencast"}
    BY DEF Ready, Core, TypesOf
  <2>3. Seen(x, z) /\ Core(z) /\ z.err = "ok"
    BY <2>1, <2>2, ProbeSees DEF Ready, Seen, Ends
  <2>4. Silent(z) /\ Ends(x, z) /\ ~z.hold
    BY <1>2, <2>3 DEF Ready, MediaInOrder, Seen, Silent, Ends, SamePause
  <2>5. Ready(z)
    BY <2>3, <2>4, SilentInOrder DEF Ready
  <2>6. CASE ~z.live
    <3>1. Done(z, y)
      BY <2>1, <2>5, <2>6, WaitDone
    <3> QED  BY <2>3, <2>4, <3>1, EndsOn DEF Done
  <2>7. CASE z.live
    <3> DEFINE n == t(z)
    <3>1. SameBut(z, n, {"mode", "segMuted"}) /\ n.mode = z.target
      BY <2>3 DEF Core, IsObserver, SameBut, Fields
    <3>2. y \in Then(SplitActivity(n), NoteAndKeep)
      BY <2>1, <2>7
    <3> HIDE DEF n
    <3>3. TypesOf(n) /\ SameBut(z, n, Aside)
      BY <2>3, <3>1 DEF Core, SameBut, Fields, TypesOf, Aside
    <3>4. Ends(z, n) /\ Core(n) /\ n.video = z.video
      BY <2>3, <3>3, AsideEnds DEF Ends
    <3>5. n.hit = z.hit /\ n.err = "ok" /\ n.live /\ n.heard = z.heard /\ n.hold = z.hold
      BY <2>3, <2>7, <3>1 DEF SameBut, Fields
    <3>6. Silent(n) /\ "stale" \notin n.heard /\ ~n.hold
      BY <2>3, <2>4, <2>7, <3>4, <3>5 DEF Silent, Seen
    <3>7. Done(n, y)
      BY <3>2, <3>4, <3>5, <3>6, ActivityGoesOn
    <3>8. Ends(x, n)
      BY <2>3, <2>4, <3>4, EndsOn
    <3> QED  BY <3>5, <3>7, <3>8, EndsOn DEF Done
  <2> QED  BY <2>6, <2>7
<1> QED  BY <1>1, <1>2

\* A segment of the session in front, under the mute that holds, is as it should be.
LEMMA OpenIsCalm ==
  ASSUME NEW x, x.fresh, x.segMuted = x.muted, ~x.paused, x.live
  PROVE  Calm(x)
BY DEF Calm

\* With nothing open, a segment is begun, with the screen or without it.
LEMMA OpenSegmentDone ==
  ASSUME NEW x, Ready(x), x.dir = NoDir, ~x.alone, ~ActivityOnly, ~x.paused, x.live, "stale" \notin x.heard,
         NEW y \in OpenSegment(x)
  PROVE  Done(x, y)
<1> DEFINE d == IF x.waited THEN Drain(x) ELSE x
           a == [d EXCEPT !.waited = FALSE, !.segMuted = x.muted, !.mode = x.target]
           refused(z) == StartSegment([z EXCEPT !.err = "ok"])
           begin(n) == UNION {IF z.err = "video" THEN refused(z) ELSE {z} : z \in StartCapture(n)}
           keep(z) == Quietly(PersistActivity(z))
<1>1. PICK n \in NoteActivity(a) : y \in Then(begin(n), keep)
  BY DEF OpenSegment
<1>2. /\ Ends(x, d) /\ Core(d) /\ SameBut(x, d, {"heard"}) /\ "stale" \notin d.heard
      /\ d.dir = NoDir /\ d.video = NoDir
      /\ ~d.hit /\ d.err = "ok"
  <2>1. CASE x.waited
    BY <2>1, DrainEnds DEF Ready, MediaInOrder, Ends
  <2>2. CASE ~x.waited
    BY <2>2, EndsNowhere DEF Ready, MediaInOrder, Core, SameBut
  <2> QED  BY <2>1, <2>2
<1>3. a = [d EXCEPT !.waited = FALSE, !.segMuted = x.muted, !.mode = x.target]
  OBVIOUS
<1> HIDE DEF d
<1>4. SameBut(d, a, {"waited", "segMuted", "mode"}) /\ a.segMuted = x.muted /\ a.mode = x.target
  BY <1>2, <1>3 DEF Core, IsObserver, SameBut, Fields
<1> HIDE DEF a
<1>5. x.target \in {"idle", "screencast"}
  BY DEF Ready, Core, TypesOf
<1>6. TypesOf(a) /\ SameBut(d, a, Aside)
  BY <1>2, <1>4, <1>5 DEF Core, SameBut, Fields, TypesOf, Aside
<1>7. Ends(d, a) /\ Core(a) /\ a.dir = d.dir /\ a.video = d.video
  BY <1>2, <1>6, AsideEnds DEF Ends
<1>8. /\ a.hit = d.hit /\ a.err = "ok" /\ a.heard = d.heard /\ a.target = x.target /\ a.muted = x.muted
      /\ a.live = x.live /\ a.alone = x.alone
  BY <1>2, <1>4 DEF SameBut, Fields
<1>9. Goes(a, n) /\ SameMedia(a, n) /\ n.err = "ok" /\ n.dir = a.dir /\ Core(n)
  BY <1>1, <1>7, <1>8, NoteOutcome DEF Goes
<1>10. Ends(x, n)
  BY <1>2, <1>7, <1>8, <1>9, GoesEnds, EndsOn
<1>11. /\ n.live /\ ~n.alone /\ n.mode = n.target /\ n.segMuted = n.muted /\ "stale" \notin n.heard /\ ~n.hit
       /\ n.dir = NoDir /\ n.video = NoDir
  BY <1>2, <1>4, <1>7, <1>8, <1>9 DEF Goes, SameCall, SameMedia
<1>12. PICK s \in begin(n) : y \in IF s.err = "ok" THEN keep(s) ELSE {s}
  BY <1>1 DEF Then
<1>13. PICK c \in StartCapture(n) : s \in IF c.err = "video" THEN refused(c) ELSE {c}
  BY <1>12
<1>14. /\ Goes(n, c) /\ c.err \in {"ok", "video", "fatal"} /\ c.hit = n.hit /\ Core(c)
       /\ c.err # "fatal" => c.fresh /\ c.dir # NoDir
       /\ c.err = "ok" => c.video = NoDir \/ (c.video = c.dir /\ c.target = "screencast")
       /\ c.err = "video" => c.video = NoDir /\ c.content[c.dir] = {}
  BY <1>9, <1>11, <1>13, StartCaptureGoes DEF Goes
<1>15. /\ Goes(n, s) /\ Core(s) /\ s.err \in {"ok", "fatal"}
       /\ s.err = "ok" => /\ s.fresh /\ s.dir # NoDir /\ s.hit = n.hit
                          /\ s.video = NoDir \/ (s.video = s.dir /\ s.target = "screencast")
  <2>1. CASE c.err # "video"
    BY <1>13, <1>14, <2>1
  <2>2. CASE c.err = "video"
    <3> DEFINE r == [c EXCEPT !.err = "ok"]
    <3>1. Handled(n, c)
      BY <1>14, <2>2 DEF Goes
    <3>2. Goes(n, r) /\ SameMedia(c, r) /\ r.err = "ok" /\ r.dir = c.dir /\ r.content = c.content /\ Core(r)
      BY <1>14, <3>1, QuietlyGoes DEF Goes
    <3>3. s \in StartSegment(r)
      BY <1>13, <2>2
    <3> HIDE DEF r
    <3>4. Goes(r, s) /\ SameMedia(r, s) /\ s.err \in {"ok", "fatal"} /\ (s.err = "ok" => s.dir # NoDir)
      BY <1>14, <2>2, <3>2, <3>3, StartSegmentGoes
    <3>5. Goes(n, s)
      BY <3>2, <3>4, GoesOn
    <3> QED  BY <1>14, <2>2, <3>2, <3>4, <3>5 DEF SameMedia, Goes
  <2> QED  BY <2>1, <2>2
<1>16. Ends(x, s)
  BY <1>9, <1>10, <1>15, GoesEnds, EndsOn
<1>17. CASE s.err # "ok"
  BY <1>12, <1>16, <1>17 DEF Done
<1>18. CASE s.err = "ok"
  <2>1. y \in Quietly(PersistActivity(s))
    BY <1>12, <1>18
  <2>2. Goes(s, y) /\ SameMedia(s, y) /\ y.err = "ok" /\ y.dir = s.dir
    BY <1>15, <1>18, <2>1, PersistQuietly
  <2>3. Ends(x, y)
    BY <1>16, <1>18, <2>2, GoesEnds, EndsOn
  <2>4. /\ y.live /\ ~y.alone /\ y.mode = y.target /\ y.segMuted = y.muted /\ "stale" \notin y.heard
        /\ y.target = s.target
    BY <1>11, <1>15, <2>2 DEF Goes, SameCall
  <2>5. ~y.hit /\ y.fresh /\ y.video = s.video
    BY <1>11, <1>15, <1>18, <2>2 DEF SameMedia
  <2>6. ~y.paused
    BY <2>3 DEF Ends, SamePause
  <2>7. MediaInOrder(y)
    BY <1>15, <1>18, <2>2, <2>4, <2>5 DEF MediaInOrder
  <2> QED  BY <2>3, <2>4, <2>5, <2>6, <2>7, OpenIsCalm DEF Done
<1> QED  BY <1>15, <1>17, <1>18

\* A stream that ended is taken down.
LEMMA WatchdogEnds ==
  ASSUME NEW x, Ready(x), NEW y \in Watchdog(x)
  PROVE  /\ Ends(x, y) /\ SameTick(x, y) /\ y.err \in {"ok", "fatal"}
         /\ y.err = "ok" => Ready(y) /\ y.dir = x.dir
<1>1. CASE y = x
  BY <1>1, EndsNowhere DEF Ready, SameTick
<1>2. CASE y # x
  <2>1. PICK s \in StopVideo(x) : y = IF s.err = "ok" THEN [s EXCEPT !.mode = "idle", !.retry = Retry] ELSE s
    BY <1>2 DEF Watchdog, Then
  <2>2. /\ Goes(x, s) /\ Core(s) /\ s.err \in {"ok", "fatal"} /\ s.dir = x.dir /\ s.hit = x.hit
        /\ s.err = "ok" => s.video = NoDir
    BY <2>1, StopVideoGoes DEF Ready, Goes
  <2>3. Ends(x, s) /\ SameTick(x, s)
    BY <2>2, GoesEnds DEF Goes, SameCall, SameTick
  <2>4. CASE s.err # "ok"
    BY <2>1, <2>2, <2>3, <2>4
  <2>5. CASE s.err = "ok"
    <3>1. y = [s EXCEPT !.mode = "idle", !.retry = Retry]
      BY <2>1, <2>5
    <3>2. SameBut(s, y, {"mode", "retry"}) /\ y.mode = "idle" /\ y.retry = Retry
      BY <2>2, <3>1 DEF Core, IsObserver, SameBut, Fields
    <3>3. TypesOf(y) /\ SameBut(s, y, Aside)
      BY <2>2, <3>2, ObserverAssumption DEF Core, SameBut, Fields, TypesOf, Aside
    <3>4. Ends(s, y) /\ Core(y) /\ y.dir = s.dir /\ y.video = s.video
      BY <2>2, <3>3, AsideEnds DEF Ends
    <3>5. y.hit = s.hit /\ y.err = s.err /\ y.alone = s.alone /\ SameTick(s, y)
      BY <3>2 DEF SameBut, Fields, SameTick
    <3>6. MediaInOrder(y)
      BY <2>2, <2>3, <2>5, <3>4, <3>5 DEF Ready, MediaInOrder, SameTick
    <3>7. SameTick(x, y)
      BY <2>3, <3>5 DEF SameTick
    <3> QED  BY <2>2, <2>3, <2>5, <3>4, <3>5, <3>6, <3>7, EndsOn DEF Ready
  <2> QED  BY <2>4, <2>5
<1> QED  BY <1>1, <1>2

\* What was heard since the last tick is kept with the open segment.
LEMMA DrainIntoFramesEnds ==
  ASSUME NEW x, Ready(x), x.dir # NoDir, ~x.alone, ~ActivityOnly, "stale" \notin x.heard,
         NEW y \in DrainIntoFrames(x)
  PROVE  Ends(x, y) /\ Ready(y) /\ y.dir = x.dir /\ y.heard = {} /\ y.live = x.live /\ y.alone = x.alone
<1>1. PICK h \in {x.hit, TRUE} : y = [x EXCEPT !.frames = @ \cup (x.heard \cap Watched), !.hit = h, !.heard = {}]
  BY DEF DrainIntoFrames
<1>2. DOMAIN x = Fields
  BY DEF Ready, Core, IsObserver
<1>3. {"frames", "hit", "heard"} \subseteq Fields
  BY DEF Fields
<1> DEFINE kept == x.frames \cup (x.heard \cap Watched)
<1>4. y = [f \in Fields |-> IF f = "frames" THEN kept ELSE IF f = "hit" THEN h
                            ELSE IF f = "heard" THEN {} ELSE x[f]]
  BY <1>1, <1>2, <1>3
<1>5. kept \subseteq Tags /\ "stale" \notin kept
  BY DEF Ready, Core, TypesOf, KeptInOrder
<1> HIDE DEF kept
<1>6. y.frames = kept /\ y.heard = {}
  BY <1>3, <1>4
<1>7. SameBut(x, y, {"frames", "hit", "heard"})
  <2>1. IsObserver(y)
    BY <1>4 DEF IsObserver
  <2>2. \A f \in Fields \ {"frames", "hit", "heard"} : y[f] = x[f]
    BY <1>4
  <2> QED  BY <2>1, <2>2 DEF SameBut
<1>8. TypesOf(y)
  BY <1>5, <1>6, <1>7 DEF Ready, Core, SameBut, Fields, TypesOf
<1>9. /\ y.video = x.video /\ y.dir = x.dir /\ y.content = x.content /\ y.disk = x.disk /\ y.mode = x.mode
      /\ y.told = x.told /\ y.finished = x.finished /\ y.err = x.err /\ y.live = x.live /\ y.alone = x.alone
      /\ y.written = x.written
  BY <1>7 DEF SameBut, Fields
<1>10. SamePause(x, y)
  BY <1>7 DEF SameBut, Fields, SamePause
<1>11. Core(y)
  BY <1>5, <1>6, <1>7, <1>8, <1>9 DEF Ready, Core, SameBut, DirsInOrder, KeptInOrder
<1>12. MediaInOrder(y)
  BY <1>9 DEF Ready, MediaInOrder
<1>13. Ends(x, y)
  BY <1>9, <1>10, <1>11 DEF Ends, AllTold, Handled, Settled
<1> QED  BY <1>6, <1>9, <1>11, <1>12, <1>13 DEF Ready

LEMMA TickSegmentDone ==
  ASSUME NEW x, Ready(x), x.dir # NoDir, ~x.alone, ~ActivityOnly, ~x.paused, x.live, "stale" \notin x.heard,
         NEW y \in TickSegment(x)
  PROVE  Done(x, y)
<1> DEFINE noted(u) == UNION {Quietly(PersistActivity(z)) : z \in NoteActivity(u)}
           down(u) == IF u.target = "screencast" /\ u.retry > 0 THEN [u EXCEPT !.target = "idle"] ELSE u
           turn(t) == IF AtBoundary(t) THEN KeepGoing(t, HandleBoundary(t)) ELSE {t}
           rest(u) == UNION {turn(t) : t \in UNION {DrainIntoFrames(n) : n \in noted(down(u))}}
<1>1. PICK u \in Watchdog(x) : y \in IF u.err = "ok" THEN rest(u) ELSE {u}
  BY DEF TickSegment, Then
<1>2. /\ Ends(x, u) /\ SameTick(x, u) /\ u.err \in {"ok", "fatal"}
      /\ u.err = "ok" => Ready(u) /\ u.dir = x.dir
  BY <1>1, WatchdogEnds
<1>3. CASE u.err # "ok"
  BY <1>1, <1>2, <1>3 DEF Done
<1>4. CASE u.err = "ok"
  <2> DEFINE z == down(u)
  <2>1. /\ Ends(u, z) /\ Ready(z) /\ z.dir = u.dir /\ SameTick(u, z)
    <3>1. CASE z = u
      BY <1>2, <1>4, <3>1, EndsNowhere DEF Ready, SameTick
    <3>2. CASE z = [u EXCEPT !.target = "idle"]
      <4> HIDE DEF z
      <4>1. SameBut(u, z, {"target"}) /\ z.target = "idle"
        BY <1>2, <1>4, <3>2 DEF Ready, Core, IsObserver, SameBut, Fields
      <4>2. TypesOf(z) /\ SameBut(u, z, Aside)
        BY <1>2, <1>4, <4>1 DEF Ready, Core, SameBut, Fields, TypesOf, Aside
      <4>3. Ends(u, z) /\ Core(z) /\ z.dir = u.dir /\ z.video = u.video
        BY <1>2, <1>4, <4>2, AsideEnds DEF Ready, Ends
      <4>4. z.hit = u.hit /\ z.err = u.err /\ z.alone = u.alone /\ z.mode = u.mode /\ SameTick(u, z)
        BY <4>1 DEF SameBut, Fields, SameTick
      <4> QED  BY <1>2, <1>4, <4>3, <4>4, MediaKept DEF Ready
    <3> QED  BY <3>1, <3>2
  <2>2. PICK t \in UNION {DrainIntoFrames(n) : n \in noted(z)} : y \in turn(t)
    BY <1>1, <1>4
  <2>13. PICK n \in noted(z) : t \in DrainIntoFrames(n)
    BY <2>2
  <2> HIDE DEF z
  <2>3. PICK m \in NoteActivity(z) : n \in Quietly(PersistActivity(m))
    BY <2>13
  <2>4. z.dir # NoDir
    BY <1>2, <1>4, <2>1
  <2>5. Goes(z, n) /\ Core(n) /\ n.err = "ok" /\ n.dir = z.dir /\ MediaInOrder(n)
    BY <2>1, <2>3, <2>4, NotedGoes DEF Ready, Goes
  <2>6. SameTick(z, n)
    BY <2>5 DEF Goes, SameCall, SameTick
  <2>7. Ready(n) /\ n.dir # NoDir /\ ~n.alone /\ "stale" \notin n.heard /\ n.live
    BY <1>2, <2>1, <2>4, <2>5, <2>6 DEF Ready, SameTick
  <2>8. Ends(n, t) /\ Ready(t) /\ t.dir = n.dir /\ t.heard = {} /\ t.live = n.live /\ t.alone = n.alone
    BY <2>7, <2>13, DrainIntoFramesEnds
  <2>9. Ends(x, t)
    BY <1>2, <1>4, <2>1, <2>5, <2>8, GoesEnds, EndsOn DEF Ready
  <2>10. t.live /\ ~t.alone /\ ~t.paused
    BY <2>7, <2>8, <2>9 DEF Ends, SamePause
  <2>11. CASE ~AtBoundary(t)
    <3>1. y = t /\ t.fresh /\ t.segMuted = t.muted
      BY <2>2, <2>11 DEF AtBoundary
    <3> QED  BY <2>8, <2>9, <2>10, <3>1, OpenIsCalm DEF Done, Ready
  <2>12. CASE AtBoundary(t)
    <3>1. PICK b \in HandleBoundary(t) :
            y = IF b.err = "video" /\ t.settle > 0 THEN [b EXCEPT !.err = "ok"] ELSE b
      BY <2>2, <2>12 DEF KeepGoing
    <3>2. /\ Ends(t, b) /\ SameTick(t, b) /\ b.err \in {"ok", "video", "fatal"} /\ Core(b)
          /\ b.err # "fatal" => Opened(b)
      BY <2>8, <2>10, <3>1, HandleBoundaryEnds DEF Ends
    <3>3. Ends(x, b) /\ b.live /\ ~b.paused /\ b.heard = {}
      BY <2>8, <2>9, <2>10, <3>2, EndsOn DEF Ready, SameTick, Ends, SamePause
    <3>4. CASE y = b
      BY <3>2, <3>3, <3>4, OpenIsCalm DEF Done, Opened
    <3>5. CASE b.err = "video" /\ y = [b EXCEPT !.err = "ok"]
      <4>1. SameBut(b, y, {"err"}) /\ y.err = "ok"
        BY <3>2, <3>5 DEF Core, IsObserver, SameBut, Fields
      <4>2. TypesOf(y) /\ SameBut(b, y, Aside)
        BY <3>2, <4>1 DEF Core, SameBut, Fields, TypesOf, Aside
      <4>3. Ends(b, y) /\ y.dir = b.dir /\ y.video = b.video
        BY <3>2, <4>2, AsideEnds
      <4>4. /\ y.hit = b.hit /\ y.alone = b.alone /\ y.mode = b.mode /\ y.fresh = b.fresh /\ y.segMuted = b.segMuted
            /\ y.muted = b.muted /\ y.live = b.live /\ y.heard = b.heard /\ y.paused = b.paused
        BY <4>1 DEF SameBut, Fields
      <4>5. MediaInOrder(y) /\ y.fresh /\ y.segMuted = y.muted
        BY <3>2, <3>5, <4>3, <4>4, MediaKept DEF Opened
      <4>6. Ends(x, y)
        BY <3>3, <3>5, <4>3, EndsOn DEF Ends
      <4> QED  BY <3>3, <4>4, <4>5, <4>6, OpenIsCalm DEF Done
    <3> QED  BY <3>1, <3>4, <3>5
  <2> QED  BY <2>11, <2>12
<1> QED  BY <1>2, <1>3, <1>4

LEMMA TickScreenDone ==
  ASSUME NEW x, Ready(x), ~x.alone, ~ActivityOnly, ~x.paused, "stale" \notin x.heard, NEW y \in TickScreen(x)
  PROVE  Done(x, y)
<1>1. PICK z \in ProbeStatus(x, x.mode) :
        y \in IF ~z.live THEN WaitForSession(z) ELSE IF z.dir = NoDir THEN OpenSegment(z) ELSE TickSegment(z)
  BY DEF TickScreen
<1>2. x.mode \in {"idle", "screencast"}
  BY DEF Ready, Core, TypesOf
<1>3. Seen(x, z)
  BY <1>1, <1>2, ProbeSees DEF Ready
<1>4. Ready(z) /\ ~z.alone /\ ~z.paused /\ (z.live => "stale" \notin z.heard)
  BY <1>3, MediaKept DEF Ready, Seen, Ends, SamePause
<1>5. Done(z, y)
  BY <1>1, <1>4, WaitDone, OpenSegmentDone, TickSegmentDone
<1> QED  BY <1>3, <1>5, EndsOn DEF Seen, Done

-----------------------------------------------------------------------------
(* The pause and the deadlines *)

\* Fields that only the pause, the deadlines and the open intervals are kept in.
OfPause == {"age", "settle", "retry", "paused", "left", "wall", "saved", "unsaved", "hold", "rows", "span",
            "err", "faults"}

\* What is taken in, and where, is as it was.
SameIntake(x, y) ==
  /\ Core(y) /\ Handled(x, y) /\ (MediaInOrder(x) => MediaInOrder(y)) /\ (AllTold(x) => AllTold(y))
  /\ y.heard = x.heard

SameSegment(x, y) == y.dir = x.dir /\ y.video = x.video /\ y.hit = x.hit

SameOwner(x, y) == y.paused = x.paused /\ y.saved = x.saved /\ y.unsaved = x.unsaved

LEMMA OfPauseKeeps ==
  ASSUME NEW x, Core(x), NEW y, SameBut(x, y, OfPause), TypesOf(y)
  PROVE  SameIntake(x, y) /\ SameSegment(x, y)
<1>1. /\ y.dir = x.dir /\ y.video = x.video /\ y.content = x.content /\ y.disk = x.disk /\ y.hit = x.hit
      /\ y.told = x.told /\ y.finished = x.finished /\ y.frames = x.frames /\ y.written = x.written
      /\ y.mode = x.mode /\ y.alone = x.alone /\ y.heard = x.heard
  BY DEF SameBut, Fields, OfPause
<1>2. Core(y)
  BY <1>1 DEF Core, SameBut, DirsInOrder, KeptInOrder
<1> QED  BY <1>1, <1>2 DEF SameIntake, SameSegment, MediaInOrder, AllTold, Handled, Settled

LEMMA IntakeOn ==
  ASSUME NEW x, NEW y, NEW z, SameIntake(x, y), SameIntake(y, z)
  PROVE  SameIntake(x, z)
BY DEF SameIntake, Handled

LEMMA SyncHoldKeeps ==
  ASSUME NEW x, Core(x), x.err = "ok", NEW y, y = SyncHold(x)
  PROVE  SameIntake(x, y) /\ SameOwner(x, y) /\ y.err = "ok" /\ y.alone = x.alone
<1> DEFINE s == Seal(x)
<1>1. y = x \/ y = [s EXCEPT !.hold = TRUE] \/ y = [x EXCEPT !.hold = FALSE]
  BY DEF SyncHold
<1>2. SameBut(x, s, {"rows", "span"})
  <2>1. s = [x EXCEPT !.rows = @ \/ x.span, !.span = FALSE]
    BY DEF Seal
  <2> QED  BY <2>1 DEF Core, IsObserver, SameBut, Fields
<1> HIDE DEF s
<1>3. SameBut(x, y, {"rows", "span", "hold"})
  <2>1. CASE y = x
    BY <2>1 DEF Core, SameBut
  <2>2. CASE y = [s EXCEPT !.hold = TRUE]
    <3>1. SameBut(s, y, {"hold"})
      BY <1>2, <2>2 DEF IsObserver, SameBut, Fields
    <3> QED  BY <1>2, <3>1 DEF SameBut
  <2>3. CASE y = [x EXCEPT !.hold = FALSE]
    BY <2>3 DEF Core, IsObserver, SameBut, Fields
  <2> QED  BY <1>1, <2>1, <2>2, <2>3
<1>4. TypesOf(y)
  BY <1>3 DEF Core, SameBut, Fields, TypesOf
<1>5. SameBut(x, y, OfPause)
  BY <1>3 DEF SameBut, OfPause
<1>6. SameOwner(x, y) /\ y.err = x.err /\ y.alone = x.alone
  BY <1>3 DEF SameBut, Fields, SameOwner
<1> QED  BY <1>4, <1>5, <1>6, OfPauseKeeps

LEMMA CountdownCloses == ASSUME NEW n \in Countdown  PROVE Less(n) \in Countdown
<1>1. CASE n \in {0, Forever}
  BY <1>1 DEF Less
<1>2. CASE n \notin {0, Forever} /\ n \in Pauses
  <2>1. n \in Nat \ {0}
    BY <1>2, ObserverAssumption
  <2>2. n - 1 \in 0..n
    BY <2>1
  <2> QED  BY <1>2, <2>2 DEF Less, Countdown
<1>3. CASE n \notin {0, Forever} /\ n \notin Pauses
  <2>1. PICK p \in Pauses : n \in 0..p
    BY <1>3 DEF Countdown
  <2>2. p \in Nat
    BY ObserverAssumption
  <2>3. n - 1 \in 0..p
    BY <1>3, <2>1, <2>2
  <2> QED  BY <1>3, <2>3 DEF Less, Countdown
<1> QED  BY <1>1, <1>2, <1>3

LEMMA SingleCloses ==
  ASSUME NEW S, Single(S)
  PROVE  Single(Lessened(S)) /\ (S = {} => Lessened(S) = {}) /\ (S # {} => Lessened(S) # {})
         /\ (S \subseteq {0} => Lessened(S) \subseteq {0})
<1>1. CASE S = {}
  BY <1>1 DEF Single, Lessened
<1>2. CASE S # {}
  <2>1. PICK n \in Countdown : S = {n}
    BY <1>2 DEF Single
  <2>2. Lessened(S) = {Less(n)} /\ Less(n) \in Countdown
    BY <2>1, CountdownCloses DEF Lessened
  <2>3. n = 0 => Less(n) = 0
    BY DEF Less
  <2> QED  BY <1>2, <2>1, <2>2, <2>3 DEF Single
<1> QED  BY <1>1, <1>2

LEMMA ElapseKeeps ==
  ASSUME NEW x, Core(x), x.err = "ok", NEW y, y = Elapse(x)
  PROVE  /\ SameIntake(x, y) /\ y.err = "ok" /\ y.paused = x.paused /\ y.unsaved = x.unsaved
         /\ y.saved = Lessened(x.saved)
<1>1. DOMAIN x = Fields
  BY DEF Core, IsObserver
<1>2. {"age", "settle", "retry", "left", "wall", "saved"} \subseteq Fields
  BY DEF Fields
<1> DEFINE age == IF x.age < Interval THEN x.age + 1 ELSE x.age
           settle == IF x.settle = 0 THEN 0 ELSE x.settle - 1
           retry == IF x.retry = 0 THEN 0 ELSE x.retry - 1
<1>3. y = [f \in Fields |-> IF f = "age" THEN age ELSE IF f = "settle" THEN settle ELSE IF f = "retry" THEN retry
             ELSE IF f = "left" THEN Less(x.left) ELSE IF f = "wall" THEN Less(x.wall)
             ELSE IF f = "saved" THEN Lessened(x.saved) ELSE x[f]]
  BY <1>1, <1>2 DEF Elapse
<1>4. age \in 0..Interval /\ settle \in 0..Settle /\ retry \in 0..Retry
  <2>1. x.age \in 0..Interval /\ x.settle \in 0..Settle /\ x.retry \in 0..Retry
    BY DEF Core, TypesOf
  <2>2. Interval \in Nat /\ Settle \in Nat /\ Retry \in Nat
    BY ObserverAssumption
  <2>3. age \in 0..Interval
    BY <2>1, <2>2
  <2>4. settle \in 0..Settle
    BY <2>1, <2>2
  <2>5. retry \in 0..Retry
    BY <2>1, <2>2
  <2> QED  BY <2>3, <2>4, <2>5
<1> HIDE DEF age, settle, retry
<1>5. /\ y.age = age /\ y.settle = settle /\ y.retry = retry /\ y.left = Less(x.left) /\ y.wall = Less(x.wall)
      /\ y.saved = Lessened(x.saved)
  BY <1>2, <1>3
<1>6. SameBut(x, y, {"age", "settle", "retry", "left", "wall", "saved"})
  <2>1. IsObserver(y)
    BY <1>3 DEF IsObserver
  <2>2. \A f \in Fields \ {"age", "settle", "retry", "left", "wall", "saved"} : y[f] = x[f]
    BY <1>3
  <2> QED  BY <2>1, <2>2 DEF SameBut
<1>7. x.left \in Countdown /\ x.wall \in Countdown /\ Single(x.saved)
  BY DEF Core, TypesOf
<1>8. y.left \in Countdown /\ y.wall \in Countdown /\ Single(y.saved)
  BY <1>5, <1>7, CountdownCloses, SingleCloses
<1>9. TypesOf(y)
  BY <1>4, <1>5, <1>6, <1>8 DEF Core, SameBut, Fields, TypesOf
<1>10. SameBut(x, y, OfPause)
  BY <1>6 DEF SameBut, OfPause
<1>11. y.err = x.err /\ y.paused = x.paused /\ y.unsaved = x.unsaved
  BY <1>6 DEF SameBut, Fields
<1> QED  BY <1>5, <1>9, <1>10, <1>11, OfPauseKeeps

\* pause.json is written, or it is known that it was not.
LEMMA SaveKeeps ==
  ASSUME NEW x, Core(x), x.err = "ok", NEW S, Single(S), NEW y \in Save(x, S)
  PROVE  /\ SameIntake(x, y) /\ SameSegment(x, y) /\ y.err = "ok" /\ y.paused = x.paused /\ y.alone = x.alone
         /\ ~y.unsaved => y.saved = S
<1>1. CASE y = [x EXCEPT !.saved = S, !.unsaved = FALSE]
  <2>1. SameBut(x, y, {"saved", "unsaved"}) /\ y.saved = S
    BY <1>1 DEF Core, IsObserver, SameBut, Fields
  <2>2. TypesOf(y) /\ SameBut(x, y, OfPause)
    BY <2>1 DEF Core, SameBut, Fields, TypesOf, OfPause
  <2>3. y.err = x.err /\ y.paused = x.paused /\ y.alone = x.alone
    BY <2>1 DEF SameBut, Fields
  <2> QED  BY <2>1, <2>2, <2>3, OfPauseKeeps
<1>2. CASE \E f \in Fails(x, "fatal") : y = [[f EXCEPT !.unsaved = TRUE] EXCEPT !.err = "ok"]
  <2>1. PICK f \in Fails(x, "fatal") : y = [[f EXCEPT !.unsaved = TRUE] EXCEPT !.err = "ok"]
    BY <1>2
  <2>2. SameBut(x, f, {"err", "faults"}) /\ Core(f)
    BY FailsOutcome, FailsCore DEF Core
  <2>3. SameBut(f, y, {"unsaved", "err"}) /\ y.err = "ok" /\ y.unsaved = TRUE
    BY <2>1, <2>2 DEF IsObserver, SameBut, Fields
  <2>4. SameBut(x, y, {"err", "faults", "unsaved"})
    BY <2>2, <2>3 DEF SameBut
  <2>5. TypesOf(y) /\ SameBut(x, y, OfPause)
    <3>1. TypesOf(y)
      BY <2>2, <2>3 DEF Core, SameBut, Fields, TypesOf
    <3> QED  BY <2>4, <3>1 DEF SameBut, OfPause
  <2>6. y.paused = x.paused /\ y.alone = x.alone
    BY <2>4 DEF SameBut, Fields
  <2> QED  BY <2>3, <2>5, <2>6, OfPauseKeeps
<1> QED  BY <1>1, <1>2 DEF Save, Quietly

LEMMA ResumedKeeps ==
  ASSUME NEW x, Core(x), x.err = "ok", NEW y \in Resumed(x)
  PROVE  /\ SameIntake(x, y) /\ y.err = "ok" /\ ~y.paused
         /\ ~y.unsaved => y.saved = {}
<1> DEFINE p == [x EXCEPT !.paused = FALSE, !.left = Forever, !.wall = Forever]
<1>1. PICK s \in Save(p, {}) : y = SyncHold(s)
  BY DEF Resumed
<1>2. DOMAIN x = Fields /\ {"paused", "left", "wall"} \subseteq Fields
  BY DEF Core, IsObserver, Fields
<1>3. p = [f \in Fields |-> IF f = "paused" THEN FALSE ELSE IF f \in {"left", "wall"} THEN Forever ELSE x[f]]
  BY <1>2
<1> HIDE DEF p
<1>4. ~p.paused /\ p.left = Forever /\ p.wall = Forever
  BY <1>2, <1>3
<1>5. SameBut(x, p, {"paused", "left", "wall"})
  <2>1. IsObserver(p)
    BY <1>3 DEF IsObserver
  <2>2. \A f \in Fields \ {"paused", "left", "wall"} : p[f] = x[f]
    BY <1>3
  <2> QED  BY <2>1, <2>2 DEF SameBut
<1>6. Forever \in Countdown
  BY DEF Countdown
<1>7. TypesOf(p)
  BY <1>4, <1>5, <1>6 DEF Core, SameBut, Fields, TypesOf
<1>8. SameBut(x, p, OfPause) /\ p.err = x.err
  BY <1>5 DEF SameBut, OfPause, Fields
<1>9. SameIntake(x, p)
  BY <1>7, <1>8, OfPauseKeeps
<1>10. Single({})
  BY DEF Single
<1>11. SameIntake(p, s) /\ s.err = "ok" /\ s.paused = p.paused /\ (~s.unsaved => s.saved = {})
  BY <1>1, <1>8, <1>9, <1>10, SaveKeeps DEF SameIntake
<1>12. SameIntake(s, y) /\ SameOwner(s, y) /\ y.err = "ok"
  BY <1>1, <1>11, SyncHoldKeeps DEF SameIntake
<1> QED  BY <1>4, <1>9, <1>11, <1>12, IntakeOn DEF SameOwner

LEMMA PausedKeeps ==
  ASSUME NEW x, Core(x), x.err = "ok", NEW n \in Pauses \cup {Forever}, NEW y \in Paused(x, n)
  PROVE  /\ SameIntake(x, y) /\ y.err = "ok" /\ y.paused
         /\ ~y.unsaved => y.saved = {n}
<1> DEFINE p == [x EXCEPT !.paused = TRUE, !.left = n, !.wall = n]
<1>1. PICK s \in Save(SyncHold(p), {n}) : y \in Quietly(PersistActivity(s))
  BY DEF Paused
<1>2. DOMAIN x = Fields /\ {"paused", "left", "wall"} \subseteq Fields
  BY DEF Core, IsObserver, Fields
<1>3. p = [f \in Fields |-> IF f = "paused" THEN TRUE ELSE IF f \in {"left", "wall"} THEN n ELSE x[f]]
  BY <1>2
<1> HIDE DEF p
<1>4. p.paused = TRUE /\ p.left = n /\ p.wall = n
  BY <1>2, <1>3
<1>5. SameBut(x, p, {"paused", "left", "wall"})
  <2>1. IsObserver(p)
    BY <1>3 DEF IsObserver
  <2>2. \A f \in Fields \ {"paused", "left", "wall"} : p[f] = x[f]
    BY <1>3
  <2> QED  BY <2>1, <2>2 DEF SameBut
<1>6. n \in Countdown
  BY DEF Countdown
<1>7. TypesOf(p)
  BY <1>4, <1>5, <1>6 DEF Core, SameBut, Fields, TypesOf
<1>8. SameBut(x, p, OfPause) /\ p.err = x.err
  BY <1>5 DEF SameBut, OfPause, Fields
<1>9. SameIntake(x, p) /\ Core(p)
  BY <1>7, <1>8, OfPauseKeeps DEF SameIntake
<1> DEFINE h == SyncHold(p)
<1>10. SameIntake(p, h) /\ SameOwner(p, h) /\ h.err = "ok" /\ Core(h)
  BY <1>8, <1>9, SyncHoldKeeps DEF SameIntake
<1>11. s \in Save(h, {n}) /\ Single({n})
  BY <1>1, <1>6 DEF Single
<1> HIDE DEF h
<1>12. SameIntake(h, s) /\ s.err = "ok" /\ s.paused = h.paused /\ (~s.unsaved => s.saved = {n}) /\ Core(s)
  BY <1>10, <1>11, SaveKeeps DEF SameIntake
<1>13. Goes(s, y) /\ Handled(s, y) /\ SameMedia(s, y) /\ y.err = "ok" /\ (s.dir # NoDir => y.dir = s.dir)
  BY <1>1, <1>12, PersistQuietly
<1>14. SameIntake(s, y) /\ y.paused = s.paused /\ y.saved = s.saved /\ y.unsaved = s.unsaved
  BY <1>13, MediaKept DEF SameIntake, Goes, SameCall, SamePause, SameMedia
<1>15. SameIntake(x, y)
  BY <1>9, <1>10, <1>12, <1>14, IntakeOn
<1> QED  BY <1>4, <1>10, <1>12, <1>13, <1>14, <1>15 DEF SameOwner

\* Every way through a tick.
LEMMA TickOutcomesDone ==
  ASSUME NEW x, Ready(x), "stale" \notin x.heard, NEW y \in TickOutcomes(x)
  PROVE  /\ Core(y) /\ SameOwner(x, y) /\ (AllTold(x) => AllTold(y)) /\ (y.err # "fatal" => Handled(x, y))
         /\ y.err = "ok" => MediaInOrder(y) /\ "stale" \notin y.heard /\ Calm(y)
<1> DEFINE h == SyncHold(x)
<1>1. SameIntake(x, h) /\ SameOwner(x, h) /\ h.err = "ok"
  BY SyncHoldKeeps DEF Ready
<1>2. Ready(h) /\ "stale" \notin h.heard
  BY <1>1 DEF SameIntake, Ready
<1>3. y \in IF ActivityOnly THEN TickActivityOnly(h)
            ELSE IF h.paused THEN TickPaused(Met(h, "paused"))
            ELSE Then(EndActivityAlone(h), TickScreen)
  BY DEF TickOutcomes
<1> HIDE DEF h
<1>4. SUFFICES Done(h, y)
  BY <1>1, <1>4 DEF Done, Ends, SamePause, SameOwner, SameIntake, Handled
<1>5. CASE ActivityOnly
  BY <1>2, <1>3, <1>5, ActivityOnlyDone
<1>6. CASE ~ActivityOnly /\ h.paused
  <2> DEFINE m == Met(h, "paused")
  <2>1. m = [h EXCEPT !.heard = {IF t = "paused" THEN "stale" ELSE t : t \in @}]
    BY DEF Met
  <2>2. y \in TickPaused(m)
    BY <1>3, <1>6
  <2> HIDE DEF m
  <2>3. SameBut(h, m, {"heard"}) /\ m.heard = {IF t = "paused" THEN "stale" ELSE t : t \in h.heard}
    BY <1>2, <2>1 DEF Ready, Core, IsObserver, SameBut, Fields
  <2>4. h.heard \subseteq Tags
    BY <1>2 DEF Ready, Core, TypesOf
  <2>5. m.heard \subseteq Tags
    BY <2>3, <2>4 DEF Tags
  <2>6. TypesOf(m) /\ SameBut(h, m, Aside)
    BY <1>2, <2>3, <2>5 DEF Ready, Core, SameBut, Fields, TypesOf, Aside
  <2>7. Ends(h, m) /\ Core(m) /\ m.dir = h.dir /\ m.video = h.video
    BY <1>2, <2>6, AsideEnds DEF Ready, Ends
  <2>8. m.hit = h.hit /\ m.err = h.err /\ m.mode = h.mode /\ m.alone = h.alone
    BY <2>3 DEF SameBut, Fields
  <2>9. Ready(m)
    BY <1>2, <2>7, <2>8, MediaKept DEF Ready
  <2>10. Done(m, y)
    BY <2>2, <2>9, PausedDone
  <2> QED  BY <2>7, <2>9, <2>10, EndsOn DEF Done, Ready
<1>7. CASE ~ActivityOnly /\ ~h.paused
  <2>1. PICK s \in EndActivityAlone(h) : y \in IF s.err = "ok" THEN TickScreen(s) ELSE {s}
    BY <1>3, <1>7 DEF Then
  <2>2. /\ Ends(h, s) /\ s.err \in {"ok", "fatal"} /\ s.heard = h.heard
        /\ s.err = "ok" => Ready(s) /\ ~s.alone
    BY <1>2, <2>1, EndAloneEnds
  <2>3. CASE s.err # "ok"
    BY <2>1, <2>2, <2>3 DEF Done
  <2>4. CASE s.err = "ok"
    <3>1. ~s.paused
      BY <1>7, <2>2 DEF Ends, SamePause
    <3>2. Done(s, y)
      BY <1>2, <1>7, <2>1, <2>2, <2>4, <3>1, TickScreenDone
    <3> QED  BY <2>2, <2>4, <3>2, EndsOn DEF Done
  <2> QED  BY <2>3, <2>4
<1> QED  BY <1>5, <1>6, <1>7

-----------------------------------------------------------------------------
(* Booting *)

LEMMA BlankFields == DOMAIN Blank \cup OnDisk = Fields /\ DOMAIN Blank \cap OnDisk = {}
<1>1. DOMAIN Blank = Fields \ OnDisk
  BY DEF Blank, Fields, OnDisk
<1>2. OnDisk \subseteq Fields
  BY DEF Fields, OnDisk
<1> QED  BY <1>1, <1>2

LEMMA BootedOutcome ==
  ASSUME NEW x, NEW y, y = Booted(x)
  PROVE  /\ IsObserver(y) /\ \A f \in OnDisk : y[f] = x[f]
         /\ \A f \in Fields \ OnDisk : y[f] = Blank[f]
<1>1. y = [f \in Fields |-> IF f \in OnDisk THEN x[f] ELSE Blank[f]]
  BY BlankFields DEF Booted
<1>2. OnDisk \subseteq Fields
  BY BlankFields
<1> HIDE DEF OnDisk, Blank, Fields
<1>3. IsObserver(y)
  BY <1>1 DEF IsObserver
<1> QED  BY <1>1, <1>2, <1>3

\* Only what is on disk may differ in what is as if booted.
LEMMA BootedAgain ==
  ASSUME NEW y, IsObserver(y), \A f \in Fields \ OnDisk : y[f] = Blank[f]
  PROVE  y = Booted(y)
<1>1. Booted(y) = [f \in Fields |-> IF f \in OnDisk THEN y[f] ELSE Blank[f]]
  BY BlankFields DEF Booted
<1>2. [f \in Fields |-> IF f \in OnDisk THEN y[f] ELSE Blank[f]] = [f \in Fields |-> y[f]]
  OBVIOUS
<1> QED  BY <1>1, <1>2 DEF IsObserver

LEMMA BlankValues ==
  ASSUME NEW y, \A f \in Fields \ OnDisk : y[f] = Blank[f]
  PROVE  /\ y.mode = "idle" /\ y.target = "idle" /\ y.dir = NoDir /\ y.video = NoDir /\ y.age = 0
         /\ y.frames = {} /\ y.heard = {} /\ y.hit = FALSE /\ y.alone = FALSE /\ y.err = "ok"
         /\ y.settle = 0 /\ y.retry = 0 /\ y.left = Forever /\ y.wall = Forever /\ y.told = FALSE
         /\ y.paused = FALSE
BY DEF Fields, OnDisk, Blank

\* The types of what is on disk are all that has to be known of a booted observer.
DiskTypes(x) ==
  /\ x.disk \subseteq Dirs /\ x.content \in [Dirs -> SUBSET Contents] /\ x.finished \in Truth
  /\ x.written \subseteq Tags /\ Single(x.saved) /\ x.faults \in 0..MaxFaults

LEMMA BootedCore ==
  ASSUME NEW y, IsObserver(y), \A f \in Fields \ OnDisk : y[f] = Blank[f], DiskTypes(y),
         \A d \in Dirs \ y.disk : y.content[d] = {}, "stale" \notin y.written, y.finished => Announced
  PROVE  Core(y) /\ y = Booted(y)
<1>1. TypesOf(y)
  <2>1. 0 \in 0..Interval /\ 0 \in 0..Settle /\ 0 \in 0..Retry
    BY ObserverAssumption
  <2>2. Forever \in Countdown
    BY DEF Countdown
  <2> QED  BY <2>1, <2>2, BlankValues DEF TypesOf, DiskTypes, Truth
<1>2. DirsInOrder(y) /\ KeptInOrder(y)
  BY BlankValues DEF DirsInOrder, KeptInOrder
<1> QED  BY <1>1, <1>2, BootedAgain DEF Core

LEMMA CoreOnDisk ==
  ASSUME NEW x, Core(x)
  PROVE  /\ DiskTypes(x) /\ \A d \in Dirs \ x.disk : x.content[d] = {}
         /\ "stale" \notin x.written /\ (x.finished => Announced)
BY DEF Core, TypesOf, DirsInOrder, KeptInOrder, DiskTypes

LEMMA BootedKeeps ==
  ASSUME NEW x, Core(x), NEW y, y = Booted(x)
  PROVE  Core(y) /\ y = Booted(y) /\ y.saved = x.saved /\ y.unsaved = x.unsaved /\ y.err = "ok"
         /\ y.faults = x.faults
<1>1. /\ IsObserver(y) /\ \A f \in OnDisk : y[f] = x[f]
      /\ \A f \in Fields \ OnDisk : y[f] = Blank[f]
  BY BootedOutcome
<1>2. /\ y.disk = x.disk /\ y.content = x.content /\ y.finished = x.finished /\ y.written = x.written
      /\ y.saved = x.saved /\ y.unsaved = x.unsaved /\ y.faults = x.faults
  BY <1>1 DEF OnDisk
<1>3. /\ DiskTypes(y) /\ \A d \in Dirs \ y.disk : y.content[d] = {}
      /\ "stale" \notin y.written /\ (y.finished => Announced)
  BY <1>2, CoreOnDisk DEF DiskTypes
<1> QED  BY <1>1, <1>2, <1>3, BootedCore, BlankValues

\* What recovery finishes leaves the disk, and the sync worker is told.
LEMMA RecoveredKeeps ==
  ASSUME NEW x, Core(x), x = Booted(x), NEW old \in SUBSET x.disk,
         NEW y, y = [Recovered(x, old) EXCEPT !.told = Announced]
  PROVE  /\ Core(y) /\ y.err = "ok" /\ Shut(y) /\ ~y.alone /\ y.heard = {} /\ AllTold(y)
         /\ y.saved = x.saved /\ y.unsaved = x.unsaved /\ ~y.paused
<1> DEFINE disk == x.disk \ old
           done == x.finished \/ (Announced /\ \E d \in old : x.content[d] # {})
           content == [d \in Dirs |-> IF d \in old THEN {} ELSE x.content[d]]
<1>1. /\ IsObserver(x)
      /\ \A f \in Fields \ OnDisk : x[f] = Blank[f]
  BY BootedOutcome DEF Core
<1>2. DOMAIN x = Fields /\ {"disk", "finished", "content", "told"} \subseteq Fields
  BY <1>1 DEF IsObserver, Fields
<1>3. y = [[x EXCEPT !.disk = disk, !.finished = done, !.content = content] EXCEPT !.told = Announced]
  BY DEF Recovered
<1>4. /\ x.mode = "idle" /\ x.target = "idle" /\ x.dir = NoDir /\ x.video = NoDir /\ x.hit = FALSE
      /\ x.alone = FALSE /\ x.err = "ok" /\ x.heard = {} /\ x.frames = {} /\ x.paused = FALSE
  BY <1>1, BlankValues
<1>5. TypesOf(x) /\ DirsInOrder(x) /\ KeptInOrder(x)
  BY DEF Core
<1>6. disk \subseteq Dirs /\ content \in [Dirs -> SUBSET Contents] /\ \A d \in Dirs \ disk : content[d] = {}
  <2>1. /\ x.disk \subseteq Dirs /\ x.content \in [Dirs -> SUBSET Contents]
        /\ \A d \in Dirs \ x.disk : x.content[d] = {}
    BY <1>5 DEF TypesOf, DirsInOrder
  <2> QED  BY <2>1
<1>7. (done => Announced) /\ done \in Truth
  <2>1. done => Announced
    BY <1>5 DEF KeptInOrder
  <2>2. done \in BOOLEAN
    <3>1. CASE done
      <4>1. done = TRUE
        BY <3>1
      <4> QED  BY <4>1
    <3>2. CASE ~done
      <4>1. done = FALSE
        BY <3>2
      <4> QED  BY <4>1
    <3> QED  BY <3>1, <3>2
  <2>3. BOOLEAN = Truth
    BY DEF Truth
  <2> QED  BY <2>1, <2>2, <2>3
<1>8. Announced \in Truth
  <2>1. Announced \in BOOLEAN
    BY SMT DEF Announced
  <2>2. BOOLEAN = Truth
    BY DEF Truth
  <2> QED  BY <2>1, <2>2
<1> HIDE DEF disk, done, content
<1>9. y = [f \in Fields |-> IF f = "disk" THEN disk ELSE IF f = "finished" THEN done
             ELSE IF f = "content" THEN content
             ELSE IF f = "told" THEN Announced ELSE x[f]]
  BY <1>2, <1>3
<1>10. y.disk = disk /\ y.finished = done /\ y.content = content /\ y.told = Announced
  BY <1>2, <1>9
<1>11. SameBut(x, y, {"disk", "finished", "content", "told"})
  <2>1. IsObserver(y)
    BY <1>9 DEF IsObserver
  <2>2. \A f \in Fields \ {"disk", "finished", "content", "told"} : y[f] = x[f]
    BY <1>9
  <2> QED  BY <2>1, <2>2 DEF SameBut
<1>12. TypesOf(y)
  BY <1>5, <1>6, <1>7, <1>8, <1>10, <1>11 DEF SameBut, Fields, TypesOf
<1>13. /\ y.err = "ok" /\ y.dir = NoDir /\ y.video = NoDir /\ y.hit = FALSE /\ y.alone = FALSE /\ y.heard = {}
       /\ y.frames = x.frames /\ y.written = x.written /\ y.saved = x.saved /\ y.unsaved = x.unsaved
       /\ y.paused = FALSE
  BY <1>4, <1>11 DEF SameBut, Fields
<1>14. DirsInOrder(y) /\ KeptInOrder(y)
  BY <1>5, <1>6, <1>7, <1>10, <1>13 DEF DirsInOrder, KeptInOrder
<1>15. AllTold(y)
  BY <1>7, <1>10 DEF AllTold
<1> QED  BY <1>11, <1>12, <1>13, <1>14, <1>15 DEF Core, SameBut, Shut, Silent

\* The pause in force at the start is the one on disk, or the configured one.
LEMMA StartingPauseKeeps ==
  ASSUME NEW x, Core(x), x.err = "ok", ~x.paused, NEW y \in StartingPause(x)
  PROVE  /\ SameIntake(x, y) /\ SameSegment(x, y) /\ y.err = "ok" /\ y.alone = x.alone
         /\ x.saved \notin {{}, {0}} => y.paused /\ y.saved = x.saved /\ y.unsaved = x.unsaved
         /\ x.saved \in {{}, {0}} => /\ y.paused = StartPaused
                                     /\ ~y.unsaved => y.saved = {} /\ (x.saved = {} => ~x.unsaved)
<1>1. CASE x.saved \in {{}, {0}}
  <2>1. PICK s \in IF x.saved = {} THEN {x} ELSE Save(x, {}) : y = [s EXCEPT !.paused = StartPaused]
    BY <1>1 DEF StartingPause
  <2>2. /\ SameIntake(x, s) /\ SameSegment(x, s) /\ s.err = "ok" /\ s.alone = x.alone
        /\ ~s.unsaved => s.saved = {} /\ (x.saved = {} => ~x.unsaved)
    <3>1. CASE x.saved = {}
      BY <2>1, <3>1 DEF SameIntake, SameSegment, MediaInOrder, AllTold, Handled
    <3>2. CASE x.saved # {}
      <4>1. Single({})
        BY DEF Single
      <4> QED  BY <2>1, <3>2, <4>1, SaveKeeps
    <3> QED  BY <3>1, <3>2
  <2>3. SameBut(s, y, {"paused"}) /\ y.paused = StartPaused
    BY <2>1, <2>2 DEF SameIntake, Core, IsObserver, SameBut, Fields
  <2>4. TypesOf(y) /\ SameBut(s, y, OfPause)
    BY <2>2, <2>3 DEF SameIntake, Core, SameBut, Fields, TypesOf, OfPause
  <2>5. SameIntake(s, y) /\ SameSegment(s, y)
    BY <2>2, <2>4, OfPauseKeeps DEF SameIntake
  <2>6. y.err = s.err /\ y.alone = s.alone /\ y.saved = s.saved /\ y.unsaved = s.unsaved
    BY <2>3 DEF SameBut, Fields
  <2> QED  BY <1>1, <2>2, <2>3, <2>5, <2>6, IntakeOn DEF SameSegment
<1>2. CASE x.saved \notin {{}, {0}}
  <2>1. PICK n \in x.saved : y = [x EXCEPT !.paused = TRUE, !.left = n, !.wall = n]
    BY <1>2 DEF StartingPause
  <2>2. DOMAIN x = Fields /\ {"paused", "left", "wall"} \subseteq Fields
    BY DEF Core, IsObserver, Fields
  <2>3. y = [f \in Fields |-> IF f = "paused" THEN TRUE ELSE IF f \in {"left", "wall"} THEN n ELSE x[f]]
    BY <2>1, <2>2
  <2>4. y.paused = TRUE /\ y.left = n /\ y.wall = n
    BY <2>2, <2>3
  <2>5. SameBut(x, y, {"paused", "left", "wall"})
    <3>1. IsObserver(y)
      BY <2>3 DEF IsObserver
    <3>2. \A f \in Fields \ {"paused", "left", "wall"} : y[f] = x[f]
      BY <2>3
    <3> QED  BY <3>1, <3>2 DEF SameBut
  <2>6. n \in Countdown
    BY DEF Core, TypesOf, Single
  <2>7. TypesOf(y)
    BY <2>4, <2>5, <2>6 DEF Core, SameBut, Fields, TypesOf
  <2>8. SameBut(x, y, OfPause)
    BY <2>5 DEF SameBut, OfPause
  <2>9. y.err = x.err /\ y.alone = x.alone /\ y.saved = x.saved /\ y.unsaved = x.unsaved
    BY <2>5 DEF SameBut, Fields
  <2> QED  BY <1>2, <2>4, <2>7, <2>8, <2>9, OfPauseKeeps
<1> QED  BY <1>1, <1>2

\* The start takes the screen only with a session in front and no pause.
LEMMA InitializeKeeps ==
  ASSUME NEW x, Core(x), x.err = "ok", Shut(x), ~x.alone, x.heard = {}, NEW y \in Initialize(x)
  PROVE  /\ Core(y) /\ SameOwner(x, y) /\ (AllTold(x) => AllTold(y))
         /\ y.err = "ok" => MediaInOrder(y) /\ y.heard = {}
<1> DEFINE h == [x EXCEPT !.hold = ActivityPaused(x)]
           ready(q) == [q EXCEPT !.segMuted = q.muted, !.mode = q.target]
           keep(t) == Quietly(PersistActivity(t))
           noted(q) == UNION {Then(EnsureActivitySegment(z), keep) : z \in NoteActivity(q)}
           idle(q) == {[q EXCEPT !.mode = "idle"]}
           opened(q) == IF ActivityOnly THEN IF q.live THEN noted(q) ELSE idle(q)
                        ELSE IF ~q.live THEN idle(q)
                        ELSE IF q.paused THEN {q} ELSE StartCapture(q)
<1>1. PICK q \in ProbeStatus(h, "screencast") : y \in opened(ready(q))
  BY DEF Initialize
<1>2. SameBut(x, h, {"hold"})
  BY DEF Core, IsObserver, SameBut, Fields
<1> HIDE DEF h
<1>3. TypesOf(h) /\ SameBut(x, h, OfPause)
  BY <1>2 DEF Core, SameBut, Fields, TypesOf, OfPause
<1>4. SameIntake(x, h) /\ Core(h)
  BY <1>3, OfPauseKeeps DEF SameIntake
<1>5. /\ h.err = "ok" /\ h.dir = NoDir /\ h.video = NoDir /\ ~h.hit /\ ~h.alone /\ SameOwner(x, h)
  BY <1>2 DEF SameBut, Fields, Shut, Silent, SameOwner
<1>6. h.heard = {}
  BY <1>4 DEF SameIntake
<1>7. Seen(h, q) /\ Core(q)
  BY <1>1, <1>4, <1>5, ProbeSees DEF Seen, Ends
<1>8. q.err = "ok" /\ Shut(q) /\ ~q.alone /\ q.heard = {} /\ SameOwner(x, q) /\ (AllTold(x) => AllTold(q))
  BY <1>4, <1>5, <1>6, <1>7 DEF Seen, Shut, Silent, SameOwner, Ends, SamePause, SameIntake
<1> DEFINE n == ready(q)
<1>9. SameBut(q, n, {"segMuted", "mode"}) /\ n.mode = q.target
  BY <1>7 DEF Core, IsObserver, SameBut, Fields
<1>10. y \in opened(n)
  BY <1>1
<1> HIDE DEF n
<1>11. TypesOf(n) /\ SameBut(q, n, Aside)
  BY <1>7, <1>9 DEF Core, SameBut, Fields, TypesOf, Aside
<1>12. Ends(q, n) /\ Core(n) /\ n.dir = q.dir /\ n.video = q.video
  BY <1>7, <1>11, AsideEnds DEF Ends
<1>13. n.hit = q.hit /\ n.err = q.err /\ n.alone = q.alone /\ n.heard = q.heard /\ n.target = q.target
  BY <1>9 DEF SameBut, Fields
<1>14. n.err = "ok" /\ Shut(n) /\ ~n.alone /\ n.heard = {} /\ n.mode = n.target /\ MediaInOrder(n)
  BY <1>8, <1>9, <1>12, <1>13, ShutIsCalm DEF Shut, Silent
<1>15. SUFFICES Ends(n, y) /\ (y.err = "ok" => MediaInOrder(y) /\ y.heard = {})
  BY <1>8, <1>12, <1>15 DEF Ends, SamePause, SameOwner
<1>16. CASE y = n
  BY <1>12, <1>14, <1>16, EndsNowhere
<1>17. CASE y = [n EXCEPT !.mode = "idle"]
  <2>1. SameBut(n, y, {"mode"}) /\ y.mode = "idle"
    BY <1>12, <1>17 DEF Core, IsObserver, SameBut, Fields
  <2>2. TypesOf(y) /\ SameBut(n, y, Aside)
    BY <1>12, <2>1 DEF Core, SameBut, Fields, TypesOf, Aside
  <2>3. Ends(n, y) /\ y.dir = n.dir /\ y.video = n.video
    BY <1>12, <2>2, AsideEnds
  <2>4. y.hit = n.hit /\ y.heard = n.heard
    BY <2>1 DEF SameBut, Fields
  <2> QED  BY <1>14, <2>3, <2>4, SilentInOrder DEF Shut, Silent
<1>18. CASE ActivityOnly /\ y \in noted(n)
  <2>1. y \in NoteAndKeep(n)
    BY <1>18 DEF NoteAndKeep
  <2>2. Goes(n, y) /\ SameMedia(n, y)
    BY <1>12, <1>14, <2>1, NoteAndKeepGoes
  <2>3. y.heard = {} /\ Silent(y)
    BY <1>14, <2>2 DEF Goes, SameCall, SameMedia, Shut, Silent
  <2> QED  BY <2>2, <2>3, GoesEnds, SilentInOrder
<1>19. CASE ~ActivityOnly /\ y \in StartCapture(n)
  <2>1. /\ Goes(n, y) /\ y.hit = n.hit
        /\ y.err = "ok" => y.dir # NoDir /\ (y.video = NoDir \/ (y.video = y.dir /\ y.target = "screencast"))
    BY <1>12, <1>14, <1>19, StartCaptureGoes DEF Shut, Silent
  <2>2. y.mode = y.target /\ y.heard = {} /\ ~y.alone
    BY <1>14, <2>1 DEF Goes, SameCall
  <2>3. ~y.hit
    BY <1>14, <2>1 DEF Shut, Silent
  <2> QED  BY <1>19, <2>1, <2>2, <2>3, GoesEnds DEF MediaInOrder
<1> QED  BY <1>10, <1>16, <1>17, <1>18, <1>19

-----------------------------------------------------------------------------
(* The steps keep the invariant, and leave nothing behind *)

\* What a step has to show: the invariant of what it leaves, and that no
\* directory with something in it is given up while the observer runs on.
LEMMA Installed ==
  ASSUME up' \in {"run", "failed", "down"}, calm' \in BOOLEAN, w' \in Worlds, ActivityOnly' = ActivityOnly,
         Single(wish'), Core(o'),
         ~o'.unsaved => o'.saved = wish' \/ (o'.saved \subseteq {0} /\ wish' \subseteq {0}),
         o'.err = "ok" <=> up' # "failed",
         up' = "down" => o' = Booted(o'),
         up' = "run" => /\ MediaInOrder(o') /\ AllTold(o') /\ "stale" \notin o'.heard
                        /\ calm' => Calm(o')
                        /\ wish' \notin {{}, {0}} => o'.paused
                        /\ o'.paused => wish' # {} \/ StartPaused
  PROVE  IInv'
<1>1. Core(o)'
  BY DEF Core, IsObserver, TypesOf, DirsInOrder, KeptInOrder, Announced
<1>2. PauseIsWritten'
  BY DEF PauseIsWritten
<1>3. up' = "run" => Running'
  BY DEF Running, PauseIsTheOwners, MediaInOrder, AllTold, Calm
<1>4. Single(wish)'
  BY DEF Single
<1>5. (up = "down" => o = Booted(o))'
  BY DEF Booted
<1> QED  BY <1>1, <1>2, <1>3, <1>4, <1>5 DEF IInv

NothingLeft == up = "run" /\ up' = "run" => Handled(o, o')

\* The end of a call puts the target back.
LEMMA AfterKeeps ==
  ASSUME NEW x, Core(x), NEW y, y = [x EXCEPT !.target = "idle"]
  PROVE  /\ Core(y) /\ SameOwner(x, y) /\ Handled(x, y) /\ y.err = x.err /\ y.heard = x.heard
         /\ (AllTold(x) => AllTold(y)) /\ (MediaInOrder(x) => MediaInOrder(y)) /\ (Calm(x) => Calm(y))
<1>1. SameBut(x, y, {"target"}) /\ y.target = "idle"
  BY DEF Core, IsObserver, SameBut, Fields
<1>2. TypesOf(y) /\ SameBut(x, y, Aside)
  BY <1>1 DEF Core, SameBut, Fields, TypesOf, Aside
<1>3. Ends(x, y) /\ Handled(x, y) /\ y.dir = x.dir /\ y.video = x.video
  BY <1>2, AsideEnds
<1>4. /\ y.err = x.err /\ y.heard = x.heard /\ y.hit = x.hit /\ y.mode = x.mode /\ y.alone = x.alone
      /\ y.live = x.live /\ y.paused = x.paused /\ y.hold = x.hold /\ y.fresh = x.fresh
      /\ y.segMuted = x.segMuted /\ y.muted = x.muted
  BY <1>1 DEF SameBut, Fields
<1> QED  BY <1>3, <1>4 DEF Ends, SamePause, SameOwner, MediaInOrder, Calm

LEMMA TickKeeps == ASSUME IInv, Tick  PROVE IInv' /\ NothingLeft
<1> DEFINE x == Elapse(o)
<1>1. /\ up = "run" /\ calm' = TRUE /\ w' = w
      /\ wish' = IF Over(x) THEN {} ELSE Lessened(wish)
  BY DEF Tick
<1>2. PICK q \in IF Over(x) THEN Resumed(x) ELSE {x} : \E z \in TickOutcomes(q) : After(z)
  BY DEF Tick
<1>3. PICK z \in TickOutcomes(q) : After(z)
  BY <1>2
<1> HIDE DEF x
<1>4. Core(o) /\ Running /\ Single(wish) /\ PauseIsWritten /\ o.err = "ok" /\ w \in Worlds
  BY <1>1 DEF IInv
<1>5. /\ SameIntake(o, x) /\ Core(x) /\ x.err = "ok" /\ x.paused = o.paused /\ x.unsaved = o.unsaved
      /\ x.saved = Lessened(o.saved)
  BY <1>4, ElapseKeeps DEF x, SameIntake
<1>6. SameIntake(x, q) /\ q.err = "ok"
  <2>1. CASE Over(x)
    BY <1>2, <1>5, <2>1, ResumedKeeps
  <2>2. CASE ~Over(x)
    BY <1>2, <1>5, <2>2 DEF SameIntake, Handled
  <2> QED  BY <2>1, <2>2
<1>7. Ready(q) /\ "stale" \notin q.heard /\ AllTold(q) /\ Handled(o, q)
  BY <1>4, <1>5, <1>6 DEF Running, SameIntake, Ready, Handled
<1>8. /\ Core(z) /\ SameOwner(q, z) /\ AllTold(z) /\ (z.err # "fatal" => Handled(q, z))
      /\ z.err = "ok" => MediaInOrder(z) /\ "stale" \notin z.heard /\ Calm(z)
  BY <1>3, <1>7, TickOutcomesDone
<1>9. o' = [z EXCEPT !.target = "idle"] /\ up' = IF z.err = "ok" THEN "run" ELSE "failed"
  BY <1>3 DEF After
<1>10. /\ Core(o') /\ SameOwner(z, o') /\ Handled(z, o') /\ o'.err = z.err /\ o'.heard = z.heard
       /\ AllTold(o') /\ (MediaInOrder(z) => MediaInOrder(o')) /\ (Calm(z) => Calm(o'))
  BY <1>8, <1>9, AfterKeeps
<1>11. NothingLeft
  <2>1. ASSUME up' = "run"  PROVE Handled(o, o')
    <3>1. z.err = "ok"
      BY <1>9, <2>1
    <3> QED  BY <1>7, <1>8, <1>10, <3>1 DEF Handled
  <2> QED  BY <2>1 DEF NothingLeft
<1>12. o'.paused = q.paused /\ o'.saved = q.saved /\ o'.unsaved = q.unsaved
  BY <1>8, <1>10 DEF SameOwner
<1>13. PauseIsTheOwners /\ (wish \notin {{}, {0}} => o.paused) /\ (o.paused => wish # {} \/ StartPaused)
  BY <1>1, <1>4 DEF Running, PauseIsTheOwners
<1>14. /\ Single(wish')
       /\ ~o'.unsaved => o'.saved = wish' \/ (o'.saved \subseteq {0} /\ wish' \subseteq {0})
       /\ wish' \notin {{}, {0}} => o'.paused
       /\ o'.paused => wish' # {} \/ StartPaused
  <2>1. CASE Over(x)
    <3>1. ~q.paused /\ (~q.unsaved => q.saved = {}) /\ wish' = {}
      BY <1>1, <1>2, <1>5, <2>1, ResumedKeeps
    <3> QED  BY <1>12, <3>1 DEF Single
  <2>2. CASE ~Over(x)
    <3>1. q = x /\ wish' = Lessened(wish)
      BY <1>1, <1>2, <2>2
    <3>2. Single(o.saved)
      BY <1>4 DEF Core, TypesOf
    <3>3. /\ Single(Lessened(wish)) /\ (wish = {} => Lessened(wish) = {}) /\ (wish # {} => Lessened(wish) # {})
          /\ (wish \subseteq {0} => Lessened(wish) \subseteq {0})
      BY <1>4, SingleCloses
    <3>4. o.saved \subseteq {0} => Lessened(o.saved) \subseteq {0}
      BY <3>2, SingleCloses
    <3>5. ~o.unsaved => o.saved = wish \/ (o.saved \subseteq {0} /\ wish \subseteq {0})
      BY <1>4 DEF PauseIsWritten
    <3>6. wish' \notin {{}, {0}} => wish \notin {{}, {0}}
      BY <3>1, <3>3
    <3>7. ~o'.unsaved => o'.saved = wish' \/ (o'.saved \subseteq {0} /\ wish' \subseteq {0})
      BY <1>5, <1>12, <3>1, <3>3, <3>4, <3>5
    <3> QED  BY <1>5, <1>12, <1>13, <3>1, <3>3, <3>6, <3>7
  <2> QED  BY <2>1, <2>2
<1>15. o'.err = "ok" <=> up' # "failed"
  BY <1>9, <1>10
<1>16. up' \in {"run", "failed"} /\ (up' = "run" => MediaInOrder(o') /\ "stale" \notin o'.heard /\ Calm(o'))
  BY <1>8, <1>9, <1>10
<1>17. ActivityOnly' = ActivityOnly /\ w' \in Worlds
  BY <1>1, <1>4 DEF ActivityOnly
<1> QED  BY <1>1, <1>10, <1>11, <1>14, <1>15, <1>16, <1>17, Installed

\* A command of the owner: what it leaves running is in order.
LEMMA CommandKeeps ==
  ASSUME IInv, up = "run", NEW q, SameIntake(o, q), q.err = "ok", After(q), w' = w, calm' = FALSE,
         Single(wish'), ~q.unsaved => q.saved = wish',
         wish' # {} => q.paused, q.paused => wish' # {}
  PROVE  IInv' /\ NothingLeft
<1>1. Core(o) /\ Running /\ w \in Worlds
  BY DEF IInv
<1>2. Core(q) /\ Handled(o, q) /\ MediaInOrder(q) /\ AllTold(q) /\ "stale" \notin q.heard
  BY <1>1 DEF Running, SameIntake
<1>3. o' = [q EXCEPT !.target = "idle"] /\ up' = "run"
  BY DEF After
<1>4. /\ Core(o') /\ SameOwner(q, o') /\ Handled(q, o') /\ o'.err = "ok" /\ o'.heard = q.heard
      /\ AllTold(o') /\ MediaInOrder(o')
  BY <1>2, <1>3, AfterKeeps
<1>5. NothingLeft
  BY <1>2, <1>4 DEF NothingLeft, Handled
<1>6. o'.paused = q.paused /\ o'.saved = q.saved /\ o'.unsaved = q.unsaved
  BY <1>4 DEF SameOwner
<1>7. ActivityOnly' = ActivityOnly
  BY DEF ActivityOnly
<1> QED  BY <1>1, <1>2, <1>3, <1>4, <1>5, <1>6, <1>7, Installed

LEMMA PauseKeeps == ASSUME IInv, NEW n \in Pauses \cup {Forever}, Pause(n)  PROVE IInv' /\ NothingLeft
<1>1. PICK q \in Paused(o, n) : After(q)
  BY DEF Pause
<1>2. up = "run" /\ wish' = {n} /\ calm' = FALSE /\ w' = w
  BY DEF Pause
<1>3. Core(o) /\ o.err = "ok"
  BY <1>2 DEF IInv
<1>4. SameIntake(o, q) /\ q.err = "ok" /\ q.paused /\ (~q.unsaved => q.saved = {n})
  BY <1>1, <1>3, PausedKeeps
<1>5. Single({n})
  BY DEF Single, Countdown
<1> QED  BY <1>1, <1>2, <1>4, <1>5, CommandKeeps

LEMMA ResumeKeeps == ASSUME IInv, Resume  PROVE IInv' /\ NothingLeft
<1>1. PICK q \in Resumed(o) : After(q)
  BY DEF Resume
<1>2. up = "run" /\ wish' = {} /\ calm' = FALSE /\ w' = w
  BY DEF Resume
<1>3. Core(o) /\ o.err = "ok"
  BY <1>2 DEF IInv
<1>4. SameIntake(o, q) /\ q.err = "ok" /\ ~q.paused /\ (~q.unsaved => q.saved = {})
  BY <1>1, <1>3, ResumedKeeps
<1>5. Single({})
  BY DEF Single
<1> QED  BY <1>1, <1>2, <1>4, <1>5, CommandKeeps

\* The process is gone: what it left on disk is as it was.
LEMMA DownKeeps ==
  ASSUME IInv, up' = "down", calm' = FALSE, w' = w, wish' = wish, Core(o'), o' = Booted(o'),
         o'.saved = o.saved, o'.unsaved = o.unsaved, o'.err = "ok"
  PROVE  IInv' /\ NothingLeft
<1>1. /\ w \in Worlds /\ Single(wish)
      /\ ~o.unsaved => o.saved = wish \/ (o.saved \subseteq {0} /\ wish \subseteq {0})
  BY DEF IInv, PauseIsWritten
<1>2. ActivityOnly' = ActivityOnly
  BY DEF ActivityOnly
<1>3. NothingLeft
  BY DEF NothingLeft
<1> QED  BY <1>1, <1>2, <1>3, Installed

LEMMA ShutdownKeeps == ASSUME IInv, Shutdown  PROVE IInv' /\ NothingLeft
<1> DEFINE s == Seal(o)
           x == [s EXCEPT !.err = "ok"]
           close(z) == Then(IF ActivityOnly THEN {z} ELSE WriteGatedAudio(z), FinalizeSegment)
<1>1. PICK y \in Then(StopIfScreencast(x), close) : o' = Booted(y)
  BY DEF Shutdown
<1>2. up' = "down" /\ calm' = FALSE /\ w' = w /\ wish' = wish /\ Core(o)
  BY DEF Shutdown, IInv
<1>3. Goes(o, s) /\ Handled(o, s)
  BY <1>2, SealGoes
<1>4. PICK z \in StopIfScreencast(x) : y \in IF z.err = "ok" THEN close(z) ELSE {z}
  BY <1>1 DEF Then
<1>5. Goes(o, x) /\ x.err = "ok" /\ Core(x)
  BY <1>3, QuietlyGoes DEF Goes
<1> HIDE DEF s, x
<1>6. Goes(x, z) /\ Core(z)
  BY <1>4, <1>5, StopIfGoes DEF Goes
<1>7. Goes(o, z)
  BY <1>5, <1>6, GoesOn
<1>8. Core(y) /\ SamePause(o, y)
  <2>1. CASE z.err # "ok"
    BY <1>4, <1>7, <2>1 DEF Goes, SameCall
  <2>2. CASE z.err = "ok"
    <3>1. PICK t \in IF ActivityOnly THEN {z} ELSE WriteGatedAudio(z) :
            y \in IF t.err = "ok" THEN FinalizeSegment(t) ELSE {t}
      BY <1>4, <2>2 DEF Then
    <3>2. Goes(z, t) /\ Core(t)
      <4>1. CASE t = z
        BY <1>6, <4>1, GoesNowhere
      <4>2. CASE t \in WriteGatedAudio(z)
        BY <1>6, <2>2, <4>2, WriteAudioGoes DEF Goes
      <4> QED  BY <3>1, <4>1, <4>2
    <3>3. Goes(o, t)
      BY <1>7, <2>2, <3>2, GoesOn
    <3>4. CASE t.err # "ok"
      BY <3>1, <3>3, <3>4 DEF Goes, SameCall
    <3>5. CASE t.err = "ok"
      <4>1. Goes(t, y)
        BY <3>1, <3>2, <3>5, FinalizeGoes
      <4>2. Goes(o, y)
        BY <3>3, <3>5, <4>1, GoesOn
      <4> QED  BY <4>2 DEF Goes, SameCall
    <3> QED  BY <3>4, <3>5
  <2> QED  BY <2>1, <2>2
<1>9. Core(o') /\ o' = Booted(o') /\ o'.saved = o.saved /\ o'.unsaved = o.unsaved /\ o'.err = "ok"
  BY <1>1, <1>8, BootedKeeps DEF SamePause
<1> QED  BY <1>2, <1>9, DownKeeps

LEMMA CrashKeeps == ASSUME IInv, Crash  PROVE IInv' /\ NothingLeft
<1> DEFINE b == Booted(o)
<1>1. /\ up' = "down" /\ calm' = FALSE /\ w' = w /\ wish' = wish /\ Core(o) /\ o.faults > 0
      /\ o' = [b EXCEPT !.faults = @ - 1]
  BY DEF Crash, IInv
<1>2. Core(b) /\ b.saved = o.saved /\ b.unsaved = o.unsaved /\ b.err = "ok" /\ b.faults = o.faults
  BY <1>1, BootedKeeps
<1>3. \A f \in Fields \ OnDisk : b[f] = Blank[f]
  BY BootedOutcome
<1> HIDE DEF b
<1>4. SameBut(b, o', {"faults"}) /\ o'.faults = b.faults - 1
  BY <1>1, <1>2 DEF Core, IsObserver, SameBut, Fields
<1>5. TypesOf(o')
  <2>1. o.faults \in 0..MaxFaults /\ MaxFaults \in Nat
    BY <1>1, ObserverAssumption DEF Core, TypesOf
  <2>2. o'.faults \in 0..MaxFaults
    BY <1>1, <1>2, <1>4, <2>1
  <2> QED  BY <1>2, <1>4, <2>2 DEF Core, SameBut, Fields, TypesOf
<1>6. Core(o')
  BY <1>2, <1>4, <1>5 DEF Core, SameBut, Fields, DirsInOrder, KeptInOrder
<1>7. o'.saved = b.saved /\ o'.unsaved = b.unsaved /\ o'.err = b.err
  BY <1>4 DEF SameBut, Fields
<1>8. \A f \in Fields \ OnDisk : o'[f] = Blank[f]
  BY <1>3, <1>4 DEF SameBut, OnDisk
<1>9. o' = Booted(o')
  BY <1>4, <1>8, BootedAgain DEF SameBut
<1> QED  BY <1>1, <1>2, <1>6, <1>7, <1>9, DownKeeps

LEMMA StartKeeps == ASSUME IInv, Start  PROVE IInv' /\ NothingLeft
<1> DEFINE r(old) == [Recovered(o, old) EXCEPT !.told = Announced]
           kept == IF o.unsaved THEN o.saved ELSE wish
<1>1. /\ up = "down" /\ calm' = FALSE /\ w' = w /\ wish' = IF kept = {0} THEN {} ELSE kept
  BY DEF Start
<1>2. PICK old \in SUBSET o.disk : \E y \in StartingPause(r(old)) : \E z \in Initialize(y) : After(z)
  BY DEF Start
<1> DEFINE x == r(old)
<1>3. PICK y \in StartingPause(x) : \E z \in Initialize(y) : After(z)
  BY <1>2
<1>4. PICK z \in Initialize(y) : After(z)
  BY <1>3
<1>5. Core(o) /\ o = Booted(o) /\ w \in Worlds /\ Single(wish) /\ PauseIsWritten
  BY <1>1 DEF IInv
<1>6. /\ Core(x) /\ x.err = "ok" /\ Shut(x) /\ ~x.alone /\ x.heard = {} /\ AllTold(x)
      /\ x.saved = o.saved /\ x.unsaved = o.unsaved /\ ~x.paused
  BY <1>5, RecoveredKeeps
<1> HIDE DEF x
<1>7. /\ SameIntake(x, y) /\ SameSegment(x, y) /\ y.err = "ok" /\ y.alone = x.alone
      /\ x.saved \notin {{}, {0}} => y.paused /\ y.saved = x.saved /\ y.unsaved = x.unsaved
      /\ x.saved \in {{}, {0}} => /\ y.paused = StartPaused
                                  /\ ~y.unsaved => y.saved = {} /\ (x.saved = {} => ~x.unsaved)
  BY <1>3, <1>6, StartingPauseKeeps
<1>8. Core(y) /\ AllTold(y) /\ y.heard = {} /\ ~y.alone
  BY <1>6, <1>7 DEF SameIntake
<1>9. Shut(y)
  BY <1>6, <1>7 DEF SameSegment, Shut, Silent
<1>10. /\ Core(z) /\ SameOwner(y, z) /\ AllTold(z)
       /\ z.err = "ok" => MediaInOrder(z) /\ z.heard = {}
  BY <1>4, <1>7, <1>8, <1>9, InitializeKeeps
<1>11. o' = [z EXCEPT !.target = "idle"] /\ up' = IF z.err = "ok" THEN "run" ELSE "failed"
  BY <1>4 DEF After
<1>12. /\ Core(o') /\ SameOwner(z, o') /\ o'.err = z.err /\ o'.heard = z.heard
       /\ AllTold(o') /\ (MediaInOrder(z) => MediaInOrder(o'))
  BY <1>10, <1>11, AfterKeeps
<1>13. o'.paused = y.paused /\ o'.saved = y.saved /\ o'.unsaved = y.unsaved
  BY <1>10, <1>12 DEF SameOwner
<1>14. /\ Single(wish')
       /\ ~o'.unsaved => o'.saved = wish' \/ (o'.saved \subseteq {0} /\ wish' \subseteq {0})
       /\ wish' \notin {{}, {0}} => o'.paused
       /\ o'.paused => wish' # {} \/ StartPaused
  <2>1. Single(o.saved) /\ Single({})
    BY <1>5 DEF Core, TypesOf, Single
  <2>2. Single(wish')
    BY <1>1, <1>5, <2>1
  <2>3. ~o.unsaved => o.saved = wish \/ (o.saved \subseteq {0} /\ wish \subseteq {0})
    BY <1>5 DEF PauseIsWritten
  <2>4. o.saved \in {{}, {0}} <=> o.saved \subseteq {0}
    OBVIOUS
  <2>5. wish \in {{}, {0}} <=> wish \subseteq {0}
    OBVIOUS
  <2>6. CASE o.saved \in {{}, {0}}
    <3>1. wish' \subseteq {0} /\ wish' # {0}
      BY <1>1, <2>3, <2>4, <2>5, <2>6
    <3>2. wish' = {}
      BY <3>1
    <3> QED  BY <1>6, <1>7, <1>13, <2>2, <2>6, <3>2
  <2>7. CASE o.saved \notin {{}, {0}}
    <3>1. wish' = o.saved
      BY <1>1, <2>3, <2>4, <2>7
    <3> QED  BY <1>6, <1>7, <1>13, <2>2, <2>7, <3>1
  <2> QED  BY <2>6, <2>7
<1>15. o'.err = "ok" <=> up' # "failed"
  BY <1>11, <1>12
<1>16. up' \in {"run", "failed"} /\ (up' = "run" => MediaInOrder(o') /\ "stale" \notin o'.heard)
  BY <1>10, <1>11, <1>12
<1>17. ActivityOnly' = ActivityOnly /\ w' \in Worlds
  BY <1>1, <1>5 DEF ActivityOnly
<1>18. NothingLeft
  BY <1>1 DEF NothingLeft
<1> QED  BY <1>1, <1>12, <1>14, <1>15, <1>16, <1>17, <1>18, Installed

\* A step beside the observer that leaves the segment and the pause alone.
LEMMA BesideKeeps ==
  ASSUME IInv, up' = up, w' \in Worlds, ActivityOnly' = ActivityOnly, calm' \in BOOLEAN,
         Core(o'), o'.err = o.err, up = "down" => o' = Booted(o'), Handled(o, o'),
         MediaInOrder(o) => MediaInOrder(o'), AllTold(o) => AllTold(o'),
         "stale" \notin o.heard => "stale" \notin o'.heard,
         calm' => calm /\ (Calm(o) => Calm(o')),
         o'.paused = o.paused, o'.unsaved = o.unsaved,
         \/ wish' = wish /\ o'.saved = o.saved
         \/ wish' = Lessened(wish) /\ o'.saved = Lessened(o.saved)
  PROVE  IInv' /\ NothingLeft
<1>1. /\ up \in {"run", "failed", "down"} /\ Single(wish) /\ Single(o.saved)
      /\ o.err = "ok" <=> up # "failed"
  BY DEF IInv, Core, TypesOf
<1>2. ~o.unsaved => o.saved = wish \/ (o.saved \subseteq {0} /\ wish \subseteq {0})
  BY DEF IInv, PauseIsWritten
<1>3. /\ Single(Lessened(wish)) /\ (wish = {} => Lessened(wish) = {}) /\ (wish # {} => Lessened(wish) # {})
      /\ (wish \subseteq {0} => Lessened(wish) \subseteq {0})
  BY <1>1, SingleCloses
<1>4. o.saved \subseteq {0} => Lessened(o.saved) \subseteq {0}
  BY <1>1, SingleCloses
<1>5. Single(wish') /\ (~o'.unsaved => o'.saved = wish' \/ (o'.saved \subseteq {0} /\ wish' \subseteq {0}))
  <2>1. CASE wish' = wish /\ o'.saved = o.saved
    BY <1>1, <1>2, <2>1
  <2>2. CASE wish' = Lessened(wish) /\ o'.saved = Lessened(o.saved)
    BY <1>1, <1>2, <1>3, <1>4, <2>2
  <2> QED  BY <2>1, <2>2
<1>6. up' = "run" =>
        /\ MediaInOrder(o') /\ AllTold(o') /\ "stale" \notin o'.heard
        /\ calm' => Calm(o')
        /\ wish' \notin {{}, {0}} => o'.paused
        /\ o'.paused => wish' # {} \/ StartPaused
  <2> SUFFICES ASSUME up = "run"
      PROVE  /\ MediaInOrder(o') /\ AllTold(o') /\ "stale" \notin o'.heard
             /\ calm' => Calm(o')
             /\ wish' \notin {{}, {0}} => o'.paused
             /\ o'.paused => wish' # {} \/ StartPaused
    OBVIOUS
  <2>1. Running
    BY DEF IInv
  <2>2. /\ MediaInOrder(o') /\ AllTold(o') /\ "stale" \notin o'.heard
        /\ calm' => Calm(o')
    BY <2>1 DEF Running
  <2>3. (wish \notin {{}, {0}} => o.paused) /\ (o.paused => wish # {} \/ StartPaused)
    BY <2>1 DEF Running, PauseIsTheOwners
  <2>4. wish' \notin {{}, {0}} => wish \notin {{}, {0}}
    BY <1>3
  <2>5. wish # {} => wish' # {}
    BY <1>3
  <2> QED  BY <2>2, <2>3, <2>4, <2>5
<1>7. NothingLeft
  BY DEF NothingLeft
<1> QED  BY <1>1, <1>5, <1>6, <1>7, Installed

LEMMA WallClockKeeps == ASSUME IInv, WallClock  PROVE IInv' /\ NothingLeft
<1> DEFINE wall == IF up = "run" THEN Less(o.wall) ELSE o.wall
<1>1. /\ Core(o) /\ w \in Worlds /\ calm \in BOOLEAN /\ (up = "down" => o = Booted(o))
      /\ up' = up /\ w' = w /\ calm' = calm /\ wish' = Lessened(wish)
  BY DEF IInv, WallClock
<1>2. o' = [o EXCEPT !.wall = wall, !.saved = Lessened(@)]
  BY DEF WallClock
<1>3. wall \in Countdown /\ Single(Lessened(o.saved))
  BY <1>1, CountdownCloses, SingleCloses DEF Core, TypesOf
<1>4. up = "down" => wall = o.wall
  OBVIOUS
<1> HIDE DEF wall
<1>5. SameBut(o, o', {"wall", "saved"}) /\ o'.wall = wall /\ o'.saved = Lessened(o.saved)
  BY <1>1, <1>2 DEF Core, IsObserver, SameBut, Fields
<1>6. TypesOf(o') /\ SameBut(o, o', OfPause)
  <2>1. TypesOf(o')
    BY <1>1, <1>3, <1>5 DEF Core, SameBut, Fields, TypesOf
  <2> QED  BY <1>5, <2>1 DEF SameBut, OfPause
<1>7. SameIntake(o, o') /\ SameSegment(o, o')
  BY <1>1, <1>6, OfPauseKeeps
<1>8. /\ o'.err = o.err /\ o'.paused = o.paused /\ o'.unsaved = o.unsaved /\ o'.hold = o.hold /\ o'.live = o.live
      /\ o'.fresh = o.fresh /\ o'.segMuted = o.segMuted /\ o'.muted = o.muted /\ o'.alone = o.alone
  BY <1>5 DEF SameBut, Fields
<1>9. Calm(o) => Calm(o')
  BY <1>7, <1>8 DEF SameSegment, Calm
<1>10. ASSUME up = "down"  PROVE o' = Booted(o')
  <2>1. \A f \in Fields \ OnDisk : o[f] = Blank[f]
    BY <1>1, <1>10, BootedOutcome
  <2>2. \A f \in Fields \ OnDisk : o'[f] = Blank[f]
    BY <1>4, <1>5, <1>10, <2>1 DEF SameBut, Fields, OnDisk
  <2> QED  BY <1>5, <2>2, BootedAgain DEF SameBut
<1>11. ActivityOnly' = ActivityOnly
  BY <1>1 DEF ActivityOnly
<1> QED  BY <1>1, <1>5, <1>7, <1>8, <1>9, <1>10, <1>11, BesideKeeps DEF SameIntake

\* Seen by the next tick, and until then not calm.
LEMMA AsideKeeps ==
  ASSUME IInv, up' = up, up = "run" \/ o' = o, w' \in Worlds, ActivityOnly' = ActivityOnly,
         wish' = wish, calm' \in BOOLEAN, SameBut(o, o', {"moved", "heard", "healthy", "faults"}), TypesOf(o'),
         calm' => calm, "stale" \notin o.heard => "stale" \notin o'.heard
  PROVE  IInv' /\ NothingLeft
<1>1. Core(o) /\ (up = "down" => o = Booted(o))
  BY DEF IInv
<1>2. SameBut(o, o', Aside)
  BY DEF SameBut, Aside
<1>3. Ends(o, o') /\ Handled(o, o') /\ o'.dir = o.dir /\ o'.video = o.video
  BY <1>1, <1>2, AsideEnds
<1>4. /\ o'.err = o.err /\ o'.hit = o.hit /\ o'.mode = o.mode /\ o'.alone = o.alone
      /\ o'.live = o.live /\ o'.paused = o.paused /\ o'.hold = o.hold /\ o'.fresh = o.fresh
      /\ o'.segMuted = o.segMuted /\ o'.muted = o.muted /\ o'.saved = o.saved /\ o'.unsaved = o.unsaved
  BY DEF SameBut, Fields
<1>5. (MediaInOrder(o) => MediaInOrder(o')) /\ (Calm(o) => Calm(o'))
  BY <1>3, <1>4 DEF MediaInOrder, Calm
<1>6. up = "down" => o' = Booted(o')
  BY <1>1
<1> QED  BY <1>3, <1>4, <1>5, <1>6, BesideKeeps DEF Ends

LEMMA DesktopKeeps == ASSUME IInv, Desktop  PROVE IInv' /\ NothingLeft
<1>1. Core(o)
  BY DEF IInv
<1>2. CASE o' = o
  BY <1>1, <1>2, AsideKeeps DEF Desktop, Core, SameBut
<1>3. CASE o' # o
  <2>1. o' = [o EXCEPT !.moved = @ \/ w'.live # w.live] /\ up = "run"
    BY <1>3 DEF Desktop
  <2>2. SameBut(o, o', {"moved"})
    BY <1>1, <2>1 DEF Core, IsObserver, SameBut, Fields
  <2>3. TypesOf(o') /\ o'.heard = o.heard
    BY <1>1, <2>2 DEF Core, SameBut, Fields, TypesOf
  <2>4. SameBut(o, o', {"moved", "heard", "healthy", "faults"})
    BY <2>2 DEF SameBut
  <2> QED  BY <2>1, <2>3, <2>4, AsideKeeps DEF Desktop
<1> QED  BY <1>2, <1>3

LEMMA SwitchKeeps == ASSUME IInv, Switch  PROVE IInv' /\ NothingLeft
<1>1. Core(o) /\ w \in Worlds
  BY DEF IInv
<1>2. o' = [o EXCEPT !.moved = TRUE] /\ up = "run" /\ up' = up /\ w' = w /\ wish' = wish /\ calm' = FALSE
  BY DEF Switch
<1>3. SameBut(o, o', {"moved"})
  BY <1>1, <1>2 DEF Core, IsObserver, SameBut, Fields
<1>4. TypesOf(o') /\ o'.heard = o.heard
  BY <1>1, <1>3 DEF Core, SameBut, Fields, TypesOf
<1>5. SameBut(o, o', {"moved", "heard", "healthy", "faults"}) /\ ActivityOnly' = ActivityOnly
  BY <1>2, <1>3 DEF SameBut, ActivityOnly
<1> QED  BY <1>1, <1>2, <1>4, <1>5, AsideKeeps

LEMMA SoundKeeps == ASSUME IInv, Sound  PROVE IInv' /\ NothingLeft
<1>1. Core(o) /\ w \in Worlds /\ calm \in BOOLEAN
  BY DEF IInv
<1> DEFINE tag == IF w.live THEN "paused" ELSE "away"
<1>2. /\ o' = [o EXCEPT !.heard = @ \cup {tag}]
      /\ up = "run" /\ up' = up /\ w' = w /\ wish' = wish /\ calm' = calm
  BY DEF Sound
<1>3. tag \in {"paused", "away"}
  OBVIOUS
<1> HIDE DEF tag
<1>4. SameBut(o, o', {"heard"}) /\ o'.heard = o.heard \cup {tag}
  BY <1>1, <1>2 DEF Core, IsObserver, SameBut, Fields
<1>5. o.heard \subseteq Tags
  BY <1>1 DEF Core, TypesOf
<1>6. o'.heard \subseteq Tags /\ ("stale" \notin o.heard => "stale" \notin o'.heard)
  BY <1>3, <1>4, <1>5 DEF Tags
<1>7. TypesOf(o')
  BY <1>1, <1>4, <1>6 DEF Core, SameBut, Fields, TypesOf
<1>8. SameBut(o, o', {"moved", "heard", "healthy", "faults"}) /\ ActivityOnly' = ActivityOnly
  BY <1>2, <1>4 DEF SameBut, ActivityOnly
<1> QED  BY <1>1, <1>2, <1>6, <1>7, <1>8, AsideKeeps

LEMMA StreamEndsKeeps == ASSUME IInv, StreamEnds  PROVE IInv' /\ NothingLeft
<1>1. Core(o) /\ w \in Worlds
  BY DEF IInv
<1>2. /\ o' = [o EXCEPT !.healthy = FALSE, !.faults = @ - 1] /\ o.faults > 0
      /\ up = "run" /\ up' = up /\ w' = w /\ wish' = wish /\ calm' = FALSE
  BY DEF StreamEnds
<1>3. SameBut(o, o', {"healthy", "faults"}) /\ o'.faults = o.faults - 1
  BY <1>1, <1>2 DEF Core, IsObserver, SameBut, Fields
<1>4. o'.faults \in 0..MaxFaults
  <2>1. o.faults \in 0..MaxFaults /\ MaxFaults \in Nat
    BY <1>1, ObserverAssumption DEF Core, TypesOf
  <2> QED  BY <1>2, <1>3, <2>1
<1>5. TypesOf(o') /\ o'.heard = o.heard
  BY <1>1, <1>3, <1>4 DEF Core, SameBut, Fields, TypesOf
<1>6. SameBut(o, o', {"moved", "heard", "healthy", "faults"}) /\ ActivityOnly' = ActivityOnly
  BY <1>2, <1>3 DEF SameBut, ActivityOnly
<1> QED  BY <1>1, <1>2, <1>5, <1>6, AsideKeeps

LEMMA SyncPassKeeps == ASSUME IInv, SyncPass  PROVE IInv' /\ NothingLeft
<1>1. Core(o) /\ w \in Worlds /\ calm \in BOOLEAN
  BY DEF IInv
<1>2. /\ o' = [o EXCEPT !.told = FALSE, !.finished = FALSE]
      /\ up = "run" /\ up' = up /\ w' = w /\ wish' = wish /\ calm' = calm
  BY DEF SyncPass
<1>3. SameBut(o, o', {"told", "finished"}) /\ o'.told = FALSE /\ o'.finished = FALSE
  BY <1>1, <1>2 DEF Core, IsObserver, SameBut, Fields
<1>4. TypesOf(o')
  BY <1>1, <1>3 DEF Core, SameBut, Fields, TypesOf, Truth
<1>5. /\ o'.dir = o.dir /\ o'.video = o.video /\ o'.content = o.content /\ o'.disk = o.disk /\ o'.heard = o.heard
      /\ o'.err = o.err /\ o'.hit = o.hit /\ o'.mode = o.mode /\ o'.alone = o.alone
      /\ o'.live = o.live /\ o'.paused = o.paused /\ o'.hold = o.hold /\ o'.fresh = o.fresh
      /\ o'.segMuted = o.segMuted /\ o'.muted = o.muted /\ o'.saved = o.saved /\ o'.unsaved = o.unsaved
      /\ o'.frames = o.frames /\ o'.written = o.written
  BY <1>3 DEF SameBut, Fields
<1>6. Core(o')
  BY <1>1, <1>3, <1>4, <1>5 DEF Core, SameBut, DirsInOrder, KeptInOrder
<1>7. /\ Handled(o, o') /\ AllTold(o') /\ (MediaInOrder(o) => MediaInOrder(o')) /\ (Calm(o) => Calm(o'))
  BY <1>3, <1>5 DEF Handled, Settled, AllTold, MediaInOrder, Calm
<1>8. ActivityOnly' = ActivityOnly
  BY <1>2 DEF ActivityOnly
<1> QED  BY <1>1, <1>2, <1>5, <1>6, <1>7, <1>8, BesideKeeps

LEMMA InitHolds == ASSUME Init  PROVE IInv
<1> DEFINE first == [disk |-> {}, finished |-> FALSE, content |-> [d \in Dirs |-> {}],
                     saved |-> {}, unsaved |-> FALSE, written |-> {}, faults |-> MaxFaults]
<1>1. up = "down" /\ wish = {} /\ calm = FALSE /\ w \in Worlds /\ o = Booted(first)
  BY DEF Init
<1>2. /\ IsObserver(o) /\ \A f \in OnDisk : o[f] = first[f]
      /\ \A f \in Fields \ OnDisk : o[f] = Blank[f]
  BY <1>1, BootedOutcome
<1>3. /\ o.disk = {} /\ o.finished = FALSE /\ o.content = [d \in Dirs |-> {}] /\ o.saved = {}
      /\ o.written = {} /\ o.faults = MaxFaults
  BY <1>2 DEF OnDisk
<1>4. DiskTypes(o)
  <2>1. MaxFaults \in 0..MaxFaults
    BY ObserverAssumption
  <2> QED  BY <1>3, <2>1 DEF DiskTypes, Truth, Single
<1>5. Core(o) /\ o = Booted(o) /\ o.err = "ok"
  BY <1>2, <1>3, <1>4, BootedCore, BlankValues
<1>6. PauseIsWritten /\ Single(wish)
  BY <1>1, <1>3 DEF PauseIsWritten, Single
<1> QED  BY <1>1, <1>5, <1>6 DEF IInv

LEMMA StepKeeps == ASSUME IInv, [Next]_vars  PROVE IInv' /\ NothingLeft
<1>1. CASE Tick
  BY <1>1, TickKeeps
<1>2. CASE Resume
  BY <1>2, ResumeKeeps
<1>3. CASE Shutdown
  BY <1>3, ShutdownKeeps
<1>4. CASE Crash
  BY <1>4, CrashKeeps
<1>5. CASE Start
  BY <1>5, StartKeeps
<1>6. CASE \E n \in Pauses \cup {Forever} : Pause(n)
  BY <1>6, PauseKeeps
<1>7. CASE WallClock
  BY <1>7, WallClockKeeps
<1>8. CASE Desktop
  BY <1>8, DesktopKeeps
<1>9. CASE Switch
  BY <1>9, SwitchKeeps
<1>10. CASE Sound
  BY <1>10, SoundKeeps
<1>11. CASE StreamEnds
  BY <1>11, StreamEndsKeeps
<1>12. CASE SyncPass
  BY <1>12, SyncPassKeeps
<1>13. CASE UNCHANGED vars
  <2>1. up' = up /\ o' = o /\ w' = w /\ wish' = wish /\ calm' = calm
    BY <1>13 DEF vars
  <2>2. Core(o) /\ w \in Worlds /\ calm \in BOOLEAN
    BY DEF IInv
  <2>3. SameBut(o, o', {"moved", "heard", "healthy", "faults"}) /\ TypesOf(o') /\ ActivityOnly' = ActivityOnly
    BY <2>1, <2>2 DEF Core, SameBut, ActivityOnly
  <2> QED  BY <2>1, <2>2, <2>3, AsideKeeps
<1> QED  BY <1>1, <1>2, <1>3, <1>4, <1>5, <1>6, <1>7, <1>8, <1>9, <1>10, <1>11, <1>12, <1>13 DEF Next

-----------------------------------------------------------------------------
(* The theorems *)

LEMMA SingleIsSmall == ASSUME NEW S, Single(S)  PROVE S \subseteq Countdown /\ Cardinality(S) <= 1
<1>1. CASE S = {}
  BY <1>1, FS_EmptySet
<1>2. CASE S # {}
  <2>1. PICK n \in Countdown : S = {n}
    BY <1>2 DEF Single
  <2>2. Cardinality({n}) = 1
    BY FS_Singleton
  <2> QED  BY <2>1, <2>2
<1> QED  BY <1>1, <1>2

LEMMA InvariantImplies ==
  ASSUME IInv
  PROVE  TypeOK /\ TakesOnlyWhatItMay /\ PauseIsTheOwners /\ SegmentIsWhole
<1>1. Core(o) /\ TypesOf(o) /\ DirsInOrder(o) /\ KeptInOrder(o)
  BY DEF IInv, Core
<1>2. TypeOK
  <2>1. /\ up \in {"run", "failed", "down"} /\ calm \in BOOLEAN /\ w \in Worlds
        /\ o.err = "ok" <=> up # "failed"
    BY DEF IInv
  <2>2. \A S \in {o.saved, wish} : S \subseteq Countdown /\ Cardinality(S) <= 1
    <3>1. Single(o.saved) /\ Single(wish)
      BY <1>1 DEF IInv, TypesOf
    <3> QED  BY <3>1, SingleIsSmall
  <2>3. {o.finished, o.told} \subseteq BOOLEAN
    BY <1>1 DEF TypesOf, Truth
  <2>4. o.dir # NoDir => o.dir \in o.disk
    BY <1>1 DEF DirsInOrder
  <2> QED  BY <1>1, <2>1, <2>2, <2>3, <2>4 DEF TypeOK, TypesOf
<1>3. up = "run" => Running
  BY DEF IInv
<1>4. TakesOnlyWhatItMay
  BY <1>1, <1>3 DEF TakesOnlyWhatItMay, PausedTakesNothing, AwayTakesNothing, StaleSoundIsDropped,
                    Running, Calm, KeptInOrder
<1>5. PauseIsTheOwners
  BY <1>3 DEF Running, PauseIsTheOwners
<1>6. SegmentIsWhole
  BY <1>3 DEF SegmentIsWhole, SegmentIsOfOneSession, StreamFeedsOpenSegment, FinishedIsAnnounced,
              Running, Calm, MediaInOrder, AllTold
<1> QED  BY <1>2, <1>4, <1>5, <1>6

\* The invariant all the others follow from.
THEOREM InductiveInvariant == Spec => []IInv
<1>1. Init => IInv
  BY InitHolds
<1>2. IInv /\ [Next]_vars => IInv'
  BY StepKeeps
<1> QED  BY <1>1, <1>2, PTL DEF Spec

\* The observer, its directories, the pause and the deadlines stay within their
\* types: whatever a tick, a command, a crash or a restart does, the open segment
\* is on disk and pause.json holds at most one pause.
THEOREM TypeCorrect == Spec => []TypeOK
<1>1. IInv => TypeOK
  BY InvariantImplies
<1> QED  BY <1>1, InductiveInvariant, PTL

\* Nothing is taken in under the owner's pause or with no session in front, and
\* the sound a tick met there goes into no segment (tick and what it calls).
THEOREM NothingForbiddenIsTaken == Spec => []TakesOnlyWhatItMay
<1>1. IInv => TakesOnlyWhatItMay
  BY InvariantImplies
<1> QED  BY <1>1, InductiveInvariant, PTL

\* The pause in force is the owner's, over deadlines on two clocks, sleep, a
\* pause.json that could not be written, crashes and restarts.
THEOREM PauseIsKept == Spec => []PauseIsTheOwners
<1>1. IInv => PauseIsTheOwners
  BY InvariantImplies
<1> QED  BY <1>1, InductiveInvariant, PTL

\* A segment is of one session and one mute, its stream feeds it and no other,
\* and the sync worker is told of it when it is finished.
THEOREM SegmentStaysWhole == Spec => []SegmentIsWhole
<1>1. IInv => SegmentIsWhole
  BY InvariantImplies
<1> QED  BY <1>1, InductiveInvariant, PTL

\* While it runs the observer turns away from a segment with something in it only
\* by finishing it: no branch of a tick leaves one behind for the next start.
THEOREM NoneIsAbandoned == Spec => AbandonsOnlyEmpty
<1>1. IInv /\ [Next]_vars =>
        [up = "run" /\ up' = "run" /\ o.dir # NoDir /\ o'.dir # o.dir =>
           o.dir \notin o'.disk \/ o'.content[o.dir] = {}]_vars
  <2> SUFFICES ASSUME IInv, [Next]_vars, up = "run", up' = "run", o.dir # NoDir, o'.dir # o.dir
               PROVE  o.dir \notin o'.disk \/ o'.content[o.dir] = {}
    OBVIOUS
  <2>1. Handled(o, o')
    BY StepKeeps DEF NothingLeft
  <2>2. o.dir \in Dirs
    BY DEF IInv, Core, TypesOf
  <2> QED  BY <2>1, <2>2 DEF Handled, Settled
<1> QED  BY <1>1, InductiveInvariant, PTL DEF Spec, AbandonsOnlyEmpty
=============================================================================
