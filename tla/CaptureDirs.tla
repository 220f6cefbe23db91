----------------------------- MODULE CaptureDirs -----------------------------
(***************************************************************************)
(* The folders of one day under captures/: the observer starts and ends    *)
(* segments in its stream folder (observer.rs), the browser intake moves   *)
(* its periods into another (browser/custody.rs), and the sync worker      *)
(* delivers segments and removes the folders it finds empty (sync.rs).     *)
(* Each works from its own thread and nothing but the file system is       *)
(* shared, so every mkdir, rename, listing and rmdir is a step.            *)
(***************************************************************************)
EXTENDS Naturals, FiniteSets

CONSTANTS
  Names,      \* the times segments are named by, HHMMSS
  Lengths,    \* and the lengths they are given when they end, in seconds
  Periods,    \* the names the browser's periods may take
  Attempts,   \* how often move_period creates the folder again: 3
  MaxPasses   \* bound: passes of the sync worker

ASSUME DirsAssumption ==
  /\ Names \subseteq Nat /\ Lengths \subseteq Nat \ {0} /\ Periods \subseteq Names \X Lengths
  /\ Attempts \in Nat /\ MaxPasses \in Nat

VARIABLES
  dirs,     \* which of Folders exist; "other" is a stream that stays
  inside,   \* segments in the two stream folders
  open,     \* the name of the segment the observer writes: at most one
  unread,   \* it was begun without the names in the folder being read
  making,   \* where each writer is in creating its folder
  tries,    \* times move_period has tried again
  pass,     \* the folder cleanup_empty_capture_dirs is at, or "off"
  listed,   \* what it listed
  seen,     \* it saw this folder empty
  passes

vars == <<dirs, inside, open, unread, making, tries, pass, listed, seen, passes>>

Streams == {"own", "browser"}
Folders == Streams \cup {"day", "other"}
\* A segment's folder is <time>.incomplete until it ends, <time>_<length> then.
Incomplete == 0
Segments   == Names \X (Lengths \cup {Incomplete})

Steps   == {"idle", "stream", "day", "again", "made", "failed"}

-----------------------------------------------------------------------------
(* create_dir_all(day/stream): mkdir, and if a parent is missing, mkdir of *)
(* the parent and once more.  A folder that is there counts as made.       *)

MkdirStream(s, onMissing) ==
  IF "day" \in dirs
  THEN dirs' = dirs \cup {s} /\ making' = [making EXCEPT ![s] = "made"]
  ELSE dirs' = dirs /\ making' = [making EXCEPT ![s] = onMissing]

CreateStream(s) == making[s] = "stream" /\ MkdirStream(s, "day")

CreateDay(s) ==
  /\ making[s] = "day"
  /\ dirs' = dirs \cup {"day"} /\ making' = [making EXCEPT ![s] = "again"]

CreateAgain(s) == making[s] = "again" /\ MkdirStream(s, "failed")

Create(s) ==
  /\ CreateStream(s) \/ CreateDay(s) \/ CreateAgain(s)
  /\ UNCHANGED <<inside, open, unread, tries, pass, listed, seen, passes>>

-----------------------------------------------------------------------------
(* The observer: start_segment_at and finish_segment_directory.            *)

\* Mutant: the names in the folder are not looked at.
ChooseStemBlind == Names

\* A name no entry of the folder begins with.
ChooseStem == {n \in Names : \A e \in inside["own"] : e[1] # n}

StartSegment ==
  /\ making["own"] = "idle" /\ open = {} /\ ChooseStem # {}
  /\ making' = [making EXCEPT !["own"] = "stream"]
  /\ UNCHANGED <<dirs, inside, open, unread, tries, pass, listed, seen, passes>>

\* If the folder or an entry of it cannot be read, the name is what the clock
\* says, whoever has it.  mkdir fails where the same .incomplete folder is.
MkdirSegment ==
  /\ making["own"] = "made"
  /\ \E n \in Names, blind \in BOOLEAN :
       /\ blind \/ n \in ChooseStem
       /\ IF "own" \in dirs /\ <<n, Incomplete>> \notin inside["own"]
          THEN /\ inside' = [inside EXCEPT !["own"] = @ \cup {<<n, Incomplete>>}]
               /\ open' = {n} /\ unread' = blind
               /\ making' = [making EXCEPT !["own"] = "idle"]
          ELSE making' = [making EXCEPT !["own"] = "failed"] /\ UNCHANGED <<open, unread, inside>>
  /\ UNCHANGED <<dirs, tries, pass, listed, seen, passes>>

\* Renamed with its length, removed when it holds nothing, or left where it is:
\* it cannot be read, or rename meets a folder of that name that holds a segment.
EndAs(n, l) ==
  LET others == inside["own"] \ {<<n, Incomplete>>}
  IN \/ inside' = [inside EXCEPT !["own"] = others]
     \/ <<n, l>> \notin others /\ inside' = [inside EXCEPT !["own"] = others \cup {<<n, l>>}]
     \/ UNCHANGED inside

\* Mutant: the observer keeps the segment it has ended.
FinishSegmentKept ==
  /\ making["own"] = "idle"
  /\ \E n \in open, l \in Lengths : EndAs(n, l)
  /\ UNCHANGED <<dirs, open, unread, making, tries, pass, listed, seen, passes>>

FinishSegment ==
  /\ making["own"] = "idle"
  /\ \E n \in open, l \in Lengths : EndAs(n, l)
  /\ open' = {} /\ unread' = FALSE
  /\ UNCHANGED <<dirs, making, tries, pass, listed, seen, passes>>

-----------------------------------------------------------------------------
(* The browser intake: move_period.                                        *)

StartMove ==
  /\ making["browser"] = "idle" /\ inside["browser"] # Periods
  /\ making' = [making EXCEPT !["browser"] = "stream"] /\ tries' = 0
  /\ UNCHANGED <<dirs, inside, open, unread, pass, listed, seen, passes>>

\* A folder that vanished is created again, a few times.
Move ==
  /\ making["browser"] = "made"
  /\ IF "browser" \in dirs
     THEN /\ \E e \in Periods \ inside["browser"] :
               inside' = [inside EXCEPT !["browser"] = @ \cup {e}]
          /\ making' = [making EXCEPT !["browser"] = "idle"] /\ UNCHANGED tries
     ELSE /\ IF tries < Attempts
             THEN making' = [making EXCEPT !["browser"] = "stream"] /\ tries' = tries + 1
             ELSE making' = [making EXCEPT !["browser"] = "failed"] /\ UNCHANGED tries
          /\ UNCHANGED inside
  /\ UNCHANGED <<dirs, open, unread, pass, listed, seen, passes>>

-----------------------------------------------------------------------------
(* The sync worker: what it has delivered it removes, and after each pass  *)
(* cleanup_empty_capture_dirs lists the streams of the day, looks at each, *)
(* removes in a second call what it saw empty, and does the day last.      *)

Deliver ==
  /\ pass = "off"
  /\ \E s \in Streams : \E e \in inside[s] :
       e[2] # Incomplete /\ inside' = [inside EXCEPT ![s] = @ \ {e}]
  /\ UNCHANGED <<dirs, open, unread, making, tries, pass, listed, seen, passes>>

ListDay ==
  /\ pass = "off" /\ passes < MaxPasses /\ "day" \in dirs
  /\ listed' = dirs /\ pass' = "browser" /\ passes' = passes + 1
  /\ UNCHANGED <<dirs, inside, open, unread, making, tries, seen>>

IsEmpty(d) == IF d = "day" THEN dirs = {"day"} ELSE inside[d] = {}

After(d) == CASE d = "browser" -> "own" [] d = "own" -> "day" [] d = "day" -> "off"

Look ==
  /\ pass # "off" /\ ~seen
  /\ IF pass \in listed \cap dirs /\ IsEmpty(pass)
     THEN seen' = TRUE /\ UNCHANGED pass
     ELSE pass' = After(pass) /\ UNCHANGED seen
  /\ UNCHANGED <<dirs, inside, open, unread, making, tries, listed, passes>>

\* Mutant: what was seen empty is removed with whatever it holds by now.
RmdirAll ==
  /\ seen
  /\ dirs' = dirs \ {pass}
  /\ seen' = FALSE /\ pass' = After(pass)
  /\ UNCHANGED <<inside, open, unread, making, tries, listed, passes>>

\* remove_dir removes a folder only if it is still empty.
Rmdir ==
  /\ seen
  /\ dirs' = IF IsEmpty(pass) THEN dirs \ {pass} ELSE dirs
  /\ seen' = FALSE /\ pass' = After(pass)
  /\ UNCHANGED <<inside, open, unread, making, tries, listed, passes>>

Init ==
  /\ dirs \in {{}, {"day", "other"}}
  /\ inside = [s \in Streams |-> {}] /\ open = {} /\ unread = FALSE
  /\ making = [s \in Streams |-> "idle"] /\ tries = 0
  /\ pass = "off" /\ listed = {} /\ seen = FALSE /\ passes = 0

Next ==
  \/ \E s \in Streams : Create(s)
  \/ StartSegment \/ MkdirSegment \/ FinishSegment
  \/ StartMove \/ Move
  \/ Deliver \/ ListDay \/ Look \/ Rmdir

Spec == Init /\ [][Next]_vars

-----------------------------------------------------------------------------
(* Properties.                                                             *)

TypeOK ==
  /\ dirs \subseteq Folders /\ listed \subseteq Folders
  /\ inside \in [Streams -> SUBSET Segments] /\ unread \in BOOLEAN
  /\ open \subseteq Names /\ open \X {Incomplete} \subseteq inside["own"]
  /\ making \in [Streams -> Steps] /\ tries \in 0..Attempts
  /\ pass \in Streams \cup {"off", "day"} /\ seen \in BOOLEAN /\ passes \in 0..MaxPasses

\* Whatever cleanup saw empty a moment ago, no folder that holds a segment or
\* another folder is ever removed: what waits for the journal stays where the
\* walk of the sync worker finds it.
SegmentsKeepTheirPlace ==
  /\ \A s \in Streams : inside[s] # {} => s \in dirs
  /\ dirs # {} => "day" \in dirs

\* While a segment is written no finished one has its name, so that what the sync worker
\* delivers is not taken for it, though the clock goes back and finished segments come and
\* go; unless the folder could not be read as it was begun, when the code takes the name unseen.
OpenIsNotDelivered ==
  ~unread => \A n \in open, l \in Lengths : <<n, l>> \notin inside["own"]

\* "create it again and retry" (browser/custody.rs:883): a period is moved in
\* spite of the cleanup passes that fall into the move, as long as another
\* stream keeps the day folder.  Without one, create_dir_all itself can fail,
\* and that is not retried; nor does the observer retry anything.
MoveOutlivesCleanup == "other" \in dirs => making["browser"] # "failed"
=============================================================================
