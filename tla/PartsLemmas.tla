---------------------------- MODULE PartsLemmas ----------------------------
(***************************************************************************)
(* What the theorems of PartsProofs need of the folders of a day, the      *)
(* window, the settings and the parts of a release; each has a section of  *)
(* its own.                                                                *)
(*                                                                         *)
(* The folders of a day are removed only when they are empty.              *)
(*                                                                         *)
(* What the window calls done was done.  Once the window knows how a       *)
(* request ended, the app standing as asked is noted (NowNoted); and an    *)
(* answered read that is late enough to settle a request was answered      *)
(* after that moment, so that what it shows was noted too (ReadNoted):     *)
(* ids are given out in order.                                             *)
(*                                                                         *)
(* The settings: what is known of the file at each step of a write         *)
(* (WriterStands).  The two writers of one process take turns (OneWriter); *)
(* against the other process there is only the look at the file before     *)
(* the rename.  A value that was saved is in the file, or still in the     *)
(* older one with nothing newer to hide it (ChoicesKept).                  *)
(*                                                                         *)
(* The origin: a run puts the objects of one candidate, and once it is at  *)
(* the pointer all are there (PutSoFar); as runs do not overlap, what it   *)
(* read of latest still stands when it puts it (DecidedWell).              *)
(*                                                                         *)
(* The release on GitHub: what a release holds of an architecture is of    *)
(* one candidate of the tagged commit, and only the first release is       *)
(* published (ReleasesAreRight); a run that is about to publish saw its    *)
(* set whole in that first release (RunsAreRight).                         *)
(*                                                                         *)
(* The candidate: at each step of a create or a prove, which of payload    *)
(* and evidence there is (CandidateStanding) and what the command has seen *)
(* (SeenSoFar).                                                            *)
(*                                                                         *)
(* The transparency chain: what is stored under a version is of it and     *)
(* signed as it is (StoresRight), so is what is staged (StagesRight), and  *)
(* a job at its place has put what comes before (JobsRight).  The object   *)
(* store only grows (Grows), so that no job takes from another what it     *)
(* has put; and the pointer moves only from the one that was verified.     *)
(*                                                                         *)
(* The connection: how old the last answer is at most while no more than   *)
(* one check in a row has failed (HeardInTime), for which the interval of  *)
(* the checks must not exceed their timeout.                               *)
(*                                                                         *)
(* The journal's details: what is stored and what is known are of one      *)
(* owner (DetailsAreOfOne, AttemptIsOf, ObservedIsSaved).                  *)
(***************************************************************************)
EXTENDS OwnerParts, Sequences, SequenceTheorems, TLAPS

-----------------------------------------------------------------------------
(* The folders of a day *)

\* Only a folder of the day is looked at.
SeenIsAFolder == seen => pass # "off"

DirsInv == TypeOK /\ SegmentsKeepTheirPlace /\ OpenIsNotDelivered /\ SeenIsAFolder

LEMMA DirsInit == Init => DirsInv
<1> SUFFICES ASSUME Init  PROVE DirsInv
  OBVIOUS
<1>1. TypeOK
  <2>1. /\ inside \in [Streams -> SUBSET Segments] /\ unread \in BOOLEAN
        /\ open \subseteq Names /\ open \X {Incomplete} \subseteq inside["own"]
    BY DEF Init, Streams
  <2>2. making \in [Streams -> Steps]
    BY DEF Init, Steps
  <2>3. tries \in 0..Attempts /\ passes \in 0..MaxPasses
    BY DirsAssumption DEF Init
  <2>4. seen \in BOOLEAN /\ dirs \subseteq Folders
    BY Zenon DEF Init, Folders
  <2>5. listed \subseteq Folders /\ pass \in Streams \cup {"off", "day"}
    BY DEF Init
  <2> QED  BY <2>1, <2>2, <2>3, <2>4, <2>5 DEF TypeOK
<1>2. SegmentsKeepTheirPlace
  BY DEF Init, SegmentsKeepTheirPlace, Streams, Folders
<1>3. OpenIsNotDelivered /\ SeenIsAFolder
  BY DEF Init, OpenIsNotDelivered, SeenIsAFolder
<1> QED  BY <1>1, <1>2, <1>3 DEF DirsInv

LEMMA CreateKeepsDirs ==
  ASSUME DirsInv, NEW s \in Streams, Create(s)  PROVE DirsInv'
<1>1. CASE CreateStream(s)
  BY <1>1, ZenonT(40) DEF DirsInv, TypeOK, SegmentsKeepTheirPlace, OpenIsNotDelivered,
     SeenIsAFolder, Create, CreateStream, MkdirStream, Streams, Folders, Steps
<1>2. CASE CreateDay(s)
  BY <1>2 DEF DirsInv, TypeOK, SegmentsKeepTheirPlace, OpenIsNotDelivered,
     SeenIsAFolder, Create, CreateDay, Streams, Folders, Steps
<1>3. CASE CreateAgain(s)
  BY <1>3, ZenonT(40) DEF DirsInv, TypeOK, SegmentsKeepTheirPlace, OpenIsNotDelivered,
     SeenIsAFolder, Create, CreateAgain, MkdirStream, Streams, Folders, Steps
<1> QED  BY <1>1, <1>2, <1>3 DEF Create

\* A folder made under a name read from the listing has no finished one beside it.
LEMMA BegunUnderItsOwn ==
  ASSUME DirsInv, MkdirSegment  PROVE DirsInv'
<1> USE DEF DirsInv
<1>1. PICK n \in Names, blind \in BOOLEAN :
        /\ blind \/ n \in ChooseStem
        /\ IF "own" \in dirs /\ <<n, Incomplete>> \notin inside["own"]
           THEN /\ inside' = [inside EXCEPT !["own"] = @ \cup {<<n, Incomplete>>}]
                /\ open' = {n} /\ unread' = blind
                /\ making' = [making EXCEPT !["own"] = "idle"]
           ELSE making' = [making EXCEPT !["own"] = "failed"] /\ UNCHANGED <<open, unread, inside>>
  BY DEF MkdirSegment
<1>2. UNCHANGED <<dirs, tries, pass, listed, seen, passes>>
  BY DEF MkdirSegment
<1>3. CASE "own" \in dirs /\ <<n, Incomplete>> \notin inside["own"]
  <2>1. /\ inside' = [inside EXCEPT !["own"] = @ \cup {<<n, Incomplete>>}]
        /\ open' = {n} /\ unread' = blind /\ making' = [making EXCEPT !["own"] = "idle"]
    BY <1>1, <1>3
  <2>2. <<n, Incomplete>> \in Segments /\ inside["own"] \subseteq Segments
    BY DEF TypeOK, Segments, Streams
  <2>3. /\ inside' \in [Streams -> SUBSET Segments]
        /\ inside'["own"] = inside["own"] \cup {<<n, Incomplete>>} /\ inside'["browser"] = inside["browser"]
    BY <2>1, <2>2 DEF TypeOK, Streams
  <2>4. TypeOK'
    BY <1>2, <2>1, <2>3 DEF TypeOK, Steps
  <2>5. SegmentsKeepTheirPlace' /\ SeenIsAFolder'
    BY <1>2, <1>3, <2>3 DEF SegmentsKeepTheirPlace, SeenIsAFolder, Streams
  <2>6. OpenIsNotDelivered'
    <3>1. SUFFICES ASSUME ~blind, NEW l \in Lengths  PROVE <<n, l>> \notin inside'["own"]
      BY <2>1 DEF OpenIsNotDelivered
    <3>2. \A e \in inside["own"] : e[1] # n
      BY <1>1, <3>1 DEF ChooseStem
    <3>3. <<n, l>> # <<n, Incomplete>>
      BY DirsAssumption DEF Incomplete
    <3> QED  BY <2>3, <3>2, <3>3
  <2> QED  BY <2>4, <2>5, <2>6
<1>4. CASE ~("own" \in dirs /\ <<n, Incomplete>> \notin inside["own"])
  <2>1. making' = [making EXCEPT !["own"] = "failed"] /\ UNCHANGED <<open, unread, inside>>
    BY <1>1, <1>4
  <2> QED
    BY <1>2, <2>1 DEF TypeOK, SegmentsKeepTheirPlace, OpenIsNotDelivered, SeenIsAFolder, Streams, Steps
<1> QED  BY <1>3, <1>4

LEMMA EndedKeepsDirs ==
  ASSUME DirsInv, FinishSegment  PROVE DirsInv'
<1> USE DEF DirsInv
<1>1. PICK n \in open, l \in Lengths : EndAs(n, l)
  BY DEF FinishSegment
<1>2. /\ open' = {} /\ unread' = FALSE
      /\ UNCHANGED <<dirs, making, tries, pass, listed, seen, passes>>
  BY DEF FinishSegment
<1>3. n \in Names /\ <<n, Incomplete>> \in inside["own"]
  BY DEF TypeOK
<1>4. /\ inside' \in [Streams -> SUBSET Segments] /\ inside'["browser"] = inside["browser"]
  <2>1. <<n, l>> \in Segments /\ inside["own"] \subseteq Segments
    BY <1>3 DEF TypeOK, Segments, Streams
  <2> QED  BY <1>1, <2>1 DEF EndAs, TypeOK, Streams
<1>5. TypeOK'
  BY <1>2, <1>4 DEF TypeOK
<1>6. inside["own"] # {} => "own" \in dirs
  BY DEF SegmentsKeepTheirPlace, Streams
<1>7. SegmentsKeepTheirPlace' /\ OpenIsNotDelivered' /\ SeenIsAFolder'
  BY <1>2, <1>3, <1>4, <1>6 DEF SegmentsKeepTheirPlace, OpenIsNotDelivered, SeenIsAFolder, Streams
<1> QED  BY <1>5, <1>7

LEMMA WritersKeepDirs ==
  ASSUME DirsInv, StartSegment \/ MkdirSegment \/ FinishSegment \/ StartMove \/ Move
  PROVE  DirsInv'
<1>1. CASE StartSegment
  BY <1>1 DEF DirsInv, TypeOK, SegmentsKeepTheirPlace, OpenIsNotDelivered,
     SeenIsAFolder, StartSegment, Streams, Folders, Steps
<1>2. CASE StartMove
  BY <1>2, DirsAssumption DEF DirsInv, TypeOK, SegmentsKeepTheirPlace, OpenIsNotDelivered,
     SeenIsAFolder, StartMove, Streams, Folders, Steps
<1>3. CASE Move
  <2> USE <1>3 DEF DirsInv, Move
  <2>1. CASE "browser" \notin dirs
    BY <2>1, DirsAssumption DEF TypeOK, SegmentsKeepTheirPlace, OpenIsNotDelivered,
       SeenIsAFolder, Streams, Folders, Steps
  <2>2. CASE "browser" \in dirs
    <3>1. PICK e \in Periods : inside' = [inside EXCEPT !["browser"] = @ \cup {e}]
      BY <2>2
    <3>2. e \in Segments
      BY DirsAssumption DEF Segments
    <3>3. inside' \in [Streams -> SUBSET Segments] /\ inside'["own"] = inside["own"]
      BY <3>1, <3>2 DEF TypeOK, Streams
    <3>4. /\ making' = [making EXCEPT !["browser"] = "idle"]
          /\ UNCHANGED <<dirs, open, unread, pass, listed, seen, passes, tries>>
      BY <2>2
    <3>5. TypeOK'
      BY <3>3, <3>4 DEF TypeOK, Steps
    <3>6. SegmentsKeepTheirPlace' /\ OpenIsNotDelivered' /\ SeenIsAFolder'
      BY <2>2, <3>3, <3>4 DEF SegmentsKeepTheirPlace, OpenIsNotDelivered, SeenIsAFolder, Streams
    <3> QED  BY <3>5, <3>6
  <2> QED  BY <2>1, <2>2
<1> QED  BY <1>1, <1>2, <1>3, BegunUnderItsOwn, EndedKeepsDirs

LEMMA SyncKeepsDirs ==
  ASSUME DirsInv, Deliver \/ ListDay \/ Look \/ Rmdir  PROVE DirsInv'
<1>1. CASE Deliver
  <2>1. PICK s \in Streams : \E e \in inside[s] :
          e[2] # Incomplete /\ inside' = [inside EXCEPT ![s] = @ \ {e}]
    BY <1>1 DEF Deliver
  <2>2. PICK e \in inside[s] : e[2] # Incomplete /\ inside' = [inside EXCEPT ![s] = @ \ {e}]
    BY <2>1
  <2>3. UNCHANGED <<dirs, open, unread, making, tries, pass, listed, seen, passes>>
    BY <1>1 DEF Deliver
  <2>4. /\ inside' \in [Streams -> SUBSET Segments]
        /\ \A r \in Streams : inside'[r] \subseteq inside[r] /\ inside[r] \ {e} \subseteq inside'[r]
    BY <2>2 DEF DirsInv, TypeOK
  <2>5. open \X {Incomplete} \subseteq inside'["own"]
    <3>1. open \X {Incomplete} \subseteq inside["own"] /\ e \notin open \X {Incomplete}
      BY <2>2 DEF DirsInv, TypeOK
    <3> QED  BY <2>4, <3>1 DEF Streams
  <2>6. TypeOK'
    BY <2>3, <2>4, <2>5 DEF DirsInv, TypeOK
  <2>7. SegmentsKeepTheirPlace' /\ OpenIsNotDelivered' /\ SeenIsAFolder'
    BY <2>3, <2>4 DEF DirsInv, SegmentsKeepTheirPlace, OpenIsNotDelivered, SeenIsAFolder, Streams
  <2> QED  BY <2>6, <2>7 DEF DirsInv
<1>2. CASE ListDay
  BY <1>2, DirsAssumption DEF DirsInv, TypeOK, SegmentsKeepTheirPlace, OpenIsNotDelivered,
     SeenIsAFolder, ListDay, Streams, Folders, Steps
<1>3. CASE Look
  BY <1>3 DEF DirsInv, TypeOK, SegmentsKeepTheirPlace, OpenIsNotDelivered,
     SeenIsAFolder, Look, After, Streams, Folders, Steps
<1>4. CASE Rmdir
  <2> USE <1>4 DEF DirsInv, Rmdir
  <2>1. pass \in Streams \cup {"day"} /\ pass' \in Streams \cup {"off", "day"}
    BY DEF TypeOK, SeenIsAFolder, After, Streams
  <2>2. dirs' \subseteq dirs
    OBVIOUS
  <2>3. TypeOK' /\ OpenIsNotDelivered' /\ SeenIsAFolder'
    BY <2>1, <2>2 DEF TypeOK, OpenIsNotDelivered, SeenIsAFolder
  <2>4. SegmentsKeepTheirPlace'
    BY <2>1 DEF TypeOK, SegmentsKeepTheirPlace, IsEmpty, Streams, Folders
  <2> QED  BY <2>3, <2>4
<1> QED  BY <1>1, <1>2, <1>3, <1>4

LEMMA DirsStep == DirsInv /\ [Next]_vars => DirsInv'
<1> SUFFICES ASSUME DirsInv, [Next]_vars  PROVE DirsInv'
  OBVIOUS
<1>1. CASE Next
  BY <1>1, CreateKeepsDirs, WritersKeepDirs, SyncKeepsDirs DEF Next
<1>2. CASE UNCHANGED vars
  BY <1>2 DEF vars, DirsInv, TypeOK, SegmentsKeepTheirPlace, OpenIsNotDelivered, SeenIsAFolder
<1> QED  BY <1>1, <1>2

-----------------------------------------------------------------------------
(* What the window calls done *)

IsRecord(r, fields) == r = [f \in DOMAIN r |-> r[f]] /\ fields \subseteq DOMAIN r

IsCall(call) == IsRecord(call, {"id", "got"}) /\ call.id # 0

\* All that the argument needs of the types.
WindowShaped ==
  /\ IsRecord(service, {"bus", "conf", "capture", "told"})
  /\ IsRecord(win, {"bus", "next", "last", "doc", "edits"}) /\ win.next \in Nat \ {0}
  /\ IsRecord(save, {"id", "writes", "verified", "failed", "waiting", "uncertain", "after"})
  /\ save.verified \in BOOLEAN /\ save.waiting \in BOOLEAN /\ save.after \in Nat
  /\ IsRecord(intake, {"id", "bus", "wish", "after", "doubt", "error"}) /\ intake.after \in Nat
  /\ read # Nil => IsRecord(read, {"id", "asked", "bus", "doc"}) /\ read.asked \in BOOLEAN
                   /\ read.id \in Nat /\ read.id <= MaxIds /\ read.id < win.next
  /\ \A call \in calls : IsCall(call)

\* The window knows how the save ended, and waits for a read that shows it.
Awaited == save.waiting /\ save.id = 0

NowNoted ==
  /\ Awaited /\ W!Matches(service.conf, save.writes) => wasHeld
  /\ W!Known(intake) /\ service.capture = intake.wish => wasDone

ReadAnswered == read # Nil /\ read.asked /\ read.doc # Nil

ReadNoted ==
  /\ read # Nil /\ ~read.asked => read.doc = Nil
  /\ ReadAnswered /\ Awaited /\ read.id > save.after /\ W!Matches(read.doc.conf, save.writes) => wasHeld
  /\ ReadAnswered /\ W!Known(intake) /\ read.id > intake.after /\ read.doc.capture = intake.wish => wasDone

WindowInv == WindowShaped /\ NowNoted /\ ReadNoted

\* The bounds are numbers.
WindowBounds == MaxIds \in Nat /\ MaxPresses \in Nat

\* No id is as late as Never.
LEMMA NeverIsLast == ASSUME WindowBounds  PROVE W!Never \in Nat /\ MaxIds < W!Never
BY DEF WindowBounds, W!Never

\* What the helpers return is a record of the same fields, and its ids come from
\* what it was given.
LEMMA ForgottenSaveShaped ==
  ASSUME NEW s, IsRecord(s, {"id", "writes", "verified", "failed", "waiting", "uncertain", "after"}),
         s.verified \in BOOLEAN, s.waiting \in BOOLEAN, s.after \in Nat
  PROVE  LET t == W!ForgottenSave(s)
         IN /\ IsRecord(t, {"id", "writes", "verified", "failed", "waiting", "uncertain", "after"})
            /\ t.verified = FALSE /\ t.waiting \in BOOLEAN /\ t.after \in Nat
            /\ t.writes = s.writes
BY DEF W!ForgottenSave, IsRecord

\* A save becomes verified only on a late read that shows every write.
LEMMA SettledSaveShaped ==
  ASSUME NEW s, IsRecord(s, {"id", "writes", "verified", "failed", "waiting", "uncertain", "after"}),
         s.verified \in BOOLEAN, s.waiting \in BOOLEAN, s.after \in Nat,
         NEW id, NEW conf, NEW edits
  PROVE  LET t == W!SettledSave(s, id, conf, edits)
         IN /\ IsRecord(t, {"id", "writes", "verified", "failed", "waiting", "uncertain", "after"})
            /\ t.verified \in BOOLEAN /\ t.waiting \in BOOLEAN /\ t.after = s.after
            /\ t.writes = s.writes /\ t.id = s.id
            /\ t.waiting => s.waiting
            /\ t.verified /\ ~s.verified => s.waiting /\ s.id = 0 /\ id > s.after /\ W!Matches(conf, s.writes)
<1>1. W!Matches(conf, s.writes) \in BOOLEAN
  BY DEF W!Matches
<1> QED  BY <1>1 DEF W!SettledSave, IsRecord

\* What was pressed stays in doubt until a read later than the given id.
LEMMA UnverifiedShaped ==
  ASSUME NEW p, IsRecord(p, {"id", "bus", "wish", "after", "doubt", "error"}), p.after \in Nat, NEW id \in Nat
  PROVE  LET q == W!Unverified(p, id)
         IN /\ IsRecord(q, {"id", "bus", "wish", "after", "doubt", "error"}) /\ q.after \in Nat
            /\ q.wish = p.wish /\ q.id = 0
            /\ IF p.id = 0 THEN q = p ELSE q.after = id /\ q.doubt = p.id
BY DEF W!Unverified, IsRecord

\* A press is settled only by a late read that shows what was asked for.
LEMMA SettledIntakeShaped ==
  ASSUME NEW p, IsRecord(p, {"id", "bus", "wish", "after", "doubt", "error"}), p.after \in Nat,
         NEW id, NEW capture
  PROVE  LET q == W!SettledIntake(p, id, capture)
         IN /\ IsRecord(q, {"id", "bus", "wish", "after", "doubt", "error"})
            /\ q.wish = p.wish /\ q.after = p.after
            /\ \/ q = p
               \/ q.id = 0 /\ q.doubt = 0 /\ (p.id # 0 \/ p.doubt # 0) /\ id > p.after /\ capture = p.wish
BY DEF W!SettledIntake, IsRecord

SaveShaped ==
  /\ IsRecord(save, {"id", "writes", "verified", "failed", "waiting", "uncertain", "after"})
  /\ save.verified \in BOOLEAN /\ save.waiting \in BOOLEAN /\ save.after \in Nat
IntakeShaped ==
  IsRecord(intake, {"id", "bus", "wish", "after", "doubt", "error"}) /\ intake.after \in Nat
ReadShaped ==
  read # Nil => IsRecord(read, {"id", "asked", "bus", "doc"}) /\ read.asked \in BOOLEAN
                /\ read.id \in Nat /\ read.id <= MaxIds /\ read.id < win.next
CallsShaped == \A call \in calls : IsCall(call)
WinShaped == IsRecord(win, {"bus", "next", "last", "doc", "edits"}) /\ win.next \in Nat \ {0}
ServiceShaped == IsRecord(service, {"bus", "conf", "capture", "told"})

\* The types, one variable at a time.
LEMMA ShapedParts ==
  /\ WindowShaped <=> ServiceShaped /\ WinShaped /\ SaveShaped /\ IntakeShaped /\ ReadShaped /\ CallsShaped
  /\ WindowShaped' <=> (ServiceShaped /\ WinShaped /\ SaveShaped /\ IntakeShaped /\ ReadShaped /\ CallsShaped)'
BY DEF WindowShaped, ServiceShaped, WinShaped, SaveShaped, IntakeShaped, ReadShaped, CallsShaped

\* The types hold at the start.
LEMMA WindowInitShaped == ASSUME WindowBounds, W!Init  PROVE WindowShaped
<1>1. ServiceShaped
  BY DEF W!Init, ServiceShaped, IsRecord
<1>2. WinShaped
  <2>1. \E edits : win = [bus |-> 0, next |-> 1, last |-> 0, doc |-> Nil, edits |-> edits]
    BY DEF W!Init
  <2> QED  BY <2>1 DEF WinShaped, IsRecord
<1>3. SaveShaped
  <2>1. \E settings : save = [id |-> 0, writes |-> settings, verified |-> FALSE, failed |-> FALSE,
                            waiting |-> FALSE, uncertain |-> FALSE, after |-> 0]
    BY DEF W!Init, W!NoSave
  <2> QED  BY <2>1 DEF SaveShaped, IsRecord
<1>4. IntakeShaped
  BY DEF W!Init, W!NoIntake, IntakeShaped, IsRecord
<1>5. ReadShaped /\ CallsShaped
  BY DEF W!Init, ReadShaped, CallsShaped
<1> QED  BY <1>1, <1>2, <1>3, <1>4, <1>5, ShapedParts

\* What the app does by itself changes the app only.
LEMMA AppShaped ==
  ASSUME WindowShaped, W!OtherWrites \/ W!OtherPauses \/ W!Replaced \/ W!Obey \/ W!TakeStray
  PROVE  WindowShaped' /\ UNCHANGED <<win, save, intake, read, calls>>
<1>1. UNCHANGED <<win, save, intake, read, calls>>
  BY DEF W!OtherWrites, W!OtherPauses, W!Replaced, W!Obey, W!TakeStray
<1>2. ServiceShaped'
  BY ShapedParts DEF ServiceShaped, IsRecord, W!OtherWrites, W!OtherPauses, W!Replaced, W!Obey,
         W!TakeStray, W!Holds, W!Does
<1> QED
  BY <1>1, <1>2, ShapedParts DEF WinShaped, SaveShaped, IntakeShaped, ReadShaped, CallsShaped

\* The buttons, the thirty seconds and the start of a read keep the types.
LEMMA PressesShaped ==
  ASSUME WindowBounds, WindowShaped, W!PressSave \/ W!PressIntake \/ W!ExpireIntake \/ W!StartRead
         \/ \E f \in Fields : W!Edit(f)
  PROVE  WindowShaped'
<1> USE ShapedParts, NeverIsLast
<1>1. CASE W!PressSave
  <2>1. WinShaped' /\ ReadShaped' /\ UNCHANGED <<service, intake>>
    BY <1>1 DEF W!PressSave, WinShaped, ReadShaped, IsRecord, W!NextId
  <2>2. SaveShaped'
    BY <1>1 DEF W!PressSave, SaveShaped, IsRecord
  <2>3. CallsShaped'
    BY <1>1 DEF W!PressSave, CallsShaped, IsCall, WinShaped, IsRecord, W!NextId
  <2> QED  BY <2>1, <2>2, <2>3 DEF ServiceShaped, IntakeShaped
<1>2. CASE W!PressIntake
  <2>1. WinShaped' /\ ReadShaped' /\ UNCHANGED <<service, save>>
    BY <1>2 DEF W!PressIntake, WinShaped, ReadShaped, IsRecord, W!NextId
  <2>2. IntakeShaped'
    BY <1>2 DEF W!PressIntake, IntakeShaped, IsRecord
  <2>3. CallsShaped'
    BY <1>2 DEF W!PressIntake, CallsShaped, IsCall, WinShaped, IsRecord, W!NextId
  <2> QED  BY <2>1, <2>2, <2>3 DEF ServiceShaped, SaveShaped
<1>3. CASE W!ExpireIntake
  <2>1. WinShaped' /\ ReadShaped' /\ UNCHANGED <<service, save, calls>>
    BY <1>3 DEF W!ExpireIntake, WinShaped, ReadShaped, IsRecord
  <2>2. IntakeShaped'
    BY <1>3, UnverifiedShaped DEF W!ExpireIntake, IntakeShaped, WinShaped, W!NextId
  <2> QED  BY <2>1, <2>2 DEF ServiceShaped, SaveShaped, CallsShaped
<1>4. CASE W!StartRead
  <2>1. WinShaped' /\ ReadShaped' /\ UNCHANGED <<service, save, intake, calls>>
    BY <1>4 DEF W!StartRead, WinShaped, ReadShaped, IsRecord, W!NextId, WindowBounds
  <2> QED  BY <2>1 DEF ServiceShaped, SaveShaped, IntakeShaped, CallsShaped
<1>5. CASE \E f \in Fields : W!Edit(f)
  <2>1. WinShaped' /\ win'.next = win.next /\ UNCHANGED <<service, save, intake, read, calls>>
    BY <1>5, SMTT(30) DEF W!Edit, WinShaped, IsRecord
  <2> QED  BY <2>1 DEF ServiceShaped, SaveShaped, IntakeShaped, ReadShaped, CallsShaped
<1> QED  BY <1>1, <1>2, <1>3, <1>4, <1>5

\* A call keeps its id.
LEMMA CallsAreShaped ==
  ASSUME WindowShaped, NEW call \in calls,
         \/ W!WriteTaken(call) \/ W!WriteRefused(call) \/ W!WriteLost(call) \/ W!IntakeTaken(call)
         \/ W!IntakeLost(call)
  PROVE  WindowShaped' /\ UNCHANGED <<win, save, intake, read>>
<1> USE ShapedParts
<1>1. UNCHANGED <<win, save, intake, read>>
  BY DEF W!WriteTaken, W!WriteRefused, W!WriteLost, W!IntakeTaken, W!IntakeLost
<1>2. ServiceShaped'
  BY DEF ServiceShaped, IsRecord, W!WriteTaken, W!WriteRefused, W!WriteLost, W!IntakeTaken,
         W!IntakeLost, W!Holds
<1>3. CallsShaped'
  <2>2. \A g : IsCall([call EXCEPT !.got = g])
    BY DEF CallsShaped, IsCall, IsRecord
  <2>3. \A g, l : \A c \in W!Going(call, g, l) : IsCall(c)
    <3>1. SUFFICES ASSUME NEW g, NEW l, NEW c \in W!Going(call, g, l)  PROVE IsCall(c)
      OBVIOUS
    <3>2. c \in calls \/ c = [call EXCEPT !.got = g, !.left = l]
      BY DEF W!Going
    <3>3. CallsShaped
      OBVIOUS
    <3>4. IsCall(call)
      BY <3>3 DEF CallsShaped
    <3>5. CASE c = [call EXCEPT !.got = g, !.left = l]
      BY <3>4, <3>5 DEF IsCall, IsRecord
    <3> QED  BY <3>2, <3>3, <3>5 DEF CallsShaped
  <2>4. CASE W!WriteTaken(call) \/ W!WriteRefused(call) \/ W!WriteLost(call)
    <3>1. \E g, l : calls' = W!Going(call, g, l)
      BY <2>4 DEF W!WriteTaken, W!WriteRefused, W!WriteLost
    <3> QED  BY <2>3, <3>1 DEF CallsShaped
  <2>5. CASE W!IntakeTaken(call)
    BY <2>2, <2>5 DEF W!IntakeTaken, CallsShaped
  <2>6. CASE W!IntakeLost(call)
    BY <2>2, <2>6 DEF W!IntakeLost, CallsShaped
  <2> QED  BY <2>4, <2>5, <2>6
<1> QED  BY <1>1, <1>2, <1>3 DEF WinShaped, SaveShaped, IntakeShaped, ReadShaped

\* The answers of the calls keep the types.
LEMMA RepliesShaped ==
  ASSUME WindowShaped, NEW call \in calls, W!SaveReply(call) \/ W!IntakeReply(call)
  PROVE  WindowShaped'
<1> USE ShapedParts
<1>1. ServiceShaped' /\ CallsShaped'
  BY DEF W!SaveReply, W!IntakeReply, ServiceShaped, CallsShaped
<1>2. WinShaped' /\ win'.next >= win.next /\ read' = read
  BY DEF W!SaveReply, W!IntakeReply, WinShaped, IsRecord
<1>3. ReadShaped'
  BY <1>2 DEF ReadShaped, WinShaped
<1>4. SaveShaped'
  BY DEF W!SaveReply, W!IntakeReply, SaveShaped, IsRecord, WinShaped, W!NextId
<1>5. IntakeShaped'
  <2>1. CASE intake' = intake
    BY <2>1 DEF IntakeShaped
  <2>2. CASE intake' = [intake EXCEPT !.after = W!NextId]
    BY <2>2 DEF IntakeShaped, IsRecord, WinShaped, W!NextId
  <2>3. CASE intake' = W!Unverified(intake, W!NextId)
    BY <2>3, UnverifiedShaped DEF IntakeShaped, WinShaped, W!NextId
  <2> QED  BY <2>1, <2>2, <2>3 DEF W!SaveReply, W!IntakeReply
<1> QED  BY <1>1, <1>2, <1>3, <1>4, <1>5

\* An answer of the app that the read asked, and what it makes of the requests.
LEMMA ReadShapes ==
  ASSUME WindowBounds, WindowShaped, W!Asks \/ W!Applies
  PROVE  WindowShaped'
<1> USE ShapedParts
<1>1. CASE W!Asks
  <2>1. ReadShaped' /\ UNCHANGED <<service, win, save, intake, calls>>
    BY <1>1 DEF W!Asks, ReadShaped, IsRecord
  <2> QED  BY <2>1 DEF ServiceShaped, WinShaped, SaveShaped, IntakeShaped, CallsShaped
<1>2. CASE W!Applies
  <2>1. ServiceShaped' /\ CallsShaped' /\ ReadShaped'
    BY <1>2 DEF W!Applies, ServiceShaped, CallsShaped, ReadShaped
  <2>2. WinShaped'
    <3> DEFINE w1 == IF read.bus # win.bus
                     THEN [win EXCEPT !.bus = read.bus, !.doc = Nil, !.last = 0,
                                      !.next = IF intake.id # 0 THEN @ + 1 ELSE @]
                     ELSE win
    <3>1. \/ win' = w1
          \/ \E id, doc, edits : win' = [w1 EXCEPT !.last = id, !.doc = doc, !.edits = edits]
      BY <1>2 DEF W!Applies
    <3>2. IsRecord(w1, {"bus", "next", "last", "doc", "edits"}) /\ w1.next \in Nat \ {0}
      <4>1. WinShaped
        OBVIOUS
      <4>2. w1 = win \/ \E b, n : n \in {win.next, win.next + 1}
                                  /\ w1 = [win EXCEPT !.bus = b, !.doc = Nil, !.last = 0, !.next = n]
        OBVIOUS
      <4> HIDE DEF w1
      <4>3. CASE w1 = win
        BY <4>1, <4>3 DEF WinShaped
      <4>4. CASE \E b, n : n \in {win.next, win.next + 1}
                          /\ w1 = [win EXCEPT !.bus = b, !.doc = Nil, !.last = 0, !.next = n]
        <5>1. PICK b, n : n \in {win.next, win.next + 1}
                          /\ w1 = [win EXCEPT !.bus = b, !.doc = Nil, !.last = 0, !.next = n]
          BY <4>4
        <5>2. DOMAIN w1 = DOMAIN win /\ w1 = [f \in DOMAIN w1 |-> w1[f]]
          BY <4>1, <5>1 DEF WinShaped, IsRecord
        <5>3. w1.next = n
          BY <4>1, <5>1 DEF WinShaped, IsRecord
        <5> QED  BY <4>1, <5>1, <5>2, <5>3 DEF WinShaped, IsRecord
      <4> QED  BY <4>2, <4>3, <4>4
    <3> HIDE DEF w1
    <3>3. CASE win' = w1
      BY <3>2, <3>3 DEF WinShaped
    <3>4. CASE \E id, doc, edits : win' = [w1 EXCEPT !.last = id, !.doc = doc, !.edits = edits]
      <4>1. PICK id, doc, edits : win' = [w1 EXCEPT !.last = id, !.doc = doc, !.edits = edits]
        BY <3>4
      <4>2. win' = [f \in DOMAIN w1 |-> IF f = "edits" THEN edits ELSE IF f = "doc" THEN doc
                                       ELSE IF f = "last" THEN id ELSE w1[f]]
        BY <3>2, <4>1 DEF IsRecord
      <4>3. DOMAIN win' = DOMAIN w1 /\ win' = [f \in DOMAIN win' |-> win'[f]]
        BY <4>2
      <4>4. win'.next = w1.next
        BY <3>2, <4>2 DEF IsRecord
      <4> QED  BY <3>2, <4>3, <4>4 DEF WinShaped, IsRecord
    <3> QED  BY <3>1, <3>3, <3>4
  <2>3. SaveShaped'
    <3> DEFINE s1 == IF read.bus # win.bus THEN W!ForgottenSave(save) ELSE save
               edits == IF read.doc = Nil THEN win.edits ELSE W!Outstanding(win.edits, read.doc.conf)
    <3>1. save' = s1 \/ save' = W!SettledSave(s1, read.id, read.doc.conf, edits)
      BY <1>2 DEF W!Applies
    <3>2. /\ IsRecord(s1, {"id", "writes", "verified", "failed", "waiting", "uncertain", "after"})
          /\ s1.verified \in BOOLEAN /\ s1.waiting \in BOOLEAN /\ s1.after \in Nat
      BY ForgottenSaveShaped DEF SaveShaped
    <3> HIDE DEF s1, edits
    <3> QED  BY <3>1, <3>2, SettledSaveShaped DEF SaveShaped
  <2>4. IntakeShaped'
    <3> DEFINE i1 == IF read.bus # win.bus THEN W!Unverified(intake, W!NextId) ELSE intake
    <3>1. intake' = i1 \/ intake' = W!SettledIntake(i1, read.id, read.doc.capture)
      BY <1>2 DEF W!Applies
    <3>2. IsRecord(i1, {"id", "bus", "wish", "after", "doubt", "error"}) /\ i1.after \in Nat
      BY UnverifiedShaped DEF IntakeShaped, WinShaped, W!NextId
    <3> HIDE DEF i1
    <3> QED  BY <3>1, <3>2, SettledIntakeShaped DEF IntakeShaped
  <2> QED  BY <2>1, <2>2, <2>3, <2>4
<1> QED  BY <1>1, <1>2

\* Every step keeps the types.
LEMMA WindowStaysShaped ==
  ASSUME WindowBounds, WindowShaped, W!Next  PROVE WindowShaped'
<1>1. CASE W!OtherWrites \/ W!OtherPauses \/ W!Replaced \/ W!Obey \/ W!TakeStray
  BY <1>1, AppShaped
<1>2. CASE W!PressSave \/ W!PressIntake \/ W!ExpireIntake \/ W!StartRead \/ \E f \in Fields : W!Edit(f)
  BY <1>2, PressesShaped
<1>3. CASE W!Asks \/ W!Applies
  BY <1>3, ReadShapes
<1>4. ASSUME NEW call \in calls,
             \/ W!WriteTaken(call) \/ W!WriteRefused(call) \/ W!WriteLost(call)
             \/ W!IntakeTaken(call) \/ W!IntakeLost(call)
      PROVE  WindowShaped'
  BY <1>4, CallsAreShaped
<1>5. ASSUME NEW call \in calls, W!SaveReply(call) \/ W!IntakeReply(call)
      PROVE  WindowShaped'
  BY <1>5, RepliesShaped
<1> QED  BY <1>1, <1>2, <1>3, <1>4, <1>5 DEF W!Next

\* The requests and the answered read stay as they are; the app may change if
\* it is noted.
LEMMA QuietNotes ==
  ASSUME WindowInv, UNCHANGED <<save, intake, read>>,
         wasHeld => wasHeld', wasDone => wasDone',
         service'.conf = service.conf \/ (Awaited /\ W!Matches(service'.conf, save.writes) => wasHeld'),
         service'.capture = service.capture \/ (W!Known(intake) /\ service'.capture = intake.wish => wasDone')
  PROVE  NowNoted' /\ ReadNoted' /\ W!SavedWasHeld /\ W!DoneWasDone
<1>1. (Awaited' <=> Awaited) /\ (W!Known(intake)' <=> W!Known(intake)) /\ (ReadAnswered' <=> ReadAnswered)
  BY DEF Awaited, W!Known, ReadAnswered
<1>2. NowNoted'
  BY <1>1 DEF WindowInv, NowNoted
<1>3. ReadNoted'
  BY <1>1 DEF WindowInv, ReadNoted
<1> QED  BY <1>2, <1>3 DEF W!SavedWasHeld, W!DoneWasDone

\* What the app takes in or does by itself, and the calls before their answers.
LEMMA ServiceNotes ==
  ASSUME WindowInv,
         \/ W!OtherWrites \/ W!OtherPauses \/ W!Replaced \/ W!Obey \/ W!TakeStray
         \/ \E f \in Fields : W!Edit(f)
         \/ \E call \in calls : W!WriteTaken(call) \/ W!WriteRefused(call) \/ W!WriteLost(call)
                                \/ W!IntakeTaken(call) \/ W!IntakeLost(call)
  PROVE  NowNoted' /\ ReadNoted' /\ W!SavedWasHeld /\ W!DoneWasDone
<1>0. ServiceShaped
  BY ShapedParts DEF WindowInv
<1>1. UNCHANGED <<save, intake, read>>
  BY DEF W!OtherWrites, W!OtherPauses, W!Replaced, W!Obey, W!TakeStray, W!Edit,
         W!WriteTaken, W!WriteRefused, W!WriteLost, W!IntakeTaken, W!IntakeLost
<1>2. ASSUME NEW conf, W!Holds(conf)
      PROVE  (wasHeld => wasHeld') /\ service'.capture = service.capture
             /\ (Awaited /\ W!Matches(service'.conf, save.writes) => wasHeld')
  BY <1>0, <1>2 DEF W!Holds, Awaited, ServiceShaped, IsRecord
<1>3. ASSUME NEW state, NEW tells, W!Does(state, tells)
      PROVE  (wasDone => wasDone') /\ service'.conf = service.conf
             /\ (W!Known(intake) /\ service'.capture = intake.wish => wasDone')
  BY <1>0, <1>3 DEF W!Does, ServiceShaped, IsRecord
<1>4. CASE \E conf : W!Holds(conf) /\ UNCHANGED wasDone
  BY <1>1, <1>2, <1>4, QuietNotes
<1>5. CASE \E state, tells : W!Does(state, tells) /\ UNCHANGED wasHeld
  BY <1>1, <1>3, <1>5, QuietNotes
<1>6. CASE service'.conf = service.conf /\ service'.capture = service.capture /\ UNCHANGED <<wasHeld, wasDone>>
  BY <1>1, <1>6, QuietNotes
<1>7. CASE W!OtherWrites \/ W!TakeStray \/ \E call \in calls : W!WriteTaken(call)
  BY <1>4, <1>7 DEF W!OtherWrites, W!TakeStray, W!WriteTaken
<1>8. CASE W!OtherPauses \/ W!Obey
  BY <1>5, <1>8 DEF W!OtherPauses, W!Obey
<1>9. CASE W!Replaced \/ \E f \in Fields : W!Edit(f)
  BY <1>0, <1>6, <1>9 DEF W!Replaced, W!Edit, ServiceShaped, IsRecord
<1>10. CASE \E call \in calls : W!WriteRefused(call) \/ W!WriteLost(call) \/ W!IntakeTaken(call)
            \/ W!IntakeLost(call)
  BY <1>0, <1>6, <1>10 DEF W!WriteRefused, W!WriteLost, W!IntakeTaken, W!IntakeLost, ServiceShaped, IsRecord
<1> QED  BY <1>7, <1>8, <1>9, <1>10

\* A press makes a new request, whose end is not known yet.
LEMMA PressNotes ==
  ASSUME WindowBounds, WindowInv, W!PressSave \/ W!PressIntake \/ W!StartRead
  PROVE  NowNoted' /\ ReadNoted' /\ W!SavedWasHeld /\ W!DoneWasDone
<1>0. WinShaped /\ WindowShaped
  BY ShapedParts DEF WindowInv
<1>1. CASE W!PressSave
  <2>1. ~Awaited' /\ ~save'.verified
    BY <1>0, <1>1 DEF W!PressSave, Awaited, WinShaped, W!NextId
  <2>2. UNCHANGED <<service, intake, read, wasDone>>
    BY <1>1 DEF W!PressSave
  <2>3. (W!Known(intake)' <=> W!Known(intake)) /\ (ReadAnswered' <=> ReadAnswered)
    BY <2>2 DEF W!Known, ReadAnswered
  <2> QED  BY <2>1, <2>2, <2>3 DEF WindowInv, NowNoted, ReadNoted, W!SavedWasHeld, W!DoneWasDone
<1>2. CASE W!PressIntake
  <2>1. ~W!Known(intake)' /\ intake'.id # 0
    BY <1>0, <1>2 DEF W!PressIntake, W!Known, WinShaped, W!NextId
  <2>2. UNCHANGED <<service, save, read, wasHeld>>
    BY <1>2 DEF W!PressIntake
  <2>3. (Awaited' <=> Awaited) /\ (ReadAnswered' <=> ReadAnswered)
    BY <2>2 DEF Awaited, ReadAnswered
  <2> QED  BY <2>1, <2>2, <2>3 DEF WindowInv, NowNoted, ReadNoted, W!SavedWasHeld, W!DoneWasDone
<1>3. CASE W!StartRead
  <2>1. ~ReadAnswered' /\ read'.doc = Nil
    BY <1>3 DEF W!StartRead, ReadAnswered
  <2>2. UNCHANGED <<service, save, intake, wasHeld, wasDone>>
    BY <1>3 DEF W!StartRead
  <2>3. (Awaited' <=> Awaited) /\ (W!Known(intake)' <=> W!Known(intake))
    BY <2>2 DEF Awaited, W!Known
  <2> QED  BY <2>1, <2>2, <2>3 DEF WindowInv, NowNoted, ReadNoted, W!SavedWasHeld, W!DoneWasDone
<1> QED  BY <1>1, <1>2, <1>3

\* The end of a request becomes known: what holds now is noted, and no read that
\* is under way is late enough.
LEMMA EndNotes ==
  ASSUME WindowBounds, WindowInv, W!ExpireIntake \/ \E call \in calls : W!SaveReply(call) \/ W!IntakeReply(call)
  PROVE  NowNoted' /\ ReadNoted' /\ W!SavedWasHeld /\ W!DoneWasDone
<1>0. WindowShaped /\ WinShaped /\ SaveShaped /\ IntakeShaped /\ ReadShaped /\ CallsShaped
  BY ShapedParts, SMTT(30) DEF WindowInv
<1>1. UNCHANGED <<service, read>> /\ (ReadAnswered' <=> ReadAnswered)
  BY DEF W!ExpireIntake, W!SaveReply, W!IntakeReply, ReadAnswered
<1>2. CASE UNCHANGED <<save, intake, wasHeld, wasDone>>
  BY <1>1, <1>2, QuietNotes
<1>3. CASE /\ UNCHANGED <<intake, wasDone>>
           /\ save' = [save EXCEPT !.id = 0, !.after = W!NextId, !.waiting = TRUE, !.failed = FALSE,
                                   !.uncertain = save'.uncertain]
           /\ wasHeld' = W!Matches(service.conf, save.writes)
  <2>1. save'.writes = save.writes /\ save'.verified = save.verified /\ save'.after = W!NextId
    BY <1>0, <1>3 DEF SaveShaped, IsRecord
  <2>2. ReadAnswered => ~(read.id > save'.after)
    BY <1>0, <2>1 DEF ReadAnswered, ReadShaped, WinShaped, W!NextId
  <2>3. W!Known(intake)' <=> W!Known(intake)
    BY <1>3 DEF W!Known
  <2> QED  BY <1>1, <1>3, <2>1, <2>2, <2>3 DEF WindowInv, NowNoted, ReadNoted, W!SavedWasHeld, W!DoneWasDone
<1>4. CASE /\ UNCHANGED <<save, wasHeld>> /\ intake.id # 0
           /\ intake' = [intake EXCEPT !.after = W!NextId] \/ intake' = W!Unverified(intake, W!NextId)
           /\ wasDone' = (service.capture = intake.wish)
  <2>1. intake'.wish = intake.wish /\ intake'.after = W!NextId /\ (intake'.id # 0 \/ intake'.doubt # 0)
    BY <1>0, <1>4, UnverifiedShaped DEF IntakeShaped, IsRecord, WinShaped, W!NextId
  <2>2. ReadAnswered => ~(read.id > intake'.after)
    BY <1>0, <2>1 DEF ReadAnswered, ReadShaped, WinShaped, W!NextId
  <2>3. Awaited' <=> Awaited
    BY <1>4 DEF Awaited
  <2> QED  BY <1>1, <1>4, <2>1, <2>2, <2>3 DEF WindowInv, NowNoted, ReadNoted, W!SavedWasHeld, W!DoneWasDone
<1>5. CASE W!ExpireIntake
  BY <1>4, <1>5 DEF W!ExpireIntake
<1>6. ASSUME NEW call \in calls, W!SaveReply(call)
      PROVE  NowNoted' /\ ReadNoted' /\ W!SavedWasHeld /\ W!DoneWasDone
  <2>1. CASE call.bus = win.bus /\ call.id = save.id
    <3>1. save' = [save EXCEPT !.id = 0, !.after = W!NextId, !.waiting = TRUE, !.failed = FALSE,
                               !.uncertain = (call.got = "Unknown")]
      BY <1>6, <2>1 DEF W!SaveReply
    <3>2. save'.uncertain = (call.got = "Unknown")
      BY <1>0, <3>1 DEF SaveShaped, IsRecord
    <3> QED  BY <1>3, <1>6, <2>1, <3>1, <3>2 DEF W!SaveReply
  <2>2. CASE ~(call.bus = win.bus /\ call.id = save.id)
    BY <1>2, <1>6, <2>2 DEF W!SaveReply
  <2> QED  BY <2>1, <2>2
<1>7. ASSUME NEW call \in calls, W!IntakeReply(call)
      PROVE  NowNoted' /\ ReadNoted' /\ W!SavedWasHeld /\ W!DoneWasDone
  <2>1. call.id # 0
    BY <1>0 DEF CallsShaped, IsCall
  <2> QED  BY <1>2, <1>4, <1>7, <2>1 DEF W!IntakeReply
<1> QED  BY <1>5, <1>6, <1>7

\* The read asks the app, which answers what it holds.
LEMMA AsksNotes ==
  ASSUME WindowInv, W!Asks
  PROVE  NowNoted' /\ ReadNoted' /\ W!SavedWasHeld /\ W!DoneWasDone
<1>0. ReadShaped
  BY ShapedParts DEF WindowInv
<1>1. UNCHANGED <<service, save, intake, wasHeld, wasDone>>
  BY DEF W!Asks
<1>2. (Awaited' <=> Awaited) /\ (W!Known(intake)' <=> W!Known(intake))
  BY <1>1 DEF Awaited, W!Known
<1>3. read.doc = Nil
  BY DEF WindowInv, ReadNoted, W!Asks
<1>4. read'.asked /\ (read'.doc = Nil \/ read'.doc = W!ControlState)
  BY <1>0, <1>3 DEF W!Asks, ReadShaped, IsRecord
<1>5. CASE read'.doc = Nil
  BY <1>1, <1>2, <1>4, <1>5 DEF WindowInv, NowNoted, ReadNoted, ReadAnswered, W!SavedWasHeld, W!DoneWasDone
<1>6. CASE read'.doc = W!ControlState
  <2>1. read'.doc.conf = service.conf /\ read'.doc.capture = service.capture
    BY <1>6 DEF W!ControlState
  <2> QED  BY <1>1, <1>2, <1>4, <2>1 DEF WindowInv, NowNoted, ReadNoted, ReadAnswered, W!SavedWasHeld, W!DoneWasDone
<1> QED  BY <1>4, <1>5, <1>6

\* What the read makes of the save.
LEMMA AppliesToSave ==
  ASSUME WindowInv, W!Applies
  PROVE  (Awaited' /\ W!Matches(service'.conf, save'.writes) => wasHeld') /\ W!SavedWasHeld
<1> DEFINE moved == read.bus # win.bus
           s1 == IF moved THEN W!ForgottenSave(save) ELSE save
           edits == IF read.doc = Nil THEN win.edits ELSE W!Outstanding(win.edits, read.doc.conf)
<1>0. SaveShaped
  BY ShapedParts DEF WindowInv
<1>1. \/ save' = s1
      \/ read.doc # Nil /\ save' = W!SettledSave(s1, read.id, read.doc.conf, edits)
  BY DEF W!Applies
<1>2. /\ UNCHANGED service
      /\ moved => (wasHeld' <=> \/ W!Matches(service.conf, save.writes)
                                \/ read.doc # Nil /\ W!Matches(read.doc.conf, save.writes))
      /\ ~moved => UNCHANGED wasHeld
  BY DEF W!Applies
<1>3. ReadAnswered <=> read.doc # Nil
  BY DEF W!Applies, ReadAnswered
<1>4. /\ IsRecord(s1, {"id", "writes", "verified", "failed", "waiting", "uncertain", "after"})
      /\ s1.verified \in BOOLEAN /\ s1.waiting \in BOOLEAN /\ s1.after \in Nat
      /\ s1.writes = save.writes /\ (moved => s1.verified = FALSE) /\ (~moved => s1 = save)
  BY <1>0, ForgottenSaveShaped DEF SaveShaped
<1>5. /\ save'.writes = save.writes
      /\ Awaited' => s1.waiting /\ s1.id = 0
      /\ save'.verified /\ ~s1.verified =>
           /\ read.doc # Nil /\ s1.waiting /\ s1.id = 0 /\ read.id > s1.after
           /\ W!Matches(read.doc.conf, save.writes)
  <2> HIDE DEF s1, edits
  <2>1. CASE save' = s1
    BY <1>4, <2>1 DEF Awaited
  <2>2. CASE read.doc # Nil /\ save' = W!SettledSave(s1, read.id, read.doc.conf, edits)
    BY <1>4, <2>2, SettledSaveShaped DEF Awaited
  <2> QED  BY <1>1, <2>1, <2>2
<1> HIDE DEF s1, edits
<1>6. CASE moved
  <2> HIDE DEF moved
  <2> QED  BY <1>2, <1>4, <1>5, <1>6 DEF W!SavedWasHeld
<1>7. CASE ~moved
  <2>1. UNCHANGED <<service, wasHeld>> /\ s1 = save
    BY <1>2, <1>4, <1>7
  <2> HIDE DEF moved
  <2>2. Awaited' /\ W!Matches(service'.conf, save'.writes) => wasHeld'
    BY <1>5, <2>1 DEF WindowInv, NowNoted, Awaited
  <2>3. W!SavedWasHeld
    BY <1>3, <1>5, <2>1 DEF WindowInv, ReadNoted, Awaited, W!SavedWasHeld
  <2> QED  BY <2>2, <2>3
<1> QED  BY <1>6, <1>7

\* What the read makes of the pause or resume.
LEMMA AppliesToIntake ==
  ASSUME WindowBounds, WindowInv, W!Applies
  PROVE  (W!Known(intake)' /\ service'.capture = intake'.wish => wasDone') /\ W!DoneWasDone
<1> DEFINE moved == read.bus # win.bus
           i1 == IF moved THEN W!Unverified(intake, W!NextId) ELSE intake
<1>0. IntakeShaped /\ WinShaped /\ ReadShaped /\ read # Nil
  BY ShapedParts DEF WindowInv, W!Applies
<1>1. \/ intake' = i1
      \/ read.doc # Nil /\ intake' = W!SettledIntake(i1, read.id, read.doc.capture)
  BY DEF W!Applies
<1>2. /\ UNCHANGED service
      /\ moved /\ intake.id # 0 => (wasDone' <=> service.capture = intake.wish)
      /\ ~(moved /\ intake.id # 0) => UNCHANGED wasDone
  BY DEF W!Applies
<1>3. ReadAnswered <=> read.doc # Nil
  BY DEF W!Applies, ReadAnswered
<1>4. /\ IsRecord(i1, {"id", "bus", "wish", "after", "doubt", "error"}) /\ i1.after \in Nat
      /\ i1.wish = intake.wish
      /\ IF moved /\ intake.id # 0 THEN i1.after = W!NextId /\ i1.doubt # 0 ELSE i1 = intake
  <2> HIDE DEF moved
  <2>1. CASE moved
    <3>1. i1 = W!Unverified(intake, W!NextId) /\ W!NextId \in Nat
      BY <1>0, <2>1 DEF WinShaped, W!NextId
    <3> HIDE DEF i1
    <3> QED  BY <1>0, <2>1, <3>1, UnverifiedShaped DEF IntakeShaped
  <2>2. CASE ~moved
    BY <1>0, <2>2 DEF IntakeShaped
  <2> QED  BY <2>1, <2>2
<1> HIDE DEF i1
<1>5. \/ intake' = i1
      \/ /\ intake'.id = 0 /\ intake'.doubt = 0 /\ (i1.id # 0 \/ i1.doubt # 0)
         /\ read.doc # Nil /\ read.id > i1.after /\ read.doc.capture = intake.wish
  BY <1>1, <1>4, SettledIntakeShaped
<1>6. CASE moved /\ intake.id # 0
  <2> HIDE DEF moved
  <2>1. intake' = i1
    BY <1>0, <1>4, <1>5, <1>6 DEF ReadShaped, WinShaped, W!NextId
  <2> QED  BY <1>2, <1>4, <1>6, <2>1 DEF W!DoneWasDone
<1>7. CASE ~(moved /\ intake.id # 0)
  <2>1. i1 = intake /\ UNCHANGED <<service, wasDone>>
    BY <1>2, <1>4, <1>7
  <2>2. CASE intake' = intake
    <3>1. W!Known(intake)' <=> W!Known(intake)
      BY <2>2 DEF W!Known
    <3> QED  BY <2>1, <2>2, <3>1 DEF WindowInv, NowNoted, W!DoneWasDone
  <2>3. CASE /\ intake'.id = 0 /\ intake'.doubt = 0 /\ (intake.id # 0 \/ intake.doubt # 0)
             /\ read.doc # Nil /\ read.id > intake.after /\ read.doc.capture = intake.wish
    <3>1. ~W!Known(intake)'
      BY <2>3 DEF W!Known
    <3>2. intake.after # W!Never
      BY <1>0, <2>3, NeverIsLast DEF IntakeShaped, ReadShaped, WindowBounds
    <3>3. W!Known(intake)
      BY <2>3, <3>2 DEF W!Known
    <3>4. wasDone
      BY <1>3, <2>3, <3>3 DEF WindowInv, ReadNoted
    <3> QED  BY <2>1, <3>1, <3>4 DEF W!DoneWasDone
  <2> QED  BY <1>5, <2>1, <2>2, <2>3
<1> QED  BY <1>6, <1>7

\* The read is over.
LEMMA AppliesNotes ==
  ASSUME WindowBounds, WindowInv, W!Applies
  PROVE  NowNoted' /\ ReadNoted' /\ W!SavedWasHeld /\ W!DoneWasDone
<1>1. read' = Nil /\ ~ReadAnswered'
  BY DEF W!Applies, ReadAnswered
<1>2. ReadNoted'
  BY <1>1 DEF ReadNoted
<1> QED  BY <1>2, AppliesToSave, AppliesToIntake DEF NowNoted

-----------------------------------------------------------------------------
\* The invariant is inductive, and every step of it does what the theorem says.
LEMMA WindowStep ==
  ASSUME WindowBounds, WindowInv, [W!Next]_(W!wvars)
  PROVE  WindowInv' /\ [W!SavedWasHeld /\ W!DoneWasDone]_(W!wvars)
<1>1. CASE W!Next
  <2>1. WindowShaped'
    BY <1>1, WindowStaysShaped DEF WindowInv
  <2>2. NowNoted' /\ ReadNoted' /\ W!SavedWasHeld /\ W!DoneWasDone
    BY <1>1, ServiceNotes, PressNotes, EndNotes, AsksNotes, AppliesNotes DEF W!Next
  <2> QED  BY <2>1, <2>2 DEF WindowInv
<1>2. CASE UNCHANGED W!wvars
  <2>1. WindowShaped'
    BY <1>2 DEF WindowInv, WindowShaped, IsCall, W!wvars
  <2>2. UNCHANGED <<service, save, intake, read, wasHeld, wasDone>>
    BY <1>2 DEF W!wvars
  <2>3. NowNoted' /\ ReadNoted'
    BY <2>2, QuietNotes
  <2> QED  BY <1>2, <2>1, <2>3 DEF WindowInv
<1> QED  BY <1>1, <1>2

LEMMA WindowInit == ASSUME WindowBounds, W!Init  PROVE WindowInv
<1>1. WindowShaped
  BY WindowInitShaped
<1>2. NowNoted /\ ReadNoted
  BY DEF W!Init, NowNoted, ReadNoted, ReadAnswered, Awaited, W!Known, W!NoSave, W!NoIntake
<1> QED  BY <1>1, <1>2 DEF WindowInv

-----------------------------------------------------------------------------
(* The types of the window *)

\* The settings with a switch are in an order.
WindowConstants ==
  /\ MaxIds \in Nat /\ MaxPresses \in Nat /\ MaxUpsets \in Nat /\ Nil \notin W!Outcomes
  /\ \A fs \in SUBSET Fields : fs # {} => \E f \in fs : \A g \in fs : f <= g

ServiceRecord == [bus : 1..MaxUpsets + 1, conf : SUBSET Fields, capture : W!States, told : W!States \union {Nil}]
WindowRecord == [bus : 0..MaxUpsets + 1, next : W!Ids \ {0}, last : W!Ids, doc : W!Document \union {Nil},
                 edits : W!Writes]
SaveRecord == [id : W!Ids, writes : W!Writes, verified : BOOLEAN, failed : BOOLEAN,
               waiting : BOOLEAN, uncertain : BOOLEAN, after : 0..W!Never]
IntakeRecord == [id : W!Ids, bus : 0..MaxUpsets + 1, wish : W!States, after : 0..W!Never, doubt : W!Ids,
                 error : BOOLEAN]
ReadRecord == [id : W!Ids, asked : BOOLEAN, bus : 0..MaxUpsets + 1, doc : W!Document \union {Nil}]
SaveCall == [kind : {"save"}, id : W!Ids, bus : 1..MaxUpsets + 1, left : W!Writes, got : W!Outcomes \union {Nil}]
IntakeCall == [kind : {"intake"}, id : W!Ids, bus : 1..MaxUpsets + 1, wish : W!States, got : {"ok", "error", Nil}]
StrayRecord == [bus : 1..MaxUpsets + 1, field : Fields, value : BOOLEAN]

\* The ids a save and a press may still take when they are answered or no longer waited for.
SaveOwes == IF save.id = 0 THEN 0 ELSE 1
IntakeOwes == IF intake.id = 0 THEN 0 ELSE IF \E c \in calls : c.id = intake.id THEN 2 ELSE 1

WindowCounts ==
  /\ presses \in 0..MaxPresses /\ surprises \in 0..MaxUpsets /\ service.bus <= surprises + 1
  /\ win.next + SaveOwes + IntakeOwes <= MaxIds + 4
  /\ presses = 0 => save.id = 0 /\ intake.id = 0 /\ win.next <= MaxIds + 1

CallsOnce ==
  /\ \A c \in calls : 0 < c.id /\ c.id < win.next /\ (c.kind = "save" /\ c.got = Nil => DOMAIN c.left # {})
  /\ \A c \in calls, d \in calls : c.id = d.id => c = d

WindowTyped ==
  /\ service \in ServiceRecord /\ win \in WindowRecord /\ save \in SaveRecord /\ intake \in IntakeRecord
  /\ read = Nil \/ read \in ReadRecord
  /\ calls \subseteq SaveCall \union IntakeCall /\ stray \subseteq StrayRecord
  /\ wasHeld \in BOOLEAN /\ wasDone \in BOOLEAN

WindowTypes == WindowTyped /\ WindowCounts /\ CallsOnce

LEMMA WindowTypesShare == ASSUME WindowTypes  PROVE W!TypeOK
BY DEF WindowTypes, WindowTyped, ServiceRecord, WindowRecord, SaveRecord, IntakeRecord, ReadRecord, SaveCall,
       IntakeCall, StrayRecord, W!TypeOK

LEMMA WritesAre == \A w : w \in W!Writes <=> w \in [DOMAIN w -> BOOLEAN] /\ DOMAIN w \subseteq Fields
<1> SUFFICES ASSUME NEW w  PROVE w \in W!Writes <=> w \in [DOMAIN w -> BOOLEAN] /\ DOMAIN w \subseteq Fields
  OBVIOUS
<1>1. ASSUME w \in W!Writes  PROVE w \in [DOMAIN w -> BOOLEAN] /\ DOMAIN w \subseteq Fields
  <2>1. PICK fs \in SUBSET Fields : w \in [fs -> BOOLEAN]
    BY <1>1 DEF W!Writes
  <2> QED  BY <2>1
<1>2. ASSUME w \in [DOMAIN w -> BOOLEAN], DOMAIN w \subseteq Fields  PROVE w \in W!Writes
  BY <1>2 DEF W!Writes
<1> QED  BY <1>1, <1>2

LEMMA NothingWritten == << >> \in W!Writes /\ DOMAIN << >> = {}
<1>1. DOMAIN << >> = {} /\ << >> \in [{} -> BOOLEAN]
  OBVIOUS
<1> QED  BY <1>1, WritesAre

\* No id is as late as Never, and those that are given are bounded.
LEMMA IdsAre ==
  ASSUME WindowConstants
  PROVE  W!Ids \subseteq Nat /\ 0 \in W!Ids /\ 1 \in W!Ids /\ W!Never \in Nat /\ W!Ids \subseteq 0..W!Never
         /\ W!Never \in 0..W!Never
BY DEF WindowConstants, W!Ids, W!Never

LEMMA NextIsAnId ==
  ASSUME WindowConstants, NEW n \in Nat \ {0}, NEW p \in 0..MaxPresses, n <= MaxIds + 4, p = 0 => n <= MaxIds + 1
  PROVE  n \in W!Ids \ {0}
<1>1. CASE p = 0
  BY <1>1 DEF WindowConstants, W!Ids
<1>2. CASE p # 0
  <2>1. MaxPresses \in Nat /\ 1 <= MaxPresses /\ MaxIds \in Nat
    BY <1>2 DEF WindowConstants
  <2> QED  BY <2>1 DEF W!Ids
<1> QED  BY <1>1, <1>2

LEMMA WindowTypesInit == ASSUME WindowConstants, W!Init  PROVE WindowTypes
<1>1. service \in ServiceRecord /\ service.bus = 1
  BY DEF W!Init, ServiceRecord, W!States, WindowConstants
<1>2. win \in WindowRecord /\ win.next = 1
  BY IdsAre, NothingWritten DEF W!Init, WindowRecord, WindowConstants
<1>3. save \in SaveRecord /\ save.id = 0
  BY IdsAre, NothingWritten DEF W!Init, W!NoSave, SaveRecord
<1>4. intake \in IntakeRecord /\ intake.id = 0
  BY IdsAre DEF W!Init, W!NoIntake, IntakeRecord, W!States, WindowConstants
<1>5. WindowTyped
  <2>1. wasHeld \in BOOLEAN /\ wasDone \in BOOLEAN
    BY Zenon DEF W!Init
  <2> QED  BY <1>1, <1>2, <1>3, <1>4, <2>1 DEF W!Init, WindowTyped
<1>6. WindowCounts
  BY <1>1, <1>2, <1>3, <1>4 DEF W!Init, WindowCounts, SaveOwes, IntakeOwes, WindowConstants
<1>7. CallsOnce
  BY DEF W!Init, CallsOnce
<1> QED  BY <1>5, <1>6, <1>7 DEF WindowTypes

\* What the next id, the requests and the calls come to.
LEMMA CountsStay ==
  ASSUME WindowConstants, WindowTypes, win'.next = win.next, save'.id = save.id, intake'.id = intake.id,
         presses' = presses, surprises' \in 0..MaxUpsets, service'.bus <= surprises' + 1,
         \A c \in calls' : \E d \in calls : d.id = c.id
  PROVE  WindowCounts'
<1>1. win.next \in Nat /\ SaveOwes' = SaveOwes
  BY IdsAre DEF WindowTypes, WindowTyped, WindowRecord, SaveOwes
<1>2. IntakeOwes' <= IntakeOwes /\ IntakeOwes \in {0, 1, 2} /\ IntakeOwes' \in {0, 1, 2} /\ SaveOwes \in {0, 1}
  BY DEF IntakeOwes, SaveOwes
<1>3. win.next + SaveOwes + IntakeOwes <= MaxIds + 4 /\ MaxIds \in Nat
  BY DEF WindowTypes, WindowCounts, WindowConstants
<1>4. win'.next + SaveOwes' + IntakeOwes' <= MaxIds + 4
  BY <1>1, <1>2, <1>3
<1> QED  BY <1>4 DEF WindowTypes, WindowCounts

LEMMA NextStays ==
  ASSUME WindowConstants, WindowTypes
  PROVE  win.next \in W!Ids \ {0} /\ win.next \in Nat /\ win.next # 0
BY IdsAre DEF WindowTypes, WindowTyped, WindowRecord

\* The app, and whoever else changes it.
LEMMA AppKeepsTypes ==
  ASSUME WindowConstants, WindowTypes, W!OtherWrites \/ W!OtherPauses \/ W!Replaced \/ W!Obey \/ W!TakeStray
  PROVE  WindowTypes'
<1>0. service \in ServiceRecord /\ stray \subseteq StrayRecord /\ wasHeld \in BOOLEAN /\ wasDone \in BOOLEAN
      /\ surprises \in 0..MaxUpsets /\ service.bus <= surprises + 1 /\ MaxUpsets \in Nat
  BY DEF WindowTypes, WindowTyped, WindowCounts, WindowConstants
<1>1. UNCHANGED <<win, save, intake, read, calls, presses>>
  BY DEF W!OtherWrites, W!OtherPauses, W!Replaced, W!Obey, W!TakeStray, W!Upset
<1>2. surprises' \in 0..MaxUpsets /\ surprises <= surprises'
  BY <1>0 DEF W!OtherWrites, W!OtherPauses, W!Replaced, W!Obey, W!TakeStray, W!Upset
<1>3. ASSUME NEW conf \in SUBSET Fields, W!Holds(conf)
      PROVE  service' \in ServiceRecord /\ service'.bus = service.bus /\ wasHeld' \in BOOLEAN
  <2>1. service' = [service EXCEPT !.conf = conf]
    BY <1>3 DEF W!Holds
  <2>2. wasHeld' \in BOOLEAN
    BY <1>0, <1>3, Zenon DEF W!Holds
  <2> QED  BY <1>0, <2>1, <2>2 DEF ServiceRecord
<1>4. ASSUME NEW state \in W!States, NEW told \in W!States \union {Nil}, W!Does(state, told)
      PROVE  service' \in ServiceRecord /\ service'.bus = service.bus /\ wasDone' \in BOOLEAN
  <2>1. service' = [service EXCEPT !.capture = state, !.told = told]
    BY <1>4 DEF W!Does
  <2>2. wasDone' \in BOOLEAN
    BY <1>0, <1>4, Zenon DEF W!Does
  <2>3. [service EXCEPT !.capture = state] \in ServiceRecord
    BY <1>0 DEF ServiceRecord
  <2>4. [[service EXCEPT !.capture = state] EXCEPT !.told = told] \in ServiceRecord
    <3> DEFINE x == [service EXCEPT !.capture = state]
    <3> HIDE DEF x
    <3>1. [x EXCEPT !.told = told] \in ServiceRecord
      BY <2>3 DEF ServiceRecord, x
    <3> QED  BY <3>1 DEF x
  <2>5. service'.bus = service.bus
    BY <1>0, <2>1 DEF ServiceRecord
  <2> QED  BY <2>1, <2>2, <2>4, <2>5
<1>5. ASSUME NEW f \in Fields, NEW v  PROVE W!Put(service.conf, f, v) \in SUBSET Fields
  BY <1>0 DEF W!Put, ServiceRecord
<1>6. service' \in ServiceRecord /\ stray' \subseteq StrayRecord /\ wasHeld' \in BOOLEAN /\ wasDone' \in BOOLEAN
      /\ service'.bus <= surprises' + 1
  <2>0. service.bus \in Int /\ surprises \in Int /\ surprises' \in Int
    <3>1. service.bus \in 1..MaxUpsets + 1
      BY <1>0 DEF ServiceRecord
    <3> QED  BY <1>0, <1>2, <3>1
  <2>1. CASE W!OtherWrites
    <3>1. PICK f \in Fields, v \in BOOLEAN : W!Holds(W!Put(service.conf, f, v))
      BY <2>1 DEF W!OtherWrites
    <3>2. service' \in ServiceRecord /\ service'.bus = service.bus /\ wasHeld' \in BOOLEAN
      BY <1>3, <1>5, <3>1
    <3> QED  BY <1>0, <1>2, <2>0, <2>1, <3>2 DEF W!OtherWrites
  <2>2. CASE W!OtherPauses
    <3>1. PICK s \in W!States : W!Does(s, service.told)
      BY <2>2 DEF W!OtherPauses
    <3>2. service' \in ServiceRecord /\ service'.bus = service.bus /\ wasDone' \in BOOLEAN
      BY <1>0, <1>4, <3>1 DEF ServiceRecord
    <3> QED  BY <1>0, <1>2, <2>0, <2>2, <3>2 DEF W!OtherPauses
  <2>3. CASE W!Replaced
    <3>1. service' = [service EXCEPT !.bus = @ + 1, !.told = Nil] /\ stray' = {} /\ surprises' = surprises + 1
          /\ surprises < MaxUpsets /\ UNCHANGED <<wasHeld, wasDone>>
      BY <2>3 DEF W!Replaced, W!Upset
    <3>2. service.bus + 1 \in 1..MaxUpsets + 1 /\ service.bus + 1 <= surprises' + 1
      BY <1>0, <2>0, <3>1 DEF ServiceRecord
    <3>3. [service EXCEPT !.bus = service.bus + 1] \in ServiceRecord
      BY <1>0, <3>2 DEF ServiceRecord
    <3>4. [[service EXCEPT !.bus = service.bus + 1] EXCEPT !.told = Nil] \in ServiceRecord
      <4> DEFINE x == [service EXCEPT !.bus = service.bus + 1]
      <4> HIDE DEF x
      <4>1. [x EXCEPT !.told = Nil] \in ServiceRecord
        BY <3>3 DEF ServiceRecord, x
      <4> QED  BY <4>1 DEF x
    <3>5. service'.bus = service.bus + 1
      BY <1>0, <3>1 DEF ServiceRecord
    <3> QED  BY <1>0, <3>1, <3>2, <3>4, <3>5
  <2>4. CASE W!Obey
    <3>1. service.told \in W!States /\ W!Does(service.told, Nil)
      BY <1>0, <2>4 DEF W!Obey, ServiceRecord
    <3>2. service' \in ServiceRecord /\ service'.bus = service.bus /\ wasDone' \in BOOLEAN
      BY <1>4, <3>1
    <3> QED  BY <1>0, <2>4, <3>2 DEF W!Obey
  <2>5. CASE W!TakeStray
    <3>1. PICK w \in stray : W!Holds(W!Put(service.conf, w.field, w.value)) /\ stray' = stray \ {w}
      BY <2>5 DEF W!TakeStray
    <3>2. w.field \in Fields
      BY <1>0, <3>1 DEF StrayRecord
    <3>3. service' \in ServiceRecord /\ service'.bus = service.bus /\ wasHeld' \in BOOLEAN
      BY <1>3, <1>5, <3>1, <3>2
    <3> QED  BY <1>0, <2>5, <3>1, <3>3 DEF W!TakeStray
  <2> QED  BY <2>1, <2>2, <2>3, <2>4, <2>5
<1>7. WindowTyped'
  BY <1>1, <1>6 DEF WindowTypes, WindowTyped
<1>8. WindowCounts'
  BY <1>1, <1>2, <1>6, CountsStay
<1>9. CallsOnce'
  BY <1>1 DEF WindowTypes, CallsOnce
<1> QED  BY <1>7, <1>8, <1>9 DEF WindowTypes

\* What the controller makes of its requests.
LEMMA UnverifiedTypes ==
  ASSUME WindowConstants, NEW p \in IntakeRecord, NEW n \in W!Ids
  PROVE  W!Unverified(p, n) \in IntakeRecord /\ W!Unverified(p, n).id = 0
<1>0. n \in 0..W!Never /\ 0 \in W!Ids
  BY IdsAre
<1>1. CASE p.id = 0
  BY <1>1 DEF W!Unverified
<1>2. CASE p.id # 0
  <2> DEFINE q == [p EXCEPT !.id = 0, !.doubt = p.id]
  <2>1. q \in IntakeRecord /\ q.id = 0
    BY <1>0 DEF IntakeRecord
  <2>2. W!Unverified(p, n) = [q EXCEPT !.after = n, !.error = TRUE]
    BY <1>2 DEF W!Unverified
  <2> HIDE DEF q
  <2>3. [q EXCEPT !.after = n] \in IntakeRecord /\ [q EXCEPT !.after = n].id = 0
    BY <1>0, <2>1 DEF IntakeRecord
  <2> DEFINE r == [q EXCEPT !.after = n]
  <2>4. W!Unverified(p, n) = [r EXCEPT !.error = TRUE]
    BY <2>2
  <2>5. r \in IntakeRecord /\ r.id = 0
    BY <2>3
  <2> HIDE DEF r
  <2> QED  BY <2>4, <2>5 DEF IntakeRecord
<1> QED  BY <1>1, <1>2

LEMMA SettledIntakeTypes ==
  ASSUME WindowConstants, NEW p \in IntakeRecord, NEW n, NEW capture
  PROVE  W!SettledIntake(p, n, capture) \in IntakeRecord /\ W!SettledIntake(p, n, capture).id \in {0, p.id}
<1>1. W!SettledIntake(p, n, capture) = p \/ W!SettledIntake(p, n, capture) = [p EXCEPT !.id = 0, !.doubt = 0, !.error = FALSE]
  BY DEF W!SettledIntake
<1>2. [p EXCEPT !.id = 0, !.doubt = 0, !.error = FALSE] \in IntakeRecord
  <2> DEFINE q == [p EXCEPT !.id = 0, !.doubt = 0]
  <2>1. q \in IntakeRecord
    BY IdsAre DEF IntakeRecord
  <2> HIDE DEF q
  <2>2. [q EXCEPT !.error = FALSE] \in IntakeRecord
    BY <2>1 DEF IntakeRecord
  <2> QED  BY <2>2 DEF q
<1>3. [p EXCEPT !.id = 0, !.doubt = 0, !.error = FALSE].id = 0
  BY DEF IntakeRecord
<1> QED  BY <1>1, <1>2, <1>3

LEMMA SaveFlags ==
  ASSUME NEW s \in SaveRecord, NEW a \in BOOLEAN, NEW b \in BOOLEAN, NEW c \in BOOLEAN, NEW d \in BOOLEAN
  PROVE  LET t == [s EXCEPT !.verified = a, !.waiting = b, !.failed = c, !.uncertain = d]
         IN  t \in SaveRecord /\ t.id = s.id
<1> DEFINE t == [s EXCEPT !.verified = a]
           u == [t EXCEPT !.waiting = b]
           v == [u EXCEPT !.failed = c]
           w == [v EXCEPT !.uncertain = d]
<1>1. t \in SaveRecord /\ t.id = s.id
  BY DEF SaveRecord
<1> HIDE DEF t
<1>2. u \in SaveRecord /\ u.id = s.id
  BY <1>1 DEF SaveRecord
<1> HIDE DEF u
<1>3. v \in SaveRecord /\ v.id = s.id
  BY <1>2 DEF SaveRecord
<1> HIDE DEF v
<1>4. w \in SaveRecord /\ w.id = s.id
  BY <1>3 DEF SaveRecord
<1>5. w = [s EXCEPT !.verified = a, !.waiting = b, !.failed = c, !.uncertain = d]
  BY DEF t, u, v
<1> QED  BY <1>4, <1>5

LEMMA SaveIs == ASSUME NEW s \in SaveRecord
  PROVE  /\ s.verified \in BOOLEAN /\ s.waiting \in BOOLEAN /\ s.failed \in BOOLEAN /\ s.uncertain \in BOOLEAN
         /\ s = [s EXCEPT !.verified = s.verified, !.waiting = s.waiting, !.failed = s.failed,
                 !.uncertain = s.uncertain]
BY DEF SaveRecord

LEMMA ForgottenSaveTypes ==
  ASSUME WindowConstants, NEW s \in SaveRecord
  PROVE  W!ForgottenSave(s) \in SaveRecord /\ W!ForgottenSave(s).id = 0
<1>1. CASE s.id # 0 \/ s.waiting
  <2> DEFINE q == [s EXCEPT !.id = 0, !.after = 0]
  <2>1. q \in SaveRecord /\ q.id = 0
    BY IdsAre DEF SaveRecord
  <2>2. W!ForgottenSave(s) = [q EXCEPT !.verified = FALSE, !.waiting = TRUE, !.failed = FALSE, !.uncertain = TRUE]
    BY <1>1 DEF W!ForgottenSave
  <2> HIDE DEF q
  <2> QED  BY <2>1, <2>2, SaveFlags
<1>2. CASE ~(s.id # 0 \/ s.waiting)
  <2>1. W!ForgottenSave(s) = [s EXCEPT !.verified = FALSE] /\ s.id = 0
    BY <1>2 DEF W!ForgottenSave
  <2> QED  BY <2>1 DEF SaveRecord
<1> QED  BY <1>1, <1>2

LEMMA SettledSaveTypes ==
  ASSUME WindowConstants, NEW s \in SaveRecord, NEW n, NEW conf, NEW edits
  PROVE  W!SettledSave(s, n, conf, edits) \in SaveRecord /\ W!SettledSave(s, n, conf, edits).id = s.id
<1>1. PICK m \in BOOLEAN : m = (s.verified /\ W!Matches(conf, s.writes))
  OBVIOUS
<1>2. PICK k \in BOOLEAN : k = (DOMAIN edits = {})
  OBVIOUS
<1>3. \/ W!SettledSave(s, n, conf, edits) = [s EXCEPT !.verified = m]
      \/ W!SettledSave(s, n, conf, edits) = [s EXCEPT !.verified = k, !.waiting = FALSE, !.failed = FALSE,
                                             !.uncertain = FALSE]
      \/ W!SettledSave(s, n, conf, edits) = [s EXCEPT !.verified = FALSE, !.waiting = FALSE, !.failed = TRUE]
  BY <1>1, <1>2 DEF W!SettledSave
<1>4. [s EXCEPT !.verified = m] \in SaveRecord /\ [s EXCEPT !.verified = m].id = s.id
  BY DEF SaveRecord
<1>5. LET t == [s EXCEPT !.verified = FALSE, !.waiting = FALSE, !.failed = TRUE] IN t \in SaveRecord /\ t.id = s.id
  <2>1. [s EXCEPT !.verified = FALSE, !.waiting = FALSE, !.failed = TRUE]
          = [s EXCEPT !.verified = FALSE, !.waiting = FALSE, !.failed = TRUE, !.uncertain = s.uncertain]
    BY DEF SaveRecord
  <2>2. s.uncertain \in BOOLEAN
    BY SaveIs
  <2> DEFINE u == s.uncertain
             t == [s EXCEPT !.verified = FALSE, !.waiting = FALSE, !.failed = TRUE, !.uncertain = u]
  <2>3. t \in SaveRecord /\ t.id = s.id
    <3> HIDE DEF u
    <3> QED  BY <2>2, SaveFlags DEF u
  <2> QED  BY <2>1, <2>3
<1>6. LET t == [s EXCEPT !.verified = k, !.waiting = FALSE, !.failed = FALSE, !.uncertain = FALSE]
      IN  t \in SaveRecord /\ t.id = s.id
  BY SaveFlags
<1> QED  BY <1>3, <1>4, <1>5, <1>6

LEMMA OutstandingTypes ==
  ASSUME NEW edits \in W!Writes, NEW conf  PROVE W!Outstanding(edits, conf) \in W!Writes
<1> DEFINE o == W!Outstanding(edits, conf)
<1>1. edits \in [DOMAIN edits -> BOOLEAN] /\ DOMAIN edits \subseteq Fields
  BY WritesAre
<1>2. DOMAIN o \subseteq DOMAIN edits /\ o = [f \in DOMAIN o |-> edits[f]]
  BY DEF W!Outstanding
<1> HIDE DEF o
<1>3. o \in [DOMAIN o -> BOOLEAN] /\ DOMAIN o \subseteq Fields
  BY <1>1, <1>2
<1>4. o \in W!Writes
  BY <1>3, WritesAre
<1> QED  BY <1>4 DEF o

\* The owner at the window.
LEMMA EditKeepsTypes == ASSUME WindowConstants, WindowTypes, NEW f \in Fields, W!Edit(f)  PROVE WindowTypes'
<1> DEFINE shows == IF f \in DOMAIN win.edits THEN win.edits[f] ELSE f \in win.doc.conf
           kept == [g \in DOMAIN win.edits \ {f} |-> win.edits[g]]
           more == [g \in DOMAIN win.edits \union {f} |-> IF g = f THEN ~shows ELSE win.edits[g]]
<1>1. win \in WindowRecord /\ win.edits \in [DOMAIN win.edits -> BOOLEAN] /\ DOMAIN win.edits \subseteq Fields
  BY WritesAre DEF WindowTypes, WindowTyped, WindowRecord
<1>2. kept \in W!Writes
  <2>1. kept \in [DOMAIN win.edits \ {f} -> BOOLEAN] /\ DOMAIN kept = DOMAIN win.edits \ {f}
    BY <1>1
  <2> HIDE DEF kept
  <2> QED  BY <1>1, <2>1, WritesAre
<1>3. more \in W!Writes
  <2> DEFINE turned == ~shows
  <2>1. turned \in BOOLEAN
    BY Zenon
  <2> HIDE DEF shows, turned
  <2> DEFINE then == [g \in DOMAIN win.edits \union {f} |-> IF g = f THEN turned ELSE win.edits[g]]
  <2>2. then \in [DOMAIN win.edits \union {f} -> BOOLEAN] /\ DOMAIN then = DOMAIN win.edits \union {f}
    BY <1>1, <2>1
  <2>3. then \in W!Writes
    <3> HIDE DEF then
    <3> QED  BY <1>1, <2>2, WritesAre
  <2> QED  BY <2>3 DEF turned
<1>4. PICK e \in W!Writes : win' = [win EXCEPT !.edits = e]
  <2>1. win' = [win EXCEPT !.edits = IF ~shows = (f \in win.doc.conf) THEN kept ELSE more]
    BY DEF W!Edit
  <2> HIDE DEF shows, kept, more
  <2> QED  BY <1>2, <1>3, <2>1
<1>5. win' \in WindowRecord /\ win'.next = win.next
  BY <1>1, <1>4 DEF WindowRecord
<1>6. UNCHANGED <<service, save, intake, read, calls, stray, wasHeld, wasDone, presses, surprises>>
  BY DEF W!Edit
<1>7. WindowTyped'
  BY <1>5, <1>6 DEF WindowTypes, WindowTyped
<1>8. WindowCounts'
  BY <1>5, <1>6, CountsStay DEF WindowTypes, WindowCounts
<1>9. CallsOnce'
  BY <1>5, <1>6 DEF WindowTypes, CallsOnce
<1> QED  BY <1>7, <1>8, <1>9 DEF WindowTypes

\* The next id is taken.
LEMMA NextTaken ==
  ASSUME WindowConstants, WindowTypes, win' = [win EXCEPT !.next = @ + 1], presses' \in 0..MaxPresses,
         win.next + 1 + SaveOwes' + IntakeOwes' <= MaxIds + 4,
         presses' = 0 => win.next <= MaxIds
  PROVE  win' \in WindowRecord /\ win'.next = win.next + 1 /\ win.next + SaveOwes' + IntakeOwes' <= MaxIds + 3
<1>1. win \in WindowRecord /\ win.next \in Nat /\ SaveOwes' \in {0, 1} /\ IntakeOwes' \in {0, 1, 2} /\ MaxIds \in Nat
  BY NextStays DEF WindowTypes, WindowTyped, SaveOwes, IntakeOwes, WindowConstants
<1> DEFINE n == win.next + 1
<1>2. n \in Nat \ {0} /\ n <= MaxIds + 4 /\ (presses' = 0 => n <= MaxIds + 1)
  BY <1>1
<1> HIDE DEF n
<1>3. n \in W!Ids \ {0}
  BY <1>2, NextIsAnId
<1>4. win' = [win EXCEPT !.next = n]
  BY DEF n
<1>5. win' \in WindowRecord /\ win'.next = n
  BY <1>1, <1>3, <1>4 DEF WindowRecord
<1> QED  BY <1>1, <1>5 DEF n

\* A request has no more than its answer and its end to come.
LEMMA OwesAre ==
  /\ SaveOwes \in {0, 1} /\ IntakeOwes \in {0, 1, 2}
  /\ (save.id = 0 => SaveOwes = 0) /\ (save.id # 0 => SaveOwes = 1)
  /\ (intake.id = 0 => IntakeOwes = 0) /\ (intake.id # 0 => IntakeOwes # 0)
BY DEF SaveOwes, IntakeOwes

\* A call that is made takes an id of its own.
LEMMA NewCallIsOnce ==
  ASSUME WindowConstants, WindowTypes, NEW call, call.id = win.next, win'.next = win.next + 1,
         calls' = calls \union {call}, call.kind = "save" => DOMAIN call.left # {}
  PROVE  CallsOnce'
<1>0. win.next \in Nat /\ 0 < win.next /\ call.id = win.next /\ win'.next = win.next + 1
      /\ calls' = calls \union {call}
      /\ (call.kind = "save" => DOMAIN call.left # {})
  BY NextStays
<1>1. ASSUME NEW c \in calls'
      PROVE  0 < c.id /\ c.id < win'.next /\ (c.kind = "save" /\ c.got = Nil => DOMAIN c.left # {})
  <2>1. CASE c \in calls
    <3>1. c.id \in Nat /\ 0 < c.id /\ c.id < win.next /\ (c.kind = "save" /\ c.got = Nil => DOMAIN c.left # {})
      BY <2>1, IdsAre DEF WindowTypes, WindowTyped, CallsOnce, SaveCall, IntakeCall
    <3> QED  BY <1>0, <3>1
  <2>2. CASE c = call
    BY <1>0, <2>2
  <2> QED  BY <1>0, <2>1, <2>2
<1>2. ASSUME NEW c \in calls', NEW d \in calls', c.id = d.id  PROVE c = d
  <2>1. \A x \in calls : x.id # win.next
    <3> SUFFICES ASSUME NEW x \in calls  PROVE x.id # win.next
      OBVIOUS
    <3>1. x.id \in Nat /\ x.id < win.next
      BY IdsAre DEF WindowTypes, WindowTyped, CallsOnce, SaveCall, IntakeCall
    <3> QED  BY <1>0, <3>1
  <2>2. \A x \in calls, y \in calls : x.id = y.id => x = y
    BY DEF WindowTypes, CallsOnce
  <2> QED  BY <1>0, <1>2, <2>1, <2>2
<1> QED  BY <1>1, <1>2 DEF CallsOnce

\* Where no call is made, and the next id does not go back.
LEMMA CallsStayOnce ==
  ASSUME WindowConstants, WindowTypes, calls' \subseteq calls, win'.next \in {win.next, win.next + 1}
  PROVE  CallsOnce'
<1>1. ASSUME NEW c \in calls'
      PROVE  0 < c.id /\ c.id < win'.next /\ (c.kind = "save" /\ c.got = Nil => DOMAIN c.left # {})
  <2>1. c.id \in Nat /\ 0 < c.id /\ c.id < win.next /\ (c.kind = "save" /\ c.got = Nil => DOMAIN c.left # {})
    BY IdsAre DEF WindowTypes, WindowTyped, CallsOnce, SaveCall, IntakeCall
  <2> QED  BY <2>1, NextStays
<1>2. \A c \in calls', d \in calls' : c.id = d.id => c = d
  BY DEF WindowTypes, CallsOnce
<1> QED  BY <1>1, <1>2 DEF CallsOnce

LEMMA PressSaveKeepsTypes == ASSUME WindowConstants, WindowTypes, W!PressSave  PROVE WindowTypes'
<1> DEFINE call == [kind |-> "save", id |-> win.next, bus |-> win.bus, left |-> win.edits, got |-> Nil]
<1>1. /\ presses < MaxPresses /\ win.next <= MaxIds /\ DOMAIN win.edits # {} /\ win.bus # 0
      /\ save' = [id |-> win.next, writes |-> win.edits, verified |-> FALSE, failed |-> FALSE,
                  waiting |-> TRUE, uncertain |-> FALSE, after |-> W!Never]
      /\ calls' = calls \union {call} /\ win' = [win EXCEPT !.next = @ + 1] /\ wasHeld' = FALSE
      /\ presses' = presses + 1
      /\ UNCHANGED <<service, intake, read, stray, wasDone, surprises>>
  BY DEF W!PressSave, W!NextId
<1>2. win.next \in W!Ids \ {0} /\ win.next \in Nat /\ win.bus \in 1..MaxUpsets + 1 /\ win.edits \in W!Writes
      /\ presses \in 0..MaxPresses /\ MaxPresses \in Nat /\ MaxIds \in Nat
  <2>1. win.bus \in 0..MaxUpsets + 1 /\ win.edits \in W!Writes /\ win.bus # 0 /\ MaxUpsets \in Nat
    BY <1>1 DEF WindowTypes, WindowTyped, WindowRecord, WindowConstants
  <2>2. win.bus \in 1..MaxUpsets + 1
    BY <2>1
  <2> QED  BY <2>1, <2>2, NextStays DEF WindowTypes, WindowCounts, WindowConstants
<1>3. presses' \in 0..MaxPresses /\ presses' # 0
  BY <1>1, <1>2
<1>4. win' \in WindowRecord /\ win'.next = win.next + 1 /\ win.next + SaveOwes' + IntakeOwes' <= MaxIds + 3
  <2>1. SaveOwes' \in {0, 1} /\ IntakeOwes' \in {0, 1, 2}
    BY DEF SaveOwes, IntakeOwes
  <2>2. win.next + 1 + SaveOwes' + IntakeOwes' <= MaxIds + 4
    BY <1>1, <1>2, <2>1
  <2> QED  BY <1>1, <1>3, <2>2, NextTaken
<1>5. save' \in SaveRecord
  BY <1>1, <1>2, IdsAre DEF SaveRecord
<1>6. call \in SaveCall
  BY <1>2 DEF SaveCall
<1>7. call.id = win.next /\ call.left = win.edits
  OBVIOUS
<1> HIDE DEF call
<1>8. WindowTyped'
  BY <1>1, <1>4, <1>5, <1>6 DEF WindowTypes, WindowTyped
<1>9. WindowCounts'
  <2>1. SaveOwes' \in {0, 1} /\ IntakeOwes' \in {0, 1, 2}
    BY DEF SaveOwes, IntakeOwes
  <2>2. win'.next + SaveOwes' + IntakeOwes' <= MaxIds + 4
    BY <1>2, <1>4, <2>1
  <2> QED  BY <1>1, <1>3, <2>2 DEF WindowTypes, WindowCounts
<1>10. CallsOnce'
  BY <1>1, <1>4, <1>7, NewCallIsOnce
<1> QED  BY <1>8, <1>9, <1>10 DEF WindowTypes

LEMMA PressIntakeKeepsTypes == ASSUME WindowConstants, WindowTypes, W!PressIntake  PROVE WindowTypes'
<1> DEFINE wish == IF win.doc.capture = "paused" THEN "recording" ELSE "paused"
           call == [kind |-> "intake", id |-> win.next, bus |-> win.bus, wish |-> wish, got |-> Nil]
<1>1. /\ presses < MaxPresses /\ win.next <= MaxIds /\ win.bus # 0
      /\ intake' = [id |-> win.next, bus |-> win.bus, wish |-> wish, after |-> W!Never, doubt |-> 0, error |-> FALSE]
      /\ calls' = calls \union {call} /\ win' = [win EXCEPT !.next = @ + 1] /\ wasDone' = FALSE
      /\ presses' = presses + 1
      /\ UNCHANGED <<service, save, read, stray, wasHeld, surprises>>
  BY DEF W!PressIntake, W!NextId
<1>0. wish \in W!States
  BY DEF W!States
<1> HIDE DEF wish
<1>2. win.next \in W!Ids \ {0} /\ win.next \in Nat /\ win.bus \in 1..MaxUpsets + 1 /\ win.bus \in 0..MaxUpsets + 1
      /\ presses \in 0..MaxPresses /\ MaxPresses \in Nat /\ MaxIds \in Nat
  <2>1. win.bus \in 0..MaxUpsets + 1 /\ win.bus # 0 /\ MaxUpsets \in Nat
    BY <1>1 DEF WindowTypes, WindowTyped, WindowRecord, WindowConstants
  <2>2. win.bus \in 1..MaxUpsets + 1
    BY <2>1
  <2> QED  BY <2>1, <2>2, NextStays DEF WindowTypes, WindowCounts, WindowConstants
<1>3. presses' \in 0..MaxPresses /\ presses' # 0
  BY <1>1, <1>2
<1>4. win' \in WindowRecord /\ win'.next = win.next + 1 /\ win.next + SaveOwes' + IntakeOwes' <= MaxIds + 3
  <2>1. SaveOwes' \in {0, 1} /\ IntakeOwes' \in {0, 1, 2}
    BY DEF SaveOwes, IntakeOwes
  <2>2. win.next + 1 + SaveOwes' + IntakeOwes' <= MaxIds + 4
    BY <1>1, <1>2, <2>1
  <2> QED  BY <1>1, <1>3, <2>2, NextTaken
<1>5. intake' \in IntakeRecord
  BY <1>0, <1>1, <1>2, IdsAre DEF IntakeRecord
<1>6. call \in IntakeCall
  BY <1>0, <1>2 DEF IntakeCall
<1>7. call.id = win.next /\ call.kind = "intake"
  OBVIOUS
<1> HIDE DEF call
<1>8. WindowTyped'
  BY <1>1, <1>4, <1>5, <1>6 DEF WindowTypes, WindowTyped
<1>9. WindowCounts'
  <2>1. SaveOwes' \in {0, 1} /\ IntakeOwes' \in {0, 1, 2}
    BY DEF SaveOwes, IntakeOwes
  <2>2. win'.next + SaveOwes' + IntakeOwes' <= MaxIds + 4
    BY <1>2, <1>4, <2>1
  <2> QED  BY <1>1, <1>3, <2>2 DEF WindowTypes, WindowCounts
<1>10. CallsOnce'
  BY <1>1, <1>4, <1>7, NewCallIsOnce
<1> QED  BY <1>8, <1>9, <1>10 DEF WindowTypes

LEMMA ExpireKeepsTypes == ASSUME WindowConstants, WindowTypes, W!ExpireIntake  PROVE WindowTypes'
<1>1. /\ intake.id # 0 /\ intake' = W!Unverified(intake, win.next) /\ win' = [win EXCEPT !.next = @ + 1]
      /\ UNCHANGED <<service, save, read, calls, stray, wasHeld, presses, surprises>>
  BY DEF W!ExpireIntake, W!NextId
<1>2. wasDone' \in BOOLEAN
  BY Zenon DEF W!ExpireIntake
<1>3. intake' \in IntakeRecord /\ intake'.id = 0
  BY <1>1, NextStays, UnverifiedTypes DEF WindowTypes, WindowTyped
<1>4. presses \in 0..MaxPresses /\ presses # 0 /\ win.next + SaveOwes + IntakeOwes <= MaxIds + 4
  BY <1>1 DEF WindowTypes, WindowCounts
<1>5. SaveOwes' = SaveOwes /\ IntakeOwes' = 0 /\ IntakeOwes \in {1, 2} /\ SaveOwes \in {0, 1} /\ MaxIds \in Nat
  BY <1>1, <1>3 DEF SaveOwes, IntakeOwes, WindowConstants
<1>6. win' \in WindowRecord /\ win'.next = win.next + 1 /\ win.next + SaveOwes' + IntakeOwes' <= MaxIds + 3
  <2>1. win.next + 1 + SaveOwes' + IntakeOwes' <= MaxIds + 4
    BY <1>4, <1>5, NextStays
  <2> QED  BY <1>1, <1>4, <2>1, NextTaken
<1>7. WindowTyped'
  BY <1>1, <1>2, <1>3, <1>6 DEF WindowTypes, WindowTyped
<1>8. WindowCounts'
  <2>1. win'.next + SaveOwes' + IntakeOwes' <= MaxIds + 4
    BY <1>5, <1>6, NextStays
  <2> QED  BY <1>1, <1>4, <2>1 DEF WindowTypes, WindowCounts
<1>9. CallsOnce'
  BY <1>1, <1>6, CallsStayOnce
<1> QED  BY <1>7, <1>8, <1>9 DEF WindowTypes

LEMMA ReadsKeepTypes == ASSUME WindowConstants, WindowTypes, W!StartRead \/ W!Asks  PROVE WindowTypes'
<1>1. CASE W!StartRead
  <2>1. /\ win.next <= MaxIds /\ read' = [id |-> win.next, asked |-> FALSE, bus |-> 0, doc |-> Nil]
        /\ win' = [win EXCEPT !.next = @ + 1]
        /\ UNCHANGED <<service, save, intake, calls, stray, wasHeld, wasDone, presses, surprises>>
    BY <1>1 DEF W!StartRead, W!NextId
  <2>2. read' \in ReadRecord
    BY <2>1, NextStays DEF ReadRecord, WindowConstants
  <2>3. SaveOwes' = SaveOwes /\ IntakeOwes' = IntakeOwes
    BY <2>1 DEF SaveOwes, IntakeOwes
  <2>4. win' \in WindowRecord /\ win'.next = win.next + 1 /\ win.next + SaveOwes' + IntakeOwes' <= MaxIds + 3
    <3>1. win.next + 1 + SaveOwes' + IntakeOwes' <= MaxIds + 4
      BY <2>1, <2>3, NextStays, OwesAre DEF WindowConstants
    <3>2. presses' \in 0..MaxPresses /\ (presses' = 0 => win.next <= MaxIds)
      BY <2>1 DEF WindowTypes, WindowCounts
    <3> QED  BY <2>1, <3>1, <3>2, NextTaken
  <2>5. WindowTyped'
    BY <2>1, <2>2, <2>4 DEF WindowTypes, WindowTyped
  <2>6. WindowCounts'
    <3>1. win'.next + SaveOwes' + IntakeOwes' <= MaxIds + 4 /\ win'.next <= MaxIds + 1
      BY <2>1, <2>3, <2>4, NextStays, OwesAre DEF WindowConstants
    <3> QED  BY <2>1, <3>1 DEF WindowTypes, WindowCounts
  <2>7. CallsOnce'
    BY <2>1, <2>4, CallsStayOnce
  <2> QED  BY <2>5, <2>6, <2>7 DEF WindowTypes
<1>2. CASE W!Asks
  <2>1. UNCHANGED <<service, win, save, intake, calls, stray, wasHeld, wasDone, presses>> /\ read \in ReadRecord
        /\ service \in ServiceRecord
    BY <1>2 DEF W!Asks, WindowTypes, WindowTyped
  <2>2. surprises' \in 0..MaxUpsets /\ service.bus <= surprises' + 1
    <3>1. surprises \in 0..MaxUpsets /\ service.bus <= surprises + 1 /\ service.bus \in 1..MaxUpsets + 1
          /\ MaxUpsets \in Nat
      BY <2>1 DEF WindowTypes, WindowCounts, ServiceRecord, WindowConstants
    <3>2. surprises' = surprises \/ (surprises < MaxUpsets /\ surprises' = surprises + 1)
      BY <1>2 DEF W!Asks, W!Upset
    <3> QED  BY <3>1, <3>2
  <2>3. read' \in ReadRecord
    <3>1. service.bus \in 0..MaxUpsets + 1 /\ W!ControlState \in W!Document
      BY <2>1 DEF ServiceRecord, W!ControlState, W!Document, WindowConstants
    <3> DEFINE a == [read EXCEPT !.asked = TRUE]
               b == [a EXCEPT !.bus = service.bus]
               doc == W!ControlState
               c == [b EXCEPT !.doc = doc]
    <3>2. a \in ReadRecord
      BY <2>1 DEF ReadRecord
    <3>3. [read EXCEPT !.asked = TRUE, !.bus = service.bus] = b
          /\ [read EXCEPT !.asked = TRUE, !.bus = service.bus, !.doc = doc] = c
      OBVIOUS
    <3>4. read' = a \/ read' = b \/ read' = c
      BY <1>2, <3>3 DEF W!Asks
    <3> HIDE DEF a
    <3>5. b \in ReadRecord
      BY <3>1, <3>2 DEF ReadRecord
    <3> HIDE DEF b, doc
    <3>6. c \in ReadRecord
      BY <3>1, <3>5 DEF ReadRecord, doc
    <3> QED  BY <3>2, <3>4, <3>5, <3>6
  <2>4. WindowTyped'
    BY <2>1, <2>3 DEF WindowTypes, WindowTyped
  <2>5. WindowCounts'
    BY <2>1, <2>2, CountsStay
  <2>6. CallsOnce'
    BY <2>1, CallsStayOnce
  <2> QED  BY <2>4, <2>5, <2>6 DEF WindowTypes
<1> QED  BY <1>1, <1>2

\* The calls of the buttons.
LEMMA FirstIs ==
  ASSUME WindowConstants, NEW left \in W!Writes, DOMAIN left # {}
  PROVE  W!First(left) \in DOMAIN left /\ W!First(left) \in Fields /\ left[W!First(left)] \in BOOLEAN
<1>1. left \in [DOMAIN left -> BOOLEAN] /\ DOMAIN left \in SUBSET Fields
  BY WritesAre
<1>2. \E f \in DOMAIN left : \A g \in DOMAIN left : f <= g
  BY <1>1 DEF WindowConstants
<1>3. W!First(left) \in DOMAIN left
  BY <1>2 DEF W!First
<1> QED  BY <1>1, <1>3

LEMMA SaveGoes ==
  ASSUME NEW call \in SaveCall, NEW got \in W!Outcomes \union {Nil}, NEW left \in W!Writes
  PROVE  /\ [call EXCEPT !.got = got, !.left = left] \in SaveCall
         /\ [call EXCEPT !.got = got, !.left = left].id = call.id
         /\ [call EXCEPT !.got = got, !.left = left].got = got
         /\ [call EXCEPT !.got = got, !.left = left].left = left
<1> DEFINE a == [call EXCEPT !.got = got]
           b == [a EXCEPT !.left = left]
<1>1. a \in SaveCall /\ a.id = call.id /\ a.got = got
  BY DEF SaveCall
<1>2. b = [call EXCEPT !.got = got, !.left = left]
  OBVIOUS
<1> HIDE DEF a
<1>3. b \in SaveCall /\ b.id = call.id /\ b.got = got /\ b.left = left
  BY <1>1 DEF SaveCall
<1> QED  BY <1>2, <1>3

LEMMA IntakeGoes ==
  ASSUME NEW call \in IntakeCall, NEW got \in {"ok", "error"}
  PROVE  LET next == [call EXCEPT !.got = got]
         IN  next \in IntakeCall /\ next.id = call.id /\ next.kind = "intake"
BY DEF IntakeCall

\* A call goes on: it keeps its id.
LEMMA CallGoesOn ==
  ASSUME WindowConstants, WindowTypes, NEW call \in calls, NEW next \in SaveCall \union IntakeCall, next.id = call.id,
         calls' = (calls \ {call}) \union {next}, next.kind = "save" /\ next.got = Nil => DOMAIN next.left # {},
         UNCHANGED <<win, save, intake, presses>>,
         surprises' \in 0..MaxUpsets, service'.bus <= surprises' + 1
  PROVE  WindowCounts' /\ CallsOnce' /\ calls' \subseteq SaveCall \union IntakeCall
<1>0. calls \subseteq SaveCall \union IntakeCall
  BY DEF WindowTypes, WindowTyped
<1>1. \A c \in calls' : \E d \in calls : d.id = c.id
  OBVIOUS
<1>2. WindowCounts'
  BY <1>1, CountsStay
<1>3. ASSUME NEW c \in calls'
      PROVE  0 < c.id /\ c.id < win'.next /\ (c.kind = "save" /\ c.got = Nil => DOMAIN c.left # {})
  <2>1. \A d \in calls : 0 < d.id /\ d.id < win.next /\ (d.kind = "save" /\ d.got = Nil => DOMAIN d.left # {})
    BY DEF WindowTypes, CallsOnce
  <2> QED  BY <2>1
<1>4. ASSUME NEW c \in calls', NEW d \in calls', c.id = d.id  PROVE c = d
  <2>1. \A x \in calls, y \in calls : x.id = y.id => x = y
    BY DEF WindowTypes, CallsOnce
  <2> QED  BY <1>4, <2>1
<1> QED  BY <1>0, <1>2, <1>3, <1>4 DEF CallsOnce

LEMMA UpsetIs ==
  ASSUME WindowConstants, WindowTypes, surprises' = surprises \/ W!Upset
  PROVE  surprises' \in 0..MaxUpsets /\ service.bus <= surprises' + 1
<1>1. surprises \in 0..MaxUpsets /\ service.bus <= surprises + 1 /\ service.bus \in 1..MaxUpsets + 1
      /\ MaxUpsets \in Nat
  BY DEF WindowTypes, WindowTyped, WindowCounts, ServiceRecord, WindowConstants
<1>2. surprises' = surprises \/ (surprises < MaxUpsets /\ surprises' = surprises + 1)
  BY DEF W!Upset
<1> QED  BY <1>1, <1>2

LEMMA WritesKeepTypes ==
  ASSUME WindowConstants, WindowTypes, NEW call \in calls,
         W!WriteTaken(call) \/ W!WriteRefused(call) \/ W!WriteLost(call)
  PROVE  WindowTypes'
<1>1. call \in SaveCall /\ call.kind = "save" /\ call.got = Nil
  <2>1. call.kind = "save" /\ call.got = Nil
    BY DEF W!WriteTaken, W!WriteRefused, W!WriteLost
  <2> QED  BY <2>1 DEF WindowTypes, WindowTyped, IntakeCall
<1>2. call.left \in W!Writes /\ DOMAIN call.left # {} /\ call.bus \in 1..MaxUpsets + 1
  BY <1>1 DEF WindowTypes, CallsOnce, SaveCall
<1> DEFINE f == W!First(call.left)
           v == call.left[f]
<1>3. f \in DOMAIN call.left /\ f \in Fields /\ v \in BOOLEAN
  BY <1>2, FirstIs
<1>4. service \in ServiceRecord /\ stray \subseteq StrayRecord /\ wasHeld \in BOOLEAN
  BY DEF WindowTypes, WindowTyped
<1>5. UNCHANGED <<win, save, intake, read, wasDone, presses>>
  BY DEF W!WriteTaken, W!WriteRefused, W!WriteLost
<1>6. surprises' \in 0..MaxUpsets /\ service.bus <= surprises' + 1
  BY UpsetIs DEF W!WriteTaken, W!WriteRefused, W!WriteLost
<1>7. service' \in ServiceRecord /\ service'.bus = service.bus /\ wasHeld' \in BOOLEAN /\ stray' \subseteq StrayRecord
  <2>1. CASE W!WriteTaken(call)
    <3> DEFINE conf == W!Put(service.conf, f, v)
    <3>1. W!Holds(conf) /\ stray' = stray
      BY <2>1 DEF W!WriteTaken
    <3>2. conf \in SUBSET Fields
      <4> HIDE DEF f, v
      <4> QED  BY <1>3, <1>4 DEF W!Put, ServiceRecord
    <3>3. service' = [service EXCEPT !.conf = conf]
      BY <3>1 DEF W!Holds
    <3>4. wasHeld' \in BOOLEAN
      BY <1>4, <3>1, Zenon DEF W!Holds
    <3> HIDE DEF conf
    <3>5. service' \in ServiceRecord /\ service'.bus = service.bus
      BY <1>4, <3>2, <3>3 DEF ServiceRecord
    <3> QED  BY <1>4, <3>1, <3>4, <3>5
  <2>2. CASE W!WriteRefused(call)
    BY <1>4, <2>2 DEF W!WriteRefused
  <2>3. CASE W!WriteLost(call)
    <3> DEFINE w == [bus |-> call.bus, field |-> f, value |-> v]
    <3>1. stray' \in {stray, stray \union {w}} /\ UNCHANGED <<service, wasHeld>>
      BY <2>3 DEF W!WriteLost
    <3>2. w \in StrayRecord
      <4> HIDE DEF f, v
      <4> QED  BY <1>2, <1>3 DEF StrayRecord
    <3> HIDE DEF w
    <3> QED  BY <1>4, <3>1, <3>2
  <2> QED  BY <2>1, <2>2, <2>3
<1>8. PICK got \in W!Outcomes \union {Nil}, left \in W!Writes :
        /\ calls' = (calls \ {call}) \union {[call EXCEPT !.got = got, !.left = left]}
        /\ got = Nil => DOMAIN left # {}
  <2>1. CASE W!WriteTaken(call)
    <3> DEFINE left == [g \in DOMAIN call.left \ {f} |-> call.left[g]]
               got == IF DOMAIN left = {} THEN "Complete" ELSE Nil
    <3>1. calls' = W!Going(call, got, left)
      BY <2>1 DEF W!WriteTaken
    <3>2. left \in [DOMAIN left -> BOOLEAN] /\ DOMAIN left \subseteq Fields
      <4>1. call.left \in [DOMAIN call.left -> BOOLEAN] /\ DOMAIN call.left \subseteq Fields
        BY <1>2, WritesAre
      <4> HIDE DEF f
      <4> QED  BY <4>1
    <3> HIDE DEF left
    <3>3. left \in W!Writes
      BY <3>2, WritesAre
    <3>4. got \in W!Outcomes \union {Nil} /\ (got = Nil => DOMAIN left # {})
      BY DEF W!Outcomes, WindowConstants
    <3> HIDE DEF got
    <3> QED  BY <3>1, <3>3, <3>4 DEF W!Going
  <2>2. CASE W!WriteRefused(call)
    <3>1. calls' = W!Going(call, "Rejected", << >>) /\ "Rejected" \in W!Outcomes /\ "Rejected" # Nil
      BY <2>2 DEF W!WriteRefused, W!Outcomes, WindowConstants
    <3> QED  BY <3>1, NothingWritten DEF W!Going
  <2>3. CASE W!WriteLost(call)
    <3>1. calls' = W!Going(call, "Unknown", << >>) /\ "Unknown" \in W!Outcomes /\ "Unknown" # Nil
      BY <2>3 DEF W!WriteLost, W!Outcomes, WindowConstants
    <3> QED  BY <3>1, NothingWritten DEF W!Going
  <2> QED  BY <2>1, <2>2, <2>3
<1> HIDE DEF f, v
<1> DEFINE next == [call EXCEPT !.got = got, !.left = left]
<1>9. next \in SaveCall /\ next.id = call.id /\ next.got = got /\ next.left = left
  <2>1. call \in SaveCall /\ got \in W!Outcomes \union {Nil} /\ left \in W!Writes
    BY <1>1
  <2>2. [call EXCEPT !.got = got, !.left = left] \in SaveCall
    BY <2>1, SaveGoes
  <2>3. [call EXCEPT !.got = got, !.left = left].id = call.id
    BY <2>1 DEF SaveCall
  <2>4. [call EXCEPT !.got = got, !.left = left].got = got
    BY <2>1 DEF SaveCall
  <2>5. [call EXCEPT !.got = got, !.left = left].left = left
    BY <2>1 DEF SaveCall
  <2> QED  BY <2>2, <2>3, <2>4, <2>5
<1> HIDE DEF next
<1>10. calls' = (calls \ {call}) \union {next}
  BY <1>8 DEF next
<1>11. WindowCounts' /\ CallsOnce' /\ calls' \subseteq SaveCall \union IntakeCall
  <2>1. service'.bus <= surprises' + 1 /\ (next.kind = "save" /\ next.got = Nil => DOMAIN next.left # {})
    BY <1>6, <1>7, <1>8, <1>9
  <2> QED  BY <1>5, <1>6, <1>9, <1>10, <2>1, CallGoesOn
<1>12. WindowTyped'
  BY <1>5, <1>7, <1>11 DEF WindowTypes, WindowTyped
<1> QED  BY <1>11, <1>12 DEF WindowTypes

LEMMA CommandsKeepTypes ==
  ASSUME WindowConstants, WindowTypes, NEW call \in calls, W!IntakeTaken(call) \/ W!IntakeLost(call)
  PROVE  WindowTypes'
<1>1. call \in IntakeCall /\ call.wish \in W!States
  <2>1. call.kind = "intake"
    BY DEF W!IntakeTaken, W!IntakeLost
  <2>2. call \in IntakeCall
    BY <2>1 DEF WindowTypes, WindowTyped, SaveCall
  <2> QED  BY <2>2 DEF IntakeCall
<1>2. UNCHANGED <<win, save, intake, read, stray, wasHeld, wasDone, presses>>
  BY DEF W!IntakeTaken, W!IntakeLost
<1>3. surprises' \in 0..MaxUpsets /\ service.bus <= surprises' + 1
  BY UpsetIs DEF W!IntakeTaken, W!IntakeLost
<1>4. service' \in ServiceRecord /\ service'.bus = service.bus
  <2>1. service' = service \/ service' = [service EXCEPT !.told = call.wish]
    BY DEF W!IntakeTaken, W!IntakeLost
  <2>2. service \in ServiceRecord
    BY DEF WindowTypes, WindowTyped
  <2> QED  BY <1>1, <2>1, <2>2 DEF ServiceRecord
<1>5. PICK got \in {"ok", "error"} : calls' = (calls \ {call}) \union {[call EXCEPT !.got = got]}
  BY DEF W!IntakeTaken, W!IntakeLost
<1> DEFINE next == [call EXCEPT !.got = got]
<1>6. next \in IntakeCall /\ next.id = call.id /\ next.kind = "intake"
  BY <1>1, IntakeGoes
<1> HIDE DEF next
<1>7. calls' = (calls \ {call}) \union {next}
  BY <1>5 DEF next
<1>8. WindowCounts' /\ CallsOnce' /\ calls' \subseteq SaveCall \union IntakeCall
  <2>1. service'.bus <= surprises' + 1 /\ ~(next.kind = "save" /\ next.got = Nil)
    BY <1>3, <1>4, <1>6
  <2> QED  BY <1>2, <1>3, <1>6, <1>7, <2>1, CallGoesOn
<1>9. WindowTyped'
  BY <1>2, <1>4, <1>8 DEF WindowTypes, WindowTyped
<1> QED  BY <1>8, <1>9 DEF WindowTypes

LEMMA SaveReplyKeepsTypes ==
  ASSUME WindowConstants, WindowTypes, NEW call \in calls, W!SaveReply(call)
  PROVE  WindowTypes'
<1>1. calls' = calls \ {call} /\ UNCHANGED <<service, intake, read, stray, wasDone, presses, surprises>>
  BY DEF W!SaveReply
<1>2. CASE ~(call.bus = win.bus /\ call.id = save.id)
  <2>1. UNCHANGED <<save, win, wasHeld>>
    BY <1>2 DEF W!SaveReply
  <2>2. WindowTyped'
    BY <1>1, <2>1 DEF WindowTypes, WindowTyped
  <2>3. WindowCounts'
    BY <1>1, <2>1, CountsStay DEF WindowTypes, WindowCounts
  <2>4. CallsOnce'
    BY <1>1, <2>1, CallsStayOnce
  <2> QED  BY <2>2, <2>3, <2>4 DEF WindowTypes
<1>3. CASE call.bus = win.bus /\ call.id = save.id
  <2>1. save.id # 0 /\ save \in SaveRecord
    BY <1>3, IdsAre DEF WindowTypes, WindowTyped, CallsOnce
  <2>2. win' = [win EXCEPT !.next = @ + 1]
    BY <1>3 DEF W!SaveReply
  <2>3. wasHeld' \in BOOLEAN
    BY <1>3, Zenon DEF W!SaveReply, W!Matches
  <2>4. PICK b \in BOOLEAN : b = (call.got = "Unknown")
    OBVIOUS
  <2> DEFINE n == win.next
             s == [save EXCEPT !.id = 0, !.after = n]
  <2>5. save' = [save EXCEPT !.id = 0, !.after = n, !.waiting = TRUE, !.failed = FALSE, !.uncertain = b]
    BY <1>3, <2>4 DEF W!SaveReply, W!NextId
  <2>6. n \in 0..W!Never
    BY NextStays, IdsAre
  <2> HIDE DEF n
  <2>7. s \in SaveRecord /\ s.id = 0 /\ s.verified \in BOOLEAN
    BY <2>1, <2>6, IdsAre DEF SaveRecord
  <2>8. save' = [s EXCEPT !.waiting = TRUE, !.failed = FALSE, !.uncertain = b]
    BY <2>5
  <2> HIDE DEF s
  <2>9. save' \in SaveRecord /\ save'.id = 0
    <3> DEFINE t == s.verified
    <3>1. save' = [s EXCEPT !.verified = t, !.waiting = TRUE, !.failed = FALSE, !.uncertain = b]
      BY <2>7, <2>8 DEF SaveRecord
    <3>2. t \in BOOLEAN
      BY <2>7
    <3> HIDE DEF t
    <3> QED  BY <2>7, <3>1, <3>2, SaveFlags
  <2>10. SaveOwes = 1 /\ SaveOwes' = 0 /\ IntakeOwes' \in {0, 1, 2} /\ IntakeOwes' <= IntakeOwes
         /\ IntakeOwes \in {0, 1, 2}
    BY <1>1, <2>1, <2>9 DEF SaveOwes, IntakeOwes
  <2>11. presses \in 0..MaxPresses /\ presses # 0 /\ win.next + SaveOwes + IntakeOwes <= MaxIds + 4 /\ MaxIds \in Nat
    BY <2>1 DEF WindowTypes, WindowCounts, WindowConstants
  <2>12. win' \in WindowRecord /\ win'.next = win.next + 1 /\ win.next + SaveOwes' + IntakeOwes' <= MaxIds + 3
    <3>1. win.next + 1 + SaveOwes' + IntakeOwes' <= MaxIds + 4
      BY <2>10, <2>11, NextStays
    <3> QED  BY <1>1, <2>2, <2>11, <3>1, NextTaken
  <2>13. WindowTyped'
    BY <1>1, <2>3, <2>9, <2>12 DEF WindowTypes, WindowTyped
  <2>14. WindowCounts'
    <3>1. win'.next + SaveOwes' + IntakeOwes' <= MaxIds + 4
      BY <2>10, <2>11, <2>12, NextStays
    <3> QED  BY <1>1, <2>11, <3>1 DEF WindowTypes, WindowCounts
  <2>15. CallsOnce'
    BY <1>1, <2>12, CallsStayOnce
  <2> QED  BY <2>13, <2>14, <2>15 DEF WindowTypes
<1> QED  BY <1>2, <1>3

LEMMA IntakeReplyKeepsTypes ==
  ASSUME WindowConstants, WindowTypes, NEW call \in calls, W!IntakeReply(call)
  PROVE  WindowTypes'
<1>1. calls' = calls \ {call} /\ UNCHANGED <<service, save, read, stray, wasHeld, presses, surprises>>
  BY DEF W!IntakeReply
<1>2. CASE ~(call.bus = win.bus /\ call.id = intake.id)
  <2>1. UNCHANGED <<intake, win, wasDone>>
    BY <1>2 DEF W!IntakeReply
  <2>2. WindowTyped'
    BY <1>1, <2>1 DEF WindowTypes, WindowTyped
  <2>3. WindowCounts'
    BY <1>1, <2>1, CountsStay DEF WindowTypes, WindowCounts
  <2>4. CallsOnce'
    BY <1>1, <2>1, CallsStayOnce
  <2> QED  BY <2>2, <2>3, <2>4 DEF WindowTypes
<1>3. CASE call.bus = win.bus /\ call.id = intake.id
  <2>1. intake.id # 0 /\ intake \in IntakeRecord
    BY <1>3, IdsAre DEF WindowTypes, WindowTyped, CallsOnce
  <2>2. win' = [win EXCEPT !.next = @ + 1]
    BY <1>3 DEF W!IntakeReply
  <2>3. wasDone' \in BOOLEAN
    BY <1>3, Zenon DEF W!IntakeReply
  <2>4. intake' \in IntakeRecord /\ intake'.id \in {0, intake.id}
    <3> DEFINE n == win.next
    <3>1. n \in W!Ids /\ n \in 0..W!Never
      BY NextStays, IdsAre
    <3>2. intake' = [intake EXCEPT !.after = n] \/ intake' = W!Unverified(intake, n)
      BY <1>3 DEF W!IntakeReply, W!NextId
    <3> HIDE DEF n
    <3>3. [intake EXCEPT !.after = n] \in IntakeRecord /\ [intake EXCEPT !.after = n].id = intake.id
      BY <2>1, <3>1 DEF IntakeRecord
    <3> QED  BY <2>1, <3>1, <3>2, <3>3, UnverifiedTypes
  <2>5. IntakeOwes = 2 /\ IntakeOwes' \in {0, 1}
    <3>1. IntakeOwes = 2
      BY <1>3, <2>1 DEF IntakeOwes
    <3>2. \A c \in calls' : c.id # intake.id
      BY <1>1, <1>3 DEF WindowTypes, CallsOnce
    <3> QED  BY <2>4, <3>1, <3>2 DEF IntakeOwes
  <2>6. SaveOwes' = SaveOwes /\ SaveOwes \in {0, 1}
    BY <1>1 DEF SaveOwes
  <2>7. presses \in 0..MaxPresses /\ presses # 0 /\ win.next + SaveOwes + IntakeOwes <= MaxIds + 4 /\ MaxIds \in Nat
    BY <2>1 DEF WindowTypes, WindowCounts, WindowConstants
  <2>8. win' \in WindowRecord /\ win'.next = win.next + 1 /\ win.next + SaveOwes' + IntakeOwes' <= MaxIds + 3
    <3>1. win.next + 1 + SaveOwes' + IntakeOwes' <= MaxIds + 4
      BY <2>5, <2>6, <2>7, NextStays
    <3> QED  BY <1>1, <2>2, <2>7, <3>1, NextTaken
  <2>9. WindowTyped'
    BY <1>1, <2>3, <2>4, <2>8 DEF WindowTypes, WindowTyped
  <2>10. WindowCounts'
    <3>1. win'.next + SaveOwes' + IntakeOwes' <= MaxIds + 4
      BY <2>5, <2>6, <2>7, <2>8, NextStays
    <3> QED  BY <1>1, <2>7, <3>1 DEF WindowTypes, WindowCounts
  <2>11. CallsOnce'
    BY <1>1, <2>8, CallsStayOnce
  <2> QED  BY <2>9, <2>10, <2>11 DEF WindowTypes
<1> QED  BY <1>2, <1>3

\* A status read is applied: the window may learn of another app first.
LEMMA AppliesKeepsTypes == ASSUME WindowConstants, WindowTypes, W!Applies  PROVE WindowTypes'
<1> DEFINE moved == read.bus # win.bus
           s1 == IF moved THEN W!ForgottenSave(save) ELSE save
           i1 == IF moved THEN W!Unverified(intake, W!NextId) ELSE intake
           more == moved /\ intake.id # 0
           n == IF more THEN win.next + 1 ELSE win.next
           w1 == IF moved THEN [win EXCEPT !.bus = read.bus, !.doc = Nil, !.last = 0,
                                           !.next = IF intake.id # 0 THEN @ + 1 ELSE @] ELSE win
           dropped == read.bus = 0 \/ read.id < w1.last
           edits == IF read.doc = Nil THEN win.edits ELSE W!Outstanding(win.edits, read.doc.conf)
<1>1. /\ read # Nil /\ read' = Nil
      /\ win' = IF dropped THEN w1 ELSE [w1 EXCEPT !.last = read.id, !.doc = read.doc, !.edits = edits]
      /\ save' = IF dropped \/ read.doc = Nil THEN s1 ELSE W!SettledSave(s1, read.id, read.doc.conf, edits)
      /\ intake' = IF dropped \/ read.doc = Nil THEN i1 ELSE W!SettledIntake(i1, read.id, read.doc.capture)
      /\ UNCHANGED <<service, calls, stray, presses, surprises>>
  BY DEF W!Applies
<1>2. /\ win \in WindowRecord /\ save \in SaveRecord /\ intake \in IntakeRecord /\ read \in ReadRecord
      /\ wasHeld \in BOOLEAN /\ wasDone \in BOOLEAN
  BY <1>1 DEF WindowTypes, WindowTyped
<1>3. wasHeld' \in BOOLEAN
  BY <1>2, Zenon DEF W!Applies, W!Matches
<1>4. wasDone' \in BOOLEAN
  BY <1>2, Zenon DEF W!Applies
<1>5. s1 \in SaveRecord /\ s1.id \in {0, save.id}
  BY <1>2, ForgottenSaveTypes
<1>6. i1 \in IntakeRecord /\ i1.id \in {0, intake.id} /\ (moved => i1.id = 0)
  BY <1>2, UnverifiedTypes, NextStays DEF W!NextId
<1>7. edits \in W!Writes
  BY <1>2, OutstandingTypes DEF WindowRecord
<1>8. save' \in SaveRecord /\ save'.id \in {0, save.id}
  <2> HIDE DEF s1, i1, edits, dropped
  <2> QED  BY <1>1, <1>5, SettledSaveTypes
<1>9. intake' \in IntakeRecord /\ intake'.id \in {0, intake.id} /\ (moved => intake'.id = 0)
  <2> HIDE DEF s1, i1, edits, dropped, moved
  <2> QED  BY <1>1, <1>6, SettledIntakeTypes
<1>10. SaveOwes' <= SaveOwes /\ SaveOwes \in {0, 1} /\ SaveOwes' \in {0, 1}
  BY <1>8 DEF SaveOwes
<1>11. /\ IntakeOwes' <= IntakeOwes /\ IntakeOwes \in {0, 1, 2} /\ IntakeOwes' \in {0, 1, 2}
       /\ (more => IntakeOwes # 0 /\ IntakeOwes' = 0)
  <2> HIDE DEF moved
  <2> QED  BY <1>1, <1>9 DEF IntakeOwes
<1>12. win.next + SaveOwes + IntakeOwes <= MaxIds + 4 /\ MaxIds \in Nat /\ presses \in 0..MaxPresses
       /\ (presses = 0 => save.id = 0 /\ intake.id = 0 /\ win.next <= MaxIds + 1)
  BY DEF WindowTypes, WindowCounts, WindowConstants
<1>13. n \in {win.next, win.next + 1} /\ (~more => n = win.next) /\ (more => n = win.next + 1 /\ intake.id # 0)
  OBVIOUS
<1>14. n + SaveOwes' + IntakeOwes' <= MaxIds + 4 /\ (presses = 0 => n <= MaxIds + 1) /\ n \in Nat \ {0}
       /\ n <= MaxIds + 4
  <2> HIDE DEF n, more
  <2> QED  BY <1>10, <1>11, <1>12, <1>13, NextStays
<1>15. n \in W!Ids \ {0}
  <2> HIDE DEF n
  <2> QED  BY <1>12, <1>14, NextIsAnId
<1>16. w1 \in WindowRecord /\ w1.next = n
  <2>1. CASE moved
    <3> DEFINE bus == read.bus
               a == [win EXCEPT !.bus = bus, !.doc = Nil]
               b == [a EXCEPT !.last = 0]
    <3>1. bus \in 0..MaxUpsets + 1
      BY <1>2 DEF ReadRecord
    <3>2. w1 = [b EXCEPT !.next = n]
      BY <1>2, <2>1 DEF WindowRecord
    <3> HIDE DEF bus, n
    <3>3. a \in WindowRecord
      BY <1>2, <3>1 DEF WindowRecord
    <3> HIDE DEF a
    <3>4. b \in WindowRecord
      BY <3>3, IdsAre DEF WindowRecord
    <3> HIDE DEF b, w1
    <3> QED  BY <1>15, <3>2, <3>4 DEF WindowRecord
  <2>2. CASE ~moved
    BY <1>2, <2>2
  <2> QED  BY <2>1, <2>2
<1>17. win' \in WindowRecord /\ win'.next = n
  <2> HIDE DEF w1, n, edits, dropped
  <2>1. CASE win' = w1
    BY <1>16, <2>1
  <2>2. CASE win' = [w1 EXCEPT !.last = read.id, !.doc = read.doc, !.edits = edits]
    <3> DEFINE a == [w1 EXCEPT !.last = read.id]
               b == [a EXCEPT !.doc = read.doc]
    <3>1. read.id \in W!Ids /\ read.doc \in W!Document \union {Nil}
      BY <1>2 DEF ReadRecord
    <3>2. a \in WindowRecord /\ a.next = n
      BY <1>16, <3>1 DEF WindowRecord
    <3>3. win' = [b EXCEPT !.edits = edits]
      BY <2>2
    <3> HIDE DEF a
    <3>4. b \in WindowRecord /\ b.next = n
      BY <3>1, <3>2 DEF WindowRecord
    <3> HIDE DEF b
    <3> QED  BY <1>7, <3>3, <3>4 DEF WindowRecord
  <2> QED  BY <1>1, <2>1, <2>2
<1>18. WindowTyped'
  BY <1>1, <1>3, <1>4, <1>8, <1>9, <1>17 DEF WindowTypes, WindowTyped
<1>19. WindowCounts'
  <2> HIDE DEF n
  <2>1. win'.next + SaveOwes' + IntakeOwes' <= MaxIds + 4 /\ (presses = 0 => win'.next <= MaxIds + 1)
    BY <1>14, <1>17
  <2> QED  BY <1>1, <1>8, <1>9, <1>12, <2>1 DEF WindowTypes, WindowCounts
<1>20. CallsOnce'
  BY <1>1, <1>13, <1>17, CallsStayOnce
<1> QED  BY <1>18, <1>19, <1>20 DEF WindowTypes

LEMMA WindowTypesStep == ASSUME WindowConstants, WindowTypes, [W!Next]_(W!wvars)  PROVE WindowTypes'
<1>1. CASE UNCHANGED W!wvars
  <2>1. WindowTyped'
    BY <1>1 DEF W!wvars, WindowTypes, WindowTyped
  <2>2. WindowCounts'
    BY <1>1, CountsStay DEF W!wvars, WindowTypes, WindowCounts
  <2>3. CallsOnce'
    BY <1>1 DEF W!wvars, WindowTypes, CallsOnce
  <2> QED  BY <2>1, <2>2, <2>3 DEF WindowTypes
<1>2. CASE W!Next
  BY <1>2, AppKeepsTypes, EditKeepsTypes, PressSaveKeepsTypes, PressIntakeKeepsTypes, ExpireKeepsTypes,
     ReadsKeepTypes,
     WritesKeepTypes, CommandsKeepTypes, SaveReplyKeepsTypes, IntakeReplyKeepsTypes, AppliesKeepsTypes DEF W!Next
<1> QED  BY <1>1, <1>2

-----------------------------------------------------------------------------
(* The settings *)

SettingValues == {TRUE, FALSE, Nil}
WholeSettings == [version : 0..2, set : [S!Keys -> SettingValues], consent : BOOLEAN, whole : {TRUE}]
SettingsAssumed ==
  Nil \notin BOOLEAN /\ Nil \notin WholeSettings /\ Nil # S!Torn /\ MaxWrites \in Nat /\ MaxEdits \in Nat

WriterPlaces == {"idle", "begin", "copy", "fill", "remove", "read", "check", "rename", "report"}
WriterRecord == [at : WriterPlaces, kind : {"start", "setting", "policy", "load", Nil},
                 put : [S!Keys -> SettingValues],
                 basis : WholeSettings \cup {Nil}, checked : WholeSettings \cup {Nil}]

SettingsTyped ==
  /\ file \in WholeSettings \cup {S!Torn, Nil} /\ legacy \in WholeSettings \cup {Nil} /\ old \in {legacy, Nil}
  /\ daemon \in {"down", "starting", "up"} /\ live \in [source : BOOLEAN, urls : BOOLEAN] \cup {Nil}
  /\ writer \in [S!Writers -> WriterRecord]
  /\ writes \in 0..MaxWrites /\ upsets \in 0..MaxEdits
  /\ said \in [S!Keys -> SettingValues] /\ agreed \in BOOLEAN /\ last \in {Nil, "app", "command", "hand"}

\* One write at a time of a process.
OneWriter ==
  \A v, w \in S!Writers : v # w /\ S!Process(v) = S!Process(w) => writer[v].at = "idle" \/ writer[w].at = "idle"

\* What is so at each place of a write.
WriterStands(w) ==
  LET r == writer[w] IN
  /\ r.at = "copy" => legacy # Nil /\ (file = Nil \/ last # S!Process(w))
  /\ r.at = "fill" => legacy # Nil /\ file # Nil
  /\ r.at = "remove" => file # Nil /\ (S!Readable(file) \/ said = S!Nothing)
  /\ r.at = "read" => file # Nil \/ old = Nil
  /\ r.at \in {"check", "rename", "report"} => (r.basis = Nil => old = Nil) /\ (S!PolicyOf(r.basis).urls => agreed)
  /\ r.at = "rename" => r.checked = r.basis /\ (file = r.basis \/ last # S!Process(w))
  /\ r.at = "report" => (r.put["urls"] = TRUE => agreed)

WritersStand == \A w \in S!Writers : WriterStands(w)

\* What was saved is in the file, or still in the older one, as a value its owner chose.
ChoicesKept ==
  \A k \in S!Keys : said[k] # Nil =>
    IF S!Readable(file) THEN S!Chosen(file)[k] = said[k] ELSE old # Nil /\ S!Chosen(old)[k] = said[k]

AgreedTo(p) == p.urls => agreed
PoliciesAgreed == (live # Nil => AgreedTo(live)) /\ AgreedTo(S!PolicyOf(file)) /\ AgreedTo(S!PolicyOf(legacy))

SettingsInv == SettingsTyped /\ OneWriter /\ WritersStand /\ ChoicesKept /\ PoliciesAgreed

LEMMA PoliciesTyped ==
  ASSUME SettingsAssumed
  PROVE  /\ \A f \in WholeSettings : S!Readable(f) /\ f # S!Torn /\ f # Nil
         /\ ~S!Readable(Nil) /\ ~S!Readable(S!Torn)
         /\ \A f \in WholeSettings \cup {S!Torn, Nil} : S!PolicyOf(f) \in [source : BOOLEAN, urls : BOOLEAN]
         /\ ~S!PolicyOf(Nil).urls /\ ~S!PolicyOf(S!Torn).urls
<1>1. \A f \in WholeSettings : S!Readable(f) /\ f # S!Torn /\ f # Nil
  <2>1. S!Torn.whole = FALSE /\ \A f \in WholeSettings : f.whole = TRUE /\ f # Nil
    BY DEF SettingsAssumed, WholeSettings, S!Torn
  <2> QED  BY <2>1 DEF S!Readable
<1>2. ~S!Readable(Nil) /\ ~S!Readable(S!Torn)
  BY DEF S!Readable, S!Torn
<1>3. \A f \in WholeSettings \cup {S!Torn, Nil} : S!PolicyOf(f) \in [source : BOOLEAN, urls : BOOLEAN]
  <2>1. \A f \in WholeSettings, k \in S!Keys : S!Choice(f, k) \in BOOLEAN /\ S!Consented(f) \in BOOLEAN
    BY DEF WholeSettings, S!Choice, S!Consented, S!Keys, SettingValues
  <2> QED  BY <1>2, <2>1 DEF S!PolicyOf, S!Keys
<1>4. ~S!PolicyOf(Nil).urls /\ ~S!PolicyOf(S!Torn).urls
  BY <1>2 DEF S!PolicyOf
<1> QED  BY <1>1, <1>2, <1>3, <1>4

\* What a write makes of the file it read.
LEMMA OverlaidIs ==
  ASSUME SettingsAssumed, NEW f \in WholeSettings \cup {Nil}, NEW put \in [S!Keys -> SettingValues]
  PROVE  LET b == IF f = Nil THEN S!Map(0, S!Nothing, FALSE) ELSE f IN
         /\ S!Overlaid(f, put) \in WholeSettings /\ S!Overlaid(f, put).version = 2
         /\ S!Overlaid(f, put).consent = (S!Consented(b) \/ put["urls"] # Nil)
         /\ \A k \in S!Keys : S!Overlaid(f, put).set[k] = IF put[k] # Nil THEN put[k] ELSE S!Chosen(b)[k]
<1> DEFINE b == IF f = Nil THEN S!Map(0, S!Nothing, FALSE) ELSE f
<1> DEFINE u == S!Upgraded(b)
<1> DEFINE s == [k \in S!Keys |-> IF put[k] # Nil THEN put[k] ELSE u.set[k]]
<1>1. b \in WholeSettings
  <2>1. S!Nothing \in [S!Keys -> SettingValues]
    BY DEF S!Nothing, SettingValues
  <2>2. S!Map(0, S!Nothing, FALSE) \in WholeSettings
    BY <2>1 DEF S!Map, WholeSettings
  <2> QED  BY <2>2
<1>2. u.consent = S!Consented(b) /\ u.set = S!Chosen(b) /\ u.version = 2 /\ u \in WholeSettings
  <2>1. S!Consented(b) \in BOOLEAN /\ S!Chosen(b) \in [S!Keys -> SettingValues]
    BY <1>1 DEF WholeSettings, S!Consented, S!Chosen, S!Keys, SettingValues, S!PreVersion, S!Frozen
  <2> HIDE DEF b
  <2> QED  BY <2>1 DEF S!Upgraded, WholeSettings
<1>3. s \in [S!Keys -> SettingValues]
  BY <1>2 DEF WholeSettings
<1>4. S!Overlaid(f, put) = [[u EXCEPT !.set = s] EXCEPT !.consent = u.consent \/ put["urls"] # Nil]
  BY DEF S!Overlaid
<1> HIDE DEF b, u, s
<1>5. [u EXCEPT !.set = s] \in WholeSettings /\ [u EXCEPT !.set = s].set = s /\ [u EXCEPT !.set = s].version = 2
  BY <1>2, <1>3 DEF WholeSettings
<1>6. /\ S!Overlaid(f, put) \in WholeSettings /\ S!Overlaid(f, put).set = s /\ S!Overlaid(f, put).version = 2
      /\ S!Overlaid(f, put).consent = (u.consent \/ put["urls"] # Nil)
  BY <1>2, <1>4, <1>5 DEF WholeSettings
<1> QED  BY <1>2, <1>6 DEF b, s

\* Addresses that the new file allows, the old one allowed, or the write turns on.
LEMMA OverlaidPolicy ==
  ASSUME SettingsAssumed, NEW f \in WholeSettings \cup {Nil}, NEW put \in [S!Keys -> SettingValues],
         S!PolicyOf(S!Overlaid(f, put)).urls
  PROVE  S!PolicyOf(f).urls \/ put["urls"] = TRUE
<1> DEFINE b == IF f = Nil THEN S!Map(0, S!Nothing, FALSE) ELSE f
<1> DEFINE d == S!Overlaid(f, put)
<1> HIDE DEF d
<1>1. /\ d.version = 2 /\ d.consent = (S!Consented(b) \/ put["urls"] # Nil) /\ d \in WholeSettings
      /\ d.set["urls"] = IF put["urls"] # Nil THEN put["urls"] ELSE S!Chosen(b)["urls"]
  <2>1. /\ d.version = 2 /\ d.consent = (S!Consented(b) \/ put["urls"] # Nil) /\ d \in WholeSettings
        /\ \A k \in S!Keys : d.set[k] = IF put[k] # Nil THEN put[k] ELSE S!Chosen(b)[k]
    BY OverlaidIs DEF d
  <2>2. "urls" \in S!Keys
    BY DEF S!Keys
  <2> HIDE DEF b
  <2> QED  BY <2>1, <2>2
<1>2. S!Choice(d, "urls") /\ S!Consented(d)
  BY <1>1, PoliciesTyped DEF S!PolicyOf, d
<1>3. d.consent /\ (d.set["urls"] = Nil \/ d.set["urls"] = TRUE)
  <2>1. d.set["urls"] \in SettingValues
    BY <1>1 DEF WholeSettings, S!Keys
  <2>2. d.consent
    BY <1>1, <1>2 DEF S!Consented
  <2>3. d.set["urls"] = Nil \/ d.set["urls"]
    <3>1. d.version # 0 /\ S!Choice(d, "urls")
      BY <1>1, <1>2
    <3> QED  BY <3>1 DEF S!Choice
  <2> QED  BY <2>1, <2>2, <2>3 DEF SettingValues, SettingsAssumed
<1>4. CASE put["urls"] # Nil
  BY <1>1, <1>3, <1>4
<1>5. CASE put["urls"] = Nil
  <2>1. S!Consented(b) /\ (S!Chosen(b)["urls"] = Nil \/ S!Chosen(b)["urls"] = TRUE)
    BY <1>1, <1>3, <1>5
  <2>2. f # Nil
    BY <2>1 DEF S!Consented, S!Map
  <2>3. f \in WholeSettings /\ f.set["urls"] \in SettingValues /\ f.version \in Nat
    <3>1. f \in WholeSettings /\ "urls" \in S!Keys
      BY <2>2 DEF S!Keys
    <3>2. f.set \in [S!Keys -> SettingValues] /\ f.version \in 0..2
      BY <3>1 DEF WholeSettings
    <3> QED  BY <3>1, <3>2
  <2>4. S!Choice(f, "urls") = TRUE
    BY <2>1, <2>2, <2>3 DEF S!Choice, S!Chosen, S!Keys, S!PreVersion, S!Frozen, SettingValues
  <2> QED  BY <2>1, <2>2, <2>3, <2>4, PoliciesTyped DEF S!PolicyOf
<1> QED  BY <1>4, <1>5

LEMMA IdleTyped ==
  ASSUME SettingsAssumed
  PROVE  S!Idle \in WriterRecord /\ S!Nothing \in [S!Keys -> SettingValues] /\ S!Idle.at = "idle"
BY DEF S!Idle, S!Nothing, WriterRecord, WriterPlaces, SettingValues

LEMMA OthersWrite ==
  ASSUME OneWriter, NEW w \in S!Writers, writer[w].at # "idle", NEW v \in S!Writers, v # w, writer[v].at # "idle"
  PROVE  S!Process(v) # S!Process(w)
BY DEF OneWriter

\* A write goes on, and nothing else changes.
LEMMA WriteGoesOn ==
  ASSUME SettingsAssumed, SettingsInv, NEW w \in S!Writers, NEW r \in WriterRecord, writer[w].at # "idle",
         writer' = [writer EXCEPT ![w] = r], WriterStands(w)',
         UNCHANGED <<file, old, legacy, daemon, live, writes, upsets, last, said, agreed>>
  PROVE  SettingsInv'
<1>1. writer' \in [S!Writers -> WriterRecord] /\ \A v \in S!Writers : v # w => writer'[v] = writer[v]
  BY DEF SettingsInv, SettingsTyped
<1>2. SettingsTyped'
  BY <1>1 DEF SettingsInv, SettingsTyped
<1>3. OneWriter'
  BY <1>1 DEF SettingsInv, OneWriter
<1>4. WritersStand'
  BY <1>1 DEF SettingsInv, WritersStand, WriterStands
<1>5. ChoicesKept' /\ PoliciesAgreed'
  BY DEF SettingsInv, ChoicesKept, PoliciesAgreed, AgreedTo
<1> QED  BY <1>2, <1>3, <1>4, <1>5 DEF SettingsInv

\* A write ends, and the app keeps to a policy that was agreed to.
LEMMA WriteEnds ==
  ASSUME SettingsAssumed, SettingsInv, NEW w \in S!Writers,
         NEW p \in [source : BOOLEAN, urls : BOOLEAN], AgreedTo(p), live' \in {live, p},
         writer' = [writer EXCEPT ![w] = S!Idle], daemon' \in {daemon, "up"}, upsets' \in 0..MaxEdits,
         UNCHANGED <<file, old, legacy, writes, last, said, agreed>>
  PROVE  SettingsInv'
<1>1. writer' \in [S!Writers -> WriterRecord] /\ (\A v \in S!Writers : v # w => writer'[v] = writer[v])
      /\ writer'[w] = S!Idle
  BY IdleTyped DEF SettingsInv, SettingsTyped
<1>2. SettingsTyped'
  BY <1>1 DEF SettingsInv, SettingsTyped
<1>3. OneWriter'
  BY <1>1, IdleTyped DEF SettingsInv, OneWriter
<1>4. WritersStand'
  BY <1>1, IdleTyped DEF SettingsInv, WritersStand, WriterStands
<1>5. ChoicesKept' /\ PoliciesAgreed'
  BY DEF SettingsInv, ChoicesKept, PoliciesAgreed, AgreedTo
<1> QED  BY <1>2, <1>3, <1>4, <1>5 DEF SettingsInv

LEMMA WriteBegins ==
  ASSUME SettingsAssumed, SettingsInv, NEW w \in S!Writers, NEW kind \in {"start", "setting", "policy", "load"},
         NEW put \in [S!Keys -> SettingValues], S!Begin(w, kind, put), daemon' \in {daemon, "starting"},
         UNCHANGED <<file, old, legacy, live, upsets, last, said, agreed>>
  PROVE  SettingsInv'
<1> DEFINE r == [S!Idle EXCEPT !.at = "begin", !.kind = kind, !.put = put]
<1>1. r = [at |-> "begin", kind |-> kind, put |-> put, basis |-> Nil, checked |-> Nil]
  <2> DEFINE i == [at |-> "begin", kind |-> Nil, put |-> S!Nothing, basis |-> Nil, checked |-> Nil]
  <2> DEFINE k == [at |-> "begin", kind |-> kind, put |-> S!Nothing, basis |-> Nil, checked |-> Nil]
  <2>1. [S!Idle EXCEPT !.at = "begin"] = i
    BY DEF S!Idle
  <2>2. [i EXCEPT !.kind = kind] = k
        /\ [k EXCEPT !.put = put] = [at |-> "begin", kind |-> kind, put |-> put, basis |-> Nil, checked |-> Nil]
    OBVIOUS
  <2>3. r = [[[S!Idle EXCEPT !.at = "begin"] EXCEPT !.kind = kind] EXCEPT !.put = put]
    OBVIOUS
  <2> HIDE DEF r, i, k
  <2> QED  BY <2>1, <2>2, <2>3
<1>2. r \in WriterRecord /\ r.at = "begin"
  BY <1>1 DEF WriterRecord, WriterPlaces
<1> HIDE DEF r
<1>3. writer' \in [S!Writers -> WriterRecord] /\ (\A v \in S!Writers : v # w => writer'[v] = writer[v])
      /\ writer'[w] = r
  BY <1>2 DEF SettingsInv, SettingsTyped, S!Begin, r
<1>4. SettingsTyped'
  BY <1>3 DEF SettingsInv, SettingsTyped, S!Begin, SettingsAssumed
<1>5. OneWriter'
  BY <1>3 DEF SettingsInv, OneWriter, S!Begin, S!Locked
<1>6. WritersStand'
  BY <1>2, <1>3 DEF SettingsInv, WritersStand, WriterStands
<1>7. ChoicesKept' /\ PoliciesAgreed'
  BY DEF SettingsInv, ChoicesKept, PoliciesAgreed, AgreedTo
<1> QED  BY <1>4, <1>5, <1>6, <1>7 DEF SettingsInv

LEMMA OnlyTyped ==
  ASSUME SettingsAssumed
  PROVE  \A k \in S!Keys, v \in BOOLEAN : S!Only(k, v) \in [S!Keys -> SettingValues]
BY DEF S!Only, S!Nothing, SettingValues

LEMMA BeginningsKeepSettings ==
  ASSUME SettingsAssumed, SettingsInv, S!AppStarts \/ S!WindowWrites \/ S!AsideWrites \/ S!CommandWrites
  PROVE  SettingsInv'
<1>0. {"cursor", "offer", "source", "urls"} = S!Keys /\ {"window", "aside", "command"} = S!Writers
  BY DEF S!Keys, S!Writers
<1>1. CASE S!AppStarts
  BY <1>0, <1>1, WriteBegins, IdleTyped DEF S!AppStarts
<1>2. CASE S!WindowWrites
  <2>1. PICK kind \in {"setting", "policy"}, k \in S!Keys, v \in BOOLEAN : S!Begin("window", kind, S!Only(k, v))
    BY <1>0, <1>2 DEF S!WindowWrites
  <2> QED  BY <1>0, <1>2, <2>1, WriteBegins, OnlyTyped DEF S!WindowWrites
<1>3. CASE S!AsideWrites
  BY <1>0, <1>3, WriteBegins, OnlyTyped DEF S!AsideWrites
<1>4. CASE S!CommandWrites
  BY <1>0, <1>4, WriteBegins, OnlyTyped, IdleTyped DEF S!CommandWrites
<1> QED  BY <1>1, <1>2, <1>3, <1>4

LEMMA PlaceIs ==
  ASSUME SettingsInv, NEW w \in S!Writers, NEW a \in {"begin", "copy", "fill", "rename"}, S!At(w, a)
  PROVE  \E r \in WriterRecord :
           /\ writer' = [writer EXCEPT ![w] = r] /\ writer'[w] = r /\ writer' \in [S!Writers -> WriterRecord]
           /\ r.at = S!Following[a] /\ r.basis = writer[w].basis /\ r.checked = writer[w].checked
              /\ r.put = writer[w].put
           /\ \A v \in S!Writers : v # w => writer'[v] = writer[v]
<1>1. writer[w] \in WriterRecord /\ writer \in [S!Writers -> WriterRecord] /\ S!Following[a] \in WriterPlaces
  BY DEF SettingsInv, SettingsTyped, S!Following, WriterPlaces
<1> DEFINE r == [writer[w] EXCEPT !.at = S!Following[a]]
<1>2. /\ r \in WriterRecord /\ r.at = S!Following[a] /\ r.basis = writer[w].basis
      /\ r.checked = writer[w].checked /\ r.put = writer[w].put
  BY <1>1 DEF WriterRecord
<1>3. writer' = [writer EXCEPT ![w] = r]
  BY DEF S!At
<1> HIDE DEF r
<1> QED  BY <1>1, <1>2, <1>3

LEMMA MovesKeepSettings ==
  ASSUME SettingsAssumed, SettingsInv, NEW w \in S!Writers, S!Migrates(w) \/ S!NothingToMigrate(w) \/ S!Checks(w)
  PROVE  SettingsInv'
<1>1. CASE S!Migrates(w)
  <2>1. PICK r \in WriterRecord : writer' = [writer EXCEPT ![w] = r] /\ writer'[w] = r /\ r.at = "copy"
    BY <1>1, PlaceIs DEF S!Migrates, S!Following
  <2>2. WriterStands(w)'
    BY <1>1, <2>1 DEF S!Migrates, WriterStands, SettingsInv, SettingsTyped
  <2> QED  BY <1>1, <2>1, <2>2, WriteGoesOn DEF S!Migrates, S!At
<1>2. CASE S!NothingToMigrate(w)
  <2>1. PICK r \in WriterRecord : writer' = [writer EXCEPT ![w] = r] /\ writer'[w] = r /\ r.at = "read"
    <3>1. [writer[w] EXCEPT !.at = "read"] \in WriterRecord /\ [writer[w] EXCEPT !.at = "read"].at = "read"
      BY DEF SettingsInv, SettingsTyped, WriterRecord, WriterPlaces
    <3>2. writer' = [writer EXCEPT ![w] = [writer[w] EXCEPT !.at = "read"]]
      BY <1>2 DEF S!NothingToMigrate
    <3> QED  BY <3>1, <3>2 DEF SettingsInv, SettingsTyped
  <2>2. WriterStands(w)'
    BY <1>2, <2>1 DEF S!NothingToMigrate, WriterStands
  <2> QED  BY <1>2, <2>1, <2>2, WriteGoesOn DEF S!NothingToMigrate
<1>3. CASE S!Checks(w)
  <2> DEFINE q == [writer[w] EXCEPT !.at = "rename", !.checked = file]
  <2>1. writer[w] \in WriterRecord /\ writer[w].at = "check" /\ writer[w].basis = file
        /\ file \in WholeSettings \cup {Nil}
    BY <1>3 DEF SettingsInv, SettingsTyped, WriterRecord, S!Checks, S!IsCurrent
  <2>2. q \in WriterRecord /\ q.at = "rename" /\ q.checked = file /\ q.basis = file
    BY <2>1 DEF WriterRecord, WriterPlaces
  <2>3. writer' = [writer EXCEPT ![w] = q]
    BY <1>3 DEF S!Checks
  <2> HIDE DEF q
  <2>4. writer'[w] = q
    BY <2>3 DEF SettingsInv, SettingsTyped
  <2>5. WriterStands(w)'
    BY <1>3, <2>1, <2>2, <2>4 DEF SettingsInv, WritersStand, WriterStands, S!Checks
  <2> QED  BY <1>3, <2>1, <2>2, <2>3, <2>5, WriteGoesOn DEF S!Checks
<1> QED  BY <1>1, <1>2, <1>3

LEMMA ReadKeepsSettings == ASSUME SettingsAssumed, SettingsInv, NEW w \in S!Writers, S!Read(w)  PROVE SettingsInv'
<1>1. S!PolicyOf(file) \in [source : BOOLEAN, urls : BOOLEAN] /\ AgreedTo(S!PolicyOf(file))
  BY PoliciesTyped DEF SettingsInv, SettingsTyped, PoliciesAgreed
<1>2. CASE writer[w].kind = "load" \/ (file # Nil /\ ~file.whole)
  <2>1. writer' = [writer EXCEPT ![w] = S!Idle] /\ daemon' \in {daemon, "up"} /\ live' \in {live, S!PolicyOf(file)}
    BY <1>2 DEF S!Read, S!GivesUp
  <2> QED  BY <1>1, <2>1, WriteEnds DEF S!Read, SettingsInv, SettingsTyped
<1>3. CASE ~(writer[w].kind = "load" \/ (file # Nil /\ ~file.whole))
  <2> DEFINE q == [writer[w] EXCEPT !.at = "check", !.basis = file]
  <2>1. writer[w] \in WriterRecord /\ writer[w].at = "read" /\ file \in WholeSettings \cup {Nil}
    <3>1. S!Torn.whole = FALSE
      BY DEF S!Torn
    <3> QED  BY <1>3, <3>1 DEF SettingsInv, SettingsTyped, S!Read
  <2>2. q \in WriterRecord /\ q.at = "check" /\ q.basis = file
    BY <2>1 DEF WriterRecord, WriterPlaces
  <2>3. writer' = [writer EXCEPT ![w] = q] /\ UNCHANGED <<daemon, live>>
    BY <1>3 DEF S!Read
  <2> HIDE DEF q
  <2>4. writer'[w] = q
    BY <2>3 DEF SettingsInv, SettingsTyped
  <2>5. file # Nil \/ old = Nil
    BY <2>1 DEF SettingsInv, WritersStand, WriterStands
  <2>6. WriterStands(w)'
    BY <1>1, <2>2, <2>4, <2>5 DEF S!Read, WriterStands, AgreedTo
  <2> QED  BY <2>1, <2>2, <2>3, <2>6, WriteGoesOn DEF S!Read
<1> QED  BY <1>2, <1>3

LEMMA EndingsKeepSettings ==
  ASSUME SettingsAssumed, SettingsInv, NEW w \in S!Writers,
         S!CopyFails(w) \/ S!WriteFails(w) \/ S!Saved(w) \/ S!NotSynced(w)
  PROVE  SettingsInv'
<1>1. \A f \in WholeSettings \cup {S!Torn, Nil} : S!PolicyOf(f) \in [source : BOOLEAN, urls : BOOLEAN]
  BY PoliciesTyped
<1>2. AgreedTo(S!PolicyOf(file)) /\ file \in WholeSettings \cup {S!Torn, Nil} /\ upsets \in 0..MaxEdits
  BY DEF SettingsInv, SettingsTyped, PoliciesAgreed
<1>3. writer[w].basis \in WholeSettings \cup {Nil} /\ writer[w].put \in [S!Keys -> SettingValues]
  BY DEF SettingsInv, SettingsTyped, WriterRecord
<1>4. writer[w].at \in {"check", "report"} => AgreedTo(S!PolicyOf(writer[w].basis))
  BY DEF SettingsInv, WritersStand, WriterStands, AgreedTo
<1>5. S!Upset => upsets' \in 0..MaxEdits
  BY <1>2 DEF S!Upset, SettingsAssumed
<1>6. CASE S!CopyFails(w)
  <2>1. writer' = [writer EXCEPT ![w] = S!Idle] /\ daemon' \in {daemon, "up"} /\ live' \in {live, S!PolicyOf(file)}
    BY <1>6 DEF S!CopyFails, S!GivesUp
  <2> QED  BY <1>1, <1>2, <1>6, <2>1, WriteEnds DEF S!CopyFails
<1>7. CASE S!WriteFails(w)
  <2>1. writer' = [writer EXCEPT ![w] = S!Idle] /\ daemon' \in {daemon, "up"}
        /\ live' \in {live, S!PolicyOf(writer[w].basis)}
    BY <1>7 DEF S!WriteFails, S!GivesUp
  <2>2. upsets' \in 0..MaxEdits
    BY <1>2, <1>5, <1>7 DEF S!WriteFails
  <2> QED  BY <1>1, <1>3, <1>4, <1>7, <2>1, <2>2, WriteEnds DEF S!WriteFails
<1>8. CASE S!NotSynced(w)
  <2>1. writer' = [writer EXCEPT ![w] = S!Idle] /\ daemon' \in {daemon, "up"}
        /\ live' \in {live, S!PolicyOf(writer[w].basis)}
    BY <1>8 DEF S!NotSynced, S!GivesUp
  <2> QED  BY <1>1, <1>3, <1>4, <1>5, <1>8, <2>1, WriteEnds DEF S!NotSynced
<1>9. CASE S!Saved(w)
  <2>1. writer' = [writer EXCEPT ![w] = S!Idle] /\ daemon' \in {daemon, "up"}
        /\ live' \in {live, S!PolicyOf(S!Document(w))}
    BY <1>9 DEF S!Saved, S!Ends
  <2>2. S!Document(w) \in WholeSettings
    BY <1>3, OverlaidIs DEF S!Document
  <2>3. AgreedTo(S!PolicyOf(S!Document(w)))
    <3>1. writer[w].put["urls"] = TRUE => agreed
      BY <1>9 DEF S!Saved, SettingsInv, WritersStand, WriterStands
    <3> QED  BY <1>3, <1>4, <1>9, <3>1, OverlaidPolicy DEF AgreedTo, S!Document, S!Saved
  <2> QED  BY <1>1, <1>2, <1>9, <2>1, <2>2, <2>3, WriteEnds DEF S!Saved
<1> QED  BY <1>6, <1>7, <1>8, <1>9

LEMMA ProcessesAre == \A w \in S!Writers : S!Process(w) \in {"app", "command"}
BY DEF S!Process

LEMMA SaidTyped ==
  ASSUME SettingsAssumed, SettingsInv, NEW w \in S!Writers, NEW f
  PROVE  /\ S!Forgiven(w, f) \in [S!Keys -> SettingValues] /\ S!Forgiven(w, f) \in {said, S!Nothing}
         /\ file # f /\ last # S!Process(w) => S!Forgiven(w, f) = S!Nothing
         /\ ~(file # f /\ last # S!Process(w)) => S!Forgiven(w, f) = said
BY IdleTyped DEF SettingsInv, SettingsTyped, S!Forgiven

LEMMA CopyBeginsKeepsSettings ==
  ASSUME SettingsAssumed, SettingsInv, NEW w \in S!Writers, S!CopyBegins(w)
  PROVE  SettingsInv'
<1>1. PICK r \in WriterRecord :
        /\ writer'[w] = r /\ r.at = "fill" /\ writer' \in [S!Writers -> WriterRecord]
        /\ \A v \in S!Writers : v # w => writer'[v] = writer[v]
  BY PlaceIs DEF S!CopyBegins, S!Following
<1>2. /\ writer[w].at = "copy" /\ file' = S!Torn /\ last' = S!Process(w) /\ said' = S!Forgiven(w, Nil) /\ old # Nil
      /\ UNCHANGED <<old, legacy, daemon, live, writes, upsets, agreed>>
  BY DEF S!CopyBegins, S!At
<1>3. (file = Nil \/ last # S!Process(w)) /\ legacy # Nil
  BY <1>2 DEF SettingsInv, WritersStand, WriterStands
<1>4. said' \in {said, S!Nothing} /\ said' \in [S!Keys -> SettingValues] /\ (file # Nil => said' = S!Nothing)
      /\ S!Torn # Nil
  BY <1>2, <1>3, SaidTyped DEF SettingsAssumed
<1>5. SettingsTyped'
  BY <1>1, <1>2, <1>4, ProcessesAre DEF SettingsInv, SettingsTyped
<1>6. OneWriter'
  BY <1>1, <1>2 DEF SettingsInv, OneWriter
<1>7. WritersStand'
  <2> SUFFICES ASSUME NEW v \in S!Writers  PROVE WriterStands(v)'
    BY DEF WritersStand
  <2>1. CASE v = w
    BY <1>1, <1>2, <1>3, <1>4, <2>1 DEF WriterStands
  <2>2. CASE v # w /\ writer[v].at = "idle"
    BY <1>1, <2>2 DEF WriterStands
  <2>3. CASE v # w /\ writer[v].at # "idle"
    <3>1. S!Process(v) # S!Process(w)
      BY <1>2, <2>3, OthersWrite DEF SettingsInv
    <3>2. WriterStands(v) /\ writer'[v] = writer[v]
      BY <1>1, <2>3 DEF SettingsInv, WritersStand
    <3> QED  BY <1>2, <1>3, <1>4, <3>1, <3>2 DEF WriterStands
  <2> QED  BY <2>1, <2>2, <2>3
<1>8. ChoicesKept'
  <2>1. ~S!Readable(S!Torn) /\ ~S!Readable(Nil)
    BY PoliciesTyped
  <2> QED  BY <1>2, <1>4, <2>1 DEF SettingsInv, ChoicesKept, S!Nothing
<1>9. PoliciesAgreed'
  BY <1>2, PoliciesTyped DEF SettingsInv, PoliciesAgreed, AgreedTo
<1> QED  BY <1>5, <1>6, <1>7, <1>8, <1>9 DEF SettingsInv

LEMMA CopyEndsKeepsSettings ==
  ASSUME SettingsAssumed, SettingsInv, NEW w \in S!Writers, S!CopyEnds(w)
  PROVE  SettingsInv'
<1>1. PICK r \in WriterRecord :
        /\ writer'[w] = r /\ r.at = "remove" /\ writer' \in [S!Writers -> WriterRecord]
        /\ \A v \in S!Writers : v # w => writer'[v] = writer[v]
  BY PlaceIs DEF S!CopyEnds, S!Following
<1>2. /\ writer[w].at = "fill" /\ file' = (IF file = S!Torn THEN legacy ELSE file)
      /\ UNCHANGED <<old, legacy, daemon, live, writes, upsets, last, said, agreed>>
  BY DEF S!CopyEnds, S!At
<1>3. legacy \in WholeSettings /\ file \in WholeSettings \cup {S!Torn} /\ (old = legacy \/ old = Nil)
  BY <1>2 DEF SettingsInv, SettingsTyped, WritersStand, WriterStands
<1>4. /\ file' \in WholeSettings /\ S!Readable(file') /\ file' # Nil /\ file' \in {file, legacy}
         /\ ~S!Readable(S!Torn)
      /\ (S!Readable(file) => file' = file) /\ file # Nil
  BY <1>2, <1>3, PoliciesTyped DEF SettingsAssumed
<1>5. SettingsTyped'
  BY <1>1, <1>2, <1>4 DEF SettingsInv, SettingsTyped
<1>6. OneWriter'
  BY <1>1, <1>2 DEF SettingsInv, OneWriter
<1>7. WritersStand'
  <2> SUFFICES ASSUME NEW v \in S!Writers  PROVE WriterStands(v)'
    BY DEF WritersStand
  <2>1. CASE v = w
    BY <1>1, <1>4, <2>1 DEF WriterStands
  <2>2. CASE v # w
    <3>1. WriterStands(v) /\ writer'[v] = writer[v] /\ writer[v].basis \in WholeSettings \cup {Nil}
      BY <1>1, <2>2 DEF SettingsInv, SettingsTyped, WritersStand, WriterRecord
    <3>2. writer[v].basis # S!Torn
      BY <3>1, PoliciesTyped DEF SettingsAssumed
    <3>3. S!Readable(file)' = S!Readable(file')
      BY DEF S!Readable
    <3> QED  BY <1>2, <1>3, <1>4, <3>1, <3>2, <3>3 DEF WriterStands
  <2> QED  BY <2>1, <2>2
<1>8. ChoicesKept'
  <2>1. CASE file = S!Torn
    BY <1>2, <1>3, <1>4, <2>1 DEF SettingsInv, ChoicesKept
  <2>2. CASE file # S!Torn
    BY <1>2, <2>2 DEF SettingsInv, ChoicesKept
  <2> QED  BY <2>1, <2>2
<1>9. PoliciesAgreed'
  BY <1>2, <1>4 DEF SettingsInv, PoliciesAgreed, AgreedTo
<1> QED  BY <1>5, <1>6, <1>7, <1>8, <1>9 DEF SettingsInv

LEMMA CopiedGoesKeepsSettings ==
  ASSUME SettingsAssumed, SettingsInv, NEW w \in S!Writers, S!CopiedGoes(w)
  PROVE  SettingsInv'
<1> DEFINE q == [writer[w] EXCEPT !.at = "read"]
<1>1. q \in WriterRecord /\ q.at = "read" /\ writer' = [writer EXCEPT ![w] = q]
  BY DEF S!CopiedGoes, SettingsInv, SettingsTyped, WriterRecord, WriterPlaces
<1> HIDE DEF q
<1>2. /\ writer'[w].at = "read" /\ writer' \in [S!Writers -> WriterRecord]
      /\ \A v \in S!Writers : v # w => writer'[v] = writer[v]
  BY <1>1 DEF SettingsInv, SettingsTyped
<1>3. /\ old' = Nil /\ writer[w].at = "remove"
      /\ UNCHANGED <<file, legacy, daemon, live, writes, upsets, last, said, agreed>>
  BY DEF S!CopiedGoes
<1>4. file # Nil /\ (S!Readable(file) \/ said = S!Nothing)
  BY <1>3 DEF SettingsInv, WritersStand, WriterStands
<1>5. SettingsTyped'
  BY <1>2, <1>3 DEF SettingsInv, SettingsTyped
<1>6. OneWriter'
  BY <1>2, <1>3 DEF SettingsInv, OneWriter
<1>7. WritersStand'
  BY <1>2, <1>3, <1>4 DEF SettingsInv, WritersStand, WriterStands
<1>8. ChoicesKept' /\ PoliciesAgreed'
  BY <1>3, <1>4 DEF SettingsInv, ChoicesKept, PoliciesAgreed, AgreedTo, S!Nothing
<1> QED  BY <1>5, <1>6, <1>7, <1>8 DEF SettingsInv

LEMMA RenamesKeepsSettings ==
  ASSUME SettingsAssumed, SettingsInv, NEW w \in S!Writers, S!Renames(w)
  PROVE  SettingsInv'
<1>1. PICK r \in WriterRecord :
        /\ writer'[w] = r /\ r.at = "report" /\ writer' \in [S!Writers -> WriterRecord]
        /\ r.basis = writer[w].basis /\ r.put = writer[w].put
        /\ \A v \in S!Writers : v # w => writer'[v] = writer[v]
  BY PlaceIs DEF S!Renames, S!Following
<1> DEFINE d == S!Document(w)
<1> DEFINE put == writer[w].put
<1> DEFINE basis == writer[w].basis
<1>2. /\ writer[w].at = "rename" /\ file' = d /\ last' = S!Process(w)
      /\ said' = [k \in S!Keys |-> IF put[k] # Nil THEN put[k] ELSE S!Forgiven(w, writer[w].checked)[k]]
      /\ agreed' = (agreed \/ put["urls"] = TRUE)
      /\ UNCHANGED <<old, legacy, daemon, live, writes, upsets>>
  BY DEF S!Renames, S!At
<1>3. /\ put \in [S!Keys -> SettingValues] /\ basis \in WholeSettings \cup {Nil} /\ writer[w].checked = basis
      /\ file = basis \/ last # S!Process(w)
      /\ (S!PolicyOf(basis).urls => agreed) /\ (basis = Nil => old = Nil)
  BY <1>2 DEF SettingsInv, SettingsTyped, WriterRecord, WritersStand, WriterStands
<1> DEFINE b == IF basis = Nil THEN S!Map(0, S!Nothing, FALSE) ELSE basis
<1>4. d \in WholeSettings /\ d.version = 2
      /\ \A k \in S!Keys : d.set[k] = IF put[k] # Nil THEN put[k] ELSE S!Chosen(b)[k]
  BY <1>3, OverlaidIs DEF S!Document
<1>5. S!PolicyOf(d).urls => agreed'
  BY <1>2, <1>3, OverlaidPolicy DEF S!Document
<1> DEFINE s == S!Forgiven(w, basis)
<1>6. s \in [S!Keys -> SettingValues] /\ (file # basis => s = S!Nothing) /\ (file = basis => s = said)
  BY <1>3, SaidTyped
<1>7. said' \in [S!Keys -> SettingValues] /\ \A k \in S!Keys : said'[k] = IF put[k] # Nil THEN put[k] ELSE s[k]
  BY <1>2, <1>3, <1>6
<1> HIDE DEF d, put, basis, s
<1>8. S!Readable(d) /\ d # Nil
  BY <1>4, PoliciesTyped
<1>9. SettingsTyped'
  BY <1>1, <1>2, <1>4, <1>7, ProcessesAre DEF SettingsInv, SettingsTyped
<1>10. OneWriter'
  BY <1>1, <1>2 DEF SettingsInv, OneWriter
<1>11. WritersStand'
  <2> SUFFICES ASSUME NEW v \in S!Writers  PROVE WriterStands(v)'
    BY DEF WritersStand
  <2>1. CASE v = w
    BY <1>1, <1>2, <1>3, <2>1 DEF WriterStands, basis, put
  <2>2. CASE v # w /\ writer[v].at = "idle"
    BY <1>1, <2>2 DEF WriterStands
  <2>3. CASE v # w /\ writer[v].at # "idle"
    <3>1. S!Process(v) # S!Process(w)
      BY <1>2, <2>3, OthersWrite DEF SettingsInv
    <3>2. WriterStands(v) /\ writer'[v] = writer[v]
      BY <1>1, <2>3 DEF SettingsInv, WritersStand
    <3>3. S!Readable(file)'
      BY <1>2, <1>8 DEF S!Readable
    <3> QED  BY <1>2, <1>8, <3>1, <3>2, <3>3 DEF WriterStands
  <2> QED  BY <2>1, <2>2, <2>3
<1>12. ChoicesKept'
  <2>1. S!Readable(file)' /\ file' = d
    BY <1>2, <1>8 DEF S!Readable
  <2>2. ASSUME NEW k \in S!Keys, said'[k] # Nil  PROVE S!Chosen(d)[k] = said'[k]
    <3>1. S!Chosen(d)[k] = d.set[k]
      BY <1>4 DEF S!Chosen
    <3>2. CASE put[k] # Nil
      BY <1>4, <1>7, <3>1, <3>2
    <3>3. CASE put[k] = Nil
      <4>1. s[k] = said'[k] /\ s[k] # Nil
        BY <1>7, <2>2, <3>3
      <4>2. file = basis /\ said[k] = said'[k]
        BY <1>6, <4>1 DEF S!Nothing
      <4>3. basis # Nil
        <5>1. ~S!Readable(Nil)
          BY PoliciesTyped
        <5> QED  BY <1>3, <2>2, <4>2, <5>1 DEF SettingsInv, ChoicesKept
      <4>4. S!Chosen(basis)[k] = said'[k]
        <5>1. S!Readable(basis)
          BY <1>3, <4>3, PoliciesTyped
        <5> QED  BY <2>2, <4>2, <5>1 DEF SettingsInv, ChoicesKept
      <4> QED  BY <1>4, <3>1, <3>3, <4>3, <4>4
    <3> QED  BY <3>2, <3>3
  <2> QED  BY <2>1, <2>2 DEF ChoicesKept
<1>13. PoliciesAgreed'
  BY <1>2, <1>5 DEF SettingsInv, PoliciesAgreed, AgreedTo
<1> QED  BY <1>9, <1>10, <1>11, <1>12, <1>13 DEF SettingsInv

LEMMA HandEditKeepsSettings == ASSUME SettingsAssumed, SettingsInv, S!HandEdit  PROVE SettingsInv'
<1>1. PICK k \in {"offer", "source", "urls"} :
        /\ file' = [file EXCEPT !.set[k] = (file.set[k] # TRUE)] /\ said' = [said EXCEPT ![k] = (file.set[k] # TRUE)]
        /\ agreed' = (agreed \/ (k = "urls" /\ file.set[k] # TRUE))
  BY DEF S!HandEdit
<1> DEFINE v == file.set[k] # TRUE
<1>2. /\ S!Readable(file) /\ file.version = 2 /\ upsets' \in 0..MaxEdits /\ last' = "hand"
      /\ UNCHANGED <<old, legacy, daemon, live, writer, writes>>
  BY DEF S!HandEdit, S!Upset, SettingsInv, SettingsTyped, SettingsAssumed
<1>3. file \in WholeSettings /\ k \in S!Keys /\ v \in BOOLEAN /\ BOOLEAN \subseteq SettingValues
      /\ said \in [S!Keys -> SettingValues]
  BY <1>2, PoliciesTyped DEF SettingsInv, SettingsTyped, S!Keys, SettingValues
<1> HIDE DEF v
<1>4. file' = [file EXCEPT !.set = [file.set EXCEPT ![k] = v]] /\ said' = [said EXCEPT ![k] = v]
  BY <1>1 DEF v
<1> DEFINE s == [file.set EXCEPT ![k] = v]
<1>5. file.set \in [S!Keys -> SettingValues] /\ s \in [S!Keys -> SettingValues] /\ s[k] = v /\ \A l \in S!Keys : l # k => s[l] = file.set[l]
  BY <1>3 DEF WholeSettings
<1> HIDE DEF s
<1>6. file' \in WholeSettings /\ file'.set = s /\ file'.version = 2 /\ file'.consent = file.consent
  BY <1>2, <1>3, <1>4, <1>5 DEF WholeSettings, s
<1>7. said' \in [S!Keys -> SettingValues] /\ said'[k] = v /\ \A l \in S!Keys : l # k => said'[l] = said[l]
  BY <1>3, <1>4
<1>8. S!Readable(file)' /\ file' # Nil
  <2>1. S!Readable(file') /\ file' # Nil
    BY <1>6, PoliciesTyped
  <2> QED  BY <2>1 DEF S!Readable
<1>9. SettingsTyped'
  BY <1>1, <1>2, <1>6, <1>7 DEF SettingsInv, SettingsTyped
<1>10. WritersStand'
  BY <1>1, <1>2, <1>8, ProcessesAre DEF SettingsInv, WritersStand, WriterStands
<1>11. ChoicesKept'
  <2>1. \A l \in S!Keys : S!Chosen(file')[l] = s[l] /\ S!Chosen(file)[l] = file.set[l]
    BY <1>2, <1>6 DEF S!Chosen
  <2> QED  BY <1>2, <1>3, <1>5, <1>7, <1>8, <2>1 DEF SettingsInv, ChoicesKept
<1>12. AgreedTo(S!PolicyOf(file))'
  <2>1. SUFFICES ASSUME S!PolicyOf(file').urls  PROVE agreed'
    BY DEF AgreedTo
  <2>2. S!Choice(file', "urls") /\ S!Consented(file')
    BY <1>8, <2>1 DEF S!PolicyOf, S!Readable
  <2>3. CASE k = "urls"
    <3>1. s["urls"] = Nil \/ s["urls"]
      BY <1>6, <2>2 DEF S!Choice
    <3> QED  BY <1>1, <1>3, <1>5, <2>3, <3>1 DEF v, SettingsAssumed
  <2>4. CASE k # "urls"
    <3>1. "urls" \in S!Keys /\ s["urls"] = file.set["urls"]
      BY <1>5, <2>4 DEF S!Keys
    <3>2. S!Choice(file, "urls") = S!Choice(file', "urls") /\ S!Consented(file)
      BY <1>2, <1>6, <2>2, <3>1 DEF S!Choice, S!Consented
    <3> QED  BY <1>1, <1>2, <2>2, <3>2 DEF SettingsInv, PoliciesAgreed, AgreedTo, S!PolicyOf
  <2> QED  BY <2>3, <2>4
<1>13. OneWriter' /\ PoliciesAgreed'
  BY <1>1, <1>2, <1>12 DEF SettingsInv, OneWriter, PoliciesAgreed, AgreedTo
<1> QED  BY <1>9, <1>10, <1>11, <1>13 DEF SettingsInv

LEMMA DiesKeepsSettings ==
  ASSUME SettingsAssumed, SettingsInv, NEW p \in {"app", "command"}, S!Dies(p)
  PROVE  SettingsInv'
<1>1. /\ writer' = [w \in S!Writers |-> IF S!Process(w) = p THEN S!Idle ELSE writer[w]]
      /\ upsets' \in 0..MaxEdits /\ daemon' \in {daemon, "down"} /\ live' \in {live, Nil}
      /\ UNCHANGED <<file, old, legacy, writes, last, said, agreed>>
  BY DEF S!Dies, S!Upset, SettingsInv, SettingsTyped, SettingsAssumed
<1>2. writer' \in [S!Writers -> WriterRecord] /\ \A w \in S!Writers : writer'[w] = S!Idle \/ writer'[w] = writer[w]
  BY <1>1, IdleTyped DEF SettingsInv, SettingsTyped
<1>3. SettingsTyped'
  BY <1>1, <1>2 DEF SettingsInv, SettingsTyped
<1>4. OneWriter' /\ WritersStand'
  BY <1>1, <1>2, IdleTyped DEF SettingsInv, OneWriter, WritersStand, WriterStands
<1>5. ChoicesKept' /\ PoliciesAgreed'
  BY <1>1 DEF SettingsInv, ChoicesKept, PoliciesAgreed, AgreedTo
<1> QED  BY <1>3, <1>4, <1>5 DEF SettingsInv

LEMMA ValuesOfKeys ==
  ASSUME NEW a \in SettingValues, NEW b \in SettingValues, NEW c \in SettingValues, NEW d \in SettingValues
  PROVE  [cursor |-> a, offer |-> b, source |-> c, urls |-> d] \in [S!Keys -> SettingValues]
BY DEF S!Keys

LEMMA SettingsInitHolds == ASSUME SettingsAssumed, S!Init  PROVE SettingsInv
<1>1. S!Found \subseteq WholeSettings /\ S!Left \subseteq S!Found
  <2> DEFINE m1 == [cursor |-> TRUE, offer |-> Nil, source |-> FALSE, urls |-> FALSE]
  <2> DEFINE m2 == [cursor |-> FALSE, offer |-> TRUE, source |-> TRUE, urls |-> TRUE]
  <2> DEFINE m3 == [cursor |-> TRUE, offer |-> FALSE, source |-> FALSE, urls |-> Nil]
  <2>1. m1 \in [S!Keys -> SettingValues] /\ m2 \in [S!Keys -> SettingValues] /\ m3 \in [S!Keys -> SettingValues]
    BY ValuesOfKeys DEF SettingValues
  <2>2. \A n \in 0..2, s \in [S!Keys -> SettingValues], c \in BOOLEAN : S!Map(n, s, c) \in WholeSettings
    BY DEF S!Map, WholeSettings
  <2>3. S!Left = {S!Map(0, m1, TRUE), S!Map(0, m2, TRUE)} /\ S!Found = S!Left \cup {S!Map(1, m3, FALSE)}
    BY Zenon DEF S!Left, S!Found
  <2> HIDE DEF S!Map, m1, m2, m3
  <2>4. S!Map(0, m1, TRUE) \in WholeSettings /\ S!Map(0, m2, TRUE) \in WholeSettings
        /\ S!Map(1, m3, FALSE) \in WholeSettings
    <3>1. 0 \in 0..2 /\ 1 \in 0..2
      OBVIOUS
    <3> QED  BY <2>1, <2>2, <3>1, Zenon
  <2> QED  BY <2>3, <2>4, Zenon
<1>2. /\ file \in S!Found \cup {Nil} /\ old \in S!Left \cup {Nil} /\ (file = Nil \/ old = Nil) /\ legacy = old
      /\ \A w \in S!Writers : writer[w] = S!Idle
      /\ \A f \in {file, old} \ {Nil} : S!Consented(f) /\ f.set["urls"] = TRUE => agreed
      /\ said = (IF file # Nil THEN S!Chosen(file) ELSE IF old # Nil THEN S!Chosen(old) ELSE S!Nothing)
      /\ live = Nil
  BY DEF S!Init
<1>3. \A f \in WholeSettings : S!Chosen(f) \in [S!Keys -> SettingValues]
  BY DEF WholeSettings, S!Chosen, S!Keys, SettingValues, S!PreVersion, S!Frozen
<1>4. SettingsTyped
  BY <1>1, <1>2, <1>3, IdleTyped DEF S!Init, SettingsTyped, SettingsAssumed
<1>5. OneWriter /\ WritersStand
  BY <1>2, IdleTyped DEF OneWriter, WritersStand, WriterStands
<1>6. ChoicesKept
  BY <1>1, <1>2, PoliciesTyped DEF ChoicesKept, S!Nothing
<1>7. ASSUME NEW f \in {file, old} \ {Nil}  PROVE S!PolicyOf(f).urls => agreed
  <2>1. f \in S!Found /\ "urls" \in S!Keys
    BY <1>1, <1>2, <1>7 DEF S!Keys
  <2>2. S!Consented(f) => f.set["urls"] = TRUE
    BY <2>1 DEF S!Found, S!Left, S!Map, S!Consented
  <2>3. S!PolicyOf(f).urls => S!Consented(f)
    BY <1>1, <2>1, PoliciesTyped DEF S!PolicyOf
  <2> QED  BY <1>2, <2>2, <2>3
<1>8. PoliciesAgreed
  BY <1>2, <1>7, PoliciesTyped DEF PoliciesAgreed, AgreedTo
<1> QED  BY <1>4, <1>5, <1>6, <1>8 DEF SettingsInv

LEMMA SettingsStep == ASSUME SettingsAssumed, SettingsInv, [S!Next]_(S!svars)  PROVE SettingsInv'
<1>1. ASSUME S!Next  PROVE SettingsInv'
  BY <1>1, BeginningsKeepSettings, HandEditKeepsSettings, DiesKeepsSettings, MovesKeepSettings,
     CopyBeginsKeepsSettings,
     EndingsKeepSettings, CopyEndsKeepsSettings, CopiedGoesKeepsSettings, ReadKeepsSettings,
     RenamesKeepsSettings DEF S!Next
<1>2. ASSUME UNCHANGED S!svars  PROVE SettingsInv'
  BY <1>2 DEF S!svars, SettingsInv, SettingsTyped, OneWriter, WritersStand, WriterStands, ChoicesKept,
     PoliciesAgreed, AgreedTo
<1> QED  BY <1>1, <1>2

LEMMA SettingsInvKeeps == ASSUME SettingsAssumed, SettingsInv  PROVE S!SavedStays /\ S!AddressesAreAgreed
<1>1. S!SavedStays
  <2>1. \A f, k : S!Chosen(f)[k] # Nil /\ k \in S!Keys => S!Chosen(f)[k] = f.set[k]
    BY DEF S!Chosen
  <2> QED  BY <2>1 DEF SettingsInv, ChoicesKept, S!SavedStays
<1>2. S!AddressesAreAgreed
  BY DEF SettingsInv, PoliciesAgreed, AgreedTo, S!AddressesAreAgreed
<1> QED  BY <1>1, <1>2

LEMMA SettingsTypedIsTyped == ASSUME SettingsAssumed, SettingsInv  PROVE S!TypeOK
<1>1. WholeSettings \subseteq S!Maps /\ S!Torn \in S!Maps
  <2>1. SettingValues = {TRUE, FALSE, Nil} /\ S!Nothing \in [S!Keys -> SettingValues]
    BY IdleTyped DEF SettingValues
  <2>2. S!Torn \in [version : 0..2, set : [S!Keys -> SettingValues], consent : BOOLEAN, whole : BOOLEAN]
    <3> DEFINE s == S!Nothing
    <3> HIDE DEF s
    <3>1. [version |-> 0, set |-> s, consent |-> FALSE, whole |-> FALSE]
            \in [version : 0..2, set : [S!Keys -> SettingValues], consent : BOOLEAN, whole : BOOLEAN]
      <4>1. \A n \in 0..2, x \in [S!Keys -> SettingValues], c, h \in BOOLEAN :
              [version |-> n, set |-> x, consent |-> c, whole |-> h]
                \in [version : 0..2, set : [S!Keys -> SettingValues], consent : BOOLEAN, whole : BOOLEAN]
        OBVIOUS
      <4>2. 0 \in 0..2
        OBVIOUS
      <4>3. s \in [S!Keys -> SettingValues]
        BY <2>1, Zenon DEF s
      <4> QED  BY <4>1, <4>2, <4>3, Zenon
    <3> QED  BY <3>1, Zenon DEF s, S!Torn
  <2> QED  BY <2>1, <2>2 DEF WholeSettings, S!Maps
<1>2. \A w \in S!Writers : writer[w] \in WriterRecord
  BY DEF SettingsInv, SettingsTyped
<1> QED  BY <1>1, <1>2 DEF SettingsInv, SettingsTyped, S!TypeOK, WriterRecord, WriterPlaces, SettingValues

-----------------------------------------------------------------------------
(* The connection *)

\* STATUS_CHECK_INTERVAL is not longer than SYSTEM_STATUS_TIMEOUT.
ConnectionAssumed ==
  /\ Nil \notin Int /\ Interval \in Nat /\ Timeout \in Nat /\ Slack \in Nat /\ Interval <= Timeout
  /\ OfflineAfter \in Nat /\ Dwell \in Nat /\ Grace \in Nat /\ Linger \in Nat /\ WakeGap \in Nat /\ MaxMoves \in Nat

JournalErrors == {"none", "auth", "refused", "incompatible"}
FactsKnown == [failed : BOOLEAN, noNetwork : BOOLEAN, waiting : BOOLEAN, error : JournalErrors]
TimersSet == [dropped : 0..Dwell \cup {Nil}, seen : 0..Linger \cup {Nil}, hold : 0..Grace, drift : Int]

ConnectionTyped ==
  /\ moves \in 0..MaxMoves
  /\ heard \in Int \cup {Nil} /\ episode \in Int
  /\ facts \in FactsKnown /\ timers \in TimersSet
  /\ check \in 0..Timeout \cup {Nil} /\ checked \in 0..Interval /\ misses \in 0..2
  /\ (timers.dropped # Nil => L!IsDown(shown))

\* An age is as far ahead of the clock as this was set back.
AgesBounded ==
  /\ heard # Nil => heard <= L!Cap /\ -((Slack + 1) * moves) <= heard
  /\ episode <= L!Cap /\ -((Slack + 1) * moves) <= episode

\* While a check runs, the last answer is older by no more than the check is, for the first that may
\* fail and for the one after it; while none does, the next is due before the lease is over.
HeardInTime ==
  misses <= 1 =>
    /\ heard # Nil /\ 0 <= heard
    /\ check # Nil /\ misses = 0 => heard <= Interval + check /\ (checked < Interval => check <= checked)
    /\ check # Nil /\ misses = 1 => heard <= Interval + Timeout + check /\ check <= Slack
    /\ check = Nil /\ misses = 0 => heard <= Interval /\ heard <= checked
    /\ check = Nil /\ misses = 1 => heard <= Interval + Timeout /\ (checked < Interval => heard <= checked + Interval)

ConnectionInv == ConnectionTyped /\ AgesBounded /\ HeardInTime

LEMMA ConnectionShares == ASSUME ConnectionAssumed, ConnectionInv  PROVE L!TypeOK
<1>1. moves \in Nat /\ moves <= MaxMoves /\ Slack + 1 \in Nat /\ MaxMoves \in Nat
  BY DEF ConnectionAssumed, ConnectionInv, ConnectionTyped
<1>2. (Slack + 1) * moves <= (Slack + 1) * MaxMoves /\ (Slack + 1) * moves \in Int /\ (Slack + 1) * MaxMoves \in Int
  BY <1>1
<1>3. L!Cap \in Int
  BY DEF L!Cap, L!Lease, ConnectionAssumed
<1>4. episode \in -L!Back..L!Cap
  BY <1>2, <1>3 DEF ConnectionInv, ConnectionTyped, AgesBounded, L!Back
<1>5. heard \in -L!Back..L!Cap \cup {Nil}
  BY <1>2, <1>3 DEF ConnectionInv, ConnectionTyped, AgesBounded, L!Back
<1>6. timers.hold \in 0..Grace /\ timers.dropped \in 0..Dwell \cup {Nil}
  BY DEF ConnectionInv, ConnectionTyped, TimersSet
<1> QED  BY <1>4, <1>5, <1>6 DEF ConnectionInv, ConnectionTyped, L!TypeOK

LEMMA ConnectionInit == ASSUME ConnectionAssumed, L!Init  PROVE ConnectionInv
<1>1. facts \in FactsKnown
  BY DEF L!Init, FactsKnown, JournalErrors
<1>2. timers \in TimersSet /\ timers.dropped = Nil
  BY DEF L!Init, TimersSet, ConnectionAssumed
<1>3. ConnectionTyped
  BY <1>1, <1>2 DEF L!Init, ConnectionTyped, ConnectionAssumed
<1>4. AgesBounded
  BY DEF L!Init, AgesBounded, ConnectionAssumed, L!Cap, L!Lease
<1>5. HeardInTime
  BY DEF L!Init, HeardInTime, ConnectionAssumed
<1> QED  BY <1>3, <1>4, <1>5 DEF ConnectionInv

\* An answer that counts, over a link that is up, reads as a connection.
LEMMA HeardReadsUp ==
  ASSUME NEW start, facts \in FactsKnown, link.troubles = {}, L!LinkUp, L!Within(heard),
         facts.error \notin {"refused", "incompatible"}, ~facts.noNetwork
  PROVE  L!Derived(start) \in {"Syncing", "Connected"}
<1> DEFINE v == L!Verdicts(start)
           k == IF facts.waiting THEN 9 ELSE 10
           P(i) == i \in DOMAIN v /\ v[i][1] /\ \A j \in 1..i - 1 : ~v[j][1]
<1>1. DOMAIN v = 1..13
  BY DEF L!Verdicts
<1>2. /\ v[1][1] = ("private state" \in link.troubles) /\ v[2][1] = ("mark held" \in link.troubles)
      /\ v[3][1] = ("revoked" \in link.troubles \/ facts.error = "refused")
      /\ v[4][1] = ("tokens" \in link.troubles) /\ v[5][1] = ("unpaired" \in link.troubles)
      /\ v[6][1] = (facts.error = "incompatible") /\ v[7][1] = ("transport" \in link.troubles)
      /\ v[8][1] = (facts.noNetwork /\ (~link.carrier \/ facts.failed))
      /\ v[9][1] = (L!LinkUp /\ L!Within(heard) /\ facts.waiting) /\ v[10][1] = (L!LinkUp /\ L!Within(heard))
      /\ v[9][2] = "Syncing" /\ v[10][2] = "Connected"
  BY DEF L!Verdicts
<1> HIDE DEF v
<1>3. /\ ~v[1][1] /\ ~v[2][1] /\ ~v[3][1] /\ ~v[4][1] /\ ~v[5][1] /\ ~v[6][1] /\ ~v[7][1] /\ ~v[8][1]
      /\ (v[9][1] <=> facts.waiting) /\ v[10][1]
  BY <1>2, Zenon
<1>4. k \in 1..13 /\ v[k][1] /\ \A j \in 1..k - 1 : ~v[j][1]
  <2>1. CASE facts.waiting
    <3>1. k = 9
      BY <2>1
    <3>2. \A j \in 1..9 - 1 : j \in {1, 2, 3, 4, 5, 6, 7, 8}
      OBVIOUS
    <3> QED  BY <1>3, <2>1, <3>1, <3>2
  <2>2. CASE ~facts.waiting
    <3>1. k = 10
      BY <2>2
    <3>2. \A j \in 1..10 - 1 : j \in {1, 2, 3, 4, 5, 6, 7, 8, 9}
      OBVIOUS
    <3> QED  BY <1>3, <2>2, <3>1, <3>2
  <2> QED  BY <2>1, <2>2
<1>5. P(k)
  BY <1>1, <1>4
<1>6. ASSUME NEW i, P(i)  PROVE i = k
  <2>1. i \in 1..13 /\ k \in 1..13
    BY <1>1, <1>4, <1>6
  <2>2. CASE i < k
    BY <1>4, <1>6, <2>1, <2>2
  <2>3. CASE k < i
    BY <1>4, <1>6, <2>1, <2>3
  <2> QED  BY <2>1, <2>2, <2>3
<1>7. (CHOOSE i \in DOMAIN v : v[i][1] /\ \A j \in 1..i - 1 : ~v[j][1]) = k
  BY <1>5, <1>6
<1>8. L!Derived(start) = v[k][2]
  BY <1>7 DEF L!Derived, v
<1> QED  BY <1>2, <1>8

\* The icon and the attention are the same for the two states of a connection.
LEMMA UpIsUp ==
  ASSUME NEW s, NEW r, L!IsUp(s), L!IsUp(r), NEW status  PROVE L!Panel(status, s) = L!Panel(status, r)
<1>1. L!Icon(s) = "healthy" /\ L!Icon(r) = "healthy"
  BY DEF L!Icon, L!IsUp
<1>2. L!Attention(s) = FALSE /\ L!Attention(r) = FALSE
  BY DEF L!Attention, L!IsUp
<1> QED  BY <1>1, <1>2 DEF L!Panel, L!IconName

LEMMA PresentedUp ==
  ASSUME NEW t, NEW d, L!IsUp(d), L!IsUp(shown)  PROVE L!IsUp(L!Presented(t, d))
<1>1. ~L!IsDown(d)
  BY DEF L!IsUp, L!IsDown
<1> QED  BY <1>1 DEF L!Presented, L!IsUp

LEMMA SampleIsNoDrop == ASSUME ConnectionAssumed, ConnectionInv, L!Sample  PROVE L!OneMissIsNoDrop
<1> SUFFICES ASSUME misses' <= 1, L!LinkUp', link.troubles = {}, L!IsUp(shown),
                    facts'.error \notin {"refused", "incompatible"}, ~facts'.noNetwork, NEW status
             PROVE  L!Panel(status, shown') = L!Panel(status, shown)
  BY DEF L!OneMissIsNoDrop
<1>1. misses' = misses /\ link' = link /\ facts' = facts /\ heard' = heard
  BY DEF L!Sample
<1>2. L!LinkUp /\ misses <= 1 /\ facts \in FactsKnown /\ misses \in 0..2
  BY <1>1 DEF L!LinkUp, ConnectionInv, ConnectionTyped
<1>3. L!Within(heard)
  <2>1. heard # Nil /\ heard \in Int /\ 0 <= heard
    BY <1>2 DEF ConnectionInv, ConnectionTyped, HeardInTime
  <2>2. heard <= Interval + Timeout + Slack
    <3>1. CASE check = Nil
      BY <1>2, <2>1, <3>1 DEF ConnectionInv, HeardInTime, ConnectionAssumed
    <3>2. CASE check # Nil
      <4>1. check \in 0..Timeout
        BY <3>2 DEF ConnectionInv, ConnectionTyped
      <4> QED  BY <1>2, <2>1, <3>2, <4>1 DEF ConnectionInv, HeardInTime, ConnectionAssumed
    <3> QED  BY <3>1, <3>2
  <2> QED  BY <2>1, <2>2 DEF L!Within, L!Lease
<1>4. \A start : L!IsUp(L!Derived(start))
  BY <1>1, <1>2, <1>3, HeardReadsUp DEF L!IsUp
<1>5. PICK t, d : L!IsUp(d) /\ shown' = L!Presented(t, d)
  BY <1>4 DEF L!Sample
<1>6. L!IsUp(shown')
  BY <1>5, PresentedUp
<1> QED  BY <1>6, UpIsUp

\* A step that leaves the ages, the check and the timers alone, or goes on as if more had gone wrong.
LEMMA FactsKeep ==
  ASSUME ConnectionAssumed, ConnectionInv, facts' \in FactsKnown, moves' \in 0..MaxMoves, moves <= moves',
         UNCHANGED <<heard, episode, timers, check, checked, shown>>, misses' \in {misses, 2}
  PROVE  ConnectionInv'
<1>1. ConnectionTyped'
  BY DEF ConnectionInv, ConnectionTyped
<1>2. (Slack + 1) * moves <= (Slack + 1) * moves' /\ (Slack + 1) * moves \in Int /\ (Slack + 1) * moves' \in Int
  <2>1. Slack + 1 \in Nat /\ moves \in Nat /\ moves' \in Nat
    BY DEF ConnectionAssumed, ConnectionInv, ConnectionTyped
  <2> QED  BY <2>1
<1>3. AgesBounded'
  BY <1>2 DEF ConnectionInv, ConnectionTyped, AgesBounded, L!Cap
<1>4. HeardInTime'
  BY DEF ConnectionInv, HeardInTime
<1> QED  BY <1>1, <1>3, <1>4 DEF ConnectionInv

LEMMA SampleKeeps == ASSUME ConnectionAssumed, ConnectionInv, L!Sample  PROVE ConnectionInv'
<1> DEFINE woke == shown # Nil /\ timers.drift > WakeGap
           t == IF woke THEN [timers EXCEPT !.hold = Grace] ELSE timers
           d == L!Derived(IF woke THEN 0 ELSE episode)
<1>1. /\ episode' = IF woke THEN 0 ELSE episode
      /\ timers' = [t EXCEPT !.drift = 0, !.seen = IF d = "Syncing" THEN 0 ELSE @,
                             !.dropped = IF ~L!IsDown(shown') THEN Nil ELSE IF L!IsUp(shown) THEN 0 ELSE @]
      /\ UNCHANGED <<heard, facts, check, checked, misses, moves>>
  BY DEF L!Sample
<1>2. t \in TimersSet /\ t.dropped = timers.dropped
  BY DEF ConnectionInv, ConnectionTyped, TimersSet, ConnectionAssumed
<1> HIDE DEF t, d, woke
<1>3. timers' \in TimersSet /\ (timers'.dropped # Nil => L!IsDown(shown'))
  <2> DEFINE spin == IF d = "Syncing" THEN 0 ELSE t.seen
             dropped == IF ~L!IsDown(shown') THEN Nil ELSE IF L!IsUp(shown) THEN 0 ELSE t.dropped
  <2>1. spin \in 0..Linger \cup {Nil} /\ dropped \in 0..Dwell \cup {Nil}
    BY <1>2 DEF TimersSet, ConnectionAssumed
  <2>2. timers' = [t EXCEPT !.drift = 0, !.seen = spin, !.dropped = dropped]
    BY <1>1
  <2>3. dropped # Nil => L!IsDown(shown')
    OBVIOUS
  <2> HIDE DEF spin, dropped
  <2> DEFINE x == [t EXCEPT !.drift = 0]
             y == [x EXCEPT !.seen = spin]
  <2>4. x \in TimersSet
    BY <1>2 DEF TimersSet
  <2>5. timers' = [y EXCEPT !.dropped = dropped]
    BY <2>2
  <2> HIDE DEF x
  <2>6. y \in TimersSet
    BY <2>1, <2>4 DEF TimersSet
  <2> HIDE DEF y
  <2>7. timers' \in TimersSet /\ timers'.dropped = dropped
    BY <2>1, <2>5, <2>6 DEF TimersSet
  <2> QED  BY <2>3, <2>7
<1>4. ConnectionTyped'
  BY <1>1, <1>3 DEF ConnectionInv, ConnectionTyped
<1>5. AgesBounded'
  <2> DEFINE back == (Slack + 1) * moves
  <2>1. 0 <= back /\ back \in Int /\ 0 <= L!Cap /\ L!Cap \in Int
    BY DEF ConnectionAssumed, ConnectionInv, ConnectionTyped, L!Cap, L!Lease
  <2>2. (heard # Nil => heard <= L!Cap /\ -back <= heard) /\ episode <= L!Cap /\ -back <= episode
    BY DEF ConnectionInv, AgesBounded
  <2>3. back' = back /\ L!Cap' = L!Cap
    BY <1>1 DEF L!Cap
  <2> HIDE DEF back
  <2>4. (heard' # Nil => heard' <= L!Cap /\ -back <= heard') /\ episode' <= L!Cap /\ -back <= episode'
    BY <1>1, <2>1, <2>2
  <2> QED  BY <2>3, <2>4 DEF AgesBounded, back
<1>6. HeardInTime'
  BY <1>1 DEF ConnectionInv, HeardInTime
<1> QED  BY <1>4, <1>5, <1>6 DEF ConnectionInv

\* What is heard, and the checks.
LEMMA HeardKeeps ==
  ASSUME ConnectionAssumed, ConnectionInv, facts' \in FactsKnown,
         UNCHANGED <<episode, timers, checked, shown, moves>>,
         \/ heard' = 0 /\ misses' = 0
         \/ UNCHANGED <<heard, misses>> /\ check = Nil,
         check' = Nil
  PROVE  ConnectionInv'
<1>1. misses' \in 0..2 /\ heard' \in Int \cup {Nil} /\ checked \in Int /\ 0 <= checked
  BY DEF ConnectionInv, ConnectionTyped
<1>2. ConnectionTyped'
  BY <1>1 DEF ConnectionInv, ConnectionTyped
<1>3. AgesBounded'
  <2> DEFINE back == (Slack + 1) * moves
  <2>1. 0 <= back /\ back \in Int /\ 0 <= L!Cap /\ L!Cap \in Int
    BY DEF ConnectionAssumed, ConnectionInv, ConnectionTyped, L!Cap, L!Lease
  <2>2. (heard # Nil => heard <= L!Cap /\ -back <= heard) /\ episode <= L!Cap /\ -back <= episode
    BY DEF ConnectionInv, AgesBounded
  <2>3. back' = back /\ L!Cap' = L!Cap
    BY <1>1 DEF L!Cap
  <2> HIDE DEF back
  <2>4. (heard' # Nil => heard' <= L!Cap /\ -back <= heard') /\ episode' <= L!Cap /\ -back <= episode'
    BY <1>1, <2>1, <2>2
  <2> QED  BY <2>3, <2>4 DEF AgesBounded, back
<1>4. HeardInTime'
  BY <1>1 DEF ConnectionInv, HeardInTime, ConnectionAssumed
<1> QED  BY <1>2, <1>3, <1>4 DEF ConnectionInv

LEMMA StartCheckKeeps == ASSUME ConnectionAssumed, ConnectionInv, L!StartCheck  PROVE ConnectionInv'
<1>1. /\ check = Nil /\ check' = 0 /\ checked' = 0 /\ 0 # Nil
      /\ UNCHANGED <<heard, episode, facts, shown, timers, misses, moves>>
  BY DEF L!StartCheck, L!Idle, ConnectionAssumed
<1>2. ConnectionTyped'
  BY <1>1 DEF ConnectionInv, ConnectionTyped, ConnectionAssumed
<1>3. AgesBounded'
  BY <1>1 DEF ConnectionInv, AgesBounded, L!Cap
<1>4. HeardInTime'
  BY <1>1 DEF ConnectionInv, ConnectionTyped, HeardInTime, ConnectionAssumed
<1> QED  BY <1>2, <1>3, <1>4 DEF ConnectionInv

LEMMA CheckFailsKeeps == ASSUME ConnectionAssumed, ConnectionInv, L!CheckFails  PROVE ConnectionInv'
<1>1. /\ check # Nil /\ check' = Nil /\ misses' = IF misses < 2 THEN misses + 1 ELSE 2
      /\ UNCHANGED <<heard, episode, facts, shown, timers, checked, moves>>
  BY DEF L!CheckFails
<1>2. misses \in 0..2 /\ check \in 0..Timeout /\ checked \in 0..Interval
  BY <1>1 DEF ConnectionInv, ConnectionTyped
<1>3. ConnectionTyped'
  BY <1>1, <1>2 DEF ConnectionInv, ConnectionTyped
<1>4. AgesBounded'
  BY <1>1 DEF ConnectionInv, AgesBounded, L!Cap
<1>5. HeardInTime'
  <2> SUFFICES ASSUME misses' <= 1  PROVE HeardInTime'
    BY DEF HeardInTime
  <2>1. misses = 0 /\ misses' = 1
    BY <1>1, <1>2
  <2>2. heard # Nil /\ 0 <= heard /\ heard <= Interval + check /\ (checked < Interval => check <= checked)
    BY <1>1, <2>1 DEF ConnectionInv, HeardInTime
  <2>3. heard \in Int /\ Interval \in Nat /\ Timeout \in Nat
    BY <2>2 DEF ConnectionInv, ConnectionTyped, ConnectionAssumed
  <2>4. heard <= Interval + Timeout /\ (checked < Interval => heard <= checked + Interval)
    BY <1>2, <2>2, <2>3
  <2> QED  BY <1>1, <2>1, <2>2, <2>4 DEF HeardInTime
<1> QED  BY <1>3, <1>4, <1>5 DEF ConnectionInv

LEMMA TickKeepsConnection == ASSUME ConnectionAssumed, ConnectionInv, L!Tick  PROVE ConnectionInv'
<1>1. /\ (check = Nil => ~L!CheckDue) /\ check # Timeout
      /\ heard' = L!Older(heard, 1, L!Cap) /\ episode' = L!Older(episode, 1, L!Cap)
      /\ checked' = L!Older(checked, 1, Interval) /\ check' = L!Older(check, 1, Timeout)
      /\ timers' = [timers EXCEPT !.dropped = L!Older(@, 1, Dwell), !.seen = L!Older(@, 1, Linger),
                                  !.hold = IF @ > 0 THEN @ - 1 ELSE 0]
      /\ misses' = IF misses = 1 /\ check # Nil /\ check' > Slack THEN 2 ELSE misses
      /\ UNCHANGED <<facts, shown, moves>>
  BY DEF L!Tick, L!Idle
<1>2. /\ heard \in Int \cup {Nil} /\ episode \in Int /\ timers \in TimersSet /\ check \in 0..Timeout \cup {Nil}
      /\ checked \in 0..Interval /\ misses \in 0..2 /\ L!Cap \in Int /\ L!Cap = Interval + Timeout + Slack + 1
      /\ Nil \notin Int /\ Interval \in Nat /\ Timeout \in Nat /\ Slack \in Nat /\ Interval <= Timeout
  BY DEF ConnectionInv, ConnectionTyped, ConnectionAssumed, L!Cap, L!Lease
<1>3. /\ heard' = (IF heard = Nil THEN Nil ELSE IF heard + 1 > L!Cap THEN L!Cap ELSE heard + 1)
      /\ episode' = (IF episode + 1 > L!Cap THEN L!Cap ELSE episode + 1)
      /\ checked' = (IF checked + 1 > Interval THEN Interval ELSE checked + 1)
      /\ check' = (IF check = Nil THEN Nil ELSE check + 1)
  BY <1>1, <1>2 DEF L!Older
<1>4. timers' \in TimersSet /\ (timers'.dropped # Nil => timers.dropped # Nil)
  <2> DEFINE a == L!Older(timers.dropped, 1, Dwell)
             b == L!Older(timers.seen, 1, Linger)
             c == IF timers.hold > 0 THEN timers.hold - 1 ELSE 0
  <2>1. /\ timers.dropped \in 0..Dwell \cup {Nil} /\ timers.seen \in 0..Linger \cup {Nil} /\ timers.hold \in 0..Grace
        /\ Dwell \in Nat /\ Linger \in Nat /\ Grace \in Nat
    BY <1>2 DEF TimersSet, ConnectionAssumed
  <2>2. a \in 0..Dwell \cup {Nil} /\ b \in 0..Linger \cup {Nil} /\ c \in 0..Grace /\ (a # Nil => timers.dropped # Nil)
    BY <1>2, <2>1 DEF L!Older
  <2>3. timers' = [timers EXCEPT !.dropped = a, !.seen = b, !.hold = c]
    BY <1>1
  <2> HIDE DEF a, b, c
  <2>4. timers' \in TimersSet /\ timers'.dropped = a
    BY <1>2, <2>2, <2>3 DEF TimersSet
  <2> QED  BY <2>2, <2>4
<1>5. heard' \in Int \cup {Nil} /\ episode' \in Int /\ checked' \in 0..Interval /\ check' \in 0..Timeout \cup {Nil}
      /\ misses' \in 0..2
  <2>1. check' \in 0..Timeout \cup {Nil}
    BY <1>1, <1>2, <1>3
  <2>2. misses' \in 0..2
    BY <1>1, <1>2
  <2> QED  BY <1>2, <1>3, <2>1, <2>2
<1>6. ConnectionTyped'
  BY <1>1, <1>4, <1>5 DEF ConnectionInv, ConnectionTyped
<1>7. AgesBounded'
  <2> DEFINE back == (Slack + 1) * moves
  <2>1. back \in Int /\ 0 <= back
    BY <1>2 DEF ConnectionInv, ConnectionTyped
  <2>2. (heard # Nil => heard <= L!Cap /\ -back <= heard) /\ episode <= L!Cap /\ -back <= episode
    BY DEF ConnectionInv, AgesBounded
  <2> HIDE DEF back
  <2>3. (heard' # Nil => heard' <= L!Cap /\ -back <= heard') /\ episode' <= L!Cap /\ -back <= episode'
    BY <1>2, <1>3, <2>1, <2>2
  <2>4. back' = back /\ L!Cap' = L!Cap
    BY <1>1 DEF back, L!Cap
  <2> QED  BY <2>3, <1>1 DEF AgesBounded, back, L!Cap
<1>8. HeardInTime'
  <2> SUFFICES ASSUME misses' <= 1  PROVE HeardInTime'
    BY DEF HeardInTime
  <2>1. misses <= 1 /\ misses' = misses /\ (misses = 1 /\ check # Nil => check' <= Slack)
    BY <1>1, <1>2, <1>3
  <2>2. /\ heard \in Int /\ 0 <= heard /\ heard # Nil
        /\ check # Nil /\ misses = 0 => heard <= Interval + check /\ (checked < Interval => check <= checked)
        /\ check # Nil /\ misses = 1 => heard <= Interval + Timeout + check /\ check <= Slack
        /\ check = Nil /\ misses = 0 => heard <= Interval /\ heard <= checked
        /\ check = Nil /\ misses = 1 => heard <= Interval + Timeout /\ (checked < Interval => heard <= checked + Interval)
    BY <1>2, <2>1 DEF ConnectionInv, HeardInTime
  <2>3. CASE check # Nil
    <3>1. check \in 0..Timeout /\ check' = check + 1 /\ check' # Nil /\ check < Timeout
      BY <1>1, <1>2, <1>3, <2>3
    <3>2. heard <= Interval + Timeout + Slack /\ heard' = heard + 1
      BY <1>2, <1>3, <2>1, <2>2, <2>3, <3>1
    <3> QED  BY <1>2, <1>3, <2>1, <2>2, <2>3, <3>1, <3>2 DEF HeardInTime
  <2>4. CASE check = Nil
    <3>1. check' = Nil /\ (heard < Interval \/ checked < Interval)
      BY <1>1, <1>2, <1>3, <2>2, <2>4 DEF L!CheckDue
    <3>2. heard' = heard + 1
      BY <1>2, <1>3, <2>1, <2>2, <2>4
    <3>3. CASE misses = 0
      <4>1. heard + 1 <= Interval /\ heard + 1 <= checked'
        BY <1>2, <1>3, <2>2, <2>4, <3>1, <3>3
      <4> QED  BY <1>2, <2>1, <2>2, <3>1, <3>2, <3>3, <4>1 DEF HeardInTime
    <3>4. CASE misses = 1
      <4>1. heard + 1 <= Interval + Timeout /\ (checked' < Interval => heard + 1 <= checked' + Interval)
        BY <1>2, <1>3, <2>2, <2>4, <3>1, <3>4
      <4> QED  BY <1>2, <2>1, <2>2, <3>1, <3>2, <3>4, <4>1 DEF HeardInTime
    <3> QED  BY <1>2, <2>1, <3>3, <3>4
  <2> QED  BY <2>3, <2>4
<1> QED  BY <1>6, <1>7, <1>8 DEF ConnectionInv

LEMMA ClockMovesKeeps ==
  ASSUME ConnectionAssumed, ConnectionInv, NEW d \in {-Slack - 1, WakeGap, WakeGap + 1, OfflineAfter}, L!ClockMoves(d)
  PROVE  ConnectionInv'
<1>1. /\ moves < MaxMoves /\ moves' = moves + 1 /\ misses' = 2
      /\ heard' = L!Older(heard, d, L!Cap) /\ episode' = L!Older(episode, d, L!Cap)
      /\ timers' = [timers EXCEPT !.drift = L!Older(@, d, WakeGap + 1)]
      /\ UNCHANGED <<facts, check, checked, shown>>
  BY DEF L!ClockMoves, L!Move
<1>2. /\ heard \in Int \cup {Nil} /\ episode \in Int /\ timers \in TimersSet /\ moves \in 0..MaxMoves
      /\ L!Cap \in Int /\ 0 <= L!Cap /\ Nil \notin Int /\ d \in Int /\ -(Slack + 1) <= d /\ Slack \in Nat
      /\ WakeGap \in Nat /\ MaxMoves \in Nat
  BY DEF ConnectionInv, ConnectionTyped, ConnectionAssumed, L!Cap, L!Lease
<1>3. timers' \in TimersSet /\ timers'.dropped = timers.dropped
  <2> DEFINE a == L!Older(timers.drift, d, WakeGap + 1)
  <2>1. timers.drift \in Int
    BY <1>2 DEF TimersSet
  <2>2. a \in Int
    BY <1>2, <2>1 DEF L!Older
  <2>3. timers' = [timers EXCEPT !.drift = a]
    BY <1>1
  <2> HIDE DEF a
  <2> QED  BY <1>2, <2>2, <2>3 DEF TimersSet
<1>4. ConnectionTyped'
  <2>1. heard' \in Int \cup {Nil} /\ episode' \in Int /\ moves' \in 0..MaxMoves
    BY <1>1, <1>2 DEF L!Older
  <2> QED  BY <1>1, <1>3, <2>1 DEF ConnectionInv, ConnectionTyped
<1>5. AgesBounded'
  <2> DEFINE back == (Slack + 1) * moves
  <2>1. back \in Int /\ 0 <= back /\ (Slack + 1) * moves' = back + (Slack + 1)
    BY <1>1, <1>2
  <2>2. (heard # Nil => heard <= L!Cap /\ -back <= heard) /\ episode <= L!Cap /\ -back <= episode
    BY DEF ConnectionInv, AgesBounded
  <2> DEFINE next == (Slack + 1) * moves'
  <2> HIDE DEF back, next
  <2>3. next = back + (Slack + 1)
    BY <2>1 DEF back, next
  <2>4. (heard' # Nil => heard' <= L!Cap /\ -next <= heard') /\ episode' <= L!Cap /\ -next <= episode'
    BY <1>1, <1>2, <2>1, <2>2, <2>3 DEF L!Older
  <2> QED  BY <2>4 DEF AgesBounded, next, L!Cap
<1>6. HeardInTime'
  BY <1>1 DEF HeardInTime
<1> QED  BY <1>4, <1>5, <1>6 DEF ConnectionInv

\* The network comes back, or another journal is paired.
LEMMA NewAttemptKeeps ==
  ASSUME ConnectionAssumed, ConnectionInv, L!NetworkReturns \/ L!ResetAssociation
  PROVE  ConnectionInv'
<1>1. /\ moves < MaxMoves /\ moves' = moves + 1 /\ episode' = 0 /\ UNCHANGED <<checked, shown>>
  BY DEF L!NetworkReturns, L!ResetAssociation, L!Move
<1>2. facts' \in FactsKnown
  <2>1. facts \in FactsKnown
    BY DEF ConnectionInv, ConnectionTyped
  <2> QED  BY <2>1 DEF L!NetworkReturns, L!ResetAssociation, FactsKnown, JournalErrors
<1>3. timers' \in TimersSet /\ timers'.dropped = timers.dropped
  <2>1. timers \in TimersSet
    BY DEF ConnectionInv, ConnectionTyped
  <2>2. CASE timers' = timers
    BY <2>1, <2>2
  <2>3. CASE timers' = [timers EXCEPT !.hold = Grace]
    BY <2>1, <2>3 DEF TimersSet, ConnectionAssumed
  <2> QED  BY <2>2, <2>3 DEF L!NetworkReturns, L!ResetAssociation
<1>4. \/ UNCHANGED <<heard, check, misses>>
      \/ heard' = Nil /\ check' = Nil /\ misses' = 2
  BY DEF L!NetworkReturns, L!ResetAssociation
<1>5. ConnectionTyped'
  <2>1. moves' \in 0..MaxMoves
    BY <1>1 DEF ConnectionInv, ConnectionTyped, ConnectionAssumed
  <2> QED  BY <1>1, <1>2, <1>3, <1>4, <2>1 DEF ConnectionInv, ConnectionTyped
<1>6. AgesBounded'
  <2>1. Slack + 1 \in Nat /\ moves \in Nat /\ moves' \in Nat /\ moves <= moves' /\ L!Cap \in Int /\ 0 <= L!Cap
    BY <1>1 DEF ConnectionAssumed, ConnectionInv, ConnectionTyped, L!Cap, L!Lease
  <2>2. (Slack + 1) * moves <= (Slack + 1) * moves' /\ 0 <= (Slack + 1) * moves
        /\ (Slack + 1) * moves \in Int /\ (Slack + 1) * moves' \in Int
    BY <2>1
  <2> QED  BY <1>1, <1>4, <2>1, <2>2 DEF ConnectionInv, ConnectionTyped, AgesBounded, L!Cap
<1>7. HeardInTime'
  BY <1>1, <1>4 DEF ConnectionInv, HeardInTime
<1> QED  BY <1>5, <1>6, <1>7 DEF ConnectionInv

LEMMA ConnectionStep ==
  ASSUME ConnectionAssumed, ConnectionInv, [L!Next]_(L!cvars)
  PROVE  ConnectionInv' /\ L!OneMissIsNoDrop
<1>1. UNCHANGED shown => L!OneMissIsNoDrop
  BY DEF L!OneMissIsNoDrop
<1>2. moves \in 0..MaxMoves /\ facts \in FactsKnown /\ misses \in 0..2 /\ (heard # Nil \/ misses = 2)
      /\ MaxMoves \in Nat
  BY DEF ConnectionInv, ConnectionTyped, HeardInTime, ConnectionAssumed
<1>3. CASE UNCHANGED L!cvars
  BY <1>1, <1>2, <1>3, FactsKeep DEF L!cvars
<1>4. CASE L!Sample
  BY <1>4, SampleKeeps, SampleIsNoDrop
<1>5. CASE L!StartCheck \/ L!CheckFails
  BY <1>1, <1>5, StartCheckKeeps, CheckFailsKeeps DEF L!StartCheck, L!CheckFails
<1>6. CASE L!CheckAnswered \/ L!PassHears \/ L!PassSucceeds
  <2>1. facts' \in FactsKnown
    BY <1>2, <1>6 DEF L!CheckAnswered, L!PassHears, L!PassSucceeds, FactsKnown, JournalErrors
  <2>2. UNCHANGED <<episode, timers, checked, shown, moves>> /\ check' = Nil
    BY <1>6 DEF L!CheckAnswered, L!PassHears, L!PassSucceeds, L!Idle
  <2>3. \/ heard' = 0 /\ misses' = 0
        \/ UNCHANGED <<heard, misses>> /\ check = Nil
    BY <1>6 DEF L!CheckAnswered, L!PassHears, L!PassSucceeds, L!Idle, L!Heard
  <2> QED  BY <1>1, <2>1, <2>2, <2>3, HeardKeeps
<1>7. CASE L!FailureWritten
  <2>1. facts' \in FactsKnown
    BY <1>2, <1>7 DEF L!FailureWritten, FactsKnown
  <2> QED  BY <1>1, <1>2, <1>7, <2>1, FactsKeep DEF L!FailureWritten
<1>8. ASSUME NEW e \in {"auth", "refused", "incompatible"}, L!Refused(e)  PROVE ConnectionInv' /\ L!OneMissIsNoDrop
  <2>0. facts' \in FactsKnown
    BY <1>2, <1>8 DEF L!Refused, FactsKnown, JournalErrors
  <2>1. facts' \in FactsKnown /\ misses' = 2 /\ moves' \in 0..MaxMoves
        /\ UNCHANGED <<heard, episode, timers, checked, shown>>
        /\ check' = Nil
    BY <1>2, <1>8, <2>0 DEF L!Refused, L!Move
  <2>2. moves <= moves'
    BY <1>2, <1>8 DEF L!Refused, L!Move
  <2>3. ConnectionTyped'
    BY <2>1 DEF ConnectionInv, ConnectionTyped
  <2>4. Slack + 1 \in Nat /\ moves \in Nat /\ moves' \in Nat
    BY <1>2, <2>1 DEF ConnectionAssumed
  <2>5. (Slack + 1) * moves <= (Slack + 1) * moves' /\ (Slack + 1) * moves \in Int /\ (Slack + 1) * moves' \in Int
    BY <2>2, <2>4
  <2>6. AgesBounded'
    BY <2>1, <2>5 DEF ConnectionInv, ConnectionTyped, AgesBounded, L!Cap
  <2>7. HeardInTime'
    BY <2>1 DEF HeardInTime
  <2> QED  BY <1>1, <2>1, <2>3, <2>6, <2>7 DEF ConnectionInv
<1>9. CASE L!Tick
  BY <1>1, <1>9, TickKeepsConnection DEF L!Tick
<1>10. ASSUME NEW d \in {-Slack - 1, WakeGap, WakeGap + 1, OfflineAfter}, L!ClockMoves(d)
       PROVE  ConnectionInv' /\ L!OneMissIsNoDrop
  BY <1>1, <1>10, ClockMovesKeeps DEF L!ClockMoves
<1>11. CASE L!LinkChanges \/ L!NetworkLost \/ L!NetworkUnknown
  <2>1. facts' \in FactsKnown
    BY <1>2, <1>11 DEF L!LinkChanges, L!NetworkLost, L!NetworkUnknown, FactsKnown
  <2>2. moves' \in 0..MaxMoves /\ moves <= moves'
    BY <1>2, <1>11 DEF L!LinkChanges, L!NetworkLost, L!NetworkUnknown, L!Move
  <2>3. UNCHANGED <<heard, episode, timers, check, checked, shown>> /\ misses' \in {misses, 2}
    BY <1>11 DEF L!LinkChanges, L!NetworkLost, L!NetworkUnknown
  <2> QED  BY <1>1, <2>1, <2>2, <2>3, FactsKeep
<1>12. CASE L!NetworkReturns \/ L!ResetAssociation
  BY <1>1, <1>12, NewAttemptKeeps DEF L!NetworkReturns, L!ResetAssociation
<1> QED  BY <1>3, <1>4, <1>5, <1>6, <1>7, <1>8, <1>9, <1>10, <1>11, <1>12 DEF L!Next

-----------------------------------------------------------------------------
(* The details of the journal *)

DetailsAssumed == Nil \notin Journals /\ MaxOwners \in Nat /\ MaxDials \in Nat

SayingRecord == [by : Journals, version : Nat]
KeptDetails == [id : Journals, said : SayingRecord, about : SayingRecord \cup {Nil}]
FactRecord == [proven : BOOLEAN, registered : BOOLEAN, unavailable : BOOLEAN, revoked : BOOLEAN,
          observed : BOOLEAN, gen : Nat, optional : BOOLEAN]
LaneRecord == [busy : BOOLEAN, pending : BOOLEAN, passes : 0..2, last : (Nat \X Nat) \cup {Nil}]
AttemptSteps == {"ask", "asks again", "save", "save last", "saving", "noting", "compare", "about", "keeping", "done"}
AttemptRecord == [at : AttemptSteps, epoch : Nat, writer : Journals, lease : BOOLEAN, put : 0..2, dial : Nat,
             said : SayingRecord \cup {Nil}, about : SayingRecord \cup {Nil}]

DetailsTyped ==
  /\ journals \in [Journals -> Nat] /\ owner \in Journals \cup {Nil} /\ fenced \in BOOLEAN /\ epoch \in Nat
  /\ known \in FactRecord /\ lane \in LaneRecord
  /\ dials \in [{"main", "optional"} -> Nat \cup {Nil}]
  /\ dialed \in [owner : Nat, all : Nat]
  /\ attempt \in AttemptRecord \cup {Nil}
  /\ details \in KeptDetails \cup {Nil}

\* The owner changes twice for each owner there is: it comes, and it is lost.
EpochCounts == epoch <= 2 * MaxOwners /\ \E n \in 0..epoch : epoch = 2 * n + (IF owner = Nil THEN 0 ELSE 1)

\* A dial under way was counted, and the facts name no dial that was not proven.
DialCount(x) == IF x = Nil THEN 0 ELSE 1
DialsCount ==
  /\ dialed.owner + DialCount(dials["main"]) + DialCount(dials["optional"]) <= dialed.all /\ dialed.all <= MaxDials
  /\ known.gen <= dialed.owner
  /\ \A which \in {"main", "optional"} : dials[which] # Nil =>
       dials[which] <= epoch /\ (dials[which] = epoch => owner # Nil)

\* What is kept of a journal was said by it, by one version of it.
DetailsAreOfOne == details # Nil => details.said.by = details.id /\ details.about \in {Nil, details.said}

\* An attempt is its owner's: what it was told, its owner's journal said; and what it is about to note or
\* to keep is of the details that are kept.
AttemptRight(a) ==
  /\ a.epoch <= epoch /\ (a.epoch = epoch => a.writer = owner)
  /\ a.about # Nil => a.about.by = a.writer
  /\ a.at \in {"save", "save last", "saving", "keeping"} => a.said \in SayingRecord /\ a.said.by = a.writer
  /\ a.at = "saving" /\ a.epoch = epoch /\ known.observed => a.dial = known.gen
  /\ a.at = "noting" => saved = <<a.epoch, a.dial>> /\ (details # Nil => details.id = a.writer)
  /\ a.at = "keeping" => details # Nil /\ details.said = a.said
AttemptIsOf == attempt # Nil => AttemptRight(attempt)

\* What is observed was saved by the owner of now, after the latest dial.
ObservedIsSaved ==
  known.observed => saved = <<epoch, known.gen>> /\ (details # Nil => details.id = owner)

DetailsInv == DetailsTyped /\ EpochCounts /\ DialsCount /\ DetailsAreOfOne /\ AttemptIsOf /\ ObservedIsSaved

LEMMA DetailsShare == ASSUME DetailsAssumed, DetailsInv  PROVE J!TypeOK /\ J!ShownIsItsOwn
<1>1. J!TypeOK
  <2>1. epoch \in 0..2 * MaxOwners
    BY DEF DetailsInv, DetailsTyped, EpochCounts, DetailsAssumed
  <2>2. known.gen \in 0..MaxDials
    <3>1. known.gen \in Nat /\ dialed.owner \in Nat /\ dialed.all \in Nat /\ MaxDials \in Nat
      BY DEF DetailsInv, DetailsTyped, FactRecord, DetailsAssumed
    <3>2. \A x : DialCount(x) \in {0, 1}
      BY DEF DialCount
    <3>3. dialed.owner + DialCount(dials["main"]) + DialCount(dials["optional"]) <= dialed.all
          /\ dialed.all <= MaxDials
          /\ known.gen <= dialed.owner
      BY DEF DetailsInv, DialsCount
    <3>4. DialCount(dials["main"]) \in {0, 1} /\ DialCount(dials["optional"]) \in {0, 1}
      BY <3>2
    <3> QED  BY <3>1, <3>3, <3>4
  <2>3. lane.passes \in 0..2 /\ owner \in Journals \cup {Nil} /\ (attempt # Nil => attempt.put \in 0..2)
    BY DEF DetailsInv, DetailsTyped, LaneRecord, AttemptRecord
  <2> QED  BY <2>1, <2>2, <2>3 DEF J!TypeOK
<1>2. J!ShownIsItsOwn
  <2> SUFFICES ASSUME NEW j \in Journals, details # Nil, details.id = j
               PROVE  /\ details.said.by = j /\ details.about \in {Nil, details.said}
                      /\ known.observed => owner = j /\ saved = <<epoch, known.gen>>
    BY DEF J!ShownIsItsOwn, J!Shown
  <2> QED  BY DEF DetailsInv, DetailsAreOfOne, ObservedIsSaved
<1> QED  BY <1>1, <1>2

LEMMA DetailsInit == ASSUME DetailsAssumed, J!Init  PROVE DetailsInv
<1>1. J!NoFacts \in FactRecord /\ J!NoFacts.gen = 0 /\ ~J!NoFacts.observed
  BY DEF J!NoFacts, FactRecord
<1>2. J!IdleLane \in LaneRecord
  BY DEF J!IdleLane, LaneRecord
<1>3. dials \in [{"main", "optional"} -> Nat \cup {Nil}] /\ dials["main"] = Nil /\ dials["optional"] = Nil
  BY DEF J!Init, J!NoDials
<1>4. dialed \in [owner : Nat, all : Nat] /\ dialed.owner = 0 /\ dialed.all = 0
  BY DEF J!Init
<1>5. DetailsTyped
  BY <1>1, <1>2, <1>3, <1>4 DEF J!Init, DetailsTyped
<1>6. EpochCounts
  BY DEF J!Init, EpochCounts, DetailsAssumed
<1>7. DialsCount
  BY <1>1, <1>3, <1>4 DEF J!Init, DialsCount, DialCount, DetailsAssumed
<1>8. DetailsAreOfOne /\ AttemptIsOf /\ ObservedIsSaved
  BY <1>1 DEF J!Init, DetailsAreOfOne, AttemptIsOf, ObservedIsSaved
<1> QED  BY <1>5, <1>6, <1>7, <1>8 DEF DetailsInv

LEMMA FenceKeeps == ASSUME DetailsAssumed, DetailsInv, J!Fence \/ \E j \in Journals : J!Upgrade(j)  PROVE DetailsInv'
<1>1. UNCHANGED <<owner, epoch, known, dials, dialed, lane, details, saved>>
  BY DEF J!Fence, J!Upgrade
<1>2. fenced' \in BOOLEAN /\ journals' \in [Journals -> Nat]
  <2>1. fenced \in BOOLEAN /\ journals \in [Journals -> Nat]
    BY DEF DetailsInv, DetailsTyped
  <2>2. CASE J!Fence
    BY <2>1, <2>2 DEF J!Fence
  <2>3. ASSUME NEW j \in Journals, J!Upgrade(j)  PROVE fenced' \in BOOLEAN /\ journals' \in [Journals -> Nat]
    <3>1. journals' = [journals EXCEPT ![j] = @ + 1] /\ fenced' = fenced
      BY <2>3 DEF J!Upgrade
    <3> QED  BY <2>1, <3>1
  <2> QED  BY <2>2, <2>3
<1>3. attempt' \in AttemptRecord \cup {Nil} /\ AttemptIsOf'
  <2>1. CASE attempt' = attempt
    BY <1>1, <2>1 DEF DetailsInv, DetailsTyped, AttemptIsOf, AttemptRight
  <2>2. CASE attempt # Nil /\ attempt' = [attempt EXCEPT !.lease = FALSE]
    <3>1. attempt \in AttemptRecord /\ AttemptRight(attempt)
      BY <2>2 DEF DetailsInv, DetailsTyped, AttemptIsOf
    <3>2. attempt' \in AttemptRecord
      BY <2>2, <3>1 DEF AttemptRecord
    <3>3. AttemptRight(attempt)'
      BY <1>1, <2>2, <3>1 DEF AttemptRight, AttemptRecord
    <3> QED  BY <3>2, <3>3 DEF AttemptIsOf
  <2> QED  BY <2>1, <2>2 DEF J!Fence, J!Upgrade
<1>4. DetailsTyped'
  BY <1>1, <1>2, <1>3 DEF DetailsInv, DetailsTyped
<1>5. EpochCounts' /\ DialsCount' /\ DetailsAreOfOne' /\ ObservedIsSaved'
  BY <1>1 DEF DetailsInv, EpochCounts, DialsCount, DetailsAreOfOne, ObservedIsSaved
<1> QED  BY <1>3, <1>4, <1>5 DEF DetailsInv

LEMMA OwnerKeeps ==
  ASSUME DetailsAssumed, DetailsInv, J!OwnerLost \/ \E j \in Journals : J!StartOwner(j)
  PROVE  DetailsInv'
<1>0. epoch \in Nat /\ epoch' = epoch + 1
  BY DEF J!OwnerLost, J!StartOwner, DetailsInv, DetailsTyped
<1>1. UNCHANGED <<journals, dials, lane, attempt, details, saved>>
  BY DEF J!OwnerLost, J!StartOwner
<1>2. known' \in FactRecord /\ known'.gen = 0 /\ ~known'.observed
  <2>1. J!NoFacts \in FactRecord /\ J!NoFacts.gen = 0 /\ ~J!NoFacts.observed
    BY DEF J!NoFacts, FactRecord
  <2>2. [J!NoFacts EXCEPT !.unavailable = TRUE] \in FactRecord /\ [J!NoFacts EXCEPT !.unavailable = TRUE].gen = 0
        /\ ~[J!NoFacts EXCEPT !.unavailable = TRUE].observed
    BY DEF J!NoFacts, FactRecord
  <2> QED  BY <2>1, <2>2 DEF J!OwnerLost, J!StartOwner
<1>3. fenced' \in BOOLEAN /\ owner' \in Journals \cup {Nil} /\ dialed' \in [owner : Nat, all : Nat]
      /\ dialed'.all = dialed.all /\ dialed'.owner <= dialed.owner /\ 0 <= dialed'.owner
  <2>1. dialed \in [owner : Nat, all : Nat] /\ fenced \in BOOLEAN
    BY DEF DetailsInv, DetailsTyped
  <2>2. CASE J!OwnerLost
    <3>1. fenced' = fenced /\ owner' = Nil /\ dialed' = dialed
      BY <2>2 DEF J!OwnerLost
    <3> QED  BY <2>1, <3>1
  <2>3. ASSUME NEW j \in Journals, J!StartOwner(j)  PROVE <1>3!:
    <3>1. fenced' = FALSE /\ owner' = j /\ dialed' = [dialed EXCEPT !.owner = 0]
      BY <2>3 DEF J!StartOwner
    <3>2. dialed' \in [owner : Nat, all : Nat] /\ dialed'.all = dialed.all /\ dialed'.owner = 0
          /\ dialed.owner \in Nat
      BY <2>1, <3>1
    <3>3. dialed'.owner <= dialed.owner /\ 0 <= dialed'.owner
      BY <3>2
    <3>4. fenced' \in BOOLEAN /\ owner' \in Journals \cup {Nil}
      BY <3>1, Zenon
    <3> QED  BY <3>2, <3>3, <3>4
  <2> QED  BY <2>2, <2>3
<1>4. DetailsTyped'
  BY <1>0, <1>1, <1>2, <1>3 DEF DetailsInv, DetailsTyped
<1>5. EpochCounts'
  <2>1. PICK n \in 0..epoch : epoch = 2 * n + (IF owner = Nil THEN 0 ELSE 1)
    BY DEF DetailsInv, EpochCounts
  <2>2. epoch <= 2 * MaxOwners /\ MaxOwners \in Nat /\ n \in Nat
    BY <1>0 DEF DetailsInv, EpochCounts, DetailsAssumed
  <2>3. CASE J!OwnerLost
    <3>1. owner # Nil /\ owner' = Nil
      BY <2>3 DEF J!OwnerLost
    <3>2. epoch' = 2 * (n + 1) /\ n + 1 \in 0..epoch' /\ epoch' <= 2 * MaxOwners
      BY <1>0, <2>1, <2>2, <3>1
    <3> QED  BY <3>1, <3>2 DEF EpochCounts
  <2>4. CASE \E j \in Journals : J!StartOwner(j)
    <3>1. owner = Nil /\ owner' # Nil /\ epoch < 2 * MaxOwners
      BY <2>4 DEF J!StartOwner, DetailsAssumed
    <3>2. epoch' = 2 * n + 1 /\ n \in 0..epoch' /\ epoch' <= 2 * MaxOwners
      BY <1>0, <2>1, <2>2, <3>1
    <3> QED  BY <3>1, <3>2 DEF EpochCounts
  <2> QED  BY <2>3, <2>4
<1>6. DialsCount'
  <2>1. /\ dialed.owner + DialCount(dials["main"]) + DialCount(dials["optional"]) <= dialed.all
           /\ dialed.all <= MaxDials
        /\ \A which \in {"main", "optional"} : dials[which] # Nil => dials[which] <= epoch
    BY DEF DetailsInv, DialsCount
  <2>2. DialCount(dials["main"]) \in {0, 1} /\ DialCount(dials["optional"]) \in {0, 1} /\ dialed.owner \in Nat
        /\ dialed.all \in Nat
        /\ dialed'.owner \in Nat
    BY <1>3 DEF DialCount, DetailsInv, DetailsTyped
  <2>3. dialed'.owner + DialCount(dials["main"]) + DialCount(dials["optional"]) <= dialed'.all
        /\ dialed'.all <= MaxDials
        /\ known'.gen <= dialed'.owner
    BY <1>2, <1>3, <2>1, <2>2
  <2>4. ASSUME NEW which \in {"main", "optional"}, dials[which] # Nil
        PROVE  dials[which] <= epoch' /\ dials[which] # epoch'
    <3>1. dials[which] \in Nat /\ dials[which] <= epoch
      BY <2>1, <2>4 DEF DetailsInv, DetailsTyped
    <3> QED  BY <1>0, <3>1
  <2> QED  BY <1>1, <2>3, <2>4 DEF DialsCount
<1>7. AttemptIsOf'
  <2> SUFFICES ASSUME attempt # Nil  PROVE AttemptRight(attempt)'
    BY <1>1 DEF AttemptIsOf
  <2>1. attempt \in AttemptRecord /\ AttemptRight(attempt) /\ attempt.epoch \in Nat
    BY DEF DetailsInv, DetailsTyped, AttemptIsOf, AttemptRecord
  <2>2. attempt.epoch <= epoch' /\ attempt.epoch # epoch'
    <3>1. attempt.epoch <= epoch
      BY <2>1 DEF AttemptRight
    <3> QED  BY <1>0, <2>1, <3>1
  <2> QED  BY <1>1, <2>1, <2>2 DEF AttemptRight
<1>8. DetailsAreOfOne' /\ ObservedIsSaved'
  BY <1>1, <1>2 DEF DetailsInv, DetailsAreOfOne, ObservedIsSaved
<1> QED  BY <1>4, <1>5, <1>6, <1>7, <1>8 DEF DetailsInv

LEMMA TriggeredIs ==
  ASSUME DetailsAssumed, epoch \in Nat, NEW l \in LaneRecord, NEW f \in FactRecord
  PROVE  J!Triggered(l, f).lane \in LaneRecord /\ J!Triggered(l, f).starts \in BOOLEAN
<1> DEFINE mark == <<epoch, f.gen>>
           base == IF l.last = Nil \/ l.last[1] # epoch THEN J!IdleLane ELSE l
           n == [base EXCEPT !.last = mark]
           m == IF n.busy THEN n ELSE [n EXCEPT !.passes = 0]
<1>1. J!IdleLane \in LaneRecord
  BY DEF J!IdleLane, LaneRecord
<1>2. mark \in Nat \X Nat
  BY DEF FactRecord
<1>3. base \in LaneRecord
  BY <1>1
<1>4. n \in LaneRecord
  <2> HIDE DEF base, mark
  <2> QED  BY <1>2, <1>3 DEF LaneRecord
<1>5. m \in LaneRecord /\ (~m.busy => m.passes = 0)
  <2> HIDE DEF n
  <2> QED  BY <1>4 DEF LaneRecord
<1>6. [m EXCEPT !.pending = TRUE] \in LaneRecord
  <2> HIDE DEF m
  <2> QED  BY <1>5 DEF LaneRecord
<1>7. ~m.busy => [m EXCEPT !.busy = TRUE, !.pending = FALSE, !.passes = @ + 1] \in LaneRecord
  <2> HIDE DEF m
  <2> SUFFICES ASSUME ~m.busy  PROVE [m EXCEPT !.busy = TRUE, !.pending = FALSE, !.passes = @ + 1] \in LaneRecord
    OBVIOUS
  <2>1. m.passes + 1 = 1 /\ m \in LaneRecord
    BY <1>5
  <2>2. [m EXCEPT !.busy = TRUE] \in LaneRecord
    BY <2>1 DEF LaneRecord
  <2>3. [[m EXCEPT !.busy = TRUE] EXCEPT !.pending = FALSE] \in LaneRecord
    <3> DEFINE x == [m EXCEPT !.busy = TRUE]
    <3> HIDE DEF x
    <3>1. [x EXCEPT !.pending = FALSE] \in LaneRecord
      BY <2>2 DEF LaneRecord, x
    <3> QED  BY <3>1 DEF x
  <2>4. [[[m EXCEPT !.busy = TRUE] EXCEPT !.pending = FALSE] EXCEPT !.passes = 1] \in LaneRecord
    <3> DEFINE x == [[m EXCEPT !.busy = TRUE] EXCEPT !.pending = FALSE]
    <3>1. x \in LaneRecord
      BY <2>3
    <3> HIDE DEF x
    <3>2. [x EXCEPT !.passes = 1] \in LaneRecord
      BY <3>1 DEF LaneRecord
    <3> QED  BY <3>2 DEF x
  <2> QED  BY <2>1, <2>4
<1>8. CASE ~J!Usable(f) \/ f.optional \/ J!SameTrigger(l, f)
  <2>1. J!Triggered(l, f) = [lane |-> l, starts |-> FALSE]
    BY <1>8 DEF J!Triggered
  <2> QED  BY <2>1
<1>9. CASE ~(~J!Usable(f) \/ f.optional \/ J!SameTrigger(l, f))
  <2>1. J!Triggered(l, f) = IF m.busy THEN [lane |-> [m EXCEPT !.pending = TRUE], starts |-> FALSE]
                          ELSE [lane |-> [m EXCEPT !.busy = TRUE, !.pending = FALSE, !.passes = @ + 1],
                                starts |-> TRUE]
    BY <1>9 DEF J!Triggered
  <2> HIDE DEF m
  <2> QED  BY <1>6, <1>7, <2>1
<1> QED  BY <1>8, <1>9

LEMMA NewAttemptIs ==
  ASSUME DetailsAssumed, DetailsInv, owner \in Journals
  PROVE  J!NewAttempt \in AttemptRecord /\ J!NewAttempt.at = "ask" /\ J!NewAttempt.epoch = epoch
         /\ J!NewAttempt.writer = owner
         /\ J!NewAttempt.said = Nil /\ J!NewAttempt.about = Nil
<1>1. epoch \in Nat /\ "ask" \in AttemptSteps /\ 0 \in 0..2 /\ 0 \in Nat
  BY DEF AttemptSteps, DetailsInv, DetailsTyped
<1>2. J!NewAttempt = [at |-> "ask", epoch |-> epoch, writer |-> owner, lease |-> TRUE, put |-> 0, dial |-> 0,
                    said |-> Nil, about |-> Nil]
  BY DEF J!NewAttempt
<1>3. J!NewAttempt \in AttemptRecord
  BY <1>1, <1>2 DEF AttemptRecord
<1> QED  BY <1>2, <1>3

LEMMA DialCountIs == \A x : DialCount(x) \in {0, 1} /\ (x = Nil => DialCount(x) = 0) /\ (x # Nil => DialCount(x) = 1)
  BY DEF DialCount

\* One of the two dials changes.
LEMMA DialsMove ==
  ASSUME DetailsAssumed, DetailsInv, NEW which \in {"main", "optional"}, NEW x \in Nat \cup {Nil},
         dials' = [dials EXCEPT ![which] = x], epoch' = epoch, owner' = owner,
         x # Nil => x = epoch /\ owner # Nil,
         dialed' \in [owner : Nat, all : Nat],
         dialed'.owner + DialCount(x) - dialed'.all <= dialed.owner + DialCount(dials[which]) - dialed.all,
         dialed'.all <= MaxDials, known'.gen <= dialed'.owner
  PROVE  DialsCount' /\ dials' \in [{"main", "optional"} -> Nat \cup {Nil}]
<1>1. dials \in [{"main", "optional"} -> Nat \cup {Nil}] /\ dialed \in [owner : Nat, all : Nat]
  BY DEF DetailsInv, DetailsTyped
<1>2. dialed.owner + DialCount(dials["main"]) + DialCount(dials["optional"]) <= dialed.all
      /\ \A w \in {"main", "optional"} : dials[w] # Nil => dials[w] <= epoch /\ (dials[w] = epoch => owner # Nil)
  BY DEF DetailsInv, DialsCount
<1>3. DialCount(dials["main"]) \in Nat /\ DialCount(dials["optional"]) \in Nat /\ DialCount(x) \in Nat
      /\ dialed.owner \in Nat /\ dialed.all \in Nat /\ dialed'.owner \in Nat /\ dialed'.all \in Nat
  BY <1>1, DialCountIs
<1>4. dials' \in [{"main", "optional"} -> Nat \cup {Nil}]
  BY <1>1
<1>5. dialed'.owner + DialCount(dials'["main"]) + DialCount(dials'["optional"]) <= dialed'.all
  <2>1. CASE which = "main"
    <3>1. dials'["main"] = x /\ dials'["optional"] = dials["optional"]
      BY <1>1, <2>1
    <3> QED  BY <1>2, <1>3, <2>1, <3>1
  <2>2. CASE which = "optional"
    <3>1. dials'["optional"] = x /\ dials'["main"] = dials["main"]
      BY <1>1, <2>2
    <3> QED  BY <1>2, <1>3, <2>2, <3>1
  <2> QED  BY <2>1, <2>2
<1>6. ASSUME NEW w \in {"main", "optional"}, dials'[w] # Nil
      PROVE  dials'[w] <= epoch' /\ (dials'[w] = epoch' => owner' # Nil)
  <2>1. CASE w = which
    <3>1. dials'[w] = x /\ epoch \in Nat
      BY <1>1, <2>1 DEF DetailsInv, DetailsTyped
    <3> QED  BY <1>6, <3>1
  <2>2. CASE w # which
    <3>1. dials'[w] = dials[w]
      BY <1>1, <2>2
    <3> QED  BY <1>2, <1>6, <3>1
  <2> QED  BY <2>1, <2>2
<1> QED  BY <1>4, <1>5, <1>6 DEF DialsCount

LEMMA DialKeeps ==
  ASSUME DetailsAssumed, DetailsInv, NEW which \in {"main", "optional"}, J!BeginDial(which) \/ J!DialFails(which)
  PROVE  DetailsInv'
<1>0. dialed \in [owner : Nat, all : Nat] /\ known \in FactRecord /\ epoch \in Nat /\ known.gen <= dialed.owner
      /\ dialed.all <= MaxDials /\ MaxDials \in Nat
  BY DEF DetailsInv, DetailsTyped, DialsCount, DetailsAssumed
<1>1. UNCHANGED <<journals, owner, fenced, epoch, lane, attempt, details, saved>>
  BY DEF J!BeginDial, J!DialFails
<1>2. DialsCount' /\ dials' \in [{"main", "optional"} -> Nat \cup {Nil}] /\ known' \in FactRecord
      /\ known'.gen = known.gen
      /\ (known'.observed => known.observed) /\ dialed' \in [owner : Nat, all : Nat]
  <2>1. CASE J!BeginDial(which)
    <3>1. PICK p \in BOOLEAN : known' = [known EXCEPT !.observed = FALSE, !.proven = p]
      <4>1. known' = [known EXCEPT !.observed = FALSE, !.proven = (which = "optional" /\ known.proven)]
        BY <1>0, <2>1 DEF J!BeginDial
      <4>2. (which = "optional" /\ known.proven) \in BOOLEAN
        OBVIOUS
      <4> QED  BY <4>1, <4>2
    <3>2. known' \in FactRecord /\ known'.gen = known.gen /\ ~known'.observed
      BY <1>0, <3>1 DEF FactRecord
    <3>3. /\ owner # Nil /\ dials[which] = Nil /\ dialed.all < MaxDials /\ dials' = [dials EXCEPT ![which] = epoch]
          /\ dialed' = [dialed EXCEPT !.all = @ + 1]
      BY <2>1 DEF J!BeginDial
    <3>4. dialed' \in [owner : Nat, all : Nat] /\ dialed'.owner = dialed.owner /\ dialed'.all = dialed.all + 1
      BY <1>0, <3>3
    <3>5. dialed'.owner + DialCount(epoch) - dialed'.all <= dialed.owner + DialCount(dials[which]) - dialed.all
      <4>1. DialCount(epoch) \in {0, 1} /\ DialCount(dials[which]) = 0
        BY <3>3, DialCountIs
      <4>2. dialed.owner \in Nat /\ dialed.all \in Nat
        BY <1>0
      <4> QED  BY <3>4, <4>1, <4>2
    <3>6. dialed'.all <= MaxDials /\ known'.gen <= dialed'.owner
      BY <1>0, <3>2, <3>3, <3>4
    <3> QED  BY <1>0, <1>1, <3>2, <3>3, <3>4, <3>5, <3>6, DialsMove
  <2>2. CASE J!DialFails(which)
    <3>1. known' = known /\ dialed' = dialed /\ dials[which] # Nil /\ dials' = [dials EXCEPT ![which] = Nil]
      BY <2>2 DEF J!DialFails
    <3>2. dialed'.owner + DialCount(Nil) - dialed'.all <= dialed.owner + DialCount(dials[which]) - dialed.all
      <4>1. DialCount(Nil) = 0 /\ DialCount(dials[which]) = 1
        BY <3>1, DialCountIs
      <4>2. dialed.owner \in Nat /\ dialed.all \in Nat
        BY <1>0
      <4> QED  BY <3>1, <4>1, <4>2
    <3> QED  BY <1>0, <1>1, <3>1, <3>2, DialsMove
  <2> QED  BY <2>1, <2>2
<1>3. DetailsTyped'
  BY <1>1, <1>2 DEF DetailsInv, DetailsTyped
<1>4. AttemptIsOf'
  BY <1>1, <1>2 DEF DetailsInv, AttemptIsOf, AttemptRight
<1>5. EpochCounts' /\ DetailsAreOfOne' /\ ObservedIsSaved'
  BY <1>1, <1>2 DEF DetailsInv, EpochCounts, DetailsAreOfOne, ObservedIsSaved
<1> QED  BY <1>2, <1>3, <1>4, <1>5 DEF DetailsInv

\* A fact is published of a carrier: nothing is observed over it yet.
LEMMA PublishKeeps ==
  ASSUME DetailsAssumed, DetailsInv, NEW f \in FactRecord, ~f.observed, owner \in Journals, J!Publishes(f),
         UNCHANGED <<journals, owner, fenced, epoch, details, saved>>,
         DialsCount', dials' \in [{"main", "optional"} -> Nat \cup {Nil}], dialed' \in [owner : Nat, all : Nat]
  PROVE  DetailsInv'
<1>1. known' = f /\ lane' = J!Triggered(lane, f).lane
      /\ attempt' = IF J!Triggered(lane, f).starts THEN J!NewAttempt ELSE attempt
  BY DEF J!Publishes
<1>2. lane' \in LaneRecord
  BY <1>1, TriggeredIs DEF DetailsInv, DetailsTyped
<1>3. attempt' \in AttemptRecord \cup {Nil} /\ AttemptIsOf'
  <2>1. CASE attempt' = attempt
    BY <1>1, <2>1 DEF DetailsInv, DetailsTyped, AttemptIsOf, AttemptRight
  <2>2. CASE attempt' = J!NewAttempt
    <3>1. attempt' \in AttemptRecord /\ attempt'.at = "ask" /\ attempt'.epoch = epoch /\ attempt'.writer = owner
          /\ attempt'.said = Nil /\ attempt'.about = Nil
      BY <2>2, NewAttemptIs
    <3>2. AttemptRight(attempt)'
      <4>1. epoch <= epoch
        BY DEF DetailsInv, DetailsTyped
      <4> QED  BY <3>1, <4>1 DEF AttemptRight
    <3> QED  BY <3>1, <3>2 DEF AttemptIsOf
  <2> QED  BY <1>1, <2>1, <2>2
<1>4. DetailsTyped'
  BY <1>1, <1>2, <1>3 DEF DetailsInv, DetailsTyped
<1>5. EpochCounts' /\ DetailsAreOfOne' /\ ObservedIsSaved'
  BY <1>1 DEF DetailsInv, EpochCounts, DetailsAreOfOne, ObservedIsSaved
<1> QED  BY <1>3, <1>4, <1>5 DEF DetailsInv

LEMMA ProvesKeeps ==
  ASSUME DetailsAssumed, DetailsInv, NEW which \in {"main", "optional"}, J!DialProves(which)
  PROVE  DetailsInv'
<1>0. dialed \in [owner : Nat, all : Nat] /\ known \in FactRecord /\ epoch \in Nat /\ known.gen <= dialed.owner
      /\ dialed.all <= MaxDials /\ MaxDials \in Nat /\ dialed.owner \in Nat /\ dialed.all \in Nat /\ known.gen \in Nat
  BY DEF DetailsInv, DetailsTyped, DialsCount, DetailsAssumed, FactRecord
<1>1. dials[which] # Nil /\ dials' = [dials EXCEPT ![which] = Nil]
      /\ UNCHANGED <<journals, owner, fenced, epoch, details, events, saved>>
  BY DEF J!DialProves
<1>2. DialCount(Nil) = 0 /\ DialCount(dials[which]) = 1
  BY <1>1, DialCountIs
<1>3. CASE dials[which] = epoch /\ ~fenced
  <2> DEFINE g == dialed.owner + 1
             f == J!Proven(known, g, which = "optional")
             h == [f EXCEPT !.registered = TRUE, !.unavailable = FALSE]
  <2>1. dialed' = [dialed EXCEPT !.owner = @ + 1] /\ J!Publishes(h)
    BY <1>3 DEF J!DialProves
  <2>2. g \in Nat /\ known.gen # g
    BY <1>0
  <2>3. PICK o \in BOOLEAN : o = (which = "optional")
    OBVIOUS
  <2>4. f = [known EXCEPT !.gen = g, !.optional = o, !.proven = TRUE, !.observed = FALSE]
    <3> HIDE DEF g
    <3>1. f = [known EXCEPT !.gen = g, !.optional = o, !.proven = TRUE, !.observed = @ /\ known.gen = g]
      BY <2>3 DEF J!Proven
    <3>2. (known.observed /\ known.gen = g) = FALSE
      BY <2>2
    <3> QED  BY <1>0, <3>1, <3>2
  <2>5. f \in FactRecord /\ ~f.observed /\ f.gen = g
    <3> HIDE DEF g, f
    <3> QED  BY <1>0, <2>2, <2>4 DEF FactRecord
  <2>6. h \in FactRecord /\ ~h.observed /\ h.gen = g
    <3> HIDE DEF g, f
    <3> QED  BY <2>5 DEF FactRecord
  <2>7. known' = h
    BY <2>1 DEF J!Publishes
  <2>8. dialed' \in [owner : Nat, all : Nat] /\ dialed'.owner = dialed.owner + 1 /\ dialed'.all = dialed.all
    BY <1>0, <2>1
  <2>9. owner \in Journals
    BY <1>1, <1>3 DEF DetailsInv, DetailsTyped, DialsCount
  <2> HIDE DEF h, f
  <2>10. DialsCount' /\ dials' \in [{"main", "optional"} -> Nat \cup {Nil}]
    <3>1. dialed'.owner + DialCount(Nil) - dialed'.all <= dialed.owner + DialCount(dials[which]) - dialed.all
      BY <1>0, <1>2, <2>8
    <3>2. known'.gen <= dialed'.owner /\ dialed'.all <= MaxDials
      BY <1>0, <2>6, <2>7, <2>8
    <3> QED  BY <1>1, <2>8, <3>1, <3>2, DialsMove
  <2> QED  BY <1>1, <2>1, <2>6, <2>8, <2>9, <2>10, PublishKeeps
<1>4. CASE ~(dials[which] = epoch /\ ~fenced)
  <2>1. UNCHANGED <<dialed, known, lane, attempt>>
    BY <1>4 DEF J!DialProves
  <2>2. dialed'.owner + DialCount(Nil) - dialed'.all <= dialed.owner + DialCount(dials[which]) - dialed.all
    BY <1>0, <1>2, <2>1
  <2>3. DialsCount' /\ dials' \in [{"main", "optional"} -> Nat \cup {Nil}]
    BY <1>0, <1>1, <2>1, <2>2, DialsMove
  <2>4. DetailsTyped'
    BY <1>1, <2>1, <2>3 DEF DetailsInv, DetailsTyped
  <2> QED  BY <1>1, <2>1, <2>3, <2>4
           DEF DetailsInv, EpochCounts, DetailsAreOfOne, AttemptIsOf, AttemptRight, ObservedIsSaved
<1> QED  BY <1>3, <1>4

LEMMA RefusedKeeps ==
  ASSUME DetailsAssumed, DetailsInv, NEW why \in {"unavailable", "revoked"}, J!LinkRefused(why)
  PROVE  DetailsInv'
<1>1. UNCHANGED <<journals, owner, fenced, epoch, dials, dialed, lane, attempt, details, saved>>
      /\ known' = [known EXCEPT ![why] = TRUE, !.observed = FALSE]
  BY DEF J!LinkRefused
<1>2. known \in FactRecord
  BY DEF DetailsInv, DetailsTyped
<1>3. known' \in FactRecord /\ ~known'.observed /\ known'.gen = known.gen
  <2>1. CASE why = "unavailable"
    <3>1. known' = [known EXCEPT !.unavailable = TRUE, !.observed = FALSE]
      BY <1>1, <2>1
    <3> QED  BY <1>2, <3>1 DEF FactRecord
  <2>2. CASE why = "revoked"
    <3>1. known' = [known EXCEPT !.revoked = TRUE, !.observed = FALSE]
      BY <1>1, <2>2
    <3> QED  BY <1>2, <3>1 DEF FactRecord
  <2> QED  BY <2>1, <2>2
<1>4. DetailsTyped'
  BY <1>1, <1>3 DEF DetailsInv, DetailsTyped
<1>5. EpochCounts' /\ DialsCount' /\ DetailsAreOfOne' /\ AttemptIsOf' /\ ObservedIsSaved'
  BY <1>1, <1>3 DEF DetailsInv, EpochCounts, DialsCount, DetailsAreOfOne, AttemptIsOf, AttemptRight, ObservedIsSaved
<1> QED  BY <1>4, <1>5 DEF DetailsInv

\* A step of the attempt that changes nothing else.
LEMMA AttemptMoves ==
  ASSUME DetailsAssumed, DetailsInv, attempt # Nil,
         UNCHANGED <<journals, owner, fenced, epoch, dials, dialed, lane, known, details, saved>>,
         attempt' \in AttemptRecord, AttemptRight(attempt)'
  PROVE  DetailsInv'
<1>1. DetailsTyped'
  BY DEF DetailsInv, DetailsTyped
<1> QED  BY <1>1 DEF DetailsInv, EpochCounts, DialsCount, DetailsAreOfOne, AttemptIsOf, ObservedIsSaved

\* It goes on to what it holds nothing for.
LEMMA GoKeeps ==
  ASSUME DetailsAssumed, DetailsInv, attempt # Nil, NEW p \in {"about", "compare", "done"}, J!Go(p),
         UNCHANGED <<journals, owner, fenced, epoch, dials, dialed, lane, known, details, saved>>
  PROVE  DetailsInv'
<1>1. attempt \in AttemptRecord /\ AttemptRight(attempt)
  BY DEF DetailsInv, DetailsTyped, AttemptIsOf
<1>2. attempt' = [attempt EXCEPT !.at = p]
  BY DEF J!Go
<1>3. attempt' \in AttemptRecord
  BY <1>1, <1>2 DEF AttemptRecord, AttemptSteps
<1>4. attempt'.at = p /\ attempt'.epoch = attempt.epoch /\ attempt'.writer = attempt.writer
      /\ attempt'.said = attempt.said
      /\ attempt'.about = attempt.about
  BY <1>1, <1>2 DEF AttemptRecord
<1>5. AttemptRight(attempt)'
  BY <1>1, <1>4 DEF AttemptRight
<1> QED  BY <1>3, <1>5, AttemptMoves

\* What the journal answers is what it says itself.
LEMMA SaysIs ==
  ASSUME DetailsAssumed, DetailsInv, attempt # Nil, J!Asking
  PROVE  J!Says(owner) \in SayingRecord /\ J!Says(owner).by = attempt.writer
<1>1. owner \in Journals /\ owner = attempt.writer
  BY DEF DetailsInv, DetailsTyped, AttemptIsOf, AttemptRight, J!Asking, AttemptRecord
<1>2. journals[owner] \in Nat
  BY <1>1 DEF DetailsInv, DetailsTyped
<1> QED  BY <1>1, <1>2 DEF J!Says, SayingRecord

LEMMA AnsweredKeeps ==
  ASSUME DetailsAssumed, DetailsInv, attempt # Nil, J!Asking, NEW p \in {"save", "save last"},
         attempt' = [attempt EXCEPT !.at = p, !.said = J!Says(owner)],
         UNCHANGED <<journals, owner, fenced, epoch, dials, dialed, lane, known, details, saved>>
  PROVE  DetailsInv'
<1>1. attempt \in AttemptRecord /\ AttemptRight(attempt)
  BY DEF DetailsInv, DetailsTyped, AttemptIsOf
<1>2. J!Says(owner) \in SayingRecord /\ J!Says(owner).by = attempt.writer
  BY SaysIs
<1> DEFINE s == J!Says(owner)
<1>3. attempt' = [attempt EXCEPT !.at = p, !.said = s]
  OBVIOUS
<1> HIDE DEF s
<1>4. attempt' \in AttemptRecord
  BY <1>1, <1>2, <1>3 DEF AttemptRecord, AttemptSteps, s
<1>5. attempt'.at = p /\ attempt'.epoch = attempt.epoch /\ attempt'.writer = attempt.writer /\ attempt'.said = s
      /\ attempt'.about = attempt.about
  BY <1>1, <1>3 DEF AttemptRecord
<1>6. s.by = attempt.writer /\ s \in SayingRecord
  BY <1>2 DEF s
<1>7. AttemptRight(attempt)'
  BY <1>1, <1>5, <1>6 DEF AttemptRight
<1> QED  BY <1>4, <1>7, AttemptMoves

LEMMA AskKeeps == ASSUME DetailsAssumed, DetailsInv, J!Asks \/ J!AsksAbout \/ J!Compare  PROVE DetailsInv'
<1>0. attempt # Nil /\ UNCHANGED <<journals, owner, fenced, epoch, dials, dialed, lane, known, details, saved>>
  BY DEF J!Asks, J!AsksAbout, J!Compare, J!At, J!Rest
<1>1. attempt \in AttemptRecord /\ AttemptRight(attempt)
  BY <1>0 DEF DetailsInv, DetailsTyped, AttemptIsOf
<1>2. CASE J!Asks
  <2>1. CASE J!Asking /\ attempt' = [attempt EXCEPT !.at = "save", !.said = J!Says(owner)]
    BY <1>0, <2>1, AnsweredKeeps
  <2>2. CASE J!Asking /\ attempt' = [attempt EXCEPT !.at = "save last", !.said = J!Says(owner)]
    BY <1>0, <2>2, AnsweredKeeps
  <2>3. CASE J!Go("about")
    BY <1>0, <2>3, GoKeeps
  <2> QED  BY <1>2, <2>1, <2>2, <2>3 DEF J!Asks
<1>3. CASE J!AsksAbout
  <2> DEFINE s == J!Says(owner)
  <2>1. J!Asking /\ attempt' = [attempt EXCEPT !.about = s]
    BY <1>3 DEF J!AsksAbout
  <2>2. s \in SayingRecord /\ s.by = attempt.writer
    BY <1>0, <2>1, SaysIs
  <2> HIDE DEF s
  <2>3. attempt' \in AttemptRecord
    BY <1>1, <2>1, <2>2 DEF AttemptRecord
  <2>4. attempt'.at = attempt.at /\ attempt'.epoch = attempt.epoch /\ attempt'.writer = attempt.writer
        /\ attempt'.said = attempt.said /\ attempt'.dial = attempt.dial /\ attempt'.about = s
    BY <1>1, <2>1 DEF AttemptRecord
  <2>5. AttemptRight(attempt)'
    BY <1>0, <1>1, <2>2, <2>4 DEF AttemptRight
  <2> QED  BY <1>0, <2>3, <2>5, AttemptMoves
<1>4. CASE J!Compare
  <2>1. CASE J!Go("about")
    BY <1>0, <2>1, GoKeeps
  <2>2. CASE J!Asking /\ attempt' = [attempt EXCEPT !.at = "save last", !.said = J!Says(owner)]
    BY <1>0, <2>2, AnsweredKeeps
  <2>3. CASE attempt' = [attempt EXCEPT !.at = "asks again", !.put = 1]
    <3>0. "asks again" \in AttemptSteps /\ 1 \in 0..2
      BY DEF AttemptSteps
    <3>1. attempt' \in AttemptRecord
      BY <1>1, <2>3, <3>0 DEF AttemptRecord
    <3>2. attempt'.at = "asks again" /\ attempt'.epoch = attempt.epoch /\ attempt'.writer = attempt.writer
          /\ attempt'.said = attempt.said /\ attempt'.about = attempt.about
      BY <1>1, <2>3 DEF AttemptRecord
    <3>3. AttemptRight(attempt)'
      BY <1>0, <1>1, <3>2 DEF AttemptRight
    <3> QED  BY <1>0, <3>1, <3>3, AttemptMoves
  <2> QED  BY <1>4, <2>1, <2>2, <2>3 DEF J!Compare
<1> QED  BY <1>2, <1>3, <1>4

LEMMA BeginSaveKeeps == ASSUME DetailsAssumed, DetailsInv, J!BeginSave  PROVE DetailsInv'
<1>0. attempt # Nil /\ attempt.at \in {"save", "save last"}
      /\ UNCHANGED <<journals, owner, fenced, epoch, dials, dialed, lane, known, details, saved>>
  BY DEF J!BeginSave, J!At, J!Rest
<1>1. attempt \in AttemptRecord /\ AttemptRight(attempt) /\ known.gen \in Nat
  BY <1>0 DEF DetailsInv, DetailsTyped, AttemptIsOf, FactRecord
<1>2. CASE J!Go("about")
  BY <1>0, <1>2, GoKeeps
<1>3. CASE J!MayPublish
  <2>1. PICK n \in 0..2 : attempt' = [attempt EXCEPT !.at = "saving", !.dial = known.gen, !.put = n]
    <3>1. attempt.put \in 0..2 /\ 2 \in 0..2
      BY <1>1 DEF AttemptRecord
    <3> QED  BY <1>3, <3>1 DEF J!BeginSave
  <2>2. attempt' \in AttemptRecord
    BY <1>1, <2>1 DEF AttemptRecord, AttemptSteps
  <2>3. attempt'.at = "saving" /\ attempt'.epoch = attempt.epoch /\ attempt'.writer = attempt.writer
        /\ attempt'.said = attempt.said /\ attempt'.about = attempt.about /\ attempt'.dial = known.gen
    BY <1>1, <2>1 DEF AttemptRecord
  <2>4. AttemptRight(attempt)'
    BY <1>0, <1>1, <2>3 DEF AttemptRight
  <2> QED  BY <1>0, <2>2, <2>4, AttemptMoves
<1> QED  BY <1>2, <1>3 DEF J!BeginSave

\* What is kept of a journal's earlier About text is of the same version.
LEMMA SaveKeeps == ASSUME DetailsAssumed, DetailsInv, J!Save  PROVE DetailsInv'
<1>0. attempt # Nil /\ attempt.at = "saving"
      /\ UNCHANGED <<journals, owner, fenced, epoch, dials, dialed, lane, known>>
  BY DEF J!Save, J!At, J!Rest
<1>1. attempt \in AttemptRecord /\ AttemptRight(attempt)
  BY <1>0 DEF DetailsInv, DetailsTyped, AttemptIsOf
<1>2. CASE J!Go("about") /\ UNCHANGED <<details, saved>>
  BY <1>0, <1>2, GoKeeps
<1> DEFINE text == IF details # Nil /\ details.id = attempt.writer /\ details.said.version = attempt.said.version
                   THEN details.about ELSE Nil
<1>3. CASE /\ J!MayPublish /\ J!Go("noting") /\ saved' = <<epoch, attempt.dial>>
           /\ details' = [id |-> attempt.writer, said |-> attempt.said, about |-> text]
  <2>1. details' = [id |-> attempt.writer, said |-> attempt.said, about |-> text] /\ saved' = <<epoch, attempt.dial>>
    BY <1>3
  <2>2. attempt.said \in SayingRecord /\ attempt.said.by = attempt.writer /\ attempt.writer \in Journals
        /\ attempt.epoch = epoch
    BY <1>0, <1>1, <1>3 DEF AttemptRight, AttemptRecord, J!MayPublish
  <2>3. text \in {Nil, attempt.said}
    <3> SUFFICES ASSUME details # Nil, details.id = attempt.writer, details.said.version = attempt.said.version,
                        details.about # Nil
                 PROVE  details.about = attempt.said
      OBVIOUS
    <3>1. details \in KeptDetails /\ details.about = details.said /\ details.said.by = details.id
      BY DEF DetailsInv, DetailsTyped, DetailsAreOfOne
    <3>2. details.said \in SayingRecord
      BY <3>1 DEF KeptDetails
    <3> QED  BY <2>2, <3>1, <3>2 DEF SayingRecord
  <2> HIDE DEF text
  <2>4. details' \in KeptDetails /\ details'.id = attempt.writer /\ details'.said = attempt.said
        /\ details'.about = text
    BY <2>1, <2>2, <2>3 DEF KeptDetails
  <2>5. attempt' = [attempt EXCEPT !.at = "noting"]
    BY <1>3 DEF J!Go
  <2>6. attempt' \in AttemptRecord
    BY <1>1, <2>5 DEF AttemptRecord, AttemptSteps
  <2>7. attempt'.at = "noting" /\ attempt'.epoch = attempt.epoch /\ attempt'.writer = attempt.writer
        /\ attempt'.said = attempt.said /\ attempt'.about = attempt.about /\ attempt'.dial = attempt.dial
    BY <1>1, <2>5 DEF AttemptRecord
  <2>8. AttemptRight(attempt)'
    BY <1>0, <1>1, <2>1, <2>2, <2>4, <2>7 DEF AttemptRight
  <2>9. DetailsTyped'
    BY <1>0, <2>4, <2>6 DEF DetailsInv, DetailsTyped
  <2>10. DetailsAreOfOne'
    BY <2>2, <2>3, <2>4 DEF DetailsAreOfOne
  <2>11. ObservedIsSaved'
    BY <1>0, <1>1, <2>1, <2>2, <2>4 DEF ObservedIsSaved, AttemptRight
  <2>12. EpochCounts' /\ DialsCount'
    BY <1>0 DEF DetailsInv, EpochCounts, DialsCount
  <2> QED  BY <2>8, <2>9, <2>10, <2>11, <2>12 DEF DetailsInv, AttemptIsOf
<1> QED  BY <1>2, <1>3 DEF J!Save

LEMMA NoteKeeps == ASSUME DetailsAssumed, DetailsInv, J!NoteSaved  PROVE DetailsInv'
<1>0. attempt # Nil /\ attempt.at = "noting"
      /\ UNCHANGED <<journals, owner, fenced, epoch, dials, dialed, lane, details, saved>>
  BY DEF J!NoteSaved, J!At, J!Rest
<1>1. attempt \in AttemptRecord /\ AttemptRight(attempt) /\ known \in FactRecord
  BY <1>0 DEF DetailsInv, DetailsTyped, AttemptIsOf
<1>2. PICK b \in BOOLEAN :
        /\ b = (known.observed \/ (attempt.epoch = epoch /\ known.gen = attempt.dial /\ J!Usable(known)))
        /\ known' = [known EXCEPT !.observed = b]
  <2>1. known' = [known EXCEPT !.observed = known.observed \/ (attempt.epoch = epoch /\ known.gen = attempt.dial /\ J!Usable(known))]
    BY <1>1 DEF J!NoteSaved
  <2> QED  BY <2>1
<1>3. known' \in FactRecord /\ known'.observed = b /\ known'.gen = known.gen
  BY <1>1, <1>2 DEF FactRecord
<1>4. PICK p \in {"compare", "about"} : attempt' = [attempt EXCEPT !.at = p]
  BY DEF J!NoteSaved, J!Go
<1>5. attempt' \in AttemptRecord
  BY <1>1, <1>4 DEF AttemptRecord, AttemptSteps
<1>6. attempt'.at = p /\ attempt'.epoch = attempt.epoch /\ attempt'.writer = attempt.writer
      /\ attempt'.said = attempt.said
      /\ attempt'.about = attempt.about
  BY <1>1, <1>4 DEF AttemptRecord
<1>7. AttemptRight(attempt)'
  BY <1>0, <1>1, <1>6 DEF AttemptRight
<1>8. ObservedIsSaved'
  <2> SUFFICES ASSUME b  PROVE saved = <<epoch, known.gen>> /\ (details # Nil => details.id = owner)
    BY <1>0, <1>3 DEF ObservedIsSaved
  <2>1. CASE known.observed
    BY <2>1 DEF DetailsInv, ObservedIsSaved
  <2>2. CASE attempt.epoch = epoch /\ known.gen = attempt.dial
    BY <1>0, <1>1, <2>2 DEF AttemptRight
  <2> QED  BY <1>2, <2>1, <2>2
<1>9. DetailsTyped'
  BY <1>0, <1>3, <1>5 DEF DetailsInv, DetailsTyped
<1>10. EpochCounts' /\ DialsCount' /\ DetailsAreOfOne'
  BY <1>0, <1>3 DEF DetailsInv, EpochCounts, DialsCount, DetailsAreOfOne
<1> QED  BY <1>7, <1>8, <1>9, <1>10 DEF DetailsInv, AttemptIsOf

LEMMA AboutKeeps == ASSUME DetailsAssumed, DetailsInv, J!SaveAbout \/ J!KeepAbout  PROVE DetailsInv'
<1>0. attempt # Nil /\ UNCHANGED <<journals, owner, fenced, epoch, dials, dialed, lane, known, saved>>
  BY DEF J!SaveAbout, J!KeepAbout, J!At, J!Rest
<1>1. attempt \in AttemptRecord /\ AttemptRight(attempt)
  BY <1>0 DEF DetailsInv, DetailsTyped, AttemptIsOf
<1>2. CASE J!Go("done") /\ UNCHANGED details
  BY <1>0, <1>2, GoKeeps
<1>3. CASE J!SaveAbout /\ attempt.about # Nil /\ J!AboutFits(attempt.about)
           /\ attempt' = [attempt EXCEPT !.at = "keeping", !.said = attempt.about]
  <2>1. attempt' \in AttemptRecord
    BY <1>1, <1>3 DEF AttemptRecord, AttemptSteps
  <2>2. attempt'.at = "keeping" /\ attempt'.epoch = attempt.epoch /\ attempt'.writer = attempt.writer
        /\ attempt'.said = attempt.about /\ attempt'.about = attempt.about
    BY <1>1, <1>3 DEF AttemptRecord
  <2>3. details # Nil /\ details.said = attempt.about
    <3>1. details # Nil /\ details.id = attempt.writer /\ details.said.version = attempt.about.version
      BY <1>3 DEF J!AboutFits
    <3>2. details.said \in SayingRecord /\ details.said.by = details.id
      BY <3>1 DEF DetailsInv, DetailsTyped, DetailsAreOfOne, KeptDetails
    <3>3. attempt.about \in SayingRecord /\ attempt.about.by = attempt.writer
      BY <1>1, <1>3 DEF AttemptRight, AttemptRecord
    <3> QED  BY <3>1, <3>2, <3>3 DEF SayingRecord
  <2>4. UNCHANGED details
    BY <1>3 DEF J!SaveAbout
  <2>6. attempt.about \in SayingRecord /\ attempt.about.by = attempt.writer
    BY <1>1, <1>3 DEF AttemptRight, AttemptRecord
  <2>5. AttemptRight(attempt)'
    BY <1>0, <1>1, <1>3, <2>2, <2>3, <2>4, <2>6 DEF AttemptRight
  <2> QED  BY <1>0, <2>1, <2>4, <2>5, AttemptMoves
<1>4. CASE attempt.at = "keeping" /\ J!Go("done") /\ details' = [details EXCEPT !.about = attempt.said]
  <2>1. details \in KeptDetails /\ details.said = attempt.said /\ details.said.by = details.id
    BY <1>1, <1>4 DEF AttemptRight, DetailsInv, DetailsTyped, DetailsAreOfOne
  <2>2. details.said \in SayingRecord
    BY <2>1 DEF KeptDetails
  <2>3. details' \in KeptDetails /\ details'.id = details.id /\ details'.said = details.said
        /\ details'.about = details.said
    BY <1>4, <2>1, <2>2 DEF KeptDetails
  <2>4. attempt' = [attempt EXCEPT !.at = "done"]
    BY <1>4 DEF J!Go
  <2>5. attempt' \in AttemptRecord
    BY <1>1, <2>4 DEF AttemptRecord, AttemptSteps
  <2>6. attempt'.at = "done" /\ attempt'.epoch = attempt.epoch /\ attempt'.writer = attempt.writer
        /\ attempt'.said = attempt.said /\ attempt'.about = attempt.about
    BY <1>1, <2>4 DEF AttemptRecord
  <2>7. AttemptRight(attempt)'
    BY <1>0, <1>1, <2>6 DEF AttemptRight
  <2>8. DetailsTyped'
    BY <1>0, <2>3, <2>5 DEF DetailsInv, DetailsTyped
  <2>9. DetailsAreOfOne' /\ ObservedIsSaved' /\ EpochCounts' /\ DialsCount'
    <3>1. details # Nil
      BY <1>1, <1>4 DEF AttemptRight
    <3> QED  BY <1>0, <2>1, <2>3, <3>1 DEF DetailsInv, DetailsAreOfOne, ObservedIsSaved, EpochCounts, DialsCount
  <2> QED  BY <2>7, <2>8, <2>9 DEF DetailsInv, AttemptIsOf
<1>5. CASE J!SaveAbout
  BY <1>2, <1>3, <1>5 DEF J!SaveAbout
<1>6. CASE J!KeepAbout
  BY <1>2, <1>4, <1>6 DEF J!KeepAbout, J!At
<1> QED  BY <1>5, <1>6

LEMMA ExpireKeeps == ASSUME DetailsAssumed, DetailsInv, J!Expire  PROVE DetailsInv'
<1>0. attempt # Nil /\ UNCHANGED <<journals, owner, fenced, epoch, dials, dialed, lane, known, details, saved>>
      /\ attempt' = [attempt EXCEPT !.lease = FALSE]
  BY DEF J!Expire, J!Rest
<1>1. attempt \in AttemptRecord /\ AttemptRight(attempt)
  BY <1>0 DEF DetailsInv, DetailsTyped, AttemptIsOf
<1>2. attempt' \in AttemptRecord
  BY <1>0, <1>1 DEF AttemptRecord
<1>3. AttemptRight(attempt)'
  BY <1>0, <1>1 DEF AttemptRight, AttemptRecord
<1> QED  BY <1>0, <1>2, <1>3, AttemptMoves

LEMMA EndPassKeeps == ASSUME DetailsAssumed, DetailsInv, J!EndPass  PROVE DetailsInv'
<1>0. attempt # Nil /\ UNCHANGED <<journals, owner, fenced, epoch, known, dials, dialed, details, saved>>
  BY DEF J!EndPass, J!At
<1>1. attempt \in AttemptRecord /\ AttemptRight(attempt) /\ lane \in LaneRecord
  BY <1>0 DEF DetailsInv, DetailsTyped, AttemptIsOf
<1>2. lane' \in LaneRecord /\ attempt' \in AttemptRecord \cup {Nil} /\ AttemptIsOf'
  <2>1. CASE attempt.epoch = epoch /\ lane.pending /\ lane.passes < 2
    <3>1. attempt' = J!NewAttempt /\ lane' = [lane EXCEPT !.pending = FALSE, !.passes = @ + 1]
      BY <2>1 DEF J!EndPass
    <3>2. lane.passes + 1 \in 0..2
      BY <1>1, <2>1 DEF LaneRecord
    <3>3. lane' \in LaneRecord
      BY <1>1, <3>1, <3>2 DEF LaneRecord
    <3>4. owner \in Journals
      BY <1>1, <2>1 DEF AttemptRight, AttemptRecord
    <3>5. attempt' \in AttemptRecord /\ attempt'.at = "ask" /\ attempt'.epoch = epoch /\ attempt'.writer = owner
          /\ attempt'.said = Nil /\ attempt'.about = Nil
      BY <3>1, <3>4, NewAttemptIs
    <3>6. epoch <= epoch
      BY DEF DetailsInv, DetailsTyped
    <3>7. AttemptRight(attempt)'
      BY <1>0, <3>5, <3>6 DEF AttemptRight
    <3> QED  BY <3>3, <3>5, <3>7 DEF AttemptIsOf
  <2>2. CASE attempt' = Nil /\ lane' = [lane EXCEPT !.busy = (@ /\ attempt.epoch # epoch)]
    <3>1. PICK b \in BOOLEAN : lane' = [lane EXCEPT !.busy = b]
      <4>1. lane' = [lane EXCEPT !.busy = (lane.busy /\ attempt.epoch # epoch)]
        BY <1>1, <2>2
      <4>2. (lane.busy /\ attempt.epoch # epoch) \in BOOLEAN
        OBVIOUS
      <4> QED  BY <4>1, <4>2
    <3>2. lane' \in LaneRecord
      BY <1>1, <3>1 DEF LaneRecord
    <3> QED  BY <2>2, <3>2 DEF AttemptIsOf
  <2> QED  BY <2>1, <2>2 DEF J!EndPass
<1>3. DetailsTyped'
  BY <1>0, <1>2 DEF DetailsInv, DetailsTyped
<1> QED  BY <1>0, <1>2, <1>3 DEF DetailsInv, EpochCounts, DialsCount, DetailsAreOfOne, ObservedIsSaved

LEMMA DetailsStep == ASSUME DetailsAssumed, DetailsInv, [J!Next]_(J!jvars)  PROVE DetailsInv'
<1>1. CASE UNCHANGED J!jvars
  BY <1>1, ZenonT(40) DEF J!jvars, DetailsInv, DetailsTyped, EpochCounts, DialsCount, DetailsAreOfOne, AttemptIsOf, AttemptRight,
              ObservedIsSaved
<1>2. CASE J!Next
  BY <1>2, FenceKeeps, OwnerKeeps, DialKeeps, ProvesKeeps, RefusedKeeps, AskKeeps, BeginSaveKeeps, SaveKeeps,
     NoteKeeps,
     AboutKeeps, ExpireKeeps, EndPassKeeps DEF J!Next
<1> QED  BY <1>1, <1>2

-----------------------------------------------------------------------------
(* The origin *)

OriginAssumed == Versions \subseteq Nat \ {0} /\ O!Absent \notin OriginBuilds

PublisherRecord == [at : {"idle", "objects", "pointer", "advance"}, version : Versions \cup {0},
              build : OriginBuilds \cup {O!Absent}, piece : 1..3]

\* A run has put the objects before the one it is at, all of its candidate.
PutSoFar ==
  \A a \in Arches :
    LET r == publisher[a] IN
    r.at # "idle" =>
      /\ r.version \in Versions /\ r.build \in OriginBuilds
      /\ \A p \in O!Pieces : p < r.piece => objects[<<a, r.version, p>>] = r.build
      /\ r.at \in {"pointer", "advance"} => r.piece = 3

\* One run at a time, and what it decided on when it read latest still holds when it puts it.
OneRun == \A a, b \in Arches : a # b => publisher[a].at = "idle" \/ publisher[b].at = "idle"
DecidedWell == \A a \in Arches : publisher[a].at = "advance" => O!MayAdvance(a, publisher[a].version)

OriginInv == O!TypeOK /\ PutSoFar /\ O!LatestVerifies
OriginInOrder == OriginInv /\ OneRun /\ DecidedWell

\* A set that a run has put verifies, and is there.
LEMMA PutVerifies ==
  ASSUME OriginAssumed, OriginInv, NEW a \in Arches, publisher[a].at \in {"pointer", "advance"}
  PROVE  O!SetVerifies(a, publisher[a].version) /\ O!SetIsThere(a, publisher[a].version)
         /\ publisher[a].version \in Versions
<1>1. /\ publisher[a].version \in Versions /\ publisher[a].build \in OriginBuilds
      /\ \A p \in O!Pieces : objects[<<a, publisher[a].version, p>>] = publisher[a].build
  BY DEF OriginInv, PutSoFar, O!Pieces
<1>2. O!Held(a, publisher[a].version) = {publisher[a].build}
  BY <1>1 DEF O!Held, O!Pieces
<1> QED  BY <1>1, <1>2 DEF O!SetVerifies, O!SetIsThere, OriginAssumed

\* An object that is there stays as it is.
ObjectsStay ==
  \A a \in Arches, v \in Versions, p \in O!Pieces : objects[<<a, v, p>>] # O!Absent => objects'[<<a, v, p>>] = objects[<<a, v, p>>]

LEMMA SetsStay ==
  ASSUME OriginAssumed, ObjectsStay, NEW a \in Arches, NEW v \in Versions
  PROVE  (O!SetIsThere(a, v) => O!SetIsThere(a, v)') /\ (O!SetVerifies(a, v) => O!SetVerifies(a, v)')
<1>1. ASSUME O!SetIsThere(a, v)  PROVE O!Held(a, v)' = O!Held(a, v)
  BY <1>1 DEF O!SetIsThere, O!Held, ObjectsStay
<1>2. O!SetVerifies(a, v) => O!SetIsThere(a, v)
  BY DEF O!SetVerifies, O!SetIsThere, OriginAssumed
<1> QED  BY <1>1, <1>2 DEF O!SetIsThere, O!SetVerifies

LEMMA OriginInitHolds == ASSUME OriginAssumed, O!Init  PROVE OriginInOrder
BY DEF OriginAssumed, O!Init, OriginInOrder, OriginInv, O!TypeOK, PutSoFar, O!LatestVerifies, OneRun,
   DecidedWell, O!Idle, O!Absent

LEMMA PutStays ==
  ASSUME OriginAssumed, OriginInv, NEW a \in Arches, O!PutObject(a)
  PROVE  /\ O!TypeOK' /\ PutSoFar' /\ ObjectsStay /\ UNCHANGED latest
         /\ \A b \in Arches : publisher'[b].at \in {"idle", publisher[b].at} /\ publisher'[a].at # "advance"
<1> DEFINE r == publisher[a]
<1>0. /\ r \in PublisherRecord /\ r.at = "objects" /\ r.piece \in O!Pieces /\ r.version \in Versions
         /\ r.build \in OriginBuilds
      /\ publisher \in [Arches -> PublisherRecord]
         /\ objects \in [Arches \X Versions \X O!Pieces -> OriginBuilds \cup {O!Absent}]
  BY DEF O!PutObject, OriginInv, O!TypeOK, PutSoFar, PublisherRecord
<1>1. ASSUME objects[<<a, r.version, r.piece>>] \in {O!Absent, r.build},
             objects' = [objects EXCEPT ![<<a, r.version, r.piece>>] = r.build],
             publisher' = [publisher EXCEPT ![a].piece = @ + 1]
      PROVE  /\ O!TypeOK' /\ PutSoFar' /\ ObjectsStay /\ UNCHANGED latest
             /\ \A b \in Arches : publisher'[b].at \in {"idle", publisher[b].at} /\ publisher'[a].at # "advance"
  <2>1. /\ publisher' = [publisher EXCEPT ![a] = [r EXCEPT !.piece = r.piece + 1]]
        /\ r.piece + 1 \in 1..3
    BY <1>0, <1>1 DEF O!Pieces
  <2>2. [r EXCEPT !.piece = r.piece + 1] \in PublisherRecord
    BY <1>0, <2>1 DEF PublisherRecord
  <2>3. ObjectsStay
    BY <1>0, <1>1 DEF ObjectsStay
  <2>4. objects' \in [Arches \X Versions \X O!Pieces -> OriginBuilds \cup {O!Absent}]
    BY <1>0, <1>1
  <2>5. PutSoFar'
    <3> SUFFICES ASSUME NEW b \in Arches, publisher'[b].at # "idle"
                 PROVE  LET s == publisher'[b] IN
                        /\ s.version \in Versions /\ s.build \in OriginBuilds
                        /\ \A p \in O!Pieces : p < s.piece => objects'[<<b, s.version, p>>] = s.build
                        /\ s.at \in {"pointer", "advance"} => s.piece = 3
      BY DEF PutSoFar
    <3>1. CASE b # a
      <4>1. publisher'[b] = publisher[b]
        BY <1>0, <2>1, <3>1
      <4>2. \A p \in O!Pieces : objects'[<<b, publisher[b].version, p>>] = objects[<<b, publisher[b].version, p>>]
        BY <1>0, <1>1, <3>1, <4>1 DEF OriginInv, PutSoFar
      <4> QED  BY <4>1, <4>2 DEF OriginInv, PutSoFar
    <3>2. CASE b = a
      <4>1. publisher'[a] = [r EXCEPT !.piece = r.piece + 1]
        BY <1>0, <2>1
      <4>2. publisher'[a].version = r.version /\ publisher'[a].build = r.build /\ publisher'[a].at = "objects"
            /\ publisher'[a].piece = r.piece + 1
        BY <1>0, <4>1 DEF PublisherRecord
      <4>3. \A p \in O!Pieces : p < r.piece => objects[<<a, r.version, p>>] = r.build
        BY <1>0 DEF OriginInv, PutSoFar
      <4>4. objects'[<<a, r.version, r.piece>>] = r.build
        BY <1>0, <1>1
      <4>5. \A p \in O!Pieces : p # r.piece => objects'[<<a, r.version, p>>] = objects[<<a, r.version, p>>]
        BY <1>0, <1>1
      <4> QED  BY <1>0, <3>2, <4>2, <4>3, <4>4, <4>5 DEF O!Pieces
    <3> QED  BY <3>1, <3>2
  <2>6. \A b \in Arches : publisher'[b].at = publisher[b].at
    BY <1>0, <2>1 DEF PublisherRecord
  <2>7. publisher' \in [Arches -> PublisherRecord]
    BY <1>0, <2>1, <2>2
  <2> QED  BY <1>0, <2>3, <2>4, <2>5, <2>6, <2>7 DEF OriginInv, O!TypeOK, PublisherRecord, O!PutObject
<1>2. CASE UNCHANGED objects /\ publisher' = [publisher EXCEPT ![a] = O!Idle]
  <2>1. O!Idle \in PublisherRecord /\ O!Idle.at = "idle"
    BY DEF O!Idle, PublisherRecord, O!Absent
  <2>2. publisher' \in [Arches -> PublisherRecord] /\ \A b \in Arches : publisher'[b] \in {publisher[b], O!Idle}
    BY <1>0, <1>2, <2>1
  <2>3. publisher'[a].at = "idle"
    BY <1>0, <1>2, <2>1
  <2> QED  BY <1>0, <1>2, <2>1, <2>2, <2>3 DEF OriginInv, PutSoFar, O!TypeOK, PublisherRecord, O!PutObject,
              ObjectsStay
<1>3. CASE UNCHANGED objects /\ publisher' = [publisher EXCEPT ![a] = O!Idle]
  BY <1>2, <1>3
<1> QED  BY <1>1, <1>3 DEF O!PutObject

\* Every other step leaves the objects, and changes one run.
LEMMA RunMoves ==
  ASSUME OriginAssumed, OriginInv, NEW a \in Arches, UNCHANGED objects, latest' \in Versions \cup {0},
         NEW s \in PublisherRecord, publisher' = [publisher EXCEPT ![a] = s],
         \/ s = O!Idle
         \/ /\ s.at # "idle" /\ s.version \in Versions /\ s.build \in OriginBuilds
            /\ \A p \in O!Pieces : p < s.piece => objects[<<a, s.version, p>>] = s.build
            /\ s.at \in {"pointer", "advance"} => s.piece = 3
  PROVE  O!TypeOK' /\ PutSoFar' /\ ObjectsStay
<1>1. publisher \in [Arches -> PublisherRecord] /\ O!Idle.at = "idle"
  BY DEF OriginInv, O!TypeOK, PublisherRecord, O!Idle
<1>2. publisher' \in [Arches -> PublisherRecord] /\ publisher'[a] = s
      /\ \A b \in Arches \ {a} : publisher'[b] = publisher[b]
  BY <1>1
<1>3. PutSoFar'
  BY <1>1, <1>2 DEF OriginInv, PutSoFar
<1> QED  BY <1>2, <1>3 DEF OriginInv, O!TypeOK, PublisherRecord, ObjectsStay

LEMMA OriginStep ==
  ASSUME OriginAssumed, OriginInv, [O!Next]_(O!ovars)
  PROVE  OriginInv' /\ ObjectsStay
<1>0. publisher \in [Arches -> PublisherRecord] /\ latest \in Versions \cup {0}
  BY DEF OriginInv, O!TypeOK, PublisherRecord
<1>i. O!Idle \in PublisherRecord /\ O!Idle.at = "idle"
  BY DEF O!Idle, PublisherRecord, O!Absent
<1>a. ASSUME O!TypeOK', PutSoFar', ObjectsStay, UNCHANGED latest  PROVE OriginInv' /\ ObjectsStay
  BY <1>0, <1>a, SetsStay DEF OriginInv, O!LatestVerifies
<1>1. ASSUME NEW a \in Arches, NEW v \in Versions, NEW b \in OriginBuilds, O!Starts(a, v, b)
      PROVE  OriginInv' /\ ObjectsStay
  <2> DEFINE s == [at |-> "objects", version |-> v, build |-> b, piece |-> 1]
  <2>1. s \in PublisherRecord /\ s.at = "objects" /\ s.version = v /\ s.build = b
        /\ \A p \in O!Pieces : ~(p < s.piece)
    BY DEF PublisherRecord, O!Pieces
  <2>2. publisher' = [publisher EXCEPT ![a] = s] /\ UNCHANGED <<objects, latest>>
    BY <1>1 DEF O!Starts
  <2> HIDE DEF s
  <2>3. O!TypeOK' /\ PutSoFar' /\ ObjectsStay
    BY <1>0, <2>1, <2>2, RunMoves
  <2> QED  BY <1>a, <2>2, <2>3
<1>2. ASSUME NEW a \in Arches, O!PutObject(a)  PROVE OriginInv' /\ ObjectsStay
  BY <1>2, <1>a, PutStays
<1>3. ASSUME NEW a \in Arches, O!ObjectsDone(a)  PROVE OriginInv' /\ ObjectsStay
  <2> DEFINE s == [publisher[a] EXCEPT !.at = "pointer"]
  <2>1. publisher[a] \in PublisherRecord /\ publisher[a].at = "objects" /\ publisher[a].piece = 3
    BY <1>0, <1>3 DEF O!ObjectsDone, PublisherRecord, O!Pieces
  <2>2. s \in PublisherRecord /\ s.at = "pointer" /\ s.piece = 3 /\ s.version = publisher[a].version
        /\ s.build = publisher[a].build
    BY <2>1 DEF PublisherRecord
  <2>3. publisher' = [publisher EXCEPT ![a] = s] /\ UNCHANGED <<objects, latest>>
    BY <1>0, <1>3 DEF O!ObjectsDone
  <2> HIDE DEF s
  <2>4. /\ s.version \in Versions /\ s.build \in OriginBuilds
        /\ \A p \in O!Pieces : p < s.piece => objects[<<a, s.version, p>>] = s.build
    BY <2>1, <2>2 DEF OriginInv, PutSoFar
  <2>5. O!TypeOK' /\ PutSoFar' /\ ObjectsStay
    BY <1>0, <2>2, <2>3, <2>4, RunMoves
  <2> QED  BY <1>a, <2>3, <2>5
<1>4. ASSUME NEW a \in Arches, O!ReadLatest(a)  PROVE OriginInv' /\ ObjectsStay
  <2> DEFINE s == [publisher[a] EXCEPT !.at = "advance"]
  <2>1. publisher[a] \in PublisherRecord /\ publisher[a].at = "pointer"
    BY <1>0, <1>4 DEF O!ReadLatest
  <2>2. s \in PublisherRecord /\ s.at = "advance" /\ s.piece = publisher[a].piece /\ s.version = publisher[a].version
        /\ s.build = publisher[a].build
    BY <2>1 DEF PublisherRecord
  <2>3. UNCHANGED <<objects, latest>>
        /\ (publisher' = [publisher EXCEPT ![a] = s] \/ publisher' = [publisher EXCEPT ![a] = O!Idle])
    BY <1>0, <1>4 DEF O!ReadLatest
  <2> HIDE DEF s
  <2>4. /\ s.version \in Versions /\ s.build \in OriginBuilds /\ s.piece = 3
        /\ \A p \in O!Pieces : p < s.piece => objects[<<a, s.version, p>>] = s.build
    BY <2>1, <2>2 DEF OriginInv, PutSoFar
  <2>5. O!TypeOK' /\ PutSoFar' /\ ObjectsStay
    BY <1>0, <1>i, <2>2, <2>3, <2>4, RunMoves
  <2> QED  BY <1>a, <2>3, <2>5
<1>5. ASSUME NEW a \in Arches, O!PutLatest(a)  PROVE OriginInv' /\ ObjectsStay
  <2>1. publisher[a].at = "advance" /\ publisher' = [publisher EXCEPT ![a] = O!Idle] /\ UNCHANGED objects
        /\ latest' = publisher[a].version
    BY <1>5 DEF O!PutLatest
  <2>2. O!SetVerifies(a, latest') /\ latest' \in Versions
    BY <2>1, PutVerifies
  <2>3. O!TypeOK' /\ PutSoFar' /\ ObjectsStay
    BY <1>i, <2>1, <2>2, RunMoves
  <2>4. O!SetVerifies(a, latest)'
    BY <2>1, <2>2 DEF O!SetVerifies, O!Held
  <2> QED  BY <2>3, <2>4 DEF OriginInv, O!LatestVerifies
<1>6. ASSUME NEW a \in Arches, O!Dies(a)  PROVE OriginInv' /\ ObjectsStay
  <2>1. publisher' = [publisher EXCEPT ![a] = O!Idle] /\ UNCHANGED <<objects, latest>>
    BY <1>6 DEF O!Dies
  <2>2. O!TypeOK' /\ PutSoFar' /\ ObjectsStay
    BY <1>0, <1>i, <2>1, RunMoves
  <2> QED  BY <1>a, <2>1, <2>2
<1>7. ASSUME UNCHANGED O!ovars  PROVE OriginInv' /\ ObjectsStay
  <2>1. UNCHANGED <<objects, latest, publisher>>
    BY <1>7 DEF O!ovars
  <2>2. O!TypeOK' /\ PutSoFar' /\ ObjectsStay
    BY <2>1 DEF OriginInv, O!TypeOK, PutSoFar, ObjectsStay
  <2> QED  BY <1>a, <2>1, <2>2
<1> QED  BY <1>1, <1>2, <1>3, <1>4, <1>5, <1>6, <1>7 DEF O!Next

\* With one run at a time.
LEMMA OneRunStep ==
  ASSUME OriginAssumed, OriginInOrder, [O!Next]_(O!ovars)
  PROVE  OneRun' /\ DecidedWell' /\ O!LatestLeavesNobody
<1>0. publisher \in [Arches -> PublisherRecord] /\ latest \in Versions \cup {0} /\ OriginInv /\ OneRun /\ DecidedWell
  BY DEF OriginInOrder, OriginInv, O!TypeOK, PublisherRecord
<1>i. O!Idle.at = "idle"
  BY DEF O!Idle
<1>o. OriginInv' /\ ObjectsStay
  BY <1>0, OriginStep
<1>a. ASSUME UNCHANGED latest  PROVE O!LatestLeavesNobody
  BY <1>0, <1>o, <1>a, SetsStay DEF O!LatestLeavesNobody, O!Fetchable, OriginAssumed
\* A run that ends, or goes on, beside runs that are idle.
<1>b. ASSUME NEW a \in Arches, NEW s, publisher' = [publisher EXCEPT ![a] = s],
             s.at = "idle" \/ publisher[a].at # "idle",
             s.at # "advance", s.at # "idle" => UNCHANGED latest, s.at = "idle" => publisher[a].at # "idle"
      PROVE  OneRun' /\ DecidedWell'
  <2>1. publisher'[a] = s /\ \A b \in Arches \ {a} : publisher'[b] = publisher[b] /\ publisher[b].at = "idle"
    BY <1>0, <1>b DEF OneRun
  <2> QED  BY <1>b, <2>1 DEF OneRun, DecidedWell
<1>1. ASSUME NEW a \in Arches, NEW v \in Versions, NEW b \in OriginBuilds, O!Starts(a, v, b)
      PROVE  OneRun' /\ DecidedWell' /\ O!LatestLeavesNobody
  <2> DEFINE s == [at |-> "objects", version |-> v, build |-> b, piece |-> 1]
  <2>1. publisher' = [publisher EXCEPT ![a] = s] /\ UNCHANGED latest
        /\ \A other \in Arches : publisher[other] = O!Idle
    BY <1>1 DEF O!Starts
  <2>2. s.at = "objects"
    OBVIOUS
  <2> HIDE DEF s
  <2>3. publisher'[a] = s /\ \A c \in Arches \ {a} : publisher'[c].at = "idle"
    BY <1>0, <1>i, <2>1
  <2> QED  BY <1>a, <2>1, <2>2, <2>3 DEF OneRun, DecidedWell
<1>2. ASSUME NEW a \in Arches, O!PutObject(a)  PROVE OneRun' /\ DecidedWell' /\ O!LatestLeavesNobody
  <2>1. \A b \in Arches : publisher'[b].at \in {"idle", publisher[b].at} /\ publisher'[a].at # "advance"
    BY <1>0, <1>2, PutStays
  <2>2. publisher[a].at = "objects" /\ UNCHANGED latest
    BY <1>2 DEF O!PutObject
  <2>3. \A b \in Arches \ {a} : publisher'[b].at # "advance"
    BY <1>0, <2>1, <2>2 DEF OneRun
  <2> QED  BY <1>0, <1>a, <2>1, <2>2, <2>3 DEF OneRun, DecidedWell
<1>3. ASSUME NEW a \in Arches, O!ObjectsDone(a)  PROVE OneRun' /\ DecidedWell' /\ O!LatestLeavesNobody
  <2> DEFINE s == [publisher[a] EXCEPT !.at = "pointer"]
  <2>1. publisher' = [publisher EXCEPT ![a] = s] /\ publisher[a].at = "objects" /\ UNCHANGED latest
        /\ publisher[a] \in PublisherRecord
    BY <1>0, <1>3 DEF O!ObjectsDone
  <2>2. s.at = "pointer"
    BY <2>1 DEF PublisherRecord
  <2> HIDE DEF s
  <2> QED  BY <1>a, <1>b, <2>1, <2>2
<1>4. ASSUME NEW a \in Arches, O!ReadLatest(a)  PROVE OneRun' /\ DecidedWell' /\ O!LatestLeavesNobody
  <2> DEFINE s == [publisher[a] EXCEPT !.at = "advance"]
  <2>1. publisher[a] \in PublisherRecord /\ publisher[a].at = "pointer" /\ UNCHANGED <<objects, latest>>
    BY <1>0, <1>4 DEF O!ReadLatest
  <2>2. s.at = "advance" /\ s.version = publisher[a].version
    BY <2>1 DEF PublisherRecord
  <2>3. \/ publisher' = [publisher EXCEPT ![a] = s] /\ O!MayAdvance(a, publisher[a].version)
        \/ publisher' = [publisher EXCEPT ![a] = O!Idle]
    BY <1>0, <1>4 DEF O!ReadLatest
  <2> HIDE DEF s
  <2>4. CASE publisher' = [publisher EXCEPT ![a] = O!Idle]
    BY <1>a, <1>b, <1>i, <2>1, <2>4
  <2>5. CASE publisher' = [publisher EXCEPT ![a] = s] /\ O!MayAdvance(a, publisher[a].version)
    <3>1. publisher'[a] = s /\ \A b \in Arches \ {a} : publisher'[b] = publisher[b] /\ publisher[b].at = "idle"
      BY <1>0, <2>1, <2>5 DEF OneRun
    <3>2. O!MayAdvance(a, publisher[a].version)'
      <4>1. publisher'[a].version = publisher[a].version
        BY <2>2, <3>1
      <4> QED  BY <2>1, <2>5, <4>1 DEF O!MayAdvance, O!PublishedUnder, O!SetIsThere, O!Held
    <3>3. OneRun'
      BY <3>1, <1>0 DEF OneRun
    <3>4. DecidedWell'
      BY <3>1, <3>2 DEF DecidedWell
    <3> QED  BY <1>a, <2>1, <3>3, <3>4
  <2> QED  BY <2>3, <2>4, <2>5
<1>5. ASSUME NEW a \in Arches, O!PutLatest(a)  PROVE OneRun' /\ DecidedWell' /\ O!LatestLeavesNobody
  <2> DEFINE v == publisher[a].version
  <2>1. publisher[a].at = "advance" /\ publisher' = [publisher EXCEPT ![a] = O!Idle] /\ UNCHANGED objects
        /\ latest' = v
    BY <1>5 DEF O!PutLatest
  <2>2. O!MayAdvance(a, v) /\ O!SetIsThere(a, v) /\ v \in Versions
    BY <1>0, <2>1, PutVerifies DEF DecidedWell
  <2>3. \A b \in Arches : O!Fetchable(b, latest) => O!SetIsThere(b, v)
    <3> SUFFICES ASSUME NEW b \in Arches, O!Fetchable(b, latest)  PROVE O!SetIsThere(b, v)
      OBVIOUS
    <3>1. objects[<<b, latest, O!Manifest>>] # O!Absent /\ latest # 0
      BY DEF O!Fetchable, O!SetIsThere, O!Held, O!Pieces, O!Manifest
    <3>2. b # a => b \in O!PublishedUnder(latest, a)
      BY <3>1 DEF O!PublishedUnder
    <3> QED  BY <2>2, <3>2 DEF O!MayAdvance, O!Fetchable
  <2>5. \A b \in Arches : O!SetIsThere(b, latest)' = O!SetIsThere(b, v)
    BY <2>1 DEF O!SetIsThere, O!Held
  <2>6. O!LatestLeavesNobody
    BY <2>1, <2>2, <2>3, <2>5 DEF O!LatestLeavesNobody, O!MayAdvance, O!SetIsThere, O!Held
  <2> QED  BY <1>b, <1>i, <2>1, <2>6
<1>6. ASSUME NEW a \in Arches, O!Dies(a)  PROVE OneRun' /\ DecidedWell' /\ O!LatestLeavesNobody
  <2>1. publisher' = [publisher EXCEPT ![a] = O!Idle] /\ UNCHANGED <<objects, latest>> /\ publisher[a] # O!Idle
    BY <1>6 DEF O!Dies
  <2>2. publisher'[a].at = "idle" /\ \A b \in Arches \ {a} : publisher'[b] = publisher[b]
    BY <1>0, <1>i, <2>1
  <2>3. OneRun'
    BY <1>0, <2>2 DEF OneRun
  <2>4. DecidedWell'
    BY <1>0, <2>1, <2>2 DEF DecidedWell, O!MayAdvance, O!PublishedUnder, O!SetIsThere, O!Held
  <2> QED  BY <1>a, <2>1, <2>3, <2>4
<1>7. ASSUME UNCHANGED O!ovars  PROVE OneRun' /\ DecidedWell' /\ O!LatestLeavesNobody
  <2>1. UNCHANGED latest
    BY <1>7 DEF O!ovars
  <2> QED  BY <1>0, <1>7, <1>a, <2>1 DEF O!ovars, OneRun, DecidedWell, O!MayAdvance, O!PublishedUnder,
              O!SetIsThere, O!Held
<1> QED  BY <1>1, <1>2, <1>3, <1>4, <1>5, <1>6, <1>7 DEF O!Next

-----------------------------------------------------------------------------
(* The release on GitHub *)

GitHubAssumed == G!None \notin Builds /\ CommitOf \in [Builds -> Nat \ {G!None}]

ReleaseRecord == [draft : BOOLEAN, commit : G!Commits, assets : [Arches -> [G!Pieces -> Builds \cup {G!None}]]]
RunRecord == [at : {"idle", "tag", "push", "create", "upload", "draft", "recheck", "publish", "final", "attach"},
        build : Builds \cup {G!None}, mine : Nat, piece : 1..3]

GitTyped ==
  /\ tag \in G!Commits \cup {G!None} /\ localTag \in [Arches -> G!Commits \cup {G!None}]
  /\ releases \in Seq(ReleaseRecord) /\ run \in [Arches -> RunRecord]

\* A run has a candidate; what there is of its architecture, in any release, is of that
\* candidate; once past the tag, the tag names its commit; and the release it is about to
\* publish is the first, with its whole set.
RunIsRight(a, r) ==
  /\ r.mine <= Len(releases)
  /\ r.at # "idle" => r.build \in Builds
     /\ \A i \in DOMAIN releases : G!Own(releases[i], a) \subseteq {G!None, r.build}
  /\ r.at \notin {"idle", "tag", "push"} => tag = CommitOf[r.build]
  /\ r.at \in {"recheck", "publish"} => r.mine = 1 /\ 1 \in DOMAIN releases
  /\ r.at = "publish" => G!Own(releases[1], a) = {r.build}

RunsAreRight == \A a \in Arches : RunIsRight(a, run[a])

\* What a release holds of an architecture is of one candidate of the commit that is tagged,
\* and only the first is published, with a whole set.
ReleaseIsRight(i, r) ==
  /\ r.commit = tag
  /\ \A a \in Arches : \E b \in Builds : G!Own(r, a) \subseteq {G!None, b} /\ CommitOf[b] = tag
  /\ ~r.draft => i = 1 /\ \E a \in Arches, b \in Builds : G!Own(r, a) = {b}

ReleasesAreRight == \A i \in DOMAIN releases : ReleaseIsRight(i, releases[i])

GitInv == GitTyped /\ RunsAreRight /\ ReleasesAreRight

LEMMA GitInitHolds == ASSUME GitHubAssumed, G!Init  PROVE GitInv
<1>1. G!Idle \in RunRecord /\ G!Idle.at = "idle" /\ G!Idle.mine = 0
  BY DEF G!Idle, RunRecord
<1>2. releases \in Seq(ReleaseRecord) /\ Len(releases) = 0 /\ DOMAIN releases = {}
  BY DEF G!Init
<1> QED  BY <1>1, <1>2 DEF G!Init, GitInv, GitTyped, RunsAreRight, RunIsRight, ReleasesAreRight

LEMMA GitInvTyped == GitInv => G!TypeOK
<1> SUFFICES ASSUME GitInv  PROVE G!TypeOK
  OBVIOUS
<1>1. \A i \in DOMAIN releases : releases[i] \in ReleaseRecord
  BY DEF GitInv, GitTyped
<1>2. Len(releases) \in Nat
  BY DEF GitInv, GitTyped
<1>3. \A a \in Arches : run[a].mine \in 0..Len(releases)
  <2> SUFFICES ASSUME NEW a \in Arches  PROVE run[a].mine \in 0..Len(releases)
    OBVIOUS
  <2>1. run[a] \in RunRecord /\ RunIsRight(a, run[a])
    BY DEF GitInv, GitTyped, RunsAreRight
  <2> QED  BY <1>2, <2>1 DEF RunRecord, RunIsRight
<1>4. run \in [Arches -> [at : {"idle", "tag", "push", "create", "upload", "draft",
                                "recheck", "publish", "final", "attach"},
                         build : Builds \cup {G!None}, mine : 0..Len(releases), piece : 1..3]]
  BY <1>3 DEF GitInv, GitTyped, RunRecord
<1> QED  BY <1>1, <1>4 DEF GitInv, GitTyped, ReleaseRecord, G!TypeOK

LEMMA GitInvWhole == ASSUME GitHubAssumed, GitInv  PROVE G!PublishedIsWhole
BY DEF GitInv, ReleasesAreRight, ReleaseIsRight, G!PublishedIsWhole

\* A step that changes a run and nothing of the releases.
LEMMA RunGoesOn ==
  ASSUME GitHubAssumed, GitInv, NEW a \in Arches, NEW s \in RunRecord, run' = [run EXCEPT ![a] = s],
         UNCHANGED <<tag, releases>>, RunIsRight(a, s), localTag' \in [Arches -> G!Commits \cup {G!None}]
  PROVE  GitInv' /\ G!PublishedStays
<1>0. releases' = releases /\ tag' = tag /\ \A i, c : G!Own(releases[i], c)' = G!Own(releases[i], c)
  BY DEF G!Own
<1>1. GitTyped'
  BY DEF GitInv, GitTyped
<1>2. RunsAreRight'
  <2> SUFFICES ASSUME NEW b \in Arches  PROVE RunIsRight(b, run[b])'
    BY DEF RunsAreRight
  <2>1. run'[b] \in {s, run[b]} /\ RunIsRight(b, run'[b])
    BY DEF GitInv, GitTyped, RunsAreRight
  <2> QED  BY <1>0, <2>1 DEF RunIsRight
<1>3. ReleasesAreRight'
  BY <1>0 DEF GitInv, ReleasesAreRight, ReleaseIsRight
<1>4. G!PublishedStays
  BY DEF G!PublishedStays
<1> QED  BY <1>1, <1>2, <1>3, <1>4 DEF GitInv

LEMMA IdleIsRight ==
  ASSUME GitInv, NEW a \in Arches
  PROVE  G!Idle \in RunRecord /\ RunIsRight(a, G!Idle) /\ G!Idle.at = "idle"
<1>1. G!Idle \in RunRecord /\ G!Idle.at = "idle" /\ G!Idle.mine = 0 /\ Len(releases) \in Nat
  BY DEF G!Idle, RunRecord, GitInv, GitTyped
<1> QED  BY <1>1 DEF RunIsRight

LEMMA StartRecord ==
  ASSUME NEW at, NEW b
  PROVE  /\ [G!Idle EXCEPT !.at = at, !.build = b] = [at |-> at, build |-> b, mine |-> 0, piece |-> 1]
         /\ [G!Idle EXCEPT !.at = at, !.build = b, !.mine = 1] = [at |-> at, build |-> b, mine |-> 1, piece |-> 1]
<1>1. [G!Idle EXCEPT !.at = at] = [at |-> at, build |-> G!None, mine |-> 0, piece |-> 1]
  BY DEF G!Idle
<1>2. [[at |-> at, build |-> G!None, mine |-> 0, piece |-> 1] EXCEPT !.build = b] = [at |-> at, build |-> b, mine |-> 0, piece |-> 1]
  OBVIOUS
<1>3. [[at |-> at, build |-> b, mine |-> 0, piece |-> 1] EXCEPT !.mine = 1] = [at |-> at, build |-> b, mine |-> 1, piece |-> 1]
  OBVIOUS
<1> QED  BY <1>1, <1>2, <1>3, Zenon

LEMMA StartsIsRight ==
  ASSUME GitHubAssumed, GitInv, NEW a \in Arches, NEW b \in Builds, G!Starts(a, b)
  PROVE  GitInv' /\ G!PublishedStays
<1>0. UNCHANGED <<tag, localTag, releases>> /\ G!Ready(a, b) /\ Len(releases) \in Nat
      /\ DOMAIN releases = 1..Len(releases) /\ localTag \in [Arches -> G!Commits \cup {G!None}]
  BY DEF G!Starts, G!Keep, GitInv, GitTyped
<1>1. \A i \in DOMAIN releases : G!Own(releases[i], a) \subseteq {G!None, b} /\ i = 1 /\ tag = CommitOf[b]
  BY <1>0 DEF G!Ready, G!AssetsExact
<1>2. PICK at \in {"tag", "create", "upload", "attach"}, n \in {0, 1} :
        /\ run' = [run EXCEPT ![a] = [at |-> at, build |-> b, mine |-> n, piece |-> 1]]
        /\ n <= Len(releases) /\ (at # "tag" => tag = CommitOf[b])
  <2>1. CASE releases = <<>>
    <3>1. run' = [run EXCEPT ![a] = [G!Idle EXCEPT !.at = IF tag = G!None THEN "tag" ELSE "create", !.build = b]]
      BY <2>1 DEF G!Starts
    <3>2. CASE tag = G!None
      <4>1. run' = [run EXCEPT ![a] = [G!Idle EXCEPT !.at = "tag", !.build = b]]
        BY <3>1, <3>2, Zenon
      <4>2. run' = [run EXCEPT ![a] = [at |-> "tag", build |-> b, mine |-> 0, piece |-> 1]]
        BY <4>1, StartRecord, Zenon
      <4> QED  BY <1>0, <4>2
    <3>3. CASE tag # G!None
      <4>1. run' = [run EXCEPT ![a] = [G!Idle EXCEPT !.at = "create", !.build = b]]
        BY <3>1, <3>3, Zenon
      <4>2. run' = [run EXCEPT ![a] = [at |-> "create", build |-> b, mine |-> 0, piece |-> 1]]
        BY <4>1, StartRecord, Zenon
      <4> QED  BY <1>0, <3>3, <4>2 DEF G!Ready
    <3> QED  BY <3>2, <3>3
  <2>2. CASE releases # <<>>
    <3>1. Len(releases) = 1 /\ tag = CommitOf[b]
      BY <1>0, <1>1, <2>2 DEF G!Ready, GitInv, GitTyped
    <3>2. \/ run' = [run EXCEPT ![a] = [G!Idle EXCEPT !.at = "upload", !.build = b, !.mine = 1]]
          \/ run' = [run EXCEPT ![a] = [G!Idle EXCEPT !.at = "attach", !.build = b, !.mine = 1]]
      BY <2>2, Zenon DEF G!Starts
    <3>3. \/ run' = [run EXCEPT ![a] = [at |-> "upload", build |-> b, mine |-> 1, piece |-> 1]]
          \/ run' = [run EXCEPT ![a] = [at |-> "attach", build |-> b, mine |-> 1, piece |-> 1]]
      BY <3>2, StartRecord, Zenon
    <3> QED  BY <3>1, <3>3
  <2> QED  BY <2>1, <2>2
<1> DEFINE s == [at |-> at, build |-> b, mine |-> n, piece |-> 1]
<1>3. s \in RunRecord /\ s.at = at /\ s.build = b /\ s.mine = n
  BY DEF RunRecord
<1> HIDE DEF s
<1>4. RunIsRight(a, s)
  BY <1>1, <1>2, <1>3 DEF RunIsRight
<1> QED  BY <1>0, <1>2, <1>3, <1>4, RunGoesOn DEF s

\* A run that goes on to another step, with nothing else changed.
LEMMA GoIsRight ==
  ASSUME GitHubAssumed, GitInv, NEW a \in Arches,
         NEW at \in {"push", "draft", "final", "recheck", "publish"}, G!Go(a, at),
         UNCHANGED <<tag, releases>>, localTag' \in [Arches -> G!Commits \cup {G!None}],
         run[a].at # "idle", at # "push" => run[a].at \notin {"tag", "push"},
         at \in {"recheck", "publish"} => run[a].mine = 1 /\ 1 \in DOMAIN releases,
         at = "publish" => G!Own(releases[1], a) = {run[a].build}
  PROVE  GitInv' /\ G!PublishedStays
<1> DEFINE s == [run[a] EXCEPT !.at = at]
<1>1. run[a] \in RunRecord /\ RunIsRight(a, run[a]) /\ run' = [run EXCEPT ![a] = s]
  BY DEF GitInv, GitTyped, G!Go, RunsAreRight
<1>2. s \in RunRecord /\ s.at = at /\ s.build = run[a].build /\ s.mine = run[a].mine
  BY <1>1 DEF RunRecord
<1> HIDE DEF s
<1>3. RunIsRight(a, s)
  BY <1>1, <1>2 DEF RunIsRight
<1> QED  BY <1>1, <1>2, <1>3, RunGoesOn

LEMMA DieIsRight ==
  ASSUME GitHubAssumed, GitInv, NEW a \in Arches, G!Die(a), G!Keep(a)
  PROVE  GitInv' /\ G!PublishedStays
<1>1. localTag' \in [Arches -> G!Commits \cup {G!None}] /\ UNCHANGED <<tag, releases>>
      /\ run' = [run EXCEPT ![a] = G!Idle]
  BY DEF G!Keep, G!Die, GitInv, GitTyped
<1> QED  BY <1>1, IdleIsRight, RunGoesOn

\* The first tag is pushed.
LEMMA PushIsRight ==
  ASSUME GitHubAssumed, GitInv, NEW a \in Arches, G!PushTag(a)
  PROVE  GitInv' /\ G!PublishedStays
<1>0. run[a] \in RunRecord /\ run[a].at = "push" /\ RunIsRight(a, run[a]) /\ UNCHANGED <<localTag, releases>>
      /\ run[a].build \in Builds /\ localTag' \in [Arches -> G!Commits \cup {G!None}]
  BY DEF G!PushTag, GitInv, GitTyped, RunsAreRight, RunIsRight
<1>1. CASE tag # G!None /\ G!Die(a) /\ UNCHANGED tag
  BY <1>0, <1>1, DieIsRight DEF G!Keep
<1>2. CASE tag = G!None /\ tag' = CommitOf[run[a].build] /\ G!Go(a, "create")
  <2> DEFINE s == [run[a] EXCEPT !.at = "create"]
  <2>1. CommitOf[run[a].build] \in G!Commits /\ \A b \in Builds : CommitOf[b] # G!None
    BY <1>0 DEF G!Commits, GitHubAssumed
  <2>2. DOMAIN releases = {} /\ Len(releases) = 0
    <3>1. \A i \in DOMAIN releases : releases[i] \in ReleaseRecord /\ releases[i].commit = G!None
      BY <1>2 DEF GitInv, GitTyped, ReleasesAreRight, ReleaseIsRight
    <3>2. G!None \notin G!Commits
      BY <2>1 DEF G!Commits
    <3>3. DOMAIN releases = {}
      BY <3>1, <3>2 DEF ReleaseRecord
    <3> QED  BY <3>3 DEF GitInv, GitTyped
  <2>3. s \in RunRecord /\ s.at = "create" /\ s.build = run[a].build /\ s.mine = run[a].mine
        /\ run' = [run EXCEPT ![a] = s]
    BY <1>0, <1>2 DEF RunRecord, G!Go
  <2> HIDE DEF s
  <2>4. GitTyped'
    BY <1>0, <1>2, <2>1, <2>3 DEF GitInv, GitTyped
  <2>5. RunsAreRight'
    <3> SUFFICES ASSUME NEW b \in Arches  PROVE RunIsRight(b, run[b])'
      BY DEF RunsAreRight
    <3>1. \A c \in Arches : run[c].at \in {"idle", "tag", "push"}
      BY <1>2, <2>1 DEF GitInv, GitTyped, RunsAreRight, RunIsRight
    <3>2. CASE b = a
      <4>1. run'[b] = s
        BY <2>3, <3>2 DEF GitInv, GitTyped
      <4> QED  BY <1>0, <1>2, <2>2, <2>3, <4>1 DEF RunIsRight
    <3>3. CASE b # a
      <4>1. run'[b] = run[b] /\ RunIsRight(b, run[b]) /\ run[b].at \in {"idle", "tag", "push"}
        BY <2>3, <3>1, <3>3 DEF GitInv, GitTyped, RunsAreRight
      <4> QED  BY <1>0, <2>2, <4>1 DEF RunIsRight
    <3> QED  BY <3>2, <3>3
  <2>6. ReleasesAreRight' /\ G!PublishedStays
    BY <1>0, <1>2, <2>2 DEF ReleasesAreRight, G!PublishedStays
  <2> QED  BY <2>4, <2>5, <2>6 DEF GitInv
<1> QED  BY <1>1, <1>2 DEF G!PushTag

\* A draft with nothing in it.
LEMMA CreateIsRight ==
  ASSUME GitHubAssumed, GitInv, NEW a \in Arches, G!CreateDraft(a)
  PROVE  GitInv' /\ G!PublishedStays
<1> DEFINE n == Len(releases)
           d == [draft |-> TRUE, commit |-> CommitOf[run[a].build], assets |-> G!Empty]
           s == [run[a] EXCEPT !.at = "upload", !.mine = n + 1]
<1>0. run[a] \in RunRecord /\ RunIsRight(a, run[a]) /\ UNCHANGED <<tag, localTag>> /\ run[a].at = "create"
      /\ releases' = Append(releases, d) /\ n \in Nat /\ DOMAIN releases = 1..n
  BY DEF G!CreateDraft, GitInv, GitTyped, RunsAreRight
<1>1. run[a].build \in Builds /\ tag = CommitOf[run[a].build] /\ tag \in G!Commits
  BY <1>0 DEF RunIsRight, G!Commits, GitHubAssumed
<1>2. s \in RunRecord /\ s.at = "upload" /\ s.build = run[a].build /\ s.mine = n + 1 /\ run' = [run EXCEPT ![a] = s]
  <2>1. run' = [run EXCEPT ![a].at = "upload", ![a].mine = n + 1]
    BY DEF G!CreateDraft
  <2>2. run' = [run EXCEPT ![a] = s]
    BY <1>0, <2>1 DEF GitInv, GitTyped, RunRecord
  <2>3. s = [at |-> "upload", build |-> run[a].build, mine |-> n + 1, piece |-> run[a].piece] /\ n + 1 \in Nat
    <3>1. run[a] = [at |-> run[a].at, build |-> run[a].build, mine |-> run[a].mine, piece |-> run[a].piece]
      BY <1>0 DEF RunRecord
    <3>2. [run[a] EXCEPT !.at = "upload"] = [at |-> "upload", build |-> run[a].build, mine |-> run[a].mine,
                                             piece |-> run[a].piece]
      BY <3>1
    <3>3. [[at |-> "upload", build |-> run[a].build, mine |-> run[a].mine,
            piece |-> run[a].piece] EXCEPT !.mine = n + 1]
          = [at |-> "upload", build |-> run[a].build, mine |-> n + 1, piece |-> run[a].piece]
      OBVIOUS
    <3>4. s = [at |-> "upload", build |-> run[a].build, mine |-> n + 1, piece |-> run[a].piece]
      BY <3>2, <3>3, Zenon
    <3> QED  BY <1>0, <3>4
  <2> QED  BY <1>0, <2>2, <2>3 DEF RunRecord
<1>3. d \in ReleaseRecord /\ d.draft /\ d.commit = tag /\ \A c \in Arches : G!Own(d, c) = {G!None}
  <2>1. G!Empty \in [Arches -> [G!Pieces -> Builds \cup {G!None}]]
        /\ \A c \in Arches, p \in G!Pieces : G!Empty[c][p] = G!None
    BY DEF G!Empty
  <2> QED  BY <1>1, <2>1 DEF ReleaseRecord, G!Own, G!Pieces
<1> HIDE DEF n, d, s
<1>4. releases' \in Seq(ReleaseRecord) /\ Len(releases') = n + 1 /\ DOMAIN releases' = 1..(n + 1)
      /\ \A i \in DOMAIN releases : releases'[i] = releases[i] /\ i \in DOMAIN releases'
  BY <1>0, <1>3 DEF GitInv, GitTyped, n
<1>5. releases'[n + 1] = d
  BY <1>0 DEF GitInv, GitTyped, n
<1>6. \A i \in DOMAIN releases', c \in Arches :
        G!Own(releases'[i], c) = IF i \in DOMAIN releases THEN G!Own(releases[i], c) ELSE {G!None}
  <2> SUFFICES ASSUME NEW i \in DOMAIN releases', NEW c \in Arches
               PROVE  G!Own(releases'[i], c) = IF i \in DOMAIN releases THEN G!Own(releases[i], c) ELSE {G!None}
    OBVIOUS
  <2>1. i \in DOMAIN releases \/ (i \notin DOMAIN releases /\ i = n + 1)
    BY <1>0, <1>4
  <2>2. G!Own(d, c) = {G!None}
    BY <1>3
  <2> QED  BY <1>4, <1>5, <2>1, <2>2
<1>7. GitTyped'
  BY <1>0, <1>2, <1>4 DEF GitInv, GitTyped
<1>8. RunsAreRight'
  <2> SUFFICES ASSUME NEW b \in Arches  PROVE RunIsRight(b, run[b])'
    BY DEF RunsAreRight
  <2>1. \A i \in DOMAIN releases' : G!Own(releases[i], b)' = G!Own(releases'[i], b)
    BY DEF G!Own
  <2>2. CASE b = a
    <3>1. run'[b] = s
      BY <1>2, <2>2 DEF GitInv, GitTyped
    <3> QED  BY <1>0, <1>1, <1>2, <1>4, <1>6, <2>1, <2>2, <3>1 DEF RunIsRight, n
  <2>3. CASE b # a
    <3>1. run'[b] = run[b] /\ RunIsRight(b, run[b]) /\ run[b] \in RunRecord
      BY <1>2, <2>3 DEF GitInv, GitTyped, RunsAreRight
    <3> QED  BY <1>0, <1>4, <1>6, <2>1, <3>1 DEF RunIsRight, RunRecord, n
  <2> QED  BY <2>2, <2>3
<1>9. ReleasesAreRight'
  <2> SUFFICES ASSUME NEW i \in DOMAIN releases'  PROVE ReleaseIsRight(i, releases[i])'
    BY DEF ReleasesAreRight
  <2>1. \A c \in Arches : G!Own(releases[i], c)' = G!Own(releases'[i], c)
    BY DEF G!Own
  <2>2. CASE i \in DOMAIN releases
    <3>1. ReleaseIsRight(i, releases[i]) /\ releases'[i] = releases[i]
      BY <1>4, <2>2 DEF GitInv, ReleasesAreRight
    <3> QED  BY <1>0, <1>6, <2>1, <2>2, <3>1 DEF ReleaseIsRight
  <2>3. CASE i \notin DOMAIN releases
    <3>1. releases'[i] = d
      BY <1>0, <1>4, <1>5, <2>3
    <3> QED  BY <1>0, <1>1, <1>3, <1>6, <2>1, <2>3, <3>1 DEF ReleaseIsRight
  <2> QED  BY <2>2, <2>3
<1>10. G!PublishedStays
  BY <1>0, <1>4 DEF G!PublishedStays
<1> QED  BY <1>7, <1>8, <1>9, <1>10 DEF GitInv

\* One release changes, by what its architecture's run puts there, or by being published.
LEMMA ReleaseChanges ==
  ASSUME GitHubAssumed, GitInv, NEW a \in Arches, NEW i \in DOMAIN releases, NEW r \in ReleaseRecord,
         NEW s \in RunRecord,
         run' = [run EXCEPT ![a] = s], s.build = run[a].build, s.mine = run[a].mine,
         s.at \in {run[a].at, "final"}, run[a].at \notin {"idle", "tag", "push"},
         releases' = [releases EXCEPT ![i] = r], UNCHANGED <<tag, localTag>>,
         r.commit = releases[i].commit,
         \A c \in Arches, p \in G!Pieces :
           \/ r.assets[c][p] = releases[i].assets[c][p]
           \/ releases[i].assets[c][p] = G!None /\ c = a /\ r.assets[c][p] = run[a].build,
         r.draft # releases[i].draft => ~r.draft /\ i = 1 /\ G!Own(releases[i], a) = {run[a].build}
  PROVE  GitInv' /\ G!PublishedStays
<1>0. /\ run[a] \in RunRecord /\ RunIsRight(a, run[a]) /\ run[a].build \in Builds /\ tag = CommitOf[run[a].build]
      /\ releases \in Seq(ReleaseRecord) /\ run \in [Arches -> RunRecord]
  BY DEF GitInv, GitTyped, RunsAreRight, RunIsRight
<1>1. /\ releases' \in Seq(ReleaseRecord) /\ Len(releases') = Len(releases) /\ DOMAIN releases' = DOMAIN releases
      /\ releases'[i] = r /\ \A j \in DOMAIN releases \ {i} : releases'[j] = releases[j]
  BY <1>0
<1>2. \A j \in DOMAIN releases, c \in Arches :
        /\ G!Own(releases[j], c)' = G!Own(releases'[j], c)
        /\ G!Own(releases'[j], c) \subseteq G!Own(releases[j], c) \cup (IF c = a THEN {run[a].build} ELSE {})
        /\ G!None \notin G!Own(releases[j], c) => G!Own(releases'[j], c) = G!Own(releases[j], c)
  BY <1>1 DEF G!Own
<1>3. GitTyped'
  BY <1>0, <1>1 DEF GitInv, GitTyped
<1>4. RunsAreRight'
  <2> SUFFICES ASSUME NEW b \in Arches  PROVE RunIsRight(b, run[b])'
    BY DEF RunsAreRight
  <2>1. /\ run'[b].mine = run[b].mine /\ run'[b].build = run[b].build /\ run'[b].at \in {run[b].at, "final"}
        /\ run[b].at \in {"idle", "tag", "push"} => run'[b].at = run[b].at
        /\ run[b] \in RunRecord /\ RunIsRight(b, run[b])
    BY <1>0 DEF GitInv, RunsAreRight
  <2>2. run[b].at # "idle" => \A j \in DOMAIN releases : G!Own(releases'[j], b) \subseteq {G!None, run[b].build}
    <3> SUFFICES ASSUME run[b].at # "idle", NEW j \in DOMAIN releases
                 PROVE  G!Own(releases'[j], b) \subseteq {G!None, run[b].build}
      OBVIOUS
    <3>1. G!Own(releases[j], b) \subseteq {G!None, run[b].build}
      BY <2>1 DEF RunIsRight
    <3>2. G!Own(releases'[j], b) \subseteq G!Own(releases[j], b) \cup (IF b = a THEN {run[a].build} ELSE {})
      BY <1>2
    <3> QED  BY <3>1, <3>2
  <2>3. run[b].at = "publish" => G!Own(releases'[1], b) = {run[b].build}
    <3>1. G!None \notin Builds
      BY DEF GitHubAssumed
    <3> QED  BY <1>2, <2>1, <3>1 DEF RunIsRight
  <2> QED  BY <1>0, <1>1, <1>2, <2>1, <2>2, <2>3 DEF RunIsRight
<1>5. ReleasesAreRight'
  <2> SUFFICES ASSUME NEW j \in DOMAIN releases  PROVE ReleaseIsRight(j, releases[j])'
    BY <1>1 DEF ReleasesAreRight
  <2>1. ReleaseIsRight(j, releases[j]) /\ releases'[j].commit = releases[j].commit
    BY <1>1 DEF GitInv, ReleasesAreRight
  <2>2. \A c \in Arches : \E b \in Builds : G!Own(releases'[j], c) \subseteq {G!None, b} /\ CommitOf[b] = tag
    <3> SUFFICES ASSUME NEW c \in Arches
                 PROVE  \E b \in Builds : G!Own(releases'[j], c) \subseteq {G!None, b} /\ CommitOf[b] = tag
      OBVIOUS
    <3>1. CASE c = a
      <4>1. G!Own(releases[j], a) \subseteq {G!None, run[a].build}
        BY <1>0 DEF RunIsRight
      <4> QED  BY <1>0, <1>2, <3>1, <4>1
    <3>2. CASE c # a
      <4>1. PICK b \in Builds : G!Own(releases[j], c) \subseteq {G!None, b} /\ CommitOf[b] = tag
        BY <2>1 DEF ReleaseIsRight
      <4> QED  BY <1>2, <3>2, <4>1
    <3> QED  BY <3>1, <3>2
  <2>3. ~releases'[j].draft => j = 1 /\ \E c \in Arches, b \in Builds : G!Own(releases'[j], c) = {b}
    <3> SUFFICES ASSUME ~releases'[j].draft
                 PROVE  j = 1 /\ \E c \in Arches, b \in Builds : G!Own(releases[j], c) = {b}
      BY <1>2 DEF GitHubAssumed
    <3> QED  BY <1>0, <1>1, <2>1 DEF ReleaseIsRight
  <2> QED  BY <1>2, <2>1, <2>2, <2>3 DEF ReleaseIsRight
<1>6. G!PublishedStays
  BY <1>0, <1>1 DEF G!PublishedStays, ReleaseRecord
<1> QED  BY <1>3, <1>4, <1>5, <1>6 DEF GitInv

LEMMA UploadIsRight ==
  ASSUME GitHubAssumed, GitInv, NEW a \in Arches, NEW i \in DOMAIN releases, G!Upload(a, i)
  PROVE  GitInv' /\ G!PublishedStays
<1> DEFINE s == [run[a] EXCEPT !.piece = run[a].piece + 1]
           there == releases[i].assets[a][run[a].piece]
<1>0. /\ run[a] \in RunRecord /\ run[a].at \in {"upload", "attach"} /\ run[a].piece \in G!Pieces
         /\ UNCHANGED <<tag, localTag>>
      /\ releases[i] \in ReleaseRecord /\ run[a].build \in Builds /\ releases \in Seq(ReleaseRecord)
  BY DEF G!Upload, GitInv, GitTyped, RunsAreRight, RunIsRight
<1>1. s \in RunRecord /\ s.at = run[a].at /\ s.build = run[a].build /\ s.mine = run[a].mine
      /\ run' = [run EXCEPT ![a] = s]
  <2>1. run[a].piece + 1 \in 1..3
    BY <1>0 DEF G!Pieces
  <2>2. run' = [run EXCEPT ![a] = s]
    BY <1>0 DEF G!Upload, GitInv, GitTyped
  <2> QED  BY <1>0, <2>1, <2>2 DEF RunRecord
<1> HIDE DEF s
<1>2. CASE there = G!None
  <2> DEFINE line == [releases[i].assets[a] EXCEPT ![run[a].piece] = run[a].build]
             all == [releases[i].assets EXCEPT ![a] = line]
             r == [releases[i] EXCEPT !.assets = all]
  <2>1. releases' = [releases EXCEPT ![i] = r]
    BY <1>0, <1>2 DEF G!Upload
  <2>2. line \in [G!Pieces -> Builds \cup {G!None}] /\ line[run[a].piece] = run[a].build
        /\ \A p \in G!Pieces \ {run[a].piece} : line[p] = releases[i].assets[a][p]
    BY <1>0 DEF ReleaseRecord
  <2> HIDE DEF line
  <2>3. all \in [Arches -> [G!Pieces -> Builds \cup {G!None}]] /\ all[a] = line
        /\ \A c \in Arches \ {a} : all[c] = releases[i].assets[c]
    BY <1>0, <2>2 DEF ReleaseRecord
  <2> HIDE DEF all
  <2>4. r \in ReleaseRecord /\ r.assets = all /\ r.commit = releases[i].commit /\ r.draft = releases[i].draft
    BY <1>0, <2>3 DEF ReleaseRecord
  <2> HIDE DEF r
  <2>5. \A c \in Arches, p \in G!Pieces :
           \/ r.assets[c][p] = releases[i].assets[c][p]
           \/ releases[i].assets[c][p] = G!None /\ c = a /\ r.assets[c][p] = run[a].build
    BY <1>2, <2>2, <2>3, <2>4
  <2> QED  BY <1>0, <1>1, <2>1, <2>4, <2>5, ReleaseChanges, ZenonT(40)
<1>3. CASE there # G!None
  <2>1. releases' = [releases EXCEPT ![i] = releases[i]]
    BY <1>0, <1>3 DEF G!Upload
  <2> QED  BY <1>0, <1>1, <2>1, ReleaseChanges
<1> QED  BY <1>2, <1>3

LEMMA PublishIsRight ==
  ASSUME GitHubAssumed, GitInv, NEW a \in Arches, G!Publish(a)
  PROVE  GitInv' /\ G!PublishedStays
<1> DEFINE s == [run[a] EXCEPT !.at = "final"]
           r == [releases[1] EXCEPT !.draft = FALSE]
<1>0. /\ run[a] \in RunRecord /\ run[a].at = "publish" /\ run[a].mine = 1 /\ 1 \in DOMAIN releases
      /\ G!Own(releases[1], a) = {run[a].build} /\ UNCHANGED <<tag, localTag>> /\ releases[1] \in ReleaseRecord
  BY DEF G!Publish, GitInv, GitTyped, RunsAreRight, RunIsRight
<1>1. s \in RunRecord /\ s.at = "final" /\ s.build = run[a].build /\ s.mine = run[a].mine
      /\ run' = [run EXCEPT ![a] = s]
  BY <1>0 DEF RunRecord, G!Publish, G!Go
<1>2. r \in ReleaseRecord /\ r.assets = releases[1].assets /\ r.commit = releases[1].commit /\ ~r.draft
      /\ releases' = [releases EXCEPT ![1] = r]
  BY <1>0 DEF ReleaseRecord, G!Publish
<1> HIDE DEF s, r
<1> QED  BY <1>0, <1>1, <1>2, ReleaseChanges

LEMMA GitStep ==
  ASSUME GitHubAssumed, GitInv, [G!Next]_(G!gvars)
  PROVE  GitInv' /\ G!PublishedStays
<1>1. ASSUME NEW a \in Arches, G!TagLocally(a)  PROVE GitInv' /\ G!PublishedStays
  <2>1. run[a].at = "tag" /\ G!Go(a, "push") /\ UNCHANGED <<tag, releases>> /\ RunIsRight(a, run[a])
        /\ localTag' = [localTag EXCEPT ![a] = CommitOf[run[a].build]]
           /\ localTag \in [Arches -> G!Commits \cup {G!None}]
    BY <1>1 DEF G!TagLocally, GitInv, GitTyped, RunsAreRight
  <2>2. CommitOf[run[a].build] \in G!Commits
    BY <2>1 DEF RunIsRight, G!Commits
  <2> QED  BY <2>1, <2>2, GoIsRight
<1>2. ASSUME NEW a \in Arches, G!Uploaded(a)  PROVE GitInv' /\ G!PublishedStays
  <2>1. UNCHANGED <<tag, releases>> /\ localTag' \in [Arches -> G!Commits \cup {G!None}]
    BY <1>2 DEF G!Uploaded, G!Keep, GitInv, GitTyped
  <2> QED  BY <1>2, <2>1, GoIsRight DEF G!Uploaded
<1>3. ASSUME NEW a \in Arches, G!CheckDraft(a)  PROVE GitInv' /\ G!PublishedStays
  <2>1. UNCHANGED <<tag, releases>> /\ localTag' \in [Arches -> G!Commits \cup {G!None}]
        /\ releases \in Seq(ReleaseRecord) /\ G!Keep(a)
    BY <1>3 DEF G!CheckDraft, G!Keep, GitInv, GitTyped
  <2>2. CASE G!Die(a)
    BY <2>1, <2>2, DieIsRight
  <2>3. CASE G!Go(a, "recheck") /\ run[a].mine = 1 /\ Len(releases) = 1
    BY <1>3, <2>1, <2>3, GoIsRight DEF G!CheckDraft
  <2> QED  BY <1>3, <2>2, <2>3 DEF G!CheckDraft
<1>4. ASSUME NEW a \in Arches, G!Recheck(a)  PROVE GitInv' /\ G!PublishedStays
  <2>1. UNCHANGED <<tag, releases>> /\ localTag' \in [Arches -> G!Commits \cup {G!None}] /\ G!Keep(a)
        /\ run[a].at = "recheck" /\ run[a].mine = 1 /\ 1 \in DOMAIN releases
    BY <1>4 DEF G!Recheck, G!Keep, GitInv, GitTyped, RunsAreRight, RunIsRight
  <2>2. CASE G!Die(a)
    BY <2>1, <2>2, DieIsRight
  <2>3. CASE G!Go(a, "publish") /\ G!Own(releases[1], a) = {run[a].build}
    BY <2>1, <2>3, GoIsRight
  <2> QED  BY <1>4, <2>1, <2>2, <2>3 DEF G!Recheck, G!Completed, G!AssetsComplete
<1>5. ASSUME NEW a \in Arches, G!Die(a), G!Keep(a)  PROVE GitInv' /\ G!PublishedStays
  BY <1>5, DieIsRight
<1>6. ASSUME UNCHANGED G!gvars  PROVE GitInv' /\ G!PublishedStays
  <2>1. UNCHANGED <<tag, localTag, releases, run>>
    BY <1>6 DEF G!gvars
  <2>2. releases' = releases /\ tag' = tag /\ \A i, c : G!Own(releases[i], c)' = G!Own(releases[i], c)
    BY <2>1 DEF G!Own
  <2>3. GitTyped' /\ G!PublishedStays
    BY <2>1 DEF GitInv, GitTyped, G!PublishedStays
  <2>4. RunsAreRight'
    BY <2>1, <2>2 DEF GitInv, RunsAreRight, RunIsRight
  <2>5. ReleasesAreRight'
    <3>1. \A i \in DOMAIN releases : ReleaseIsRight(i, releases[i])
      BY DEF GitInv, ReleasesAreRight
    <3>2. ASSUME NEW i \in DOMAIN releases  PROVE ReleaseIsRight(i, releases[i])'
      BY <2>2, <3>1 DEF ReleaseIsRight
    <3> QED  BY <2>2, <3>2 DEF ReleasesAreRight
  <2> QED  BY <2>3, <2>4, <2>5 DEF GitInv
<1> QED
  BY <1>1, <1>2, <1>3, <1>4, <1>5, <1>6, StartsIsRight, PushIsRight, CreateIsRight, UploadIsRight, PublishIsRight
     DEF G!Next, G!Finishes, G!Stops

-----------------------------------------------------------------------------
(* The candidate *)

WorldRecord == [head : Revisions, images : ImageSets, advisory : Advisories, fresh : BOOLEAN]
SeenRecord == [commit : Revisions \cup {Nil}, images : ImageSets \cup {Nil}, advisory : Advisories \cup {Nil},
         built : 1..MaxBuilds \cup {Nil}]
CandidatePlaces == {"idle", "clear", "clear2", "resume", "parent", "undo", "undo2", "fail",
                    "unlock"} \cup C!Building \cup C!Made
OpRecord == [kind : {"none", "create", "prove"}, pc : CandidatePlaces, seen : SeenRecord,
             proving : Platforms \cup {Nil},
        result : {"none", "proven"}]

CandidateAssumed ==
  /\ Nil \notin C!Payloads \cup C!Evidences \cup C!Ledger \cup Platforms
  /\ Revisions # {} /\ ImageSets # {} /\ Advisories # {} /\ MaxBuilds \in Nat

CandidateTyped ==
  /\ world \in WorldRecord /\ payload \in C!Payloads \cup {Nil} /\ evidence \in C!Evidences \cup {Nil}
  /\ lock \in {"none", "held", "stale"} /\ op \in OpRecord /\ signer \in {"idle", "temp", "done"}
  /\ builds \in 0..MaxBuilds /\ half \in BOOLEAN

\* What a create has seen by the time it is at pc.
SeenSoFar(o) ==
  /\ o.pc \in {"clear", "clear2", "build", "images", "cohort", "runner", "lanes"} => builds < MaxBuilds
  /\ o.pc \in C!Building \ {"build"} => o.seen.commit \in Revisions
  /\ o.pc \in {"cohort", "runner", "lanes"} => o.seen.images \in ImageSets
  /\ o.pc \in {"runner", "lanes"} => o.seen.advisory \in Advisories
  /\ o.pc \in {"audit", "payload", "stage", "parent"} \cup C!Made => o.seen \in C!Ledger

\* The command that is at pc, and the lock it holds.
CommandIsAt(o) ==
  /\ o.pc = "idle" <=> o.kind = "none"
  /\ o.kind = "prove" => o.pc \in {"resume", "proofs", "attempt", "publish", "validate", "fail", "unlock"}
  /\ o.pc = "resume" => o.kind = "prove"
  /\ o.pc # "idle" => lock = "held"

\* What there is of the two at pc.
BothOrNone == payload = Nil <=> evidence = Nil
CandidateStanding(o, h) ==
  /\ o.pc \in {"idle", "clear", "resume", "fail", "unlock"} => h \/ BothOrNone
  /\ o.pc \in C!Building \cup {"clear2", "undo2"} => payload = Nil
  /\ o.pc \in C!Building \cup {"parent", "evidence"} => evidence = Nil
  /\ o.pc \in {"parent", "undo"} \cup C!Made => payload # Nil
  /\ o.pc \in C!Made \ {"evidence"} => evidence # Nil
  /\ o.pc \in {"attempt", "publish"} => o.proving \in Platforms /\ evidence.proofs[o.proving] = Nil
  /\ o.pc = "validate" => o.proving \in Platforms

CandidateInv == CandidateTyped /\ SeenSoFar(op) /\ CommandIsAt(op) /\ CandidateStanding(op, half)

LEMMA CandidateInitHolds == ASSUME CandidateAssumed, C!Init  PROVE CandidateInv
<1>1. world \in WorldRecord
  BY DEF C!Init, WorldRecord, CandidateAssumed
<1>2. C!NotSeen \in SeenRecord
  BY DEF C!NotSeen, SeenRecord
<1>3. C!NoOp \in OpRecord /\ C!NoOp.pc = "idle" /\ C!NoOp.kind = "none"
  BY <1>2 DEF C!NoOp, OpRecord, CandidatePlaces
<1>0. /\ payload = Nil /\ evidence = Nil /\ lock = "none" /\ op = C!NoOp /\ signer = "idle" /\ builds = 0
         /\ half = FALSE
  BY DEF C!Init
<1>4. CandidateTyped
  <2>1. builds \in 0..MaxBuilds
    BY <1>0 DEF CandidateAssumed
  <2>2. half \in BOOLEAN
    BY <1>0, Zenon
  <2> QED  BY <1>0, <1>1, <1>3, <2>1, <2>2, Zenon DEF CandidateTyped
<1>5. SeenSoFar(op) /\ CommandIsAt(op)
  BY <1>0, <1>3 DEF SeenSoFar, CommandIsAt, C!Building, C!Made
<1>6. CandidateStanding(op, half)
  BY <1>0, <1>3 DEF CandidateStanding, BothOrNone, C!Building, C!Made
<1> QED  BY <1>4, <1>5, <1>6 DEF CandidateInv

LEMMA CandidateInvTyped == ASSUME CandidateAssumed, CandidateInv  PROVE C!TypeOK
BY DEF CandidateInv, CandidateTyped, CommandIsAt, C!TypeOK, C!Payloads, C!Evidences, OpRecord

LEMMA CandidateInvWhole == CandidateInv => C!NoHalfCandidate
BY DEF CandidateInv, CandidateTyped, CandidateStanding, BothOrNone, C!NoHalfCandidate

\* A command goes on.
LEMMA ToGoes ==
  ASSUME NEW o \in OpRecord, NEW pc \in CandidatePlaces
  PROVE  LET n == [o EXCEPT !.pc = pc] IN
         n \in OpRecord /\ n.pc = pc /\ n.kind = o.kind /\ n.seen = o.seen /\ n.proving = o.proving
           /\ n.result = o.result
BY DEF OpRecord

LEMMA NoOpEnds ==
  ASSUME NEW r \in {"none", "proven"}
  PROVE  LET n == [C!NoOp EXCEPT !.result = r] IN n \in OpRecord /\ n.pc = "idle" /\ n.kind = "none"
         /\ C!NoOp \in OpRecord /\ C!NoOp.pc = "idle" /\ C!NoOp.kind = "none"
<1>1. C!NotSeen \in SeenRecord
  BY DEF C!NotSeen, SeenRecord
<1>2. C!NoOp = [kind |-> "none", pc |-> "idle", seen |-> C!NotSeen, proving |-> Nil, result |-> "none"]
  BY DEF C!NoOp
<1>3. [C!NoOp EXCEPT !.result = r] = [kind |-> "none", pc |-> "idle", seen |-> C!NotSeen, proving |-> Nil,
                                      result |-> r]
  BY <1>2
<1> QED  BY <1>1, <1>2, <1>3 DEF OpRecord, CandidatePlaces

LEMMA OnlyGoes ==
  ASSUME CandidateInv, UNCHANGED <<world, payload, evidence, lock, signer, builds>>, op' \in OpRecord,
         half' \in BOOLEAN, half => half', SeenSoFar(op'), CommandIsAt(op'), CandidateStanding(op', half')
  PROVE  CandidateInv' /\ C!ResumeKeeps
<1>1. CandidateTyped' /\ C!ResumeKeeps
  BY DEF CandidateInv, CandidateTyped, C!ResumeKeeps
<1>2. SeenSoFar(op)' /\ CommandIsAt(op)'
  BY DEF SeenSoFar, CommandIsAt
<1>3. CandidateStanding(op, half)'
  BY DEF CandidateStanding, BothOrNone
<1> QED  BY <1>1, <1>2, <1>3 DEF CandidateInv

LEMMA BuildRunnerIs ==
  ASSUME CandidateAssumed, CandidateInv, C!BuildRunner  PROVE CandidateInv' /\ C!ResumeKeeps
<1>1. /\ op.pc = "runner" /\ op' \in OpRecord /\ op'.pc = "lanes" /\ op'.kind = op.kind /\ op'.seen = op.seen
         /\ op'.proving = op.proving
      /\ UNCHANGED <<payload, evidence, world, signer, lock, builds, half>>
  BY ToGoes DEF C!BuildRunner, C!To, C!Files, C!World, CandidatePlaces, C!Building, C!Made, CandidateInv,
     CandidateTyped
<1>2. SeenSoFar(op')
  BY <1>1 DEF CandidateInv, SeenSoFar, C!Building, C!Made
<1>3. CommandIsAt(op')
  BY <1>1 DEF CandidateInv, CommandIsAt, C!Building, C!Made
<1>4. CandidateStanding(op', half')
  BY <1>1 DEF CandidateInv, CandidateStanding, BothOrNone, C!Building, C!Made
<1> QED  BY <1>1, <1>2, <1>3, <1>4, OnlyGoes DEF CandidateInv, CandidateTyped

LEMMA ReconcileAndAuditIs ==
  ASSUME CandidateAssumed, CandidateInv, C!ReconcileAndAudit  PROVE CandidateInv' /\ C!ResumeKeeps
<1>1. /\ op.pc = "audit" /\ op' \in OpRecord /\ op'.pc = "payload" /\ op'.kind = op.kind /\ op'.seen = op.seen
         /\ op'.proving = op.proving
      /\ UNCHANGED <<payload, evidence, world, signer, lock, builds, half>>
  BY ToGoes DEF C!ReconcileAndAudit, C!To, C!Files, C!World, CandidatePlaces, C!Building, C!Made, CandidateInv,
     CandidateTyped
<1>2. SeenSoFar(op')
  BY <1>1 DEF CandidateInv, SeenSoFar, C!Building, C!Made
<1>3. CommandIsAt(op')
  BY <1>1 DEF CandidateInv, CommandIsAt, C!Building, C!Made
<1>4. CandidateStanding(op', half')
  BY <1>1 DEF CandidateInv, CandidateStanding, BothOrNone, C!Building, C!Made
<1> QED  BY <1>1, <1>2, <1>3, <1>4, OnlyGoes DEF CandidateInv, CandidateTyped

LEMMA StagePayloadIs ==
  ASSUME CandidateAssumed, CandidateInv, C!StagePayload  PROVE CandidateInv' /\ C!ResumeKeeps
<1>1. /\ op.pc = "payload" /\ op' \in OpRecord /\ op'.pc = "stage" /\ op'.kind = op.kind /\ op'.seen = op.seen
         /\ op'.proving = op.proving
      /\ UNCHANGED <<payload, evidence, world, signer, lock, builds, half>>
  BY ToGoes DEF C!StagePayload, C!To, C!Files, C!World, CandidatePlaces, C!Building, C!Made, CandidateInv,
     CandidateTyped
<1>2. SeenSoFar(op')
  BY <1>1 DEF CandidateInv, SeenSoFar, C!Building, C!Made
<1>3. CommandIsAt(op')
  BY <1>1 DEF CandidateInv, CommandIsAt, C!Building, C!Made
<1>4. CandidateStanding(op', half')
  BY <1>1 DEF CandidateInv, CandidateStanding, BothOrNone, C!Building, C!Made
<1> QED  BY <1>1, <1>2, <1>3, <1>4, OnlyGoes DEF CandidateInv, CandidateTyped

LEMMA FinalizeRechecksIs ==
  ASSUME CandidateAssumed, CandidateInv, C!FinalizeRechecks  PROVE CandidateInv' /\ C!ResumeKeeps
<1>1. /\ op.pc = "recheck" /\ op' \in OpRecord /\ op'.pc = "proofs" /\ op'.kind = op.kind /\ op'.seen = op.seen
         /\ op'.proving = op.proving
      /\ UNCHANGED <<payload, evidence, world, signer, lock, builds, half>>
  BY ToGoes DEF C!FinalizeRechecks, C!To, C!Files, C!World, CandidatePlaces, C!Building, C!Made, CandidateInv,
     CandidateTyped
<1>2. SeenSoFar(op')
  BY <1>1 DEF CandidateInv, SeenSoFar, C!Building, C!Made
<1>3. CommandIsAt(op')
  BY <1>1 DEF CandidateInv, CommandIsAt, C!Building, C!Made
<1>4. CandidateStanding(op', half')
  BY <1>1 DEF CandidateInv, CandidateStanding, BothOrNone, C!Building, C!Made
<1> QED  BY <1>1, <1>2, <1>3, <1>4, OnlyGoes DEF CandidateInv, CandidateTyped

LEMMA ClearFindsNothingIs ==
  ASSUME CandidateAssumed, CandidateInv, C!ClearFindsNothing  PROVE CandidateInv' /\ C!ResumeKeeps
<1>1. /\ op.pc = "clear" /\ op' \in OpRecord /\ op'.pc = "build" /\ op'.kind = op.kind /\ op'.seen = op.seen
         /\ op'.proving = op.proving
      /\ UNCHANGED <<payload, evidence, world, signer, lock, builds, half>> /\ payload = Nil /\ evidence = Nil
  BY ToGoes DEF C!ClearFindsNothing, C!To, C!Files, C!World, CandidatePlaces, C!Building, C!Made, CandidateInv,
     CandidateTyped
<1>2. SeenSoFar(op')
  BY <1>1 DEF CandidateInv, SeenSoFar, C!Building, C!Made
<1>3. CommandIsAt(op')
  BY <1>1 DEF CandidateInv, CommandIsAt, C!Building, C!Made
<1>4. CandidateStanding(op', half')
  BY <1>1 DEF CandidateInv, CandidateStanding, BothOrNone, C!Building, C!Made
<1> QED  BY <1>1, <1>2, <1>3, <1>4, OnlyGoes DEF CandidateInv, CandidateTyped

LEMMA ClearRefusesIs ==
  ASSUME CandidateAssumed, CandidateInv, C!ClearRefuses  PROVE CandidateInv' /\ C!ResumeKeeps
<1>1. /\ op.pc = "clear" /\ op' \in OpRecord /\ op'.pc = "fail" /\ op'.kind = op.kind /\ op'.seen = op.seen
         /\ op'.proving = op.proving
      /\ UNCHANGED <<payload, evidence, world, signer, lock, builds, half>>
  BY ToGoes DEF C!ClearRefuses, C!To, C!Files, C!World, CandidatePlaces, C!Building, C!Made, CandidateInv,
     CandidateTyped
<1>2. SeenSoFar(op')
  BY <1>1 DEF CandidateInv, SeenSoFar, C!Building, C!Made
<1>3. CommandIsAt(op')
  BY <1>1 DEF CandidateInv, CommandIsAt, C!Building, C!Made
<1>4. CandidateStanding(op', half')
  BY <1>1 DEF CandidateInv, CandidateStanding, BothOrNone, C!Building, C!Made
<1> QED  BY <1>1, <1>2, <1>3, <1>4, OnlyGoes DEF CandidateInv, CandidateTyped

LEMMA EvidenceParentIs ==
  ASSUME CandidateAssumed, CandidateInv, C!EvidenceParent  PROVE CandidateInv' /\ C!ResumeKeeps
<1>1. /\ op.pc = "parent" /\ op' \in OpRecord /\ op'.pc \in {"evidence", "fail"} /\ op'.kind = op.kind
         /\ op'.seen = op.seen /\ op'.proving = op.proving
      /\ UNCHANGED <<payload, evidence, world, signer, lock, builds>> /\ half' \in {half, TRUE} /\ (half => half') /\ (op'.pc = "fail" => half')
  <2>1. op \in OpRecord /\ op.pc = "parent" /\ UNCHANGED <<payload, evidence, world, signer, lock, builds>>
    BY DEF C!EvidenceParent, C!Files, C!World, CandidateInv, CandidateTyped
  <2>2. CASE C!To("evidence") /\ half' = half
    BY <2>1, <2>2, ToGoes DEF C!To, CandidatePlaces, C!Made
  <2>3. CASE C!To("fail") /\ half' = TRUE
    BY <2>1, <2>3, ToGoes DEF C!To, CandidatePlaces
  <2> QED  BY <2>2, <2>3 DEF C!EvidenceParent
<1>2. SeenSoFar(op')
  BY <1>1 DEF CandidateInv, SeenSoFar, C!Building, C!Made
<1>3. CommandIsAt(op')
  BY <1>1 DEF CandidateInv, CommandIsAt, C!Building, C!Made
<1>4. CandidateStanding(op', half')
  BY <1>1 DEF CandidateInv, CandidateStanding, BothOrNone, C!Building, C!Made
<1> QED  BY <1>1, <1>2, <1>3, <1>4, OnlyGoes DEF CandidateInv, CandidateTyped

LEMMA CleanupFailsIs ==
  ASSUME CandidateAssumed, CandidateInv, C!CleanupFails  PROVE CandidateInv' /\ C!ResumeKeeps
<1>1. /\ op.pc \in {"clear2", "undo", "undo2"} /\ op' \in OpRecord /\ op'.pc = "fail" /\ op'.kind = op.kind
         /\ op'.seen = op.seen /\ op'.proving = op.proving
      /\ UNCHANGED <<payload, evidence, world, signer, lock, builds>>
      /\ half' \in BOOLEAN /\ (half' <=> half \/ ~BothOrNone)
  BY ToGoes DEF C!CleanupFails, C!To, C!Files, C!World, CandidatePlaces, C!Building, C!Made, CandidateInv,
     CandidateTyped, BothOrNone
<1>2. SeenSoFar(op')
  BY <1>1 DEF CandidateInv, SeenSoFar, C!Building, C!Made
<1>3. CommandIsAt(op')
  BY <1>1 DEF CandidateInv, CommandIsAt, C!Building, C!Made
<1>4. CandidateStanding(op', half')
  BY <1>1 DEF CandidateInv, CandidateStanding, BothOrNone, C!Building, C!Made
<1> QED  BY <1>1, <1>2, <1>3, <1>4, OnlyGoes DEF CandidateInv, CandidateTyped

\* What a create sees is noted, each at its time.
LEMMA SeenNoted ==
  ASSUME NEW o \in OpRecord, NEW pc, NEW s
  PROVE  [o EXCEPT !.pc = pc, !.seen = s] = [kind |-> o.kind, pc |-> pc, seen |-> s, proving |-> o.proving,
                                             result |-> o.result]
<1>1. o = [kind |-> o.kind, pc |-> o.pc, seen |-> o.seen, proving |-> o.proving, result |-> o.result]
  BY DEF OpRecord
<1>2. [o EXCEPT !.pc = pc] = [kind |-> o.kind, pc |-> pc, seen |-> o.seen, proving |-> o.proving, result |-> o.result]
  BY <1>1
<1>3. [[kind |-> o.kind, pc |-> pc, seen |-> o.seen, proving |-> o.proving, result |-> o.result] EXCEPT !.seen = s]
      = [kind |-> o.kind, pc |-> pc, seen |-> s, proving |-> o.proving, result |-> o.result]
  OBVIOUS
<1> QED  BY <1>2, <1>3, Zenon

LEMMA ProvingNoted ==
  ASSUME NEW o \in OpRecord, NEW pc, NEW p
  PROVE  [o EXCEPT !.pc = pc, !.proving = p] = [kind |-> o.kind, pc |-> pc, seen |-> o.seen, proving |-> p,
                                                result |-> o.result]
<1>1. o = [kind |-> o.kind, pc |-> o.pc, seen |-> o.seen, proving |-> o.proving, result |-> o.result]
  BY DEF OpRecord
<1>2. [o EXCEPT !.pc = pc] = [kind |-> o.kind, pc |-> pc, seen |-> o.seen, proving |-> o.proving, result |-> o.result]
  BY <1>1
<1>3. [[kind |-> o.kind, pc |-> pc, seen |-> o.seen, proving |-> o.proving, result |-> o.result] EXCEPT !.proving = p]
      = [kind |-> o.kind, pc |-> pc, seen |-> o.seen, proving |-> p, result |-> o.result]
  OBVIOUS
<1> QED  BY <1>2, <1>3, Zenon

LEMMA ExportContextIs ==
  ASSUME CandidateAssumed, CandidateInv, C!ExportContext  PROVE CandidateInv' /\ C!ResumeKeeps
<1>0. op \in OpRecord /\ op.pc = "build" /\ UNCHANGED <<payload, evidence, world, signer, lock, builds, half>>
      /\ world \in WorldRecord /\ op.seen \in SeenRecord
  BY DEF C!ExportContext, C!Files, C!World, CandidateInv, CandidateTyped, OpRecord
<1> DEFINE s == [C!NotSeen EXCEPT !.commit = world.head]
<1>1. s \in SeenRecord /\ s.commit \in Revisions
  BY <1>0 DEF SeenRecord, C!NotSeen, WorldRecord
<1>2. op' = [op EXCEPT !.pc = "images", !.seen = s]
  BY <1>0, Zenon DEF C!ExportContext
<1> HIDE DEF s
<1>3. op' \in OpRecord /\ op'.pc = "images" /\ op'.kind = op.kind /\ op'.seen = s /\ op'.proving = op.proving
  <2>1. "images" \in CandidatePlaces
    BY DEF CandidatePlaces, C!Building
  <2>2. op' = [kind |-> op.kind, pc |-> "images", seen |-> s, proving |-> op.proving, result |-> op.result]
    BY <1>0, <1>2, SeenNoted, Zenon
  <2> QED  BY <1>0, <1>1, <2>1, <2>2 DEF OpRecord
<1>4. SeenSoFar(op')
  BY <1>0, <1>1, <1>3 DEF CandidateInv, SeenSoFar, C!Building, C!Made
<1>5. CommandIsAt(op')
  BY <1>0, <1>3 DEF CandidateInv, CommandIsAt, C!Building, C!Made
<1>6. CandidateStanding(op', half')
  BY <1>0, <1>3 DEF CandidateInv, CandidateStanding, BothOrNone, C!Building, C!Made
<1> QED  BY <1>0, <1>3, <1>4, <1>5, <1>6, OnlyGoes DEF CandidateInv, CandidateTyped

LEMMA ResolveImagesIs ==
  ASSUME CandidateAssumed, CandidateInv, C!ResolveImages  PROVE CandidateInv' /\ C!ResumeKeeps
<1>0. op \in OpRecord /\ op.pc = "images" /\ UNCHANGED <<payload, evidence, world, signer, lock, builds, half>>
      /\ world \in WorldRecord /\ op.seen \in SeenRecord
  BY DEF C!ResolveImages, C!Files, C!World, CandidateInv, CandidateTyped, OpRecord
<1> DEFINE s == [op.seen EXCEPT !.images = world.images]
<1>1. s \in SeenRecord /\ s.images \in ImageSets /\ s.commit = op.seen.commit
  BY <1>0 DEF SeenRecord, C!NotSeen, WorldRecord
<1>2. op' = [op EXCEPT !.pc = "cohort", !.seen = s]
  BY <1>0, Zenon DEF C!ResolveImages
<1> HIDE DEF s
<1>3. op' \in OpRecord /\ op'.pc = "cohort" /\ op'.kind = op.kind /\ op'.seen = s /\ op'.proving = op.proving
  <2>1. "cohort" \in CandidatePlaces
    BY DEF CandidatePlaces, C!Building
  <2>2. op' = [kind |-> op.kind, pc |-> "cohort", seen |-> s, proving |-> op.proving, result |-> op.result]
    BY <1>0, <1>2, SeenNoted, Zenon
  <2> QED  BY <1>0, <1>1, <2>1, <2>2 DEF OpRecord
<1>4. SeenSoFar(op')
  BY <1>0, <1>1, <1>3 DEF CandidateInv, SeenSoFar, C!Building, C!Made
<1>5. CommandIsAt(op')
  BY <1>0, <1>3 DEF CandidateInv, CommandIsAt, C!Building, C!Made
<1>6. CandidateStanding(op', half')
  BY <1>0, <1>3 DEF CandidateInv, CandidateStanding, BothOrNone, C!Building, C!Made
<1> QED  BY <1>0, <1>3, <1>4, <1>5, <1>6, OnlyGoes DEF CandidateInv, CandidateTyped

LEMMA RunCohortIs ==
  ASSUME CandidateAssumed, CandidateInv, C!RunCohort  PROVE CandidateInv' /\ C!ResumeKeeps
<1>0. op \in OpRecord /\ op.pc = "cohort" /\ UNCHANGED <<payload, evidence, world, signer, lock, builds, half>>
      /\ world \in WorldRecord /\ op.seen \in SeenRecord
  BY DEF C!RunCohort, C!Files, C!World, CandidateInv, CandidateTyped, OpRecord
<1> DEFINE s == [op.seen EXCEPT !.advisory = world.advisory]
<1>1. s \in SeenRecord /\ s.advisory \in Advisories /\ s.commit = op.seen.commit /\ s.images = op.seen.images
  BY <1>0 DEF SeenRecord, C!NotSeen, WorldRecord
<1>2. op' = [op EXCEPT !.pc = "runner", !.seen = s]
  BY <1>0, Zenon DEF C!RunCohort
<1> HIDE DEF s
<1>3. op' \in OpRecord /\ op'.pc = "runner" /\ op'.kind = op.kind /\ op'.seen = s /\ op'.proving = op.proving
  <2>1. "runner" \in CandidatePlaces
    BY DEF CandidatePlaces, C!Building
  <2>2. op' = [kind |-> op.kind, pc |-> "runner", seen |-> s, proving |-> op.proving, result |-> op.result]
    BY <1>0, <1>2, SeenNoted, Zenon
  <2> QED  BY <1>0, <1>1, <2>1, <2>2 DEF OpRecord
<1>4. SeenSoFar(op')
  BY <1>0, <1>1, <1>3 DEF CandidateInv, SeenSoFar, C!Building, C!Made
<1>5. CommandIsAt(op')
  BY <1>0, <1>3 DEF CandidateInv, CommandIsAt, C!Building, C!Made
<1>6. CandidateStanding(op', half')
  BY <1>0, <1>3 DEF CandidateInv, CandidateStanding, BothOrNone, C!Building, C!Made
<1> QED  BY <1>0, <1>3, <1>4, <1>5, <1>6, OnlyGoes DEF CandidateInv, CandidateTyped

LEMMA BuildLanesIs ==
  ASSUME CandidateAssumed, CandidateInv, C!BuildLanes  PROVE CandidateInv' /\ C!ResumeKeeps
<1>0. op \in OpRecord /\ op.pc = "lanes" /\ UNCHANGED <<payload, evidence, world, signer, lock, half>>
      /\ op.seen \in SeenRecord
      /\ builds' = builds + 1 /\ builds + 1 \in 1..MaxBuilds
      /\ op.seen.commit \in Revisions /\ op.seen.images \in ImageSets /\ op.seen.advisory \in Advisories
  BY DEF C!BuildLanes, C!Files, C!World, CandidateInv, CandidateTyped, OpRecord, SeenSoFar, C!Building,
     CandidateAssumed
<1> DEFINE s == [op.seen EXCEPT !.built = builds + 1]
<1>1. s \in SeenRecord /\ s \in C!Ledger
  <2>1. s = [commit |-> op.seen.commit, images |-> op.seen.images, advisory |-> op.seen.advisory,
             built |-> builds + 1]
    BY <1>0 DEF SeenRecord
  <2> QED  BY <1>0, <2>1 DEF SeenRecord, C!Ledger
<1>2. op' = [op EXCEPT !.pc = "audit", !.seen = s]
  BY <1>0, Zenon DEF C!BuildLanes
<1> HIDE DEF s
<1>3. op' \in OpRecord /\ op'.pc = "audit" /\ op'.kind = op.kind /\ op'.seen = s /\ op'.proving = op.proving
  <2>1. "audit" \in CandidatePlaces
    BY DEF CandidatePlaces, C!Building
  <2>2. op' = [kind |-> op.kind, pc |-> "audit", seen |-> s, proving |-> op.proving, result |-> op.result]
    BY <1>0, <1>2, SeenNoted, Zenon
  <2> QED  BY <1>0, <1>1, <2>1, <2>2 DEF OpRecord
<1>4. CandidateTyped' /\ C!ResumeKeeps
  BY <1>0, <1>3 DEF CandidateInv, CandidateTyped, C!ResumeKeeps
<1>5. SeenSoFar(op)'
  BY <1>1, <1>3 DEF SeenSoFar, C!Building, C!Made, C!Ledger
<1>6. CommandIsAt(op)'
  BY <1>0, <1>3 DEF CandidateInv, CommandIsAt, C!Building, C!Made
<1>7. CandidateStanding(op, half)'
  BY <1>0, <1>3 DEF CandidateInv, CandidateStanding, BothOrNone, C!Building, C!Made
<1> QED  BY <1>4, <1>5, <1>6, <1>7 DEF CandidateInv

LEMMA ResumeIs ==
  ASSUME CandidateAssumed, CandidateInv, C!Resume  PROVE CandidateInv' /\ C!ResumeKeeps
<1>0. op \in OpRecord /\ op.pc = "resume" /\ UNCHANGED <<payload, evidence, world, signer, lock, builds, half>>
      /\ payload # Nil /\ evidence # Nil /\ evidence.ledger \in C!Ledger
      /\ op' = [op EXCEPT !.pc = "proofs", !.seen = evidence.ledger]
  BY DEF C!Resume, C!Files, C!World, CandidateInv, CandidateTyped, C!Evidences
<1>1. op' \in OpRecord /\ op'.pc = "proofs" /\ op'.kind = op.kind /\ op'.seen \in C!Ledger
  <2>1. evidence.ledger \in SeenRecord
    BY <1>0 DEF C!Ledger, SeenRecord
  <2>3. "proofs" \in CandidatePlaces
    BY DEF CandidatePlaces, C!Made
  <2>2. op' = [kind |-> op.kind, pc |-> "proofs", seen |-> evidence.ledger, proving |-> op.proving,
               result |-> op.result]
    BY <1>0, SeenNoted, Zenon
  <2> QED  BY <1>0, <2>1, <2>2, <2>3 DEF OpRecord
<1>2. SeenSoFar(op')
  BY <1>1 DEF SeenSoFar, C!Building, C!Made
<1>3. CommandIsAt(op')
  BY <1>0, <1>1 DEF CandidateInv, CommandIsAt, C!Building, C!Made
<1>4. CandidateStanding(op', half')
  BY <1>0, <1>1 DEF CandidateInv, CandidateStanding, BothOrNone, C!Building, C!Made
<1> QED  BY <1>0, <1>1, <1>2, <1>3, <1>4, OnlyGoes DEF CandidateInv, CandidateTyped

LEMMA FinishIs ==
  ASSUME CandidateAssumed, CandidateInv, C!Finish  PROVE CandidateInv' /\ C!ResumeKeeps
<1>0. op \in OpRecord /\ op.pc = "proofs" /\ UNCHANGED <<payload, evidence, world, signer, lock, builds, half>>
      /\ op' = [op EXCEPT !.pc = "unlock", !.result = "proven"]
  BY DEF C!Finish, C!Files, C!World, CandidateInv, CandidateTyped
<1>1. op' \in OpRecord /\ op'.pc = "unlock" /\ op'.kind = op.kind
  <2> DEFINE o == [op EXCEPT !.pc = "unlock"]
  <2>1. o \in OpRecord /\ o.pc = "unlock" /\ o.kind = op.kind
    BY <1>0, ToGoes DEF CandidatePlaces
  <2>2. op' = [o EXCEPT !.result = "proven"]
    BY <1>0, Zenon
  <2> HIDE DEF o
  <2> QED  BY <2>1, <2>2 DEF OpRecord
<1>2. SeenSoFar(op')
  BY <1>1 DEF SeenSoFar, C!Building, C!Made
<1>3. CommandIsAt(op')
  BY <1>0, <1>1 DEF CandidateInv, CommandIsAt, C!Building, C!Made
<1>4. CandidateStanding(op', half')
  BY <1>0, <1>1 DEF CandidateInv, CandidateStanding, BothOrNone, C!Building, C!Made
<1> QED  BY <1>0, <1>1, <1>2, <1>3, <1>4, OnlyGoes DEF CandidateInv, CandidateTyped

LEMMA AttemptStartsIs ==
  ASSUME CandidateAssumed, CandidateInv, NEW p \in Platforms, C!AttemptStarts(p)  PROVE CandidateInv' /\ C!ResumeKeeps
<1>0. op \in OpRecord /\ op.pc = "proofs" /\ UNCHANGED <<payload, world, signer, lock, builds, half>>
      /\ evidence # Nil /\ evidence \in C!Evidences /\ evidence.proofs[p] = Nil
      /\ op' = [op EXCEPT !.pc = "attempt", !.proving = p]
      /\ evidence' = [evidence EXCEPT !.attempts = evidence.attempts \cup {p}]
  BY DEF C!AttemptStarts, C!World, CandidateInv, CandidateTyped, CandidateStanding, C!Made
<1>1. op' \in OpRecord /\ op'.pc = "attempt" /\ op'.kind = op.kind /\ op'.proving = p /\ op'.seen = op.seen
  <2>1. "attempt" \in CandidatePlaces /\ p \in Platforms \cup {Nil}
    BY DEF CandidatePlaces, C!Made
  <2>2. op' = [kind |-> op.kind, pc |-> "attempt", seen |-> op.seen, proving |-> p, result |-> op.result]
    BY <1>0, ProvingNoted, Zenon
  <2> QED  BY <1>0, <2>1, <2>2 DEF OpRecord
<1>2. evidence' \in C!Evidences /\ evidence'.proofs = evidence.proofs /\ evidence'.ledger = evidence.ledger
  BY <1>0 DEF C!Evidences
<1>3. evidence' # Nil
  BY <1>2 DEF CandidateAssumed
<1>4. CandidateTyped' /\ C!ResumeKeeps
  BY <1>0, <1>1, <1>2, <1>3 DEF CandidateInv, CandidateTyped, C!ResumeKeeps
<1>5. SeenSoFar(op)'
  BY <1>0, <1>1 DEF CandidateInv, SeenSoFar, C!Building, C!Made
<1>6. CommandIsAt(op)'
  BY <1>0, <1>1 DEF CandidateInv, CommandIsAt, C!Building, C!Made
<1>7. CandidateStanding(op, half)'
  BY <1>0, <1>1, <1>2, <1>3 DEF CandidateInv, CandidateStanding, BothOrNone, C!Building, C!Made
<1> QED  BY <1>4, <1>5, <1>6, <1>7 DEF CandidateInv

LEMMA AttemptEndsIs ==
  ASSUME CandidateAssumed, CandidateInv, C!AttemptEnds  PROVE CandidateInv' /\ C!ResumeKeeps
<1>0. op \in OpRecord /\ op.pc = "attempt" /\ UNCHANGED <<payload, world, signer, lock, builds, half>>
      /\ evidence # Nil /\ evidence \in C!Evidences /\ op' = [op EXCEPT !.pc = "publish"]
      /\ evidence' = [evidence EXCEPT !.attempts = evidence.attempts \ {op.proving}]
  BY DEF C!AttemptEnds, C!To, C!World, CandidateInv, CandidateTyped, CandidateStanding, C!Made
<1>1. op' \in OpRecord /\ op'.pc = "publish" /\ op'.kind = op.kind /\ op'.proving = op.proving /\ op'.seen = op.seen
  BY <1>0, ToGoes DEF CandidatePlaces, C!Made
<1>2. evidence' \in C!Evidences /\ evidence'.proofs = evidence.proofs /\ evidence'.ledger = evidence.ledger
  BY <1>0 DEF C!Evidences
<1>3. evidence' # Nil
  BY <1>2 DEF CandidateAssumed
<1>4. CandidateTyped' /\ C!ResumeKeeps
  BY <1>0, <1>1, <1>2, <1>3 DEF CandidateInv, CandidateTyped, C!ResumeKeeps
<1>5. SeenSoFar(op)'
  BY <1>0, <1>1 DEF CandidateInv, SeenSoFar, C!Building, C!Made
<1>6. CommandIsAt(op)'
  BY <1>0, <1>1 DEF CandidateInv, CommandIsAt, C!Building, C!Made
<1>7. CandidateStanding(op, half)'
  BY <1>0, <1>1, <1>2, <1>3 DEF CandidateInv, CandidateStanding, BothOrNone, C!Building, C!Made
<1> QED  BY <1>4, <1>5, <1>6, <1>7 DEF CandidateInv

\* A proof is put where there was none.
LEMMA PublishProofIs ==
  ASSUME CandidateAssumed, CandidateInv, C!PublishProof  PROVE CandidateInv' /\ C!ResumeKeeps
<1>0. op \in OpRecord /\ op.pc = "publish" /\ UNCHANGED <<payload, world, signer, lock, builds, half>>
      /\ evidence # Nil /\ evidence \in C!Evidences /\ op.proving \in Platforms /\ evidence.proofs[op.proving] = Nil
      /\ op.seen \in C!Ledger /\ op' = [op EXCEPT !.pc = "validate"]
      /\ evidence' = [evidence EXCEPT !.proofs = [evidence.proofs EXCEPT ![op.proving] = op.seen]]
  BY DEF C!PublishProof, C!To, C!World, CandidateInv, CandidateTyped, CandidateStanding, SeenSoFar, C!Made
<1>1. op' \in OpRecord /\ op'.pc = "validate" /\ op'.kind = op.kind /\ op'.seen = op.seen /\ op'.proving = op.proving
  BY <1>0, ToGoes DEF CandidatePlaces, C!Made
<1>2. evidence' \in C!Evidences /\ evidence'.ledger = evidence.ledger
      /\ \A p \in Platforms : evidence.proofs[p] # Nil => evidence'.proofs[p] = evidence.proofs[p]
  BY <1>0 DEF C!Evidences
<1>3. evidence' # Nil
  BY <1>2 DEF CandidateAssumed
<1>4. CandidateTyped' /\ C!ResumeKeeps
  BY <1>0, <1>1, <1>2, <1>3 DEF CandidateInv, CandidateTyped, C!ResumeKeeps
<1>5. SeenSoFar(op)'
  BY <1>0, <1>1 DEF CandidateInv, SeenSoFar, C!Building, C!Made
<1>6. CommandIsAt(op)'
  BY <1>0, <1>1 DEF CandidateInv, CommandIsAt, C!Building, C!Made
<1>7. CandidateStanding(op, half)'
  BY <1>0, <1>1, <1>2, <1>3 DEF CandidateInv, CandidateStanding, BothOrNone, C!Building, C!Made
<1> QED  BY <1>4, <1>5, <1>6, <1>7 DEF CandidateInv

LEMMA ValidateProofIs ==
  ASSUME CandidateAssumed, CandidateInv, C!ValidateProof  PROVE CandidateInv' /\ C!ResumeKeeps
<1>0. op \in OpRecord /\ op.pc = "validate" /\ UNCHANGED <<payload, evidence, world, signer, lock, builds, half>>
      /\ op' = [op EXCEPT !.pc = "proofs", !.proving = Nil]
  BY DEF C!ValidateProof, C!Files, C!World, CandidateInv, CandidateTyped
<1>1. op' \in OpRecord /\ op'.pc = "proofs" /\ op'.kind = op.kind /\ op'.seen = op.seen
  <2>1. "proofs" \in CandidatePlaces /\ Nil \in Platforms \cup {Nil}
    BY DEF CandidatePlaces, C!Made
  <2>2. op' = [kind |-> op.kind, pc |-> "proofs", seen |-> op.seen, proving |-> Nil, result |-> op.result]
    BY <1>0, ProvingNoted, Zenon
  <2> QED  BY <1>0, <2>1, <2>2 DEF OpRecord
<1>2. SeenSoFar(op')
  BY <1>0, <1>1 DEF CandidateInv, SeenSoFar, C!Building, C!Made
<1>3. CommandIsAt(op')
  BY <1>0, <1>1 DEF CandidateInv, CommandIsAt, C!Building, C!Made
<1>4. CandidateStanding(op', half')
  BY <1>0, <1>1 DEF CandidateInv, CandidateStanding, BothOrNone, C!Building, C!Made
<1> QED  BY <1>0, <1>1, <1>2, <1>3, <1>4, OnlyGoes DEF CandidateInv, CandidateTyped

LEMMA ClearPayloadIs ==
  ASSUME CandidateAssumed, CandidateInv, C!ClearPayload  PROVE CandidateInv' /\ C!ResumeKeeps
<1>1. /\ op.pc = "clear" /\ op' \in OpRecord /\ op'.pc = "clear2" /\ op'.kind = op.kind /\ op'.seen = op.seen
         /\ op'.proving = op.proving
      /\ payload' = Nil /\ UNCHANGED <<evidence, lock, world, signer, builds, half>> /\ evidence # Nil
  BY ToGoes DEF C!ClearPayload, C!To, C!World, CandidatePlaces, C!Building, C!Made, CandidateInv, CandidateTyped
<1>2. CandidateTyped' /\ C!ResumeKeeps
  BY <1>1 DEF CandidateInv, CandidateTyped, CommandIsAt, C!ResumeKeeps, CandidateAssumed
<1>3. SeenSoFar(op)' /\ CommandIsAt(op)'
  BY <1>1 DEF CandidateInv, SeenSoFar, CommandIsAt, C!Building, C!Made
<1>4. CandidateStanding(op, half)'
  BY <1>1 DEF CandidateInv, CandidateTyped, CandidateStanding, BothOrNone, C!Building, C!Made, CandidateAssumed
<1> QED  BY <1>2, <1>3, <1>4 DEF CandidateInv

LEMMA ClearEvidenceIs ==
  ASSUME CandidateAssumed, CandidateInv, C!ClearEvidence  PROVE CandidateInv' /\ C!ResumeKeeps
<1>1. /\ op.pc = "clear2" /\ op' \in OpRecord /\ op'.pc = "build" /\ op'.kind = op.kind /\ op'.seen = op.seen
         /\ op'.proving = op.proving
      /\ evidence' = Nil /\ UNCHANGED <<payload, lock, world, signer, builds, half>>
  BY ToGoes DEF C!ClearEvidence, C!To, C!World, CandidatePlaces, C!Building, C!Made, CandidateInv, CandidateTyped
<1>2. CandidateTyped' /\ C!ResumeKeeps
  BY <1>1 DEF CandidateInv, CandidateTyped, CommandIsAt, C!ResumeKeeps, CandidateAssumed
<1>3. SeenSoFar(op)' /\ CommandIsAt(op)'
  BY <1>1 DEF CandidateInv, SeenSoFar, CommandIsAt, C!Building, C!Made
<1>4. CandidateStanding(op, half)'
  BY <1>1 DEF CandidateInv, CandidateTyped, CandidateStanding, BothOrNone, C!Building, C!Made, CandidateAssumed
<1> QED  BY <1>2, <1>3, <1>4 DEF CandidateInv

LEMMA UndoPayloadIs ==
  ASSUME CandidateAssumed, CandidateInv, C!UndoPayload  PROVE CandidateInv' /\ C!ResumeKeeps
<1>1. /\ op.pc = "undo" /\ op' \in OpRecord /\ op'.pc = "undo2" /\ op'.kind = op.kind /\ op'.seen = op.seen
         /\ op'.proving = op.proving
      /\ payload' = Nil /\ UNCHANGED <<evidence, lock, world, signer, builds, half>>
  BY ToGoes DEF C!UndoPayload, C!To, C!World, CandidatePlaces, C!Building, C!Made, CandidateInv, CandidateTyped
<1>2. CandidateTyped' /\ C!ResumeKeeps
  BY <1>1 DEF CandidateInv, CandidateTyped, CommandIsAt, C!ResumeKeeps, CandidateAssumed
<1>3. SeenSoFar(op)' /\ CommandIsAt(op)'
  BY <1>1 DEF CandidateInv, SeenSoFar, CommandIsAt, C!Building, C!Made
<1>4. CandidateStanding(op, half)'
  BY <1>1 DEF CandidateInv, CandidateTyped, CandidateStanding, BothOrNone, C!Building, C!Made, CandidateAssumed
<1> QED  BY <1>2, <1>3, <1>4 DEF CandidateInv

LEMMA UndoEvidenceIs ==
  ASSUME CandidateAssumed, CandidateInv, C!UndoEvidence  PROVE CandidateInv' /\ C!ResumeKeeps
<1>1. /\ op.pc = "undo2" /\ op' \in OpRecord /\ op'.pc = "fail" /\ op'.kind = op.kind /\ op'.seen = op.seen
         /\ op'.proving = op.proving
      /\ evidence' = Nil /\ UNCHANGED <<payload, lock, world, signer, builds, half>>
  BY ToGoes DEF C!UndoEvidence, C!To, C!World, CandidatePlaces, C!Building, C!Made, CandidateInv, CandidateTyped
<1>2. CandidateTyped' /\ C!ResumeKeeps
  BY <1>1 DEF CandidateInv, CandidateTyped, CommandIsAt, C!ResumeKeeps, CandidateAssumed
<1>3. SeenSoFar(op)' /\ CommandIsAt(op)'
  BY <1>1 DEF CandidateInv, SeenSoFar, CommandIsAt, C!Building, C!Made
<1>4. CandidateStanding(op, half)'
  BY <1>1 DEF CandidateInv, CandidateTyped, CandidateStanding, BothOrNone, C!Building, C!Made, CandidateAssumed
<1> QED  BY <1>2, <1>3, <1>4 DEF CandidateInv

LEMMA PromoteIs ==
  ASSUME CandidateAssumed, CandidateInv, C!Promote  PROVE CandidateInv' /\ C!ResumeKeeps
<1>1. /\ op.pc = "stage" /\ op' \in OpRecord /\ op'.pc = "parent" /\ op'.kind = op.kind /\ op'.seen = op.seen
         /\ op'.proving = op.proving
      /\ payload' \in C!Payloads /\ UNCHANGED <<evidence, lock, world, signer, builds, half>>
  BY ToGoes DEF C!Promote, C!To, C!World, CandidatePlaces, C!Building, C!Payloads, C!Ledger, SeenSoFar,
     CandidateInv, CandidateTyped, C!Made
<1>2. CandidateTyped' /\ C!ResumeKeeps
  BY <1>1 DEF CandidateInv, CandidateTyped, CommandIsAt, C!ResumeKeeps, CandidateAssumed
<1>3. SeenSoFar(op)' /\ CommandIsAt(op)'
  BY <1>1 DEF CandidateInv, SeenSoFar, CommandIsAt, C!Building, C!Made
<1>4. CandidateStanding(op, half)'
  BY <1>1 DEF CandidateInv, CandidateTyped, CandidateStanding, BothOrNone, C!Building, C!Made, CandidateAssumed
<1> QED  BY <1>2, <1>3, <1>4 DEF CandidateInv

LEMMA WriteRunnerIs ==
  ASSUME CandidateAssumed, CandidateInv, C!WriteRunner  PROVE CandidateInv' /\ C!ResumeKeeps
<1>1. /\ op.pc = "evidence" /\ op' \in OpRecord /\ op'.pc = "ledger" /\ op'.kind = op.kind /\ op'.seen = op.seen
         /\ op'.proving = op.proving
      /\ evidence' \in C!Evidences /\ UNCHANGED <<payload, lock, world, signer, builds, half>>
  BY ToGoes DEF C!WriteRunner, C!To, C!World, CandidatePlaces, C!Building, C!Made, C!Evidences, C!NoEvidence,
     CandidateInv, CandidateTyped
<1>2. CandidateTyped' /\ C!ResumeKeeps
  BY <1>1 DEF CandidateInv, CandidateTyped, CommandIsAt, C!ResumeKeeps, CandidateAssumed
<1>3. SeenSoFar(op)' /\ CommandIsAt(op)'
  BY <1>1 DEF CandidateInv, SeenSoFar, CommandIsAt, C!Building, C!Made
<1>4. CandidateStanding(op, half)'
  BY <1>1 DEF CandidateInv, CandidateTyped, CandidateStanding, BothOrNone, C!Building, C!Made, CandidateAssumed
<1> QED  BY <1>2, <1>3, <1>4 DEF CandidateInv

LEMMA WriteLedgerIs ==
  ASSUME CandidateAssumed, CandidateInv, C!WriteLedger  PROVE CandidateInv' /\ C!ResumeKeeps
<1>1. /\ op.pc = "ledger" /\ op' \in OpRecord /\ op'.pc = "recheck" /\ op'.kind = op.kind /\ op'.seen = op.seen
         /\ op'.proving = op.proving
      /\ evidence' \in C!Evidences /\ UNCHANGED <<payload, lock, world, signer, builds, half>>
  BY ToGoes DEF C!WriteLedger, C!To, C!World, CandidatePlaces, C!Building, C!Made, C!Evidences, SeenSoFar,
     CandidateStanding, CandidateInv, CandidateTyped
<1>2. CandidateTyped' /\ C!ResumeKeeps
  BY <1>1 DEF CandidateInv, CandidateTyped, CommandIsAt, C!ResumeKeeps, CandidateAssumed
<1>3. SeenSoFar(op)' /\ CommandIsAt(op)'
  BY <1>1 DEF CandidateInv, SeenSoFar, CommandIsAt, C!Building, C!Made
<1>4. CandidateStanding(op, half)'
  BY <1>1 DEF CandidateInv, CandidateTyped, CandidateStanding, BothOrNone, C!Building, C!Made, CandidateAssumed
<1> QED  BY <1>2, <1>3, <1>4 DEF CandidateInv

LEMMA UnlockIs ==
  ASSUME CandidateAssumed, CandidateInv, C!Unlock  PROVE CandidateInv' /\ C!ResumeKeeps
<1>1. /\ op.pc \in {"unlock", "fail"} /\ op' \in OpRecord /\ op'.pc = "idle" /\ op'.kind = "none"
      /\ lock' = "none" /\ UNCHANGED <<payload, evidence, world, signer, builds, half>>
  BY NoOpEnds DEF C!Unlock, C!Files, C!World, CandidateInv, CandidateTyped, OpRecord
<1>2. CandidateTyped' /\ C!ResumeKeeps
  BY <1>1 DEF CandidateInv, CandidateTyped, CommandIsAt, C!ResumeKeeps, CandidateAssumed
<1>3. SeenSoFar(op)' /\ CommandIsAt(op)'
  BY <1>1 DEF CandidateInv, SeenSoFar, CommandIsAt, C!Building, C!Made
<1>4. CandidateStanding(op, half)'
  BY <1>1 DEF CandidateInv, CandidateTyped, CandidateStanding, BothOrNone, C!Building, C!Made, CandidateAssumed
<1> QED  BY <1>2, <1>3, <1>4 DEF CandidateInv

LEMMA CrashIs ==
  ASSUME CandidateAssumed, CandidateInv, C!Crash  PROVE CandidateInv' /\ C!ResumeKeeps
<1>1. /\ op' \in OpRecord /\ op'.pc = "idle" /\ op'.kind = "none" /\ half' \in BOOLEAN /\ (half' <=> half \/ ~BothOrNone)
      /\ lock' = "stale" /\ UNCHANGED <<payload, evidence, world, signer, builds>>
  BY NoOpEnds DEF C!Crash, C!Files, C!World, CandidateInv, CandidateTyped, BothOrNone
<1>2. CandidateTyped' /\ C!ResumeKeeps
  BY <1>1 DEF CandidateInv, CandidateTyped, CommandIsAt, C!ResumeKeeps, CandidateAssumed
<1>3. SeenSoFar(op)' /\ CommandIsAt(op)'
  BY <1>1 DEF CandidateInv, SeenSoFar, CommandIsAt, C!Building, C!Made
<1>4. CandidateStanding(op, half)'
  BY <1>1 DEF CandidateInv, CandidateTyped, CandidateStanding, BothOrNone, C!Building, C!Made, CandidateAssumed
<1> QED  BY <1>2, <1>3, <1>4 DEF CandidateInv

LEMMA RemoveLockIs ==
  ASSUME CandidateAssumed, CandidateInv, C!RemoveLock  PROVE CandidateInv' /\ C!ResumeKeeps
<1>1. op.pc = "idle" /\ lock' = "none" /\ UNCHANGED <<payload, evidence, op, world, signer, builds, half>>
  BY NoOpEnds DEF C!RemoveLock, C!Files, C!World, CandidateInv, CandidateTyped
<1>2. CandidateTyped' /\ C!ResumeKeeps
  BY <1>1 DEF CandidateInv, CandidateTyped, CommandIsAt, C!ResumeKeeps, CandidateAssumed
<1>3. SeenSoFar(op)' /\ CommandIsAt(op)'
  BY <1>1 DEF CandidateInv, SeenSoFar, CommandIsAt, C!Building, C!Made
<1>4. CandidateStanding(op, half)'
  BY <1>1 DEF CandidateInv, CandidateTyped, CandidateStanding, BothOrNone, C!Building, C!Made, CandidateAssumed
<1> QED  BY <1>2, <1>3, <1>4 DEF CandidateInv

LEMMA RemovePathsIs ==
  ASSUME CandidateAssumed, CandidateInv, C!RemovePaths  PROVE CandidateInv' /\ C!ResumeKeeps
<1>1. /\ op.pc = "idle" /\ payload' = Nil /\ evidence' = Nil /\ half' = FALSE
      /\ UNCHANGED <<lock, op, world, signer, builds>>
  BY NoOpEnds DEF C!RemovePaths, C!World, CandidateInv, CandidateTyped
<1>2. CandidateTyped' /\ C!ResumeKeeps
  BY <1>1 DEF CandidateInv, CandidateTyped, CommandIsAt, C!ResumeKeeps, CandidateAssumed
<1>3. SeenSoFar(op)' /\ CommandIsAt(op)'
  BY <1>1 DEF CandidateInv, SeenSoFar, CommandIsAt, C!Building, C!Made
<1>4. CandidateStanding(op, half)'
  BY <1>1 DEF CandidateInv, CandidateTyped, CandidateStanding, BothOrNone, C!Building, C!Made, CandidateAssumed
<1> QED  BY <1>2, <1>3, <1>4 DEF CandidateInv

LEMMA DriftIs ==
  ASSUME CandidateAssumed, CandidateInv, C!Drift  PROVE CandidateInv' /\ C!ResumeKeeps
<1>0. world \in WorldRecord
  BY DEF CandidateInv, CandidateTyped
<1>a. \/ \E c \in Revisions : world' = [world EXCEPT !.head = c]
      \/ \E i \in ImageSets : world' = [world EXCEPT !.images = i]
      \/ \E a \in Advisories : world' = [world EXCEPT !.advisory = a, !.fresh = TRUE]
      \/ world' = [world EXCEPT !.fresh = FALSE]
  BY ZenonT(30) DEF C!Drift
<1>b. world' \in WorldRecord
  <2>1. ASSUME NEW c \in Revisions, world' = [world EXCEPT !.head = c]  PROVE world' \in WorldRecord
    BY <1>0, <2>1 DEF WorldRecord
  <2>2. ASSUME NEW i \in ImageSets, world' = [world EXCEPT !.images = i]  PROVE world' \in WorldRecord
    BY <1>0, <2>2 DEF WorldRecord
  <2>3. ASSUME NEW a \in Advisories, world' = [world EXCEPT !.advisory = a, !.fresh = TRUE]
        PROVE world' \in WorldRecord
    BY <1>0, <2>3 DEF WorldRecord
  <2>4. ASSUME world' = [world EXCEPT !.fresh = FALSE]  PROVE world' \in WorldRecord
    BY <1>0, <2>4 DEF WorldRecord
  <2> QED  BY <1>a, <2>1, <2>2, <2>3, <2>4, ZenonT(30)
<1>c. UNCHANGED <<payload, evidence, lock, op, signer, builds, half>>
  BY ZenonT(30) DEF C!Drift
<1>1. world' \in WorldRecord /\ UNCHANGED <<payload, evidence, lock, op, signer, builds, half>>
  BY <1>b, <1>c
<1>2. CandidateTyped' /\ C!ResumeKeeps
  BY <1>1 DEF CandidateInv, CandidateTyped, CommandIsAt, C!ResumeKeeps, CandidateAssumed
<1>3. SeenSoFar(op)' /\ CommandIsAt(op)'
  BY <1>1 DEF CandidateInv, SeenSoFar, CommandIsAt, C!Building, C!Made
<1>4. CandidateStanding(op, half)'
  BY <1>1 DEF CandidateInv, CandidateTyped, CandidateStanding, BothOrNone, C!Building, C!Made, CandidateAssumed
<1> QED  BY <1>2, <1>3, <1>4 DEF CandidateInv

LEMMA SignStartsIs ==
  ASSUME CandidateAssumed, CandidateInv, C!SignStarts  PROVE CandidateInv' /\ C!ResumeKeeps
<1>1. /\ signer' = "temp" /\ UNCHANGED <<world, evidence, lock, op, builds, half>>
      /\ payload' \in C!Payloads \cup {Nil} /\ (payload' = Nil <=> payload = Nil) /\ (payload # Nil => payload'.built = payload.built)
  BY ToGoes DEF C!SignStarts, C!Files, C!Classified, C!Payloads, CandidateInv, CandidateTyped, CandidateAssumed
<1>2. CandidateTyped' /\ C!ResumeKeeps
  BY <1>1 DEF CandidateInv, CandidateTyped, CommandIsAt, C!ResumeKeeps, CandidateAssumed
<1>3. SeenSoFar(op)' /\ CommandIsAt(op)'
  BY <1>1 DEF CandidateInv, SeenSoFar, CommandIsAt, C!Building, C!Made
<1>4. CandidateStanding(op, half)'
  BY <1>1 DEF CandidateInv, CandidateTyped, CandidateStanding, BothOrNone, C!Building, C!Made, CandidateAssumed
<1> QED  BY <1>2, <1>3, <1>4 DEF CandidateInv

LEMMA SignWritesIs ==
  ASSUME CandidateAssumed, CandidateInv, C!SignWrites  PROVE CandidateInv' /\ C!ResumeKeeps
<1>1. /\ signer' = "done" /\ UNCHANGED <<world, evidence, lock, op, builds, half>>
      /\ payload' \in C!Payloads \cup {Nil} /\ (payload' = Nil <=> payload = Nil) /\ (payload # Nil => payload'.built = payload.built)
  BY ToGoes DEF C!SignWrites, C!Files, C!Classified, C!Payloads, CandidateInv, CandidateTyped, CandidateAssumed
<1>2. CandidateTyped' /\ C!ResumeKeeps
  BY <1>1 DEF CandidateInv, CandidateTyped, CommandIsAt, C!ResumeKeeps, CandidateAssumed
<1>3. SeenSoFar(op)' /\ CommandIsAt(op)'
  BY <1>1 DEF CandidateInv, SeenSoFar, CommandIsAt, C!Building, C!Made
<1>4. CandidateStanding(op, half)'
  BY <1>1 DEF CandidateInv, CandidateTyped, CandidateStanding, BothOrNone, C!Building, C!Made, CandidateAssumed
<1> QED  BY <1>2, <1>3, <1>4 DEF CandidateInv

LEMMA SignEndsIs ==
  ASSUME CandidateAssumed, CandidateInv, C!SignEnds  PROVE CandidateInv' /\ C!ResumeKeeps
<1>1. /\ signer' = "idle" /\ UNCHANGED <<world, evidence, lock, op, builds, half>>
      /\ payload' \in C!Payloads \cup {Nil} /\ (payload' = Nil <=> payload = Nil) /\ (payload # Nil => payload'.built = payload.built)
  BY ToGoes DEF C!SignEnds, C!Files, C!Classified, C!Payloads, CandidateInv, CandidateTyped, CandidateAssumed
<1>2. CandidateTyped' /\ C!ResumeKeeps
  BY <1>1 DEF CandidateInv, CandidateTyped, CommandIsAt, C!ResumeKeeps, CandidateAssumed
<1>3. SeenSoFar(op)' /\ CommandIsAt(op)'
  BY <1>1 DEF CandidateInv, SeenSoFar, CommandIsAt, C!Building, C!Made
<1>4. CandidateStanding(op, half)'
  BY <1>1 DEF CandidateInv, CandidateTyped, CandidateStanding, BothOrNone, C!Building, C!Made, CandidateAssumed
<1> QED  BY <1>2, <1>3, <1>4 DEF CandidateInv

LEMMA SignStopsIs ==
  ASSUME CandidateAssumed, CandidateInv, C!SignStops  PROVE CandidateInv' /\ C!ResumeKeeps
<1>1. /\ signer' = "idle" /\ UNCHANGED <<world, evidence, lock, op, builds, half>>
      /\ payload' \in C!Payloads \cup {Nil} /\ (payload' = Nil <=> payload = Nil) /\ (payload # Nil => payload'.built = payload.built)
  BY ToGoes DEF C!SignStops, C!Files, C!Classified, C!Payloads, CandidateInv, CandidateTyped, CandidateAssumed
<1>2. CandidateTyped' /\ C!ResumeKeeps
  BY <1>1 DEF CandidateInv, CandidateTyped, CommandIsAt, C!ResumeKeeps, CandidateAssumed
<1>3. SeenSoFar(op)' /\ CommandIsAt(op)'
  BY <1>1 DEF CandidateInv, SeenSoFar, CommandIsAt, C!Building, C!Made
<1>4. CandidateStanding(op, half)'
  BY <1>1 DEF CandidateInv, CandidateTyped, CandidateStanding, BothOrNone, C!Building, C!Made, CandidateAssumed
<1> QED  BY <1>2, <1>3, <1>4 DEF CandidateInv

LEMMA AcquireIs ==
  ASSUME CandidateAssumed, CandidateInv, NEW kind \in {"create", "prove"},
         UNCHANGED <<C!Files, C!World, builds, half>>, kind = "create" => builds < MaxBuilds, C!Acquire(kind)
  PROVE  CandidateInv' /\ C!ResumeKeeps
<1>1. /\ op.pc = "idle" /\ op' \in OpRecord /\ op'.kind = kind
         /\ op'.pc = IF kind = "create" THEN "clear" ELSE "resume"
      /\ lock' = "held" /\ UNCHANGED <<payload, evidence, world, signer, builds, half>>
  <2>1. /\ op.pc = "idle" /\ lock' = "held" /\ UNCHANGED <<payload, evidence, world, signer, builds, half>>
        /\ op' = [C!NoOp EXCEPT !.kind = kind, !.pc = IF kind = "create" THEN "clear" ELSE "resume"]
    BY DEF C!Acquire, C!Files, C!World
  <2>2. [C!NoOp EXCEPT !.kind = kind] = [kind |-> kind, pc |-> "idle", seen |-> C!NotSeen, proving |-> Nil,
                                         result |-> "none"]
    BY DEF C!NoOp
  <2>3. [[kind |-> kind, pc |-> "idle", seen |-> C!NotSeen, proving |-> Nil, result |-> "none"]
           EXCEPT !.pc = IF kind = "create" THEN "clear" ELSE "resume"]
        = [kind |-> kind, pc |-> IF kind = "create" THEN "clear" ELSE "resume", seen |-> C!NotSeen, proving |-> Nil,
           result |-> "none"]
    OBVIOUS
  <2>4. op' = [kind |-> kind, pc |-> IF kind = "create" THEN "clear" ELSE "resume", seen |-> C!NotSeen,
               proving |-> Nil, result |-> "none"]
    BY <2>1, <2>2, <2>3, Zenon
  <2>5. C!NotSeen \in SeenRecord
    BY DEF C!NotSeen, SeenRecord
  <2>6. (IF kind = "create" THEN "clear" ELSE "resume") \in CandidatePlaces
    BY DEF CandidatePlaces
  <2>7. op' \in OpRecord /\ op'.kind = kind /\ op'.pc = IF kind = "create" THEN "clear" ELSE "resume"
    BY <2>4, <2>5, <2>6 DEF OpRecord
  <2> QED  BY <2>1, <2>7
<1>2. CandidateTyped' /\ C!ResumeKeeps
  BY <1>1 DEF CandidateInv, CandidateTyped, CommandIsAt, C!ResumeKeeps, CandidateAssumed
<1>3. SeenSoFar(op)' /\ CommandIsAt(op)'
  BY <1>1 DEF CandidateInv, SeenSoFar, CommandIsAt, C!Building, C!Made
<1>4. CandidateStanding(op, half)'
  BY <1>1 DEF CandidateInv, CandidateTyped, CandidateStanding, BothOrNone, C!Building, C!Made, CandidateAssumed
<1> QED  BY <1>2, <1>3, <1>4 DEF CandidateInv

\* Of the evidence only this command's attempt goes, or the proof it has just written.
LEMMA CleanedEvidence ==
  ASSUME CandidateAssumed, CandidateInv, C!Fails
  PROVE  IF evidence \in C!Evidences
         THEN /\ evidence' \in C!Evidences /\ evidence'.ledger = evidence.ledger
              /\ \A p \in Platforms \ {op.proving} : evidence'.proofs[p] = evidence.proofs[p]
         ELSE evidence' = evidence
<1>1. evidence' \in {evidence, C!AttemptCleaned} /\ op \in OpRecord /\ evidence \in C!Evidences \cup {Nil}
  BY DEF C!Fails, CandidateInv, CandidateTyped
<1>2. op.pc \in {"attempt", "validate"} => evidence \in C!Evidences /\ op.proving \in Platforms
  BY <1>1 DEF CandidateInv, CandidateStanding, C!Made
<1>3. CASE evidence' = evidence
  BY <1>3
<1>4. CASE evidence' = C!AttemptCleaned /\ op.pc = "attempt"
  BY <1>1, <1>2, <1>4 DEF C!AttemptCleaned, C!Evidences
<1>5. CASE evidence' = C!AttemptCleaned /\ op.pc = "validate"
  <2>1. evidence' = [evidence EXCEPT !.proofs = [evidence.proofs EXCEPT ![op.proving] = Nil]]
    BY <1>5 DEF C!AttemptCleaned
  <2> QED  BY <1>2, <1>5, <2>1 DEF C!Evidences
<1>6. CASE evidence' = C!AttemptCleaned /\ op.pc \notin {"attempt", "validate"}
  BY <1>6 DEF C!AttemptCleaned
<1> QED  BY <1>1, <1>3, <1>4, <1>5, <1>6

LEMMA FailsIs ==
  ASSUME CandidateAssumed, CandidateInv, C!Fails  PROVE CandidateInv' /\ C!ResumeKeeps
<1>1. /\ op.pc \in {"clear", "resume"} \cup C!Building \cup C!Made /\ op' \in OpRecord /\ op'.kind = op.kind
         /\ op'.seen = op.seen /\ op'.proving = op.proving
      /\ op'.pc = (IF op.kind = "create" /\ op.pc \in C!Made THEN "undo" ELSE "fail")
      /\ UNCHANGED <<payload, world, signer, lock, builds, half>>
  BY ToGoes DEF C!Fails, C!To, C!World, CandidatePlaces, CandidateInv, CandidateTyped, C!Made
<1>2. CandidateTyped' /\ C!ResumeKeeps
  BY <1>1, CleanedEvidence
  DEF CandidateInv, CandidateTyped, CommandIsAt, C!ResumeKeeps, CandidateAssumed
<1>3. SeenSoFar(op)' /\ CommandIsAt(op)'
  BY <1>1 DEF CandidateInv, SeenSoFar, CommandIsAt, C!Building, C!Made
<1>4. CandidateStanding(op, half)'
  BY <1>1, CleanedEvidence
  DEF CandidateInv, CandidateTyped, CandidateStanding, BothOrNone, C!Building, C!Made, CandidateAssumed,
     CommandIsAt, OpRecord
<1> QED  BY <1>2, <1>3, <1>4 DEF CandidateInv

LEMMA CandidateStep ==
  ASSUME CandidateAssumed, CandidateInv, [C!Next]_(C!cvars)
  PROVE  CandidateInv' /\ C!ResumeKeeps
<1>1. CASE C!CreateStarts \/ C!ProveStarts
  BY <1>1, AcquireIs DEF C!CreateStarts, C!ProveStarts
<1>2. CASE C!ClearFindsNothing \/ C!ClearRefuses \/ C!ClearPayload \/ C!ClearEvidence
  BY <1>2, ClearFindsNothingIs, ClearRefusesIs, ClearPayloadIs, ClearEvidenceIs
<1>3. CASE \/ C!ExportContext \/ C!ResolveImages \/ C!RunCohort \/ C!BuildRunner \/ C!BuildLanes \/ C!ReconcileAndAudit
           \/ C!StagePayload
  BY <1>3, ExportContextIs, ResolveImagesIs, RunCohortIs, BuildRunnerIs, BuildLanesIs, ReconcileAndAuditIs,
     StagePayloadIs
<1>4. CASE C!Promote \/ C!EvidenceParent \/ C!WriteRunner \/ C!WriteLedger \/ C!FinalizeRechecks
  BY <1>4, PromoteIs, EvidenceParentIs, WriteRunnerIs, WriteLedgerIs, FinalizeRechecksIs
<1>5. CASE \/ C!Resume \/ (\E p \in Platforms : C!AttemptStarts(p)) \/ C!AttemptEnds
           \/ C!PublishProof \/ C!ValidateProof \/ C!Finish
  BY <1>5, ResumeIs, AttemptStartsIs, AttemptEndsIs, PublishProofIs, ValidateProofIs, FinishIs
<1>6. CASE \/ C!Fails \/ C!CleanupFails \/ C!UndoPayload \/ C!UndoEvidence \/ C!Unlock \/ C!Crash \/ C!RemoveLock \/ C!RemovePaths
  BY <1>6, FailsIs, CleanupFailsIs, UndoPayloadIs, UndoEvidenceIs, UnlockIs, CrashIs, RemoveLockIs, RemovePathsIs
<1>7. CASE C!SignStarts \/ C!SignWrites \/ C!SignEnds \/ C!SignStops \/ C!Drift
  BY <1>7, SignStartsIs, SignWritesIs, SignEndsIs, SignStopsIs, DriftIs
<1>8. CASE UNCHANGED C!cvars
  <2>1. UNCHANGED <<world, payload, evidence, lock, op, signer, builds, half>>
    BY <1>8 DEF C!cvars
  <2> QED  BY <2>1, OnlyGoes DEF CandidateInv, CandidateTyped
<1> QED  BY <1>1, <1>2, <1>3, <1>4, <1>5, <1>6, <1>7, <1>8 DEF C!Next

-----------------------------------------------------------------------------
(* The transparency chain *)

TransparencyAssumed == Nil \notin T!Entries \cup T!Pointers /\ MaxStamp \in Nat \ {0} /\ MaxJobs \in Nat

StoreRecord == [entry : [Versions -> T!Entries \cup {Nil}], esig : [Versions -> T!Entries \cup {Nil}],
                objs : [Versions -> SUBSET Machines], ledger : T!Entries \cup {Nil},
                pointer : T!Pointers \cup {Nil}, psig : T!Pointers \cup {Nil}]
StageRecord == [entry : T!Entries \cup {Nil}, esig : T!Entries \cup {Nil}, pointer : T!Pointers \cup {Nil},
                psig : T!Pointers \cup {Nil}]
\* The places of a job, those of an upload from the one on at which each thing is there.
AtTheHead == {"final", "head"}
HasEvidence == {"ledger", "psig", "put"} \cup AtTheHead
HasSignature == {"objs"} \cup HasEvidence
HasEntry == {"esig"} \cup HasSignature
HasArchived == {"entry"} \cup HasEntry
Uploading == {"preflight", "archive"} \cup HasArchived
Renewing == {"renew", "psig", "put", "final"}
ChainPlaces == {"idle", "pointer", "chain", "prepare", "sign", "adopt", "adopt2", "adopt3", "renew"} \cup Uploading
ChainJobRecord == [kind : {"none", "publish", "resign"}, pc : ChainPlaces, ver : Versions \cup {Nil},
                   seen : T!Pointers \cup {Nil},
              want : T!Pointers \cup {Nil}, result : {"none", "already", "done", "retryable", "terminal"}]

ChainTyped ==
  /\ tclock \in 1..MaxStamp /\ jobs \in 0..MaxJobs /\ archived \subseteq T!Entries
  /\ store \in StoreRecord /\ staging \in [Machines -> [Versions -> StageRecord]]
     /\ job \in [Machines -> ChainJobRecord]
  /\ head \in [Machines -> SUBSET T!Entries] /\ committed \in [Machines -> SUBSET T!Entries]
  /\ \A m \in Machines : committed[m] \subseteq head[m]

\* What is stored under a version is an entry of it, and its own signature.
StoreRight(st) ==
  \A v \in Versions : /\ st.entry[v] # Nil => T!Last1(st.entry[v]).ver = v
                      /\ st.esig[v] \in {Nil, st.entry[v]}

\* What a machine has staged for a version is of both; what is signed is what is there.
StageRight(m, v, s) ==
  /\ s.entry # Nil => T!Last1(s.entry).ver = v /\ T!Last1(s.entry).who = m
  /\ s.esig \in {Nil, s.entry} /\ s.psig \in {Nil, s.pointer}

TipOf(j) == IF j.seen = Nil THEN <<>> ELSE j.seen.tip

\* What the job of m has done by the time it is at its place, with what it has staged.
PublishRight(m, j, s, st, ar) ==
  /\ j.pc = "sign" =>
       s.entry # Nil /\ s.pointer # Nil /\ s.pointer.tip = s.entry
         /\ (s.entry = TipOf(j) \/ T!Previous(s.entry) = TipOf(j))
  /\ j.pc \in Uploading =>
       s.entry # Nil /\ s.pointer # Nil /\ s.pointer.tip = s.entry /\ s.esig = s.entry
         /\ T!Previous(s.entry) = TipOf(j)
  /\ j.pc \in {"adopt", "adopt2"} => st.entry[j.ver] # Nil /\ T!Last1(st.entry[j.ver]).who = m
  /\ j.pc \in HasArchived => s.entry \in ar
  /\ j.pc \in HasEntry => st.entry[j.ver] = s.entry
  /\ j.pc \in HasSignature => st.esig[j.ver] = s.entry
  /\ j.pc \in HasEvidence => m \in st.objs[j.ver]
  /\ j.pc \in AtTheHead => st.pointer # Nil /\ s.entry \in T!Parts(st.pointer.tip)
JobRight(m, j, g, st, ar) ==
  /\ j.pc = "idle" <=> j.kind = "none"
  /\ j.kind = "publish" => j.ver \in Versions /\ j.pc # "renew" /\ PublishRight(m, j, g[j.ver], st, ar)
  /\ j.kind = "resign" => j.pc \in {"pointer", "chain"} \cup Renewing
  /\ j.pc \in {"chain", "renew"} => j.seen # Nil
  /\ j.kind = "resign" /\ j.pc \in Renewing \ {"renew"} => j.seen # Nil /\ j.want # Nil /\ j.want.tip = j.seen.tip

StoresRight == StoreRight(store)
StagesRight == \A m \in Machines, v \in Versions : StageRight(m, v, staging[m][v])
JobsRight == \A m \in Machines : JobRight(m, job[m], staging[m], store, archived)

ChainInv == ChainTyped /\ StoresRight /\ StagesRight /\ JobsRight /\ T!PointerIsBacked /\ T!WitnessIsPublished

LEMMA PartsGrow ==
  ASSUME NEW e \in T!Entries
  PROVE  /\ T!Previous(e) \in Seq(T!Row) /\ T!Parts(e) = T!Parts(T!Previous(e)) \cup {e} /\ e \in T!Parts(e)
         /\ T!Previous(e) = <<>> => T!Parts(T!Previous(e)) = {}
<1> DEFINE n == Len(e)
           t == T!Previous(e)
<1>1. e \in Seq(T!Row) /\ n \in Nat /\ n >= 1
  BY LenProperties DEF T!Entries
<1>2. \A i \in 1..n : SubSeq(e, 1, i) \in Seq(T!Row) /\ Len(SubSeq(e, 1, i)) = i
      /\ \A k \in 1..i : SubSeq(e, 1, i)[k] = e[k]
  <2> SUFFICES ASSUME NEW i \in 1..n
               PROVE  /\ SubSeq(e, 1, i) \in Seq(T!Row) /\ Len(SubSeq(e, 1, i)) = i
                      /\ \A k \in 1..i : SubSeq(e, 1, i)[k] = e[k]
    OBVIOUS
  <2> QED  BY <1>1, SubSeqProperties
<1>3. t \in Seq(T!Row) /\ Len(t) = n - 1 /\ \A k \in 1..(n - 1) : t[k] = e[k]
  <2>1. 1 \in 1..(Len(e) + 1) /\ n - 1 \in (1 - 1)..Len(e)
    BY <1>1
  <2>2. t = SubSeq(e, 1, n - 1)
    BY DEF T!Previous
  <2>3. /\ SubSeq(e, 1, n - 1) \in Seq(T!Row) /\ Len(SubSeq(e, 1, n - 1)) = IF 1 <= n - 1 THEN n - 1 - 1 + 1 ELSE 0
        /\ \A k \in 1..(n - 1 - 1 + 1) : SubSeq(e, 1, n - 1)[k] = e[1 + k - 1]
    BY <1>1, <2>1, SubSeqProperties
  <2>4. Len(t) = n - 1
    <3>1. Len(t) = Len(SubSeq(e, 1, n - 1))
      BY <2>2
    <3>2. \A i \in Nat : i >= 1 => (IF 1 <= i - 1 THEN i - 1 - 1 + 1 ELSE 0) = i - 1
      OBVIOUS
    <3> HIDE DEF t, n
    <3> QED  BY <1>1, <2>3, <3>1, <3>2
  <2>5. ASSUME NEW k \in 1..(n - 1)  PROVE t[k] = e[k]
    <3>1. k \in 1..(n - 1 - 1 + 1) /\ 1 + k - 1 = k
      BY <1>1
    <3> QED  BY <2>2, <2>3, <3>1
  <2> QED  BY <2>2, <2>3, <2>4, <2>5
<1>4. \A i \in 1..(n - 1) : SubSeq(t, 1, i) = SubSeq(e, 1, i)
  <2> SUFFICES ASSUME NEW i \in 1..(n - 1)
               PROVE  SubSeq(t, 1, i) = SubSeq(e, 1, i)
    OBVIOUS
  <2>1. 1 \in 1..(Len(t) + 1) /\ i \in (1 - 1)..Len(t) /\ i \in 1..n
    BY <1>1, <1>3
  <2>2. SubSeq(t, 1, i) \in Seq(T!Row) /\ Len(SubSeq(t, 1, i)) = i /\ \A k \in 1..i : SubSeq(t, 1, i)[k] = t[k]
    BY <1>3, <2>1, SubSeqProperties
  <2>3. \A k \in 1..i : SubSeq(t, 1, i)[k] = SubSeq(e, 1, i)[k]
    BY <1>1, <1>2, <1>3, <2>1, <2>2
  <2> QED  BY <1>2, <2>1, <2>2, <2>3, SeqEqual
<1>5. SubSeq(e, 1, n) = e
  <2>1. n \in 1..n
    BY <1>1
  <2> QED  BY <1>1, <1>2, <2>1, SeqEqual
<1>6. T!Parts(t) = {SubSeq(t, 1, i) : i \in 1..(n - 1)}
  BY <1>3 DEF T!Parts
<1>7. T!Parts(t) = {SubSeq(e, 1, i) : i \in 1..(n - 1)}
  BY <1>4, <1>6
<1>8. 1..n = 1..(n - 1) \cup {n}
  BY <1>1
<1>9. T!Parts(e) = T!Parts(t) \cup {e}
  BY <1>5, <1>7, <1>8 DEF T!Parts
<1>10. t = <<>> => T!Parts(t) = {}
  BY <1>1, <1>3, <1>6
<1> QED  BY <1>3, <1>9, <1>10

\* A part of an entry is an entry, and so it is never Nil.
LEMMA PartsAreEntries ==
  ASSUME NEW e \in T!Entries
  PROVE  T!Parts(e) \subseteq T!Entries /\ T!Last1(e) \in T!Row
<1>1. e \in Seq(T!Row) /\ Len(e) \in Nat /\ Len(e) >= 1
  BY LenProperties DEF T!Entries
<1>2. ASSUME NEW i \in 1..Len(e)  PROVE SubSeq(e, 1, i) \in T!Entries
  <2>1. 1 \in 1..(Len(e) + 1) /\ i \in (1 - 1)..Len(e)
    BY <1>1
  <2>2. SubSeq(e, 1, i) \in Seq(T!Row) /\ Len(SubSeq(e, 1, i)) = i - 1 + 1
    BY <1>1, <2>1, SubSeqProperties
  <2> QED  BY <2>2, <1>1 DEF T!Entries
<1>3. T!Last1(e) \in T!Row
  <2>1. Len(e) \in 1..Len(e)
    BY <1>1
  <2> QED  BY <1>1, <2>1, ElementOfSeq DEF T!Last1
<1> QED  BY <1>2, <1>3 DEF T!Parts

\* What a store and an archive may become.
Grows(st, ar, su, as) ==
  /\ ar \subseteq as
  /\ \A v \in Versions : /\ st.entry[v] # Nil => su.entry[v] = st.entry[v]
                         /\ st.esig[v] # Nil => su.esig[v] = st.esig[v]
                         /\ st.objs[v] \subseteq su.objs[v]
  /\ st.pointer # Nil => su.pointer # Nil /\ T!Parts(st.pointer.tip) \subseteq T!Parts(su.pointer.tip)

LEMMA PublishStaysRight ==
  ASSUME NEW m, NEW j \in ChainJobRecord, NEW s \in StageRecord, NEW st \in StoreRecord, NEW su \in StoreRecord,
         NEW ar, NEW as, Grows(st, ar, su, as), j.ver \in Versions, PublishRight(m, j, s, st, ar)
  PROVE  PublishRight(m, j, s, su, as)
<1>1. /\ j.pc \in {"adopt", "adopt2"} => su.entry[j.ver] # Nil /\ T!Last1(su.entry[j.ver]).who = m
  BY DEF PublishRight, Grows
<1>2. /\ j.pc \in HasArchived => s.entry \in as
  BY DEF PublishRight, Grows
<1>3. j.pc \in Uploading => s.entry # Nil
  BY DEF PublishRight
<1>4. j.pc \in HasEntry => su.entry[j.ver] = s.entry
  BY <1>3 DEF PublishRight, Grows, Uploading, HasArchived
<1>5. j.pc \in HasSignature => su.esig[j.ver] = s.entry
  BY <1>3 DEF PublishRight, Grows, Uploading, HasArchived, HasEntry
<1>6. j.pc \in HasEvidence => m \in su.objs[j.ver]
  BY DEF PublishRight, Grows
<1>7. j.pc \in AtTheHead => su.pointer # Nil /\ s.entry \in T!Parts(su.pointer.tip)
  BY DEF PublishRight, Grows
<1> QED  BY <1>1, <1>2, <1>4, <1>5, <1>6, <1>7 DEF PublishRight

LEMMA JobStaysRight ==
  ASSUME NEW m, NEW j \in ChainJobRecord, NEW g \in [Versions -> StageRecord], NEW st \in StoreRecord,
         NEW su \in StoreRecord,
         NEW ar, NEW as, Grows(st, ar, su, as), JobRight(m, j, g, st, ar)
  PROVE  JobRight(m, j, g, su, as)
<1>1. ASSUME j.kind = "publish"  PROVE PublishRight(m, j, g[j.ver], su, as)
  BY <1>1, PublishStaysRight DEF JobRight
<1> QED  BY <1>1 DEF JobRight

\* A step of the machine m.
LEMMA MachineMoves ==
  ASSUME ChainInv, NEW m \in Machines, NEW j \in ChainJobRecord, NEW g \in [Versions -> StageRecord],
         job' = [job EXCEPT ![m] = j], staging' = [staging EXCEPT ![m] = g],
         \A v \in Versions : StageRight(m, v, g[v]),
         store' \in StoreRecord, archived' \subseteq T!Entries, StoreRight(store'),
         Grows(store, archived, store', archived'), JobRight(m, j, g, store', archived'),
         tclock' \in 1..MaxStamp, jobs' \in 0..MaxJobs,
         head' \in [Machines -> SUBSET T!Entries], committed' \in [Machines -> SUBSET T!Entries],
         \A k \in Machines : committed'[k] \subseteq head'[k]
  PROVE  ChainTyped' /\ StoresRight' /\ StagesRight' /\ JobsRight'
<1>1. ChainTyped'
  BY DEF ChainInv, ChainTyped
<1>2. StoresRight'
  <2>1. StoreRight(store)' <=> StoreRight(store')
    BY DEF StoreRight
  <2> QED  BY <2>1 DEF StoresRight
<1>3. ASSUME NEW k \in Machines  PROVE /\ k = m => job'[k] = j /\ staging'[k] = g
                                       /\ k # m => job'[k] = job[k] /\ staging'[k] = staging[k]
                                       /\ job[k] \in ChainJobRecord /\ staging[k] \in [Versions -> StageRecord]
  BY <1>3 DEF ChainInv, ChainTyped
<1>4. StagesRight'
  <2> SUFFICES ASSUME NEW k \in Machines, NEW v \in Versions
               PROVE  StageRight(k, v, staging'[k][v])
    BY DEF StagesRight, StageRight
  <2>1. StageRight(k, v, staging[k][v])
    BY DEF ChainInv, StagesRight
  <2> QED  BY <1>3, <2>1
<1>5. JobsRight'
  <2> SUFFICES ASSUME NEW k \in Machines
               PROVE  JobRight(k, job'[k], staging'[k], store', archived')
    BY DEF JobsRight, JobRight, PublishRight
  <2>1. JobRight(k, job[k], staging[k], store, archived) /\ store \in StoreRecord
    BY DEF ChainInv, JobsRight, ChainTyped
  <2>2. k # m => JobRight(k, job[k], staging[k], store', archived')
    BY <1>3, <2>1, JobStaysRight
  <2> QED  BY <1>3, <2>2, SMTT(30)
<1> QED  BY <1>1, <1>2, <1>4, <1>5

LEMMA StaysBacked ==
  ASSUME ChainInv, TransparencyAssumed, Grows(store, archived, store', archived'), store' \in StoreRecord
  PROVE  /\ store.pointer # Nil =>
              \A e \in T!Parts(store.pointer.tip) :
                 /\ e # Nil /\ store'.entry[T!Last1(e).ver] = e /\ store'.esig[T!Last1(e).ver] = e
                 /\ e \in archived' /\ T!Last1(e).who \in store'.objs[T!Last1(e).ver]
         /\ \A k \in Machines : \A e \in head[k] : store'.pointer # Nil /\ e \in T!Parts(store'.pointer.tip)
<1>1. ASSUME store.pointer # Nil, NEW e \in T!Parts(store.pointer.tip)
      PROVE  /\ e # Nil /\ store'.entry[T!Last1(e).ver] = e /\ store'.esig[T!Last1(e).ver] = e
             /\ e \in archived' /\ T!Last1(e).who \in store'.objs[T!Last1(e).ver]
  <2>1. store.pointer.tip \in T!Entries
    BY <1>1 DEF ChainInv, ChainTyped, StoreRecord, T!Pointers
  <2>2. e \in T!Entries
    BY <1>1, <2>1, PartsAreEntries
  <2>3. e # Nil /\ T!Last1(e).ver \in Versions
    BY <2>2, PartsAreEntries DEF TransparencyAssumed, T!Row
  <2>4. /\ store.entry[T!Last1(e).ver] = e /\ store.esig[T!Last1(e).ver] = e
        /\ e \in archived /\ T!Last1(e).who \in store.objs[T!Last1(e).ver]
    BY <1>1 DEF ChainInv, T!PointerIsBacked, T!Locked
  <2> QED  BY <2>3, <2>4 DEF Grows
<1>2. ASSUME NEW k \in Machines, NEW e \in head[k]
      PROVE  store'.pointer # Nil /\ e \in T!Parts(store'.pointer.tip)
  BY <1>2 DEF ChainInv, T!WitnessIsPublished, Grows
<1> QED  BY <1>1, <1>2

LEMMA BackedSame ==
  ASSUME ChainInv, TransparencyAssumed, Grows(store, archived, store', archived'), store' \in StoreRecord,
         store'.pointer = store.pointer
  PROVE  T!PointerIsBacked' /\ T!ChainGrows /\ (head' = head => T!WitnessIsPublished')
<1>1. store'.pointer # Nil => \A e \in T!Parts(store'.pointer.tip) :
                 /\ store'.entry[T!Last1(e).ver] = e /\ store'.esig[T!Last1(e).ver] = e
                 /\ e \in archived' /\ T!Last1(e).who \in store'.objs[T!Last1(e).ver]
  BY StaysBacked
<1>2. T!PointerIsBacked'
  BY <1>1 DEF T!PointerIsBacked, T!Locked, T!Last1, T!Parts
<1>3. head' = head => T!WitnessIsPublished'
  BY StaysBacked DEF T!WitnessIsPublished, T!Parts
<1>4. T!ChainGrows
  BY DEF T!ChainGrows
<1> QED  BY <1>2, <1>3, <1>4

LEMMA GrowsSame ==
  ASSUME ChainInv, archived \subseteq archived', store' = store
  PROVE  Grows(store, archived, store', archived')
BY DEF Grows

\* A step of the machine m that touches only what it has staged.
LEMMA LocalMoves ==
  ASSUME ChainInv, TransparencyAssumed, NEW m \in Machines, NEW j \in ChainJobRecord,
         NEW g \in [Versions -> StageRecord],
         job' = [job EXCEPT ![m] = j], staging' = [staging EXCEPT ![m] = g],
         \A v \in Versions : StageRight(m, v, g[v]), JobRight(m, j, g, store, archived),
         UNCHANGED <<tclock, store, archived, head, committed>>, jobs' \in 0..MaxJobs
  PROVE  ChainInv' /\ T!ChainGrows
<1>1. Grows(store, archived, store', archived') /\ store' \in StoreRecord /\ StoreRight(store')
      /\ archived' \subseteq T!Entries
  BY GrowsSame DEF ChainInv, ChainTyped, StoresRight
<1>2. JobRight(m, j, g, store', archived')
  OBVIOUS
<1>3. /\ tclock' \in 1..MaxStamp /\ head' \in [Machines -> SUBSET T!Entries]
         /\ committed' \in [Machines -> SUBSET T!Entries]
      /\ \A k \in Machines : committed'[k] \subseteq head'[k]
  BY DEF ChainInv, ChainTyped
<1>4. ChainTyped' /\ StoresRight' /\ StagesRight' /\ JobsRight'
  BY <1>1, <1>2, <1>3, MachineMoves
<1>5. T!PointerIsBacked' /\ T!ChainGrows /\ T!WitnessIsPublished'
  BY <1>1, BackedSame
<1> QED  BY <1>4, <1>5 DEF ChainInv

\* A step of the machine m that changes the object store or the archive, not the pointer.
LEMMA RemoteMoves ==
  ASSUME ChainInv, TransparencyAssumed, NEW m \in Machines, NEW j \in ChainJobRecord,
         job' = [job EXCEPT ![m] = j], JobRight(m, j, staging[m], store', archived'),
         store' \in StoreRecord, archived' \subseteq T!Entries, StoreRight(store'),
         Grows(store, archived, store', archived'), store'.pointer = store.pointer,
         UNCHANGED <<tclock, staging, head, committed, jobs>>
  PROVE  ChainInv' /\ T!ChainGrows
<1>1. /\ tclock' \in 1..MaxStamp /\ head' \in [Machines -> SUBSET T!Entries]
         /\ committed' \in [Machines -> SUBSET T!Entries]
      /\ \A k \in Machines : committed'[k] \subseteq head'[k]
      /\ jobs' \in 0..MaxJobs /\ staging[m] \in [Versions -> StageRecord]
  BY DEF ChainInv, ChainTyped
<1>2. staging' = [staging EXCEPT ![m] = staging[m]]
  BY DEF ChainInv, ChainTyped
<1>3. \A v \in Versions : StageRight(m, v, staging[m][v])
  BY DEF ChainInv, StagesRight
<1>4. ChainTyped' /\ StoresRight' /\ StagesRight' /\ JobsRight'
  BY <1>1, <1>2, <1>3, MachineMoves
<1>5. T!PointerIsBacked' /\ T!ChainGrows /\ T!WitnessIsPublished'
  BY BackedSame
<1> QED  BY <1>4, <1>5 DEF ChainInv

ChainResults == {"none", "already", "done", "retryable", "terminal"}
\* A job at another place, and one that ended.
At(j, pc) == [kind |-> j.kind, pc |-> pc, ver |-> j.ver, seen |-> j.seen, want |-> j.want, result |-> j.result]
Ended(r) == [kind |-> "none", pc |-> "idle", ver |-> Nil, seen |-> Nil, want |-> Nil, result |-> r]
StagesMove(m, g) == /\ staging' = [staging EXCEPT ![m] = g] /\ g \in [Versions -> StageRecord]
                    /\ \A v \in Versions : StageRight(m, v, g[v])

LEMMA EndRight ==
  ASSUME NEW m, NEW g, NEW st, NEW ar, NEW r \in ChainResults
  PROVE  Ended(r) \in ChainJobRecord /\ JobRight(m, Ended(r), g, st, ar)
BY DEF Ended, ChainJobRecord, JobRight, ChainResults, ChainPlaces

LEMMA EndIs ==
  ASSUME NEW m, NEW r, T!End(m, r)
  PROVE  job' = [job EXCEPT ![m] = Ended(r)]
<1>1. [T!Idle EXCEPT !.result = r, !.kind = @] = [[T!Idle EXCEPT !.result = r] EXCEPT !.kind = T!Idle.kind]
  BY Zenon DEF T!Idle
<1>2. [[T!Idle EXCEPT !.result = r] EXCEPT !.kind = T!Idle.kind] = Ended(r)
  <2>1. T!Idle.kind = "none" /\ [T!Idle EXCEPT !.result = r] = Ended(r)
    BY DEF T!Idle, Ended
  <2>2. [Ended(r) EXCEPT !.kind = "none"] = Ended(r)
    BY DEF Ended
  <2> HIDE DEF Ended
  <2> QED  BY <2>1, <2>2, Zenon
<1>3. job' = [job EXCEPT ![m] = [T!Idle EXCEPT !.result = r, !.kind = @]]
  BY Zenon DEF T!End
<1> QED  BY <1>1, <1>2, <1>3, Zenon

LEMMA AtIs ==
  ASSUME NEW j \in ChainJobRecord, NEW pc
  PROVE  [j EXCEPT !.pc = pc] = At(j, pc)
BY DEF At, ChainJobRecord

LEMMA GoIs ==
  ASSUME ChainInv, NEW m \in Machines, NEW pc \in ChainPlaces, T!Go(m, pc)
  PROVE  job' = [job EXCEPT ![m] = At(job[m], pc)] /\ At(job[m], pc) \in ChainJobRecord
<1>1. job[m] \in ChainJobRecord
  BY DEF ChainInv, ChainTyped
<1>2. job' = [job EXCEPT ![m] = [job[m] EXCEPT !.pc = pc]]
  BY DEF T!Go
<1>3. At(job[m], pc) \in ChainJobRecord
  BY <1>1 DEF At, ChainJobRecord
<1> QED  BY <1>1, <1>2, <1>3, AtIs

LEMMA FetchIs ==
  ASSUME NEW m, NEW p, NEW q
  PROVE  [job EXCEPT ![m].pc = p, ![m].seen = q] = [job EXCEPT ![m] = [[job[m] EXCEPT !.pc = p] EXCEPT !.seen = q]]
BY Zenon

LEMMA StageKeeps ==
  ASSUME ChainInv, NEW m \in Machines, UNCHANGED staging
  PROVE  StagesMove(m, staging[m])
BY DEF ChainInv, ChainTyped, StagesRight, StagesMove

LEMMA StageSets ==
  ASSUME ChainInv, NEW m \in Machines, NEW v \in Versions, NEW s \in StageRecord, StageRight(m, v, s),
         staging' = [staging EXCEPT ![m][v] = s]
  PROVE  StagesMove(m, [staging[m] EXCEPT ![v] = s]) /\ [staging[m] EXCEPT ![v] = s][v] = s
<1>1. staging[m] \in [Versions -> StageRecord] /\ staging \in [Machines -> [Versions -> StageRecord]]
  BY DEF ChainInv, ChainTyped
<1>2. [staging[m] EXCEPT ![v] = s] \in [Versions -> StageRecord] /\ [staging[m] EXCEPT ![v] = s][v] = s
  BY <1>1
<1>3. ASSUME NEW w \in Versions  PROVE StageRight(m, w, [staging[m] EXCEPT ![v] = s][w])
  <2>1. StageRight(m, w, staging[m][w])
    BY DEF ChainInv, StagesRight
  <2>2. [staging[m] EXCEPT ![v] = s][w] = IF w = v THEN s ELSE staging[m][w]
    BY <1>1
  <2> QED  BY <2>1, <2>2
<1>4. staging' = [staging EXCEPT ![m] = [staging[m] EXCEPT ![v] = s]]
  BY Zenon
<1> QED  BY <1>2, <1>3, <1>4 DEF StagesMove

LEMMA LocalEnds ==
  ASSUME ChainInv, TransparencyAssumed, NEW m \in Machines, NEW g, StagesMove(m, g), NEW r \in ChainResults,
         T!End(m, r), T!Local
  PROVE  ChainInv' /\ T!ChainGrows
<1>1. Ended(r) \in ChainJobRecord /\ JobRight(m, Ended(r), g, store, archived) /\ job' = [job EXCEPT ![m] = Ended(r)]
  BY EndRight, EndIs
<1>2. UNCHANGED <<tclock, store, archived, head, committed>> /\ jobs' \in 0..MaxJobs
  BY DEF T!Local, ChainInv, ChainTyped
<1>3. /\ g \in [Versions -> StageRecord] /\ staging' = [staging EXCEPT ![m] = g]
      /\ \A v \in Versions : StageRight(m, v, g[v])
  BY DEF StagesMove
<1> HIDE DEF Ended
<1> QED  BY <1>1, <1>2, <1>3, LocalMoves

LEMMA LocalGoes ==
  ASSUME ChainInv, TransparencyAssumed, NEW m \in Machines, NEW g, StagesMove(m, g), NEW pc \in ChainPlaces,
         T!Go(m, pc), T!Local,
         JobRight(m, At(job[m], pc), g, store, archived)
  PROVE  ChainInv' /\ T!ChainGrows
<1>1. At(job[m], pc) \in ChainJobRecord /\ job' = [job EXCEPT ![m] = At(job[m], pc)]
  BY GoIs
<1>2. UNCHANGED <<tclock, store, archived, head, committed>> /\ jobs' \in 0..MaxJobs
  BY DEF T!Local, ChainInv, ChainTyped
<1>3. /\ g \in [Versions -> StageRecord] /\ staging' = [staging EXCEPT ![m] = g]
      /\ \A v \in Versions : StageRight(m, v, g[v])
  BY DEF StagesMove
<1> QED  BY <1>1, <1>2, <1>3, LocalMoves

LEMMA RemoteEnds ==
  ASSUME ChainInv, TransparencyAssumed, NEW m \in Machines, NEW r \in ChainResults, T!End(m, r),
         UNCHANGED <<store, archived>>, T!Remote
  PROVE  ChainInv' /\ T!ChainGrows
<1>1. T!Local /\ StagesMove(m, staging[m])
  BY StageKeeps DEF T!Local, T!Remote
<1> QED  BY <1>1, LocalEnds

LEMMA RemoteGoes ==
  ASSUME ChainInv, TransparencyAssumed, NEW m \in Machines, NEW pc \in ChainPlaces, T!Go(m, pc), T!Remote,
         JobRight(m, At(job[m], pc), staging[m], store', archived'),
         store' \in StoreRecord, archived' \subseteq T!Entries, StoreRight(store'),
         Grows(store, archived, store', archived'), store'.pointer = store.pointer
  PROVE  ChainInv' /\ T!ChainGrows
<1>1. At(job[m], pc) \in ChainJobRecord /\ job' = [job EXCEPT ![m] = At(job[m], pc)]
  BY GoIs
<1>2. UNCHANGED <<tclock, staging, head, committed, jobs>>
  BY DEF T!Remote
<1> QED  BY <1>1, <1>2, RemoteMoves

\* Who is at these places publishes.
LEMMA PublisherIs ==
  ASSUME ChainInv, NEW m \in Machines, job[m].pc \notin {"idle", "pointer", "chain"} \cup Renewing
  PROVE  job[m].kind = "publish"
<1>1. JobRight(m, job[m], staging[m], store, archived) /\ job[m] \in ChainJobRecord
  BY DEF ChainInv, JobsRight, ChainTyped
<1> QED  BY <1>1 DEF JobRight, ChainJobRecord

LEMMA PublisherHas ==
  ASSUME ChainInv, NEW m \in Machines, job[m].kind = "publish"
  PROVE  /\ job[m].ver \in Versions /\ PublishRight(m, job[m], T!Stage(m), store, archived)
         /\ T!Stage(m) \in StageRecord /\ StageRight(m, job[m].ver, T!Stage(m))
         /\ job[m] \in ChainJobRecord /\ staging[m] \in [Versions -> StageRecord] /\ store \in StoreRecord
         /\ TipOf(job[m]) = T!Tip(m) /\ T!Tip(m) \in Seq(T!Row) /\ archived \subseteq T!Entries
<1>1. JobRight(m, job[m], staging[m], store, archived) /\ job[m] \in ChainJobRecord
      /\ staging[m] \in [Versions -> StageRecord] /\ store \in StoreRecord /\ archived \subseteq T!Entries
  BY DEF ChainInv, JobsRight, ChainTyped
<1>2. job[m].ver \in Versions /\ PublishRight(m, job[m], T!Stage(m), store, archived)
  BY <1>1 DEF JobRight, T!Stage
<1>3. T!Stage(m) \in StageRecord /\ StageRight(m, job[m].ver, T!Stage(m))
  BY <1>1, <1>2 DEF T!Stage, ChainInv, StagesRight
<1>4. TipOf(job[m]) = T!Tip(m)
  BY DEF TipOf, T!Tip
<1>5. T!Tip(m) \in Seq(T!Row)
  BY <1>1, EmptySeq DEF T!Tip, ChainJobRecord, T!Pointers, T!Entries
<1> QED  BY <1>1, <1>2, <1>3, <1>4, <1>5

\* A publisher moves on once it has what its next place asks for.
LEMMA PublisherGoes ==
  ASSUME NEW m, NEW j \in ChainJobRecord, j.kind = "publish", j.ver \in Versions,
         NEW pc \in ChainPlaces \ {"idle", "renew", "chain"},
         NEW g, NEW st, NEW ar, PublishRight(m, At(j, pc), g[j.ver], st, ar)
  PROVE  JobRight(m, At(j, pc), g, st, ar)
BY DEF JobRight, At

LEMMA PointerOfRight ==
  ASSUME NEW e \in T!Entries
  PROVE  T!PointerOf(e) \in T!Pointers /\ T!PointerOf(e).tip = e
<1>1. T!Last1(e).ver \in Versions /\ T!Last1(e).stamp \in 1..MaxStamp
  BY PartsAreEntries DEF T!Row
<1> QED  BY <1>1 DEF T!PointerOf, T!Pointers

LEMMA AppendIsFront ==
  ASSUME NEW t \in Seq(T!Row), NEW b \in Seq(T!Row), Len(b) = Len(t) + 1, \A i \in 1..Len(t) : b[i] = t[i]
  PROVE  SubSeq(b, 1, Len(t)) = t
<1> DEFINE n == Len(t)
           u == SubSeq(b, 1, n)
<1>1. n \in Nat /\ 1 \in Int /\ n \in Int /\ \A i \in 1..n : b[i] \in T!Row
  BY LenProperties, ElementOfSeq
<1>2. /\ u \in Seq(T!Row) /\ Len(u) = (IF 1 <= n THEN n - 1 + 1 ELSE 0)
      /\ \A k \in 1..(n - 1 + 1) : u[k] = b[1 + k - 1]
  BY <1>1, SubSeqProperties
<1>3. \A i \in Nat : (IF 1 <= i THEN i - 1 + 1 ELSE 0) = i /\ i - 1 + 1 = i /\ 1 + i - 1 = i
  OBVIOUS
<1>4. Len(u) = n
  <2> HIDE DEF u, n
  <2> QED  BY <1>1, <1>2, <1>3
<1>5. \A k \in 1..n : u[k] = t[k]
  <2> HIDE DEF u, n
  <2>1. n - 1 + 1 = n
    BY <1>1, <1>3
  <2>2. \A k \in 1..n : k \in 1..(n - 1 + 1) /\ 1 + k - 1 = k
    BY <2>1, <1>1
  <2>3. \A k \in 1..n : u[k] = b[k]
    BY <1>2, <2>2
  <2> QED  BY <2>3 DEF n
<1> QED  BY <1>2, <1>4, <1>5, SeqEqual

LEMMA BuiltRight ==
  ASSUME ChainInv, NEW m \in Machines, job[m].kind = "publish"
  PROVE  /\ T!Built(m) \in T!Entries /\ T!Previous(T!Built(m)) = T!Tip(m)
         /\ T!Last1(T!Built(m)).ver = job[m].ver /\ T!Last1(T!Built(m)).who = m
<1> DEFINE r == [ver |-> job[m].ver, who |-> m, stamp |-> tclock]
           t == T!Tip(m)
           b == Append(t, r)
<1>1. r \in T!Row /\ t \in Seq(T!Row) /\ Len(t) \in Nat
  BY PublisherHas, LenProperties DEF T!Row, ChainInv, ChainTyped
<1>2. b \in Seq(T!Row) /\ Len(b) = Len(t) + 1 /\ b[Len(t) + 1] = r /\ \A i \in 1..Len(t) : b[i] = t[i]
  BY <1>1, AppendProperties
<1>3. b \in T!Entries /\ T!Last1(b) = r
  BY <1>1, <1>2 DEF T!Entries, T!Last1
<1>4. T!Previous(b) = t
  <2>1. T!Previous(b) \in Seq(T!Row) /\ T!Previous(b) = SubSeq(b, 1, Len(t))
    <3>1. T!Previous(b) \in Seq(T!Row)
      BY <1>3, PartsGrow
    <3>2. T!Previous(b) = SubSeq(b, 1, Len(b) - 1)
      BY DEF T!Previous
    <3>3. Len(b) - 1 = Len(t)
      BY <1>1, <1>2
    <3> QED  BY <3>1, <3>2, <3>3
  <2> QED  BY <1>1, <1>2, <2>1, AppendIsFront
<1> QED  BY <1>3, <1>4 DEF T!Built

\* Steps of no machine.
LEMMA NobodyMoves ==
  ASSUME ChainInv, UNCHANGED <<store, archived, staging, head, job>>, tclock' \in 1..MaxStamp, jobs' \in 0..MaxJobs,
         committed' \in [Machines -> SUBSET T!Entries], \A k \in Machines : committed'[k] \subseteq head[k]
  PROVE  ChainInv' /\ T!ChainGrows
<1>1. ChainTyped'
  BY DEF ChainInv, ChainTyped
<1>2. StoresRight'
  BY DEF ChainInv, StoresRight, StoreRight
<1>3. StagesRight'
  BY SMTT(30) DEF ChainInv, StagesRight, StageRight
<1>4. JobsRight'
  BY DEF ChainInv, JobsRight, JobRight, PublishRight, TipOf
<1>5. T!PointerIsBacked' /\ T!WitnessIsPublished'
  BY DEF ChainInv, T!PointerIsBacked, T!Locked, T!WitnessIsPublished, T!Parts
<1> QED  BY <1>1, <1>2, <1>3, <1>4, <1>5 DEF ChainInv, T!ChainGrows

LEMMA TickKeeps ==
  ASSUME ChainInv, TransparencyAssumed, T!Tick
  PROVE  ChainInv' /\ T!ChainGrows
<1>1. tclock' \in 1..MaxStamp /\ jobs' \in 0..MaxJobs
  BY DEF T!Tick, ChainInv, ChainTyped, TransparencyAssumed
<1> QED  BY <1>1, NobodyMoves DEF T!Tick, ChainInv, ChainTyped

LEMMA CommitHeadKeeps ==
  ASSUME ChainInv, NEW m \in Machines, T!CommitHead(m)
  PROVE  ChainInv' /\ T!ChainGrows
<1>1. committed' \in [Machines -> SUBSET T!Entries] /\ \A k \in Machines : committed'[k] \subseteq head[k]
  BY DEF T!CommitHead, ChainInv, ChainTyped
<1> QED  BY <1>1, NobodyMoves DEF T!CommitHead, ChainInv, ChainTyped

LEMMA StartKeeps ==
  ASSUME ChainInv, TransparencyAssumed, NEW m \in Machines, NEW j \in ChainJobRecord, job' = [job EXCEPT ![m] = j],
         j.pc = "pointer", j.kind \in {"publish", "resign"}, j.kind = "publish" => j.ver \in Versions,
         jobs < MaxJobs, jobs' = jobs + 1, UNCHANGED <<tclock, store, archived, staging, head, committed>>
  PROVE  ChainInv' /\ T!ChainGrows
<1>1. JobRight(m, j, staging[m], store, archived)
  BY DEF JobRight, PublishRight, Uploading, HasArchived, HasEntry, HasSignature, HasEvidence, AtTheHead, Renewing
<1>2. StagesMove(m, staging[m])
  BY StageKeeps
<1>3. jobs' \in 0..MaxJobs
  BY DEF ChainInv, ChainTyped, TransparencyAssumed
<1> QED  BY <1>1, <1>2, <1>3, LocalMoves DEF StagesMove

LEMMA IdleWith ==
  ASSUME NEW v
  PROVE  /\ [T!Idle EXCEPT !.kind = "publish", !.pc = "pointer", !.ver = v]
              = [kind |-> "publish", pc |-> "pointer", ver |-> v, seen |-> Nil, want |-> Nil, result |-> "none"]
         /\ [T!Idle EXCEPT !.kind = "resign", !.pc = "pointer"]
              = [kind |-> "resign", pc |-> "pointer", ver |-> Nil, seen |-> Nil, want |-> Nil, result |-> "none"]
<1> DEFINE K(k, p, w) == [kind |-> k, pc |-> p, ver |-> w, seen |-> Nil, want |-> Nil, result |-> "none"]
<1>1. \A k : [T!Idle EXCEPT !.kind = k] = K(k, "idle", Nil)
  BY DEF T!Idle
<1>2. \A k, p : [K(k, "idle", Nil) EXCEPT !.pc = p] = K(k, p, Nil)
  OBVIOUS
<1>3. \A k, p, w : [K(k, p, Nil) EXCEPT !.ver = w] = K(k, p, w)
  OBVIOUS
<1>4. /\ [T!Idle EXCEPT !.kind = "publish", !.pc = "pointer", !.ver = v]
           = [[[T!Idle EXCEPT !.kind = "publish"] EXCEPT !.pc = "pointer"] EXCEPT !.ver = v]
      /\ [T!Idle EXCEPT !.kind = "resign",
          !.pc = "pointer"] = [[T!Idle EXCEPT !.kind = "resign"] EXCEPT !.pc = "pointer"]
  BY Zenon
<1> HIDE DEF K
<1>5. /\ [T!Idle EXCEPT !.kind = "publish", !.pc = "pointer", !.ver = v] = K("publish", "pointer", v)
      /\ [T!Idle EXCEPT !.kind = "resign", !.pc = "pointer"] = K("resign", "pointer", Nil)
  <2>1. [T!Idle EXCEPT !.kind = "publish"] = K("publish", "idle", Nil)
        /\ [T!Idle EXCEPT !.kind = "resign"] = K("resign", "idle", Nil)
    BY <1>1, Zenon
  <2>2. /\ [K("publish", "idle", Nil) EXCEPT !.pc = "pointer"] = K("publish", "pointer", Nil)
        /\ [K("resign", "idle", Nil) EXCEPT !.pc = "pointer"] = K("resign", "pointer", Nil)
    BY <1>2, Zenon
  <2>3. [K("publish", "pointer", Nil) EXCEPT !.ver = v] = K("publish", "pointer", v)
    BY <1>3, Zenon
  <2> QED  BY <1>4, <2>1, <2>2, <2>3, Zenon
<1> QED  BY <1>5 DEF K

LEMMA PublishStartsKeeps ==
  ASSUME ChainInv, TransparencyAssumed, NEW m \in Machines, NEW v \in Versions, T!PublishStarts(m, v)
  PROVE  ChainInv' /\ T!ChainGrows
<1> DEFINE j == [kind |-> "publish", pc |-> "pointer", ver |-> v, seen |-> Nil, want |-> Nil, result |-> "none"]
<1>1. [T!Idle EXCEPT !.kind = "publish", !.pc = "pointer", !.ver = v] = j
  BY IdleWith, Zenon
<1>2. job' = [job EXCEPT ![m] = j]
  BY <1>1 DEF T!PublishStarts
<1>3. j \in ChainJobRecord
  BY DEF ChainJobRecord, ChainPlaces
<1> QED  BY <1>2, <1>3, StartKeeps DEF T!PublishStarts

LEMMA ResignStartsKeeps ==
  ASSUME ChainInv, TransparencyAssumed, NEW m \in Machines, T!ResignStarts(m)
  PROVE  ChainInv' /\ T!ChainGrows
<1> DEFINE j == [kind |-> "resign", pc |-> "pointer", ver |-> Nil, seen |-> Nil, want |-> Nil, result |-> "none"]
<1>1. [T!Idle EXCEPT !.kind = "resign", !.pc = "pointer"] = j
  BY IdleWith, Zenon
<1>2. job' = [job EXCEPT ![m] = j]
  BY <1>1 DEF T!ResignStarts
<1>3. j \in ChainJobRecord
  BY DEF ChainJobRecord, ChainPlaces
<1> QED  BY <1>2, <1>3, StartKeeps DEF T!ResignStarts

LEMMA FetchPointerKeeps ==
  ASSUME ChainInv, TransparencyAssumed, NEW m \in Machines, T!FetchPointer(m)
  PROVE  ChainInv' /\ T!ChainGrows
<1>0. /\ UNCHANGED staging /\ T!Local /\ job[m].pc = "pointer" /\ job[m] \in ChainJobRecord
      /\ JobRight(m, job[m], staging[m], store, archived) /\ store \in StoreRecord
  BY DEF T!FetchPointer, ChainInv, ChainTyped, JobsRight
<1>1. StagesMove(m, staging[m])
  BY <1>0, StageKeeps
<1>2. CASE store.pointer # Nil
  <2> DEFINE j == [kind |-> job[m].kind, pc |-> "chain", ver |-> job[m].ver, seen |-> store.pointer,
                   want |-> job[m].want, result |-> job[m].result]
  <2>1. job' = [job EXCEPT ![m] = [[job[m] EXCEPT !.pc = "chain"] EXCEPT !.seen = store.pointer]]
    BY <1>2, FetchIs DEF T!FetchPointer
  <2>2. [[job[m] EXCEPT !.pc = "chain"] EXCEPT !.seen = store.pointer] = j
    <3>1. [job[m] EXCEPT !.pc = "chain"] = At(job[m], "chain")
      BY <1>0, AtIs
    <3>2. [At(job[m], "chain") EXCEPT !.seen = store.pointer] = j
      BY DEF At
    <3> QED  BY <3>1, <3>2, Zenon
  <2>3. j \in ChainJobRecord
    BY <1>0 DEF ChainJobRecord, StoreRecord, ChainPlaces
  <2>4. JobRight(m, j, staging[m], store, archived)
    BY <1>0, <1>2 DEF JobRight, PublishRight, Uploading, HasArchived, HasEntry, HasSignature, HasEvidence,
       AtTheHead, Renewing
  <2> QED  BY <1>0, <1>1, <2>1, <2>2, <2>3, <2>4, LocalMoves DEF StagesMove, T!Local, ChainInv, ChainTyped
<1>3. CASE store.pointer = Nil /\ job[m].kind = "publish" /\ T!Go(m, "prepare")
  <2>1. JobRight(m, At(job[m], "prepare"), staging[m], store, archived)
    BY <1>0, <1>3 DEF At, JobRight, PublishRight, Uploading, HasArchived, HasEntry, HasSignature, HasEvidence,
       AtTheHead, Renewing
  <2>2. "prepare" \in ChainPlaces
    BY DEF ChainPlaces
  <2> QED  BY <1>0, <1>1, <1>3, <2>1, <2>2, LocalGoes
<1>4. CASE T!End(m, "terminal")
  BY <1>0, <1>1, <1>4, LocalEnds DEF ChainResults
<1> QED  BY <1>2, <1>3, <1>4 DEF T!FetchPointer

LEMMA FetchRestKeeps ==
  ASSUME ChainInv, TransparencyAssumed, NEW m \in Machines, T!FetchRest(m)
  PROVE  ChainInv' /\ T!ChainGrows
<1>0. /\ UNCHANGED staging /\ T!Local /\ job[m].pc = "chain" /\ job[m] \in ChainJobRecord
      /\ JobRight(m, job[m], staging[m], store, archived)
  BY DEF T!FetchRest, ChainInv, ChainTyped, JobsRight
<1>1. StagesMove(m, staging[m])
  BY <1>0, StageKeeps
<1>2. CASE job[m].kind = "publish" /\ T!Go(m, "prepare")
  <2>1. JobRight(m, At(job[m], "prepare"), staging[m], store, archived)
    BY <1>0, <1>2 DEF At, JobRight, PublishRight, Uploading, HasArchived, HasEntry, HasSignature, HasEvidence,
       AtTheHead, Renewing
  <2>2. "prepare" \in ChainPlaces
    BY DEF ChainPlaces
  <2> QED  BY <1>0, <1>1, <1>2, <2>1, <2>2, LocalGoes
<1>3. CASE job[m].kind # "publish" /\ T!Go(m, "renew")
  <2>1. JobRight(m, At(job[m], "renew"), staging[m], store, archived)
    BY <1>0, <1>3 DEF At, JobRight, ChainJobRecord, Renewing
  <2>2. "renew" \in ChainPlaces
    BY DEF ChainPlaces
  <2> QED  BY <1>0, <1>1, <1>3, <2>1, <2>2, LocalGoes
<1>4. CASE T!End(m, "terminal")
  BY <1>0, <1>1, <1>4, LocalEnds DEF ChainResults
<1> QED  BY <1>2, <1>3, <1>4 DEF T!FetchRest

LEMMA PrepareRecordedKeeps ==
  ASSUME ChainInv, TransparencyAssumed, NEW m \in Machines, T!PrepareRecorded(m)
  PROVE  ChainInv' /\ T!ChainGrows
<1>0. T!Local /\ job[m].pc = "prepare" /\ job[m].kind = "publish"
  BY PublisherIs DEF T!PrepareRecorded, Renewing
<1>1. CASE T!Historical(m) /\ T!End(m, "already")
             /\ T!SetStage(m, [entry |-> store.entry[job[m].ver], esig |-> store.entry[job[m].ver],
                             pointer |-> Nil, psig |-> Nil])
  <2> DEFINE v == job[m].ver
             e == store.entry[v]
             s == [entry |-> e, esig |-> e, pointer |-> Nil, psig |-> Nil]
  <2>1. v \in Versions /\ e \in T!Entries \cup {Nil} /\ e # Nil /\ T!Last1(e).who = m
    BY <1>0, <1>1, PublisherHas DEF T!Historical, StoreRecord
  <2>2. T!Last1(e).ver = v
    BY <2>1 DEF ChainInv, StoresRight, StoreRight
  <2>3. s \in StageRecord /\ StageRight(m, v, s)
    BY <2>1, <2>2 DEF StageRecord, StageRight
  <2>4. staging' = [staging EXCEPT ![m][v] = s]
    BY <1>1 DEF T!SetStage
  <2> HIDE DEF v, e, s
  <2>5. StagesMove(m, [staging[m] EXCEPT ![v] = s])
    BY <2>1, <2>3, <2>4, StageSets
  <2> QED  BY <1>0, <1>1, <2>5, LocalEnds DEF ChainResults
<1>2. CASE T!End(m, "terminal") /\ UNCHANGED staging
  BY <1>0, <1>2, StageKeeps, LocalEnds DEF ChainResults
<1> QED  BY <1>1, <1>2 DEF T!PrepareRecorded

LEMMA RestagePointer ==
  ASSUME NEW s \in StageRecord, NEW p
  PROVE  [s EXCEPT !.pointer = p, !.psig = Nil] = [entry |-> s.entry, esig |-> s.esig, pointer |-> p, psig |-> Nil]
<1> DEFINE t == [entry |-> s.entry, esig |-> s.esig, pointer |-> p, psig |-> s.psig]
<1>1. [s EXCEPT !.pointer = p] = t
  BY DEF StageRecord
<1>2. [t EXCEPT !.psig = Nil] = [entry |-> s.entry, esig |-> s.esig, pointer |-> p, psig |-> Nil]
  OBVIOUS
<1>3. [s EXCEPT !.pointer = p, !.psig = Nil] = [[s EXCEPT !.pointer = p] EXCEPT !.psig = Nil]
  BY Zenon
<1> HIDE DEF t
<1> QED  BY <1>1, <1>2, <1>3, Zenon

LEMMA RestageEntry ==
  ASSUME NEW s \in StageRecord, NEW e
  PROVE  [s EXCEPT !.entry = e, !.esig = e] = [entry |-> e, esig |-> e, pointer |-> s.pointer, psig |-> s.psig]
<1> DEFINE t == [entry |-> e, esig |-> s.esig, pointer |-> s.pointer, psig |-> s.psig]
<1>1. [s EXCEPT !.entry = e] = t
  BY DEF StageRecord
<1>2. [t EXCEPT !.esig = e] = [entry |-> e, esig |-> e, pointer |-> s.pointer, psig |-> s.psig]
  OBVIOUS
<1>3. [s EXCEPT !.entry = e, !.esig = e] = [[s EXCEPT !.entry = e] EXCEPT !.esig = e]
  BY Zenon
<1> HIDE DEF t
<1> QED  BY <1>1, <1>2, <1>3, Zenon

LEMMA PrepareStagedKeeps ==
  ASSUME ChainInv, TransparencyAssumed, NEW m \in Machines, T!PrepareStaged(m)
  PROVE  ChainInv' /\ T!ChainGrows
<1> DEFINE v == job[m].ver
           s == T!Stage(m)
<1>0. T!Local /\ job[m].pc = "prepare" /\ job[m].kind = "publish" /\ T!EntryComplete(s)
  BY PublisherIs DEF T!PrepareStaged, Renewing
<1>1. /\ v \in Versions /\ s \in StageRecord /\ StageRight(m, v, s) /\ job[m] \in ChainJobRecord
         /\ TipOf(job[m]) = T!Tip(m)
      /\ s.entry \in T!Entries /\ s = staging[m][v]
  BY <1>0, PublisherHas DEF T!EntryComplete, StageRecord, T!Stage
<1>2. CASE T!End(m, "terminal") /\ UNCHANGED staging
  BY <1>0, <1>2, StageKeeps, LocalEnds DEF ChainResults
<1>3. ASSUME NEW g, StagesMove(m, g), T!Go(m, "sign"), s.entry = T!Tip(m) \/ T!Previous(s.entry) = T!Tip(m),
             g[v].entry = s.entry, g[v].pointer # Nil, g[v].pointer.tip = s.entry
      PROVE  ChainInv' /\ T!ChainGrows
  <2>1. PublishRight(m, At(job[m], "sign"), g[v], store, archived)
    <3>1. TipOf(At(job[m], "sign")) = T!Tip(m) /\ At(job[m], "sign").pc = "sign" /\ s.entry # Nil
      BY <1>0, <1>1 DEF TipOf, At, T!EntryComplete
    <3> QED  BY <1>3, <3>1 DEF PublishRight, Uploading, HasArchived, HasEntry, HasSignature, HasEvidence, AtTheHead
  <2>2. "sign" \in ChainPlaces \ {"idle", "renew", "chain"}
    BY DEF ChainPlaces
  <2>3. JobRight(m, At(job[m], "sign"), g, store, archived)
    BY <1>0, <1>1, <2>1, <2>2, PublisherGoes
  <2> QED  BY <1>0, <1>3, <2>2, <2>3, LocalGoes
<1>4. CASE /\ s.entry = T!Tip(m) \/ T!Previous(s.entry) = T!Tip(m)
           /\ T!PointerComplete(s) /\ s.pointer.tip = s.entry /\ UNCHANGED staging /\ T!Go(m, "sign")
  <2>1. StagesMove(m, staging[m])
    BY <1>4, StageKeeps
  <2> QED  BY <1>1, <1>3, <1>4, <2>1 DEF T!PointerComplete
<1>5. CASE /\ s.entry = T!Tip(m) \/ T!Previous(s.entry) = T!Tip(m)
           /\ T!SetStage(m, [s EXCEPT !.pointer = T!PointerOf(s.entry), !.psig = Nil]) /\ T!Go(m, "sign")
  <2> DEFINE t == [entry |-> s.entry, esig |-> s.esig, pointer |-> T!PointerOf(s.entry), psig |-> Nil]
  <2>1. [s EXCEPT !.pointer = T!PointerOf(s.entry), !.psig = Nil] = t
    BY <1>1, RestagePointer
  <2>2. T!PointerOf(s.entry) \in T!Pointers /\ T!PointerOf(s.entry).tip = s.entry
    BY <1>1, PointerOfRight
  <2>3. t \in StageRecord /\ StageRight(m, v, t)
    BY <1>1, <2>2 DEF StageRecord, StageRight
  <2>4. staging' = [staging EXCEPT ![m][v] = t]
    BY <1>5, <2>1 DEF T!SetStage
  <2>5. t.entry = s.entry /\ t.pointer # Nil /\ t.pointer.tip = s.entry
    BY <2>2 DEF TransparencyAssumed
  <2> HIDE DEF t, v, s
  <2>6. StagesMove(m, [staging[m] EXCEPT ![v] = t]) /\ [staging[m] EXCEPT ![v] = t][v] = t
    BY <1>1, <2>3, <2>4, StageSets
  <2> QED  BY <1>3, <1>5, <2>5, <2>6
<1> QED  BY <1>2, <1>4, <1>5 DEF T!PrepareStaged

LEMMA PrepareFreshKeeps ==
  ASSUME ChainInv, TransparencyAssumed, NEW m \in Machines, T!PrepareFresh(m)
  PROVE  ChainInv' /\ T!ChainGrows
<1> DEFINE v == job[m].ver
           s == T!Stage(m)
           b == T!Built(m)
<1>0. T!Local /\ job[m].pc = "prepare" /\ job[m].kind = "publish" /\ ~T!EntryComplete(s)
  BY PublisherIs DEF T!PrepareFresh, Renewing
<1>1. /\ v \in Versions /\ s \in StageRecord /\ StageRight(m, v, s) /\ job[m] \in ChainJobRecord
         /\ TipOf(job[m]) = T!Tip(m)
      /\ s.esig = Nil
  BY <1>0, PublisherHas DEF T!EntryComplete, StageRight
<1>2. b \in T!Entries /\ T!Previous(b) = T!Tip(m) /\ T!Last1(b).ver = v /\ T!Last1(b).who = m /\ b # Nil
  BY <1>0, BuiltRight DEF TransparencyAssumed
<1>3. CASE T!End(m, "retryable") /\ UNCHANGED staging
  BY <1>0, <1>3, StageKeeps, LocalEnds DEF ChainResults
<1>4. CASE T!SetStage(m, [s EXCEPT !.entry = b]) /\ T!End(m, "terminal")
  <2> DEFINE t == [entry |-> b, esig |-> s.esig, pointer |-> s.pointer, psig |-> s.psig]
  <2>1. [s EXCEPT !.entry = b] = t
    BY <1>1 DEF StageRecord
  <2>2. t \in StageRecord /\ StageRight(m, v, t)
    BY <1>1, <1>2 DEF StageRecord, StageRight
  <2>3. staging' = [staging EXCEPT ![m][v] = t]
    BY <1>4, <2>1 DEF T!SetStage
  <2> HIDE DEF t, v, s, b
  <2>4. StagesMove(m, [staging[m] EXCEPT ![v] = t])
    BY <1>1, <2>2, <2>3, StageSets
  <2> QED  BY <1>0, <1>4, <2>4, LocalEnds DEF ChainResults
<1>5. CASE T!SetStage(m, [entry |-> b, esig |-> Nil, pointer |-> T!PointerOf(b), psig |-> Nil]) /\ T!Go(m, "sign")
  <2> DEFINE t == [entry |-> b, esig |-> Nil, pointer |-> T!PointerOf(b), psig |-> Nil]
  <2>1. T!PointerOf(b) \in T!Pointers /\ T!PointerOf(b).tip = b
    BY <1>2, PointerOfRight
  <2>2. t \in StageRecord /\ StageRight(m, v, t)
    BY <1>2, <2>1 DEF StageRecord, StageRight
  <2>3. staging' = [staging EXCEPT ![m][v] = t]
    BY <1>5 DEF T!SetStage
  <2>4. t.entry = b /\ t.pointer # Nil /\ t.pointer.tip = b
    BY <2>1 DEF TransparencyAssumed
  <2> HIDE DEF t, v, s, b
  <2>5. StagesMove(m, [staging[m] EXCEPT ![v] = t]) /\ [staging[m] EXCEPT ![v] = t][v] = t
    BY <1>1, <2>2, <2>3, StageSets
  <2>6. TipOf(At(job[m], "sign")) = T!Tip(m) /\ At(job[m], "sign").pc = "sign"
    BY <1>1 DEF TipOf, At
  <2>7. PublishRight(m, At(job[m], "sign"), t, store, archived)
    BY <1>2, <2>4, <2>6 DEF PublishRight, Uploading, HasArchived, HasEntry, HasSignature, HasEvidence, AtTheHead
  <2>8. "sign" \in ChainPlaces \ {"idle", "renew", "chain"}
    BY DEF ChainPlaces
  <2>9. JobRight(m, At(job[m], "sign"), [staging[m] EXCEPT ![v] = t], store, archived)
    <3>1. PublishRight(m, At(job[m], "sign"), [staging[m] EXCEPT ![v] = t][v], store, archived)
      BY <2>5, <2>7
    <3> QED  BY <1>0, <1>1, <2>8, <3>1, PublisherGoes DEF v
  <2> QED  BY <1>0, <1>5, <2>5, <2>8, <2>9, LocalGoes
<1> QED  BY <1>3, <1>4, <1>5 DEF T!PrepareFresh

LEMMA SignKeeps ==
  ASSUME ChainInv, TransparencyAssumed, NEW m \in Machines, T!Sign(m)
  PROVE  ChainInv' /\ T!ChainGrows
<1> DEFINE v == job[m].ver
           s == T!Stage(m)
<1>0. T!Local /\ job[m].pc = "sign" /\ job[m].kind = "publish"
  BY PublisherIs DEF T!Sign, Renewing
<1>1. /\ v \in Versions /\ s \in StageRecord /\ StageRight(m, v, s) /\ job[m] \in ChainJobRecord
         /\ TipOf(job[m]) = T!Tip(m)
      /\ PublishRight(m, job[m], s, store, archived) /\ s = staging[m][v]
  BY <1>0, PublisherHas, SMTT(30) DEF T!Stage
<1>2. s.entry # Nil /\ s.pointer # Nil /\ s.pointer.tip = s.entry
      /\ (s.entry = T!Tip(m) \/ T!Previous(s.entry) = T!Tip(m))
  BY <1>0, <1>1 DEF PublishRight
<1>3. ASSUME NEW t \in StageRecord, StageRight(m, v, t), t.entry = s.entry, t.pointer = s.pointer,
             staging' = [staging EXCEPT ![m][v] = t], UNCHANGED job
      PROVE  ChainInv' /\ T!ChainGrows
  <2> DEFINE g == [staging[m] EXCEPT ![v] = t]
  <2>1. PublishRight(m, job[m], t, store, archived)
    BY <1>0, <1>1, <1>2, <1>3 DEF PublishRight, Uploading, HasArchived, HasEntry, HasSignature, HasEvidence, AtTheHead
  <2>2. StagesMove(m, g) /\ g[v] = t
    <3> HIDE DEF v, s
    <3> QED  BY <1>1, <1>3, StageSets
  <2>3. JobRight(m, job[m], g, store, archived)
    <3> HIDE DEF g
    <3>1. PublishRight(m, job[m], g[v], store, archived)
      BY <2>1, <2>2
    <3> QED  BY <1>0, <1>1, <3>1 DEF JobRight
  <2>4. job' = [job EXCEPT ![m] = job[m]]
    BY <1>3 DEF ChainInv, ChainTyped
  <2> HIDE DEF g
  <2> QED  BY <1>0, <1>1, <2>2, <2>3, <2>4, LocalMoves DEF StagesMove, T!Local, ChainInv, ChainTyped
<1>4. CASE s.esig = Nil /\ T!SetStage(m, [s EXCEPT !.esig = s.entry]) /\ UNCHANGED job
  <2> DEFINE t == [entry |-> s.entry, esig |-> s.entry, pointer |-> s.pointer, psig |-> s.psig]
  <2>1. [s EXCEPT !.esig = s.entry] = t
    BY <1>1 DEF StageRecord
  <2>2. t \in StageRecord /\ StageRight(m, v, t)
    BY <1>1 DEF StageRecord, StageRight
  <2> QED  BY <1>3, <1>4, <2>1, <2>2 DEF T!SetStage
<1>5. CASE s.psig = Nil /\ T!SetStage(m, [s EXCEPT !.psig = s.pointer]) /\ UNCHANGED job
  <2> DEFINE t == [entry |-> s.entry, esig |-> s.esig, pointer |-> s.pointer, psig |-> s.pointer]
  <2>1. [s EXCEPT !.psig = s.pointer] = t
    BY <1>1 DEF StageRecord
  <2>2. t \in StageRecord /\ StageRight(m, v, t)
    BY <1>1 DEF StageRecord, StageRight
  <2> QED  BY <1>3, <1>5, <2>1, <2>2 DEF T!SetStage
<1>6. CASE T!End(m, "already") /\ UNCHANGED staging
  BY <1>0, <1>6, StageKeeps, LocalEnds DEF ChainResults
<1>7. CASE s.esig # Nil /\ s.entry # T!Tip(m) /\ T!Go(m, "preflight") /\ UNCHANGED staging
  <2>1. PublishRight(m, At(job[m], "preflight"), s, store, archived)
    <3>1. TipOf(At(job[m], "preflight")) = T!Tip(m) /\ At(job[m], "preflight").pc = "preflight" /\ s.esig = s.entry
      BY <1>1, <1>7 DEF TipOf, At, StageRight
    <3> QED  BY <1>2, <1>7, <3>1 DEF PublishRight, Uploading, HasArchived, HasEntry, HasSignature, HasEvidence,
                AtTheHead
  <2>2. "preflight" \in ChainPlaces \ {"idle", "renew", "chain"}
    BY DEF ChainPlaces, Uploading
  <2>3. JobRight(m, At(job[m], "preflight"), staging[m], store, archived)
    BY <1>0, <1>1, <2>1, <2>2, PublisherGoes
  <2> QED  BY <1>0, <1>7, <2>2, <2>3, StageKeeps, LocalGoes
<1> QED  BY <1>4, <1>5, <1>6, <1>7 DEF T!Sign

\* A publisher's upload moves on: what it has staged stays as it is.
LEMMA UploadGoes ==
  ASSUME ChainInv, NEW m \in Machines, job[m].kind = "publish", job[m].pc \in Uploading,
         NEW pc \in Uploading \cup {"adopt"},
         NEW st, NEW ar,
         pc = "adopt" => st.entry[job[m].ver] # Nil /\ T!Last1(st.entry[job[m].ver]).who = m,
         pc \in HasArchived => T!Stage(m).entry \in ar, pc \in HasEntry => st.entry[job[m].ver] = T!Stage(m).entry,
         pc \in HasSignature => st.esig[job[m].ver] = T!Stage(m).entry, pc \in HasEvidence => m \in st.objs[job[m].ver],
         pc \in AtTheHead => st.pointer # Nil /\ T!Stage(m).entry \in T!Parts(st.pointer.tip)
  PROVE  JobRight(m, At(job[m], pc), staging[m], st, ar) /\ pc \in ChainPlaces
<1> DEFINE j == At(job[m], pc)
           s == T!Stage(m)
<1>1. /\ job[m].ver \in Versions /\ PublishRight(m, job[m], s, store, archived) /\ job[m] \in ChainJobRecord
      /\ s = staging[m][job[m].ver]
  BY PublisherHas DEF T!Stage
<1>2. s.entry # Nil /\ s.pointer # Nil /\ s.pointer.tip = s.entry /\ s.esig = s.entry
      /\ T!Previous(s.entry) = TipOf(job[m])
  BY <1>1 DEF PublishRight
<1>3. j.pc = pc /\ TipOf(j) = TipOf(job[m]) /\ j.ver = job[m].ver
  BY DEF At, TipOf
<1>4. pc \notin {"sign", "adopt2"} /\ pc \in ChainPlaces \ {"idle", "renew", "chain"}
  BY DEF Uploading, HasArchived, HasEntry, HasSignature, HasEvidence, AtTheHead, ChainPlaces
<1>5. PublishRight(m, j, s, st, ar)
  <2> HIDE DEF j
  <2> QED  BY <1>2, <1>3, <1>4 DEF PublishRight
<1> QED  BY <1>1, <1>4, <1>5, PublisherGoes

LEMMA UploaderHas ==
  ASSUME ChainInv, TransparencyAssumed, NEW m \in Machines, job[m].pc \in Uploading, job[m].kind = "publish"
  PROVE  /\ job[m].ver \in Versions /\ T!Stage(m).entry \in T!Entries /\ T!Stage(m).entry # Nil
            /\ T!Stage(m).esig = T!Stage(m).entry
         /\ T!Stage(m).pointer \in T!Pointers /\ T!Stage(m).pointer.tip = T!Stage(m).entry
            /\ T!Previous(T!Stage(m).entry) = T!Tip(m)
         /\ T!Last1(T!Stage(m).entry).ver = job[m].ver /\ T!Last1(T!Stage(m).entry).who = m
         /\ store \in StoreRecord /\ StoreRight(store) /\ archived \subseteq T!Entries
         /\ job[m].pc \in HasArchived => T!Stage(m).entry \in archived
         /\ job[m].pc \in HasEntry => store.entry[job[m].ver] = T!Stage(m).entry
         /\ job[m].pc \in HasSignature => store.esig[job[m].ver] = T!Stage(m).entry
         /\ job[m].pc \in HasEvidence => m \in store.objs[job[m].ver]
         /\ job[m].pc \in AtTheHead => store.pointer # Nil /\ T!Stage(m).entry \in T!Parts(store.pointer.tip)
<1>1. /\ job[m].ver \in Versions /\ PublishRight(m, job[m], T!Stage(m), store, archived) /\ T!Stage(m) \in StageRecord
      /\ StageRight(m, job[m].ver, T!Stage(m)) /\ TipOf(job[m]) = T!Tip(m) /\ store \in StoreRecord
         /\ archived \subseteq T!Entries
      /\ StoreRight(store)
  BY PublisherHas DEF ChainInv, StoresRight
<1>2. /\ T!Stage(m).entry # Nil /\ T!Stage(m).pointer # Nil /\ T!Stage(m).pointer.tip = T!Stage(m).entry
      /\ T!Stage(m).esig = T!Stage(m).entry /\ T!Previous(T!Stage(m).entry) = T!Tip(m)
  BY <1>1 DEF PublishRight
<1> QED  BY <1>1, <1>2 DEF PublishRight, StageRight, StageRecord

LEMMA PreflightCleanKeeps ==
  ASSUME ChainInv, TransparencyAssumed, NEW m \in Machines, T!PreflightClean(m)
  PROVE  ChainInv' /\ T!ChainGrows
<1>1. /\ job[m].kind = "publish" /\ job[m].pc \in Uploading /\ T!Local /\ UNCHANGED staging /\ T!Go(m, "archive")
      /\ "archive" \in Uploading \cup {"adopt"} /\ "archive" \notin HasArchived
  BY PublisherIs DEF T!PreflightClean, Uploading, HasArchived, HasEntry, HasSignature, HasEvidence, AtTheHead,
     Renewing
<1>2. JobRight(m, At(job[m], "archive"), staging[m], store, archived) /\ "archive" \in ChainPlaces
  BY <1>1, UploadGoes DEF HasArchived, HasEntry, HasSignature, HasEvidence
<1> QED  BY <1>1, <1>2, StageKeeps, LocalGoes

LEMMA AdoptGoes ==
  ASSUME ChainInv, TransparencyAssumed, NEW m \in Machines, job[m].kind = "publish", job[m].pc \in Uploading,
         T!Adoptable(m), store.entry[job[m].ver] # Nil, T!Go(m, "adopt"), T!Local, UNCHANGED staging
  PROVE  ChainInv' /\ T!ChainGrows
<1>1. "adopt" \in Uploading \cup {"adopt"} /\ "adopt" \notin HasArchived
  BY DEF HasArchived, HasEntry, HasSignature, HasEvidence, AtTheHead
<1>2. JobRight(m, At(job[m], "adopt"), staging[m], store, archived) /\ "adopt" \in ChainPlaces
  BY <1>1, UploadGoes DEF HasArchived, HasEntry, HasSignature, HasEvidence, T!Adoptable
<1> QED  BY <1>1, <1>2, StageKeeps, LocalGoes

LEMMA PreflightTakenKeeps ==
  ASSUME ChainInv, TransparencyAssumed, NEW m \in Machines, T!PreflightTaken(m)
  PROVE  ChainInv' /\ T!ChainGrows
<1>1. job[m].kind = "publish" /\ job[m].pc \in Uploading /\ T!Local /\ UNCHANGED staging
  BY PublisherIs DEF T!PreflightTaken, Uploading, HasArchived, HasEntry, HasSignature, HasEvidence, AtTheHead,
     Renewing
<1>2. CASE T!Adoptable(m) /\ T!Go(m, "adopt")
  BY <1>1, <1>2, AdoptGoes DEF T!PreflightTaken
<1>3. CASE T!End(m, "terminal")
  BY <1>1, <1>3, StageKeeps, LocalEnds DEF ChainResults
<1> QED  BY <1>2, <1>3 DEF T!PreflightTaken

LEMMA AdoptDropsSignatureKeeps ==
  ASSUME ChainInv, TransparencyAssumed, NEW m \in Machines, T!AdoptDropsSignature(m)
  PROVE  ChainInv' /\ T!ChainGrows
<1> DEFINE v == job[m].ver
           s == T!Stage(m)
           t == [entry |-> s.entry, esig |-> Nil, pointer |-> s.pointer, psig |-> s.psig]
           g == [staging[m] EXCEPT ![v] = t]
<1>0. T!Local /\ job[m].pc = "adopt" /\ job[m].kind = "publish" /\ T!Go(m, "adopt2")
      /\ T!SetStage(m, [s EXCEPT !.esig = Nil])
  BY PublisherIs DEF T!AdoptDropsSignature, Renewing
<1>1. /\ v \in Versions /\ s \in StageRecord /\ StageRight(m, v, s) /\ job[m] \in ChainJobRecord
      /\ PublishRight(m, job[m], s, store, archived)
  BY <1>0, PublisherHas
<1>2. t \in StageRecord /\ StageRight(m, v, t)
  BY <1>1 DEF StageRecord, StageRight
<1>3. [s EXCEPT !.esig = Nil] = t
  BY <1>1 DEF StageRecord
<1>4. staging' = [staging EXCEPT ![m][v] = t]
  BY <1>0, <1>3 DEF T!SetStage
<1>5. StagesMove(m, g)
  <2> HIDE DEF v, s, t
  <2> QED  BY <1>1, <1>2, <1>4, StageSets
<1>6. PublishRight(m, At(job[m], "adopt2"), g[v], store, archived)
  <2>1. At(job[m], "adopt2").pc = "adopt2" /\ At(job[m], "adopt2").ver = v
    BY DEF At
  <2>2. store.entry[v] # Nil /\ T!Last1(store.entry[v]).who = m
    BY <1>0, <1>1 DEF PublishRight
  <2> HIDE DEF v, g
  <2> QED  BY <2>1, <2>2 DEF PublishRight, Uploading, HasArchived, HasEntry, HasSignature, HasEvidence, AtTheHead
<1>7. "adopt2" \in ChainPlaces \ {"idle", "renew", "chain"}
  BY DEF ChainPlaces
<1>8. JobRight(m, At(job[m], "adopt2"), g, store, archived)
  <2> HIDE DEF g
  <2> QED  BY <1>0, <1>1, <1>6, <1>7, PublisherGoes
<1> HIDE DEF g
<1> QED  BY <1>0, <1>5, <1>7, <1>8, LocalGoes

LEMMA AdoptRenamesKeeps ==
  ASSUME ChainInv, TransparencyAssumed, NEW m \in Machines, T!AdoptRenames(m)
  PROVE  ChainInv' /\ T!ChainGrows
<1> DEFINE v == job[m].ver
           s == T!Stage(m)
           e == store.entry[v]
           t == [entry |-> e, esig |-> e, pointer |-> s.pointer, psig |-> s.psig]
           g == [staging[m] EXCEPT ![v] = t]
<1>0. /\ T!Local /\ job[m].pc = "adopt2" /\ job[m].kind = "publish" /\ T!Go(m, "adopt3")
      /\ T!SetStage(m, [s EXCEPT !.entry = e, !.esig = e])
  BY PublisherIs DEF T!AdoptRenames, Renewing
<1>1. /\ v \in Versions /\ s \in StageRecord /\ StageRight(m, v, s) /\ job[m] \in ChainJobRecord
         /\ store \in StoreRecord
      /\ PublishRight(m, job[m], s, store, archived)
  BY <1>0, PublisherHas
<1>2. e # Nil /\ T!Last1(e).who = m /\ T!Last1(e).ver = v /\ e \in T!Entries \cup {Nil}
  BY <1>0, <1>1 DEF PublishRight, ChainInv, StoresRight, StoreRight, StoreRecord
<1>3. t \in StageRecord /\ StageRight(m, v, t)
  BY <1>1, <1>2 DEF StageRecord, StageRight
<1>4. [s EXCEPT !.entry = e, !.esig = e] = t
  <2> HIDE DEF s, e
  <2> QED  BY <1>1, RestageEntry
<1>5. staging' = [staging EXCEPT ![m][v] = t]
  BY <1>0, <1>4 DEF T!SetStage
<1>6. StagesMove(m, g)
  <2> HIDE DEF v, s, t
  <2> QED  BY <1>1, <1>3, <1>5, StageSets
<1>7. PublishRight(m, At(job[m], "adopt3"), g[v], store, archived)
  <2>1. At(job[m], "adopt3").pc = "adopt3"
    BY DEF At
  <2> HIDE DEF v, g
  <2> QED  BY <2>1 DEF PublishRight, Uploading, HasArchived, HasEntry, HasSignature, HasEvidence, AtTheHead
<1>8. "adopt3" \in ChainPlaces \ {"idle", "renew", "chain"}
  BY DEF ChainPlaces
<1>9. JobRight(m, At(job[m], "adopt3"), g, store, archived)
  <2> HIDE DEF g
  <2> QED  BY <1>0, <1>1, <1>7, <1>8, PublisherGoes
<1> HIDE DEF g
<1> QED  BY <1>0, <1>6, <1>8, <1>9, LocalGoes

LEMMA AdoptDropsPointerKeeps ==
  ASSUME ChainInv, TransparencyAssumed, NEW m \in Machines, T!AdoptDropsPointer(m)
  PROVE  ChainInv' /\ T!ChainGrows
<1> DEFINE v == job[m].ver
           s == T!Stage(m)
           t == [entry |-> s.entry, esig |-> s.esig, pointer |-> Nil, psig |-> Nil]
<1>0. /\ T!Local /\ job[m].pc = "adopt3" /\ job[m].kind = "publish" /\ T!End(m, "retryable")
      /\ T!SetStage(m, [s EXCEPT !.pointer = Nil, !.psig = Nil])
  BY PublisherIs DEF T!AdoptDropsPointer, Renewing
<1>1. v \in Versions /\ s \in StageRecord /\ StageRight(m, v, s)
  BY <1>0, PublisherHas
<1>2. t \in StageRecord /\ StageRight(m, v, t)
  BY <1>1 DEF StageRecord, StageRight
<1>3. [s EXCEPT !.pointer = Nil, !.psig = Nil] = t
  BY <1>1, RestagePointer
<1>4. staging' = [staging EXCEPT ![m][v] = t]
  BY <1>0, <1>3 DEF T!SetStage
<1> HIDE DEF v, s, t
<1>5. StagesMove(m, [staging[m] EXCEPT ![v] = t])
  BY <1>1, <1>2, <1>4, StageSets
<1> QED  BY <1>0, <1>5, LocalEnds DEF ChainResults

LEMMA ArchiveKeeps ==
  ASSUME ChainInv, TransparencyAssumed, NEW m \in Machines, T!Archive(m)
  PROVE  ChainInv' /\ T!ChainGrows
<1>1. /\ job[m].kind = "publish" /\ job[m].pc \in Uploading /\ T!Remote /\ store' = store /\ T!Go(m, "entry")
      /\ "entry" \in Uploading \cup {"adopt"} /\ "entry" \notin HasEntry
  BY PublisherIs DEF T!Archive, Uploading, HasArchived, HasEntry, HasSignature, HasEvidence, AtTheHead, Renewing
<1>2. archived' = archived \cup {T!Stage(m).entry} /\ T!Stage(m).entry \in T!Entries /\ store \in StoreRecord
      /\ StoreRight(store)
      /\ archived \subseteq T!Entries
  BY <1>1, UploaderHas DEF T!Archive
<1>3. JobRight(m, At(job[m], "entry"), staging[m], store', archived') /\ "entry" \in ChainPlaces
  <2>1. JobRight(m, At(job[m], "entry"), staging[m], store, archived') /\ "entry" \in ChainPlaces
    BY <1>1, <1>2, UploadGoes DEF HasEntry, HasSignature, HasEvidence
  <2> QED  BY <1>1, <2>1
<1>4. Grows(store, archived, store', archived')
  BY <1>1, <1>2, GrowsSame
<1>5. store' \in StoreRecord /\ archived' \subseteq T!Entries /\ StoreRight(store') /\ store'.pointer = store.pointer
  BY <1>1, <1>2
<1> QED  BY <1>1, <1>3, <1>4, <1>5, RemoteGoes

LEMMA RacedKeeps ==
  ASSUME ChainInv, TransparencyAssumed, NEW m \in Machines, job[m].kind = "publish", job[m].pc \in Uploading,
         store.entry[job[m].ver] # Nil, T!Raced(m), UNCHANGED <<store, archived>>, T!Remote
  PROVE  ChainInv' /\ T!ChainGrows
<1>1. CASE T!Adoptable(m) /\ T!Go(m, "adopt")
  <2>1. T!Local /\ UNCHANGED staging
    BY DEF T!Local, T!Remote
  <2> QED  BY <1>1, <2>1, AdoptGoes
<1>2. CASE T!End(m, "retryable") \/ T!End(m, "terminal")
  BY <1>2, RemoteEnds DEF ChainResults
<1> QED  BY <1>1, <1>2 DEF T!Raced

LEMMA PutEntryKeeps ==
  ASSUME ChainInv, TransparencyAssumed, NEW m \in Machines, T!PutEntry(m)
  PROVE  ChainInv' /\ T!ChainGrows
<1> DEFINE v == job[m].ver
           e == T!Stage(m).entry
<1>1. /\ job[m].kind = "publish" /\ job[m].pc \in Uploading /\ job[m].pc \in HasArchived /\ T!Remote
         /\ archived' = archived
      /\ "esig" \in Uploading \cup {"adopt"} /\ "esig" \notin HasSignature
  BY PublisherIs DEF T!PutEntry, Uploading, HasArchived, HasEntry, HasSignature, HasEvidence, AtTheHead, Renewing
<1>2. /\ v \in Versions /\ e \in T!Entries /\ e # Nil /\ T!Last1(e).ver = v /\ e \in archived
      /\ store \in StoreRecord /\ StoreRight(store) /\ archived \subseteq T!Entries
  BY <1>1, UploaderHas
<1>3. CASE store.entry[v] \in {Nil, e} /\ store' = [store EXCEPT !.entry[v] = e] /\ T!Go(m, "esig")
  <2>1. store' = [store EXCEPT !.entry = [store.entry EXCEPT ![v] = e]]
    BY <1>3, Zenon
  <2>2. store' = [entry |-> [store.entry EXCEPT ![v] = e], esig |-> store.esig, objs |-> store.objs,
                  ledger |-> store.ledger, pointer |-> store.pointer, psig |-> store.psig]
    <3> HIDE DEF v, e
    <3> QED  BY <1>2, <2>1 DEF StoreRecord
  <2>3. /\ store'.entry = [store.entry EXCEPT ![v] = e] /\ store'.esig = store.esig /\ store'.objs = store.objs
        /\ store'.pointer = store.pointer /\ store' \in StoreRecord
    <3> HIDE DEF v, e
    <3> QED  BY <1>2, <2>2 DEF StoreRecord
  <2>4. store'.entry[v] = e /\ \A w \in Versions : w # v => store'.entry[w] = store.entry[w]
    BY <1>2, <2>3 DEF StoreRecord
  <2>5. StoreRight(store')
    BY <1>2, <1>3, <2>3, <2>4 DEF StoreRight
  <2>6. Grows(store, archived, store', archived')
    <3>1. \A w \in Versions : store.entry[w] # Nil => store'.entry[w] = store.entry[w]
      BY <1>3, <2>4
    <3> QED  BY <1>1, <2>3, <3>1 DEF Grows
  <2>7. JobRight(m, At(job[m], "esig"), staging[m], store', archived') /\ "esig" \in ChainPlaces
    BY <1>1, <1>2, <2>4, UploadGoes DEF HasSignature, HasEvidence
  <2>8. store'.pointer = store.pointer /\ archived' \subseteq T!Entries /\ store' \in StoreRecord
    BY <1>1, <1>2, <2>3
  <2> QED  BY <1>1, <1>3, <2>5, <2>6, <2>7, <2>8, RemoteGoes
<1>4. CASE store.entry[v] \notin {Nil, e} /\ T!Raced(m) /\ UNCHANGED store
  BY <1>1, <1>4, RacedKeeps
<1> QED  BY <1>3, <1>4 DEF T!PutEntry

LEMMA PutEntrySignatureKeeps ==
  ASSUME ChainInv, TransparencyAssumed, NEW m \in Machines, T!PutEntrySignature(m)
  PROVE  ChainInv' /\ T!ChainGrows
<1> DEFINE v == job[m].ver
           e == T!Stage(m).entry
<1>1. /\ job[m].kind = "publish" /\ job[m].pc \in Uploading /\ job[m].pc \in HasArchived /\ job[m].pc \in HasEntry
         /\ T!Remote
      /\ archived' = archived /\ T!Go(m, "objs") /\ "objs" \in Uploading \cup {"adopt"} /\ "objs" \notin HasEvidence
  BY PublisherIs DEF T!PutEntrySignature, Uploading, HasArchived, HasEntry, HasSignature, HasEvidence, AtTheHead,
     Renewing
<1>2. /\ v \in Versions /\ e \in T!Entries /\ e # Nil /\ T!Last1(e).ver = v /\ e \in archived /\ T!Stage(m).esig = e
      /\ store \in StoreRecord /\ StoreRight(store) /\ archived \subseteq T!Entries /\ store.entry[v] = e
  BY <1>1, UploaderHas
<1>3. store' = [store EXCEPT !.esig[v] = e]
  BY <1>2 DEF T!PutEntrySignature
<1>4. store' = [store EXCEPT !.esig = [store.esig EXCEPT ![v] = e]]
  BY <1>3, Zenon
<1>5. store' = [entry |-> store.entry, esig |-> [store.esig EXCEPT ![v] = e], objs |-> store.objs,
                ledger |-> store.ledger, pointer |-> store.pointer, psig |-> store.psig]
  <2> HIDE DEF v, e
  <2> QED  BY <1>2, <1>4 DEF StoreRecord
<1>6. /\ store'.esig = [store.esig EXCEPT ![v] = e] /\ store'.entry = store.entry /\ store'.objs = store.objs
      /\ store'.pointer = store.pointer /\ store' \in StoreRecord
  <2> HIDE DEF v, e
  <2> QED  BY <1>2, <1>5 DEF StoreRecord
<1>7. store'.esig[v] = e /\ \A w \in Versions : w # v => store'.esig[w] = store.esig[w]
  BY <1>2, <1>6 DEF StoreRecord
<1>8. StoreRight(store')
  BY <1>2, <1>6, <1>7 DEF StoreRight
<1>9. Grows(store, archived, store', archived')
  <2>1. \A w \in Versions : store.esig[w] # Nil => store'.esig[w] = store.esig[w]
    <3>1. store.esig[v] \in {Nil, e}
      BY <1>2 DEF StoreRight
    <3> QED  BY <1>7, <3>1
  <2> QED  BY <1>1, <1>6, <2>1 DEF Grows
<1>10. JobRight(m, At(job[m], "objs"), staging[m], store', archived') /\ "objs" \in ChainPlaces
  <2>1. store'.entry[v] = e /\ store'.esig[v] = e /\ e \in archived'
    BY <1>1, <1>2, <1>6, <1>7
  <2> QED  BY <1>1, <2>1, UploadGoes DEF HasEvidence
<1>11. store'.pointer = store.pointer /\ archived' \subseteq T!Entries /\ store' \in StoreRecord
  BY <1>1, <1>2, <1>6
<1> QED  BY <1>1, <1>8, <1>9, <1>10, <1>11, RemoteGoes

LEMMA PutEvidenceKeeps ==
  ASSUME ChainInv, TransparencyAssumed, NEW m \in Machines, T!PutEvidence(m)
  PROVE  ChainInv' /\ T!ChainGrows
<1> DEFINE v == job[m].ver
           e == T!Stage(m).entry
           o == store.objs[v] \cup {m}
<1>1. /\ job[m].kind = "publish" /\ job[m].pc \in Uploading /\ job[m].pc \in HasArchived /\ job[m].pc \in HasEntry
         /\ T!Remote
      /\ job[m].pc \in HasSignature /\ archived' = archived /\ T!Go(m, "ledger")
         /\ "ledger" \in Uploading \cup {"adopt"}
      /\ "ledger" \notin AtTheHead
  BY PublisherIs DEF T!PutEvidence, Uploading, HasArchived, HasEntry, HasSignature, HasEvidence, AtTheHead, Renewing
<1>2. /\ v \in Versions /\ e \in archived /\ store.esig[v] = e
      /\ store \in StoreRecord /\ StoreRight(store) /\ archived \subseteq T!Entries /\ store.entry[v] = e
  BY <1>1, UploaderHas
<1>3. store' = [store EXCEPT !.objs = [store.objs EXCEPT ![v] = o]]
  <2>1. store' = [store EXCEPT !.objs[v] = store.objs[v] \cup {m}]
    BY Zenon DEF T!PutEvidence
  <2> QED  BY <2>1, Zenon
<1>4. o \in SUBSET Machines
  BY <1>2 DEF StoreRecord
<1>5. store' = [entry |-> store.entry, esig |-> store.esig, objs |-> [store.objs EXCEPT ![v] = o],
                ledger |-> store.ledger, pointer |-> store.pointer, psig |-> store.psig]
  <2> HIDE DEF v, o
  <2> QED  BY <1>2, <1>3 DEF StoreRecord
<1>6. /\ store'.objs = [store.objs EXCEPT ![v] = o] /\ store'.entry = store.entry /\ store'.esig = store.esig
      /\ store'.pointer = store.pointer /\ store' \in StoreRecord
  <2> HIDE DEF v, o
  <2> QED  BY <1>2, <1>4, <1>5 DEF StoreRecord
<1>7. store'.objs[v] = o /\ \A w \in Versions : w # v => store'.objs[w] = store.objs[w]
  <2> HIDE DEF v, o
  <2> QED  BY <1>2, <1>6 DEF StoreRecord
<1>8. StoreRight(store')
  BY <1>2, <1>6 DEF StoreRight
<1>9. Grows(store, archived, store', archived')
  BY <1>1, <1>6, <1>7 DEF Grows
<1>10. JobRight(m, At(job[m], "ledger"), staging[m], store', archived') /\ "ledger" \in ChainPlaces
  <2>1. store'.entry[v] = e /\ store'.esig[v] = e /\ e \in archived' /\ m \in store'.objs[v]
    BY <1>1, <1>2, <1>6, <1>7
  <2> QED  BY <1>1, <2>1, UploadGoes
<1>11. store'.pointer = store.pointer /\ archived' \subseteq T!Entries /\ store' \in StoreRecord
  BY <1>1, <1>2, <1>6
<1> QED  BY <1>1, <1>8, <1>9, <1>10, <1>11, RemoteGoes

\* A field that nothing else is measured by is written.
LEMMA RestIsKept ==
  ASSUME ChainInv, NEW l, archived' = archived,
         \/ l \in T!Entries /\ store' = [store EXCEPT !.ledger = l]
         \/ l \in T!Pointers /\ store' = [store EXCEPT !.psig = l]
  PROVE  /\ store' \in StoreRecord /\ StoreRight(store') /\ Grows(store, archived, store', archived')
         /\ store'.pointer = store.pointer /\ store'.entry = store.entry /\ store'.esig = store.esig
            /\ store'.objs = store.objs
         /\ archived' \subseteq T!Entries
<1>1. store \in StoreRecord /\ StoreRight(store) /\ archived \subseteq T!Entries
  BY DEF ChainInv, ChainTyped, StoresRight
<1>2. /\ store'.pointer = store.pointer /\ store'.entry = store.entry /\ store'.esig = store.esig
         /\ store'.objs = store.objs
      /\ store' \in StoreRecord
  BY <1>1 DEF StoreRecord
<1>3. StoreRight(store') /\ Grows(store, archived, store', archived')
  BY <1>1, <1>2 DEF StoreRight, Grows
<1> QED  BY <1>1, <1>2, <1>3

LEMMA PutLedgerKeeps ==
  ASSUME ChainInv, TransparencyAssumed, NEW m \in Machines, T!PutLedger(m)
  PROVE  ChainInv' /\ T!ChainGrows
<1> DEFINE v == job[m].ver
           e == T!Stage(m).entry
<1>1. /\ job[m].kind = "publish" /\ job[m].pc \in Uploading /\ job[m].pc \in HasArchived /\ job[m].pc \in HasEntry
         /\ T!Remote
      /\ job[m].pc \in HasSignature /\ job[m].pc \in HasEvidence /\ archived' = archived
         /\ "psig" \in Uploading \cup {"adopt"}
      /\ "psig" \notin AtTheHead
  BY PublisherIs DEF T!PutLedger, Uploading, HasArchived, HasEntry, HasSignature, HasEvidence, AtTheHead, Renewing
<1>2. /\ v \in Versions /\ e \in archived /\ store.esig[v] = e /\ e \in T!Entries /\ store.entry[v] = e
         /\ m \in store.objs[v]
  BY <1>1, UploaderHas
<1>3. CASE store' = [store EXCEPT !.ledger = e] /\ T!Go(m, "psig")
  <2>1. /\ store' \in StoreRecord /\ StoreRight(store') /\ Grows(store, archived, store', archived')
        /\ store'.pointer = store.pointer /\ store'.entry = store.entry /\ store'.esig = store.esig
           /\ store'.objs = store.objs
        /\ archived' \subseteq T!Entries
    <3> HIDE DEF e
    <3> QED  BY <1>1, <1>2, <1>3, RestIsKept
  <2>2. store'.entry[v] = e /\ store'.esig[v] = e /\ e \in archived' /\ m \in store'.objs[v]
    BY <1>1, <1>2, <2>1
  <2>3. JobRight(m, At(job[m], "psig"), staging[m], store', archived') /\ "psig" \in ChainPlaces
    BY <1>1, <2>2, UploadGoes
  <2> QED  BY <1>1, <1>3, <2>1, <2>3, RemoteGoes
<1>4. CASE T!End(m, "retryable") /\ UNCHANGED store
  BY <1>1, <1>4, RemoteEnds DEF ChainResults
<1> QED  BY <1>3, <1>4 DEF T!PutLedger

LEMMA RenewKeeps ==
  ASSUME ChainInv, TransparencyAssumed, NEW m \in Machines, T!Renew(m)
  PROVE  ChainInv' /\ T!ChainGrows
<1>0. /\ UNCHANGED staging /\ T!Local /\ job[m].pc = "renew" /\ job[m] \in ChainJobRecord
      /\ JobRight(m, job[m], staging[m], store, archived) /\ tclock \in 1..MaxStamp
  BY DEF T!Renew, ChainInv, ChainTyped, JobsRight
<1>1. StagesMove(m, staging[m])
  BY <1>0, StageKeeps
<1>2. job[m].kind = "resign" /\ job[m].seen \in T!Pointers
  BY <1>0 DEF JobRight, ChainJobRecord
<1>3. CASE job' = [job EXCEPT ![m].pc = "psig", ![m].want = [job[m].seen EXCEPT !.signed = tclock]]
  <2> DEFINE p == [tip |-> job[m].seen.tip, ver |-> job[m].seen.ver, signed |-> tclock]
             j == [kind |-> job[m].kind, pc |-> "psig", ver |-> job[m].ver, seen |-> job[m].seen,
                   want |-> p, result |-> job[m].result]
  <2>1. [job[m].seen EXCEPT !.signed = tclock] = p
    BY <1>2 DEF T!Pointers
  <2>2. p \in T!Pointers
    BY <1>0, <1>2 DEF T!Pointers
  <2>3. job' = [job EXCEPT ![m] = [[job[m] EXCEPT !.pc = "psig"] EXCEPT !.want = p]]
    <3> HIDE DEF p
    <3> QED  BY <1>3, <2>1, Zenon
  <2>4. [[job[m] EXCEPT !.pc = "psig"] EXCEPT !.want = p] = j
    <3> HIDE DEF p
    <3>1. [job[m] EXCEPT !.pc = "psig"] = At(job[m], "psig")
      BY <1>0, AtIs
    <3>2. [At(job[m], "psig") EXCEPT !.want = p] = j
      BY DEF At
    <3> QED  BY <3>1, <3>2, Zenon
  <2>5. j \in ChainJobRecord
    <3> HIDE DEF p
    <3> QED  BY <1>0, <2>2 DEF ChainJobRecord, ChainPlaces, Uploading, HasArchived, HasEntry, HasSignature,
                HasEvidence
  <2>6. p.tip = job[m].seen.tip /\ p # Nil /\ job[m].seen # Nil
    BY <1>2, <2>2 DEF TransparencyAssumed
  <2>7. JobRight(m, j, staging[m], store, archived)
    <3> HIDE DEF p
    <3> QED  BY <1>2, <2>6 DEF JobRight, Renewing
  <2> HIDE DEF j
  <2> QED  BY <1>0, <1>1, <2>3, <2>4, <2>5, <2>7, LocalMoves DEF StagesMove, T!Local, ChainInv, ChainTyped
<1>4. CASE T!End(m, "retryable")
  BY <1>0, <1>1, <1>4, LocalEnds DEF ChainResults
<1> QED  BY <1>3, <1>4 DEF T!Renew

\* What a renewal has at its later places.
LEMMA RenewerHas ==
  ASSUME ChainInv, NEW m \in Machines, job[m].kind # "publish", job[m].pc # "idle"
  PROVE  /\ job[m].kind = "resign" /\ job[m].pc \in {"pointer", "chain"} \cup Renewing
         /\ job[m].pc \in {"psig", "put", "final"} =>
              /\ job[m].want \in T!Pointers /\ job[m].seen # Nil /\ job[m].want.tip = job[m].seen.tip
              /\ \A pc \in {"psig", "put", "final"} : \A g, st, ar : JobRight(m, At(job[m], pc), g, st, ar)
                 /\ pc \in ChainPlaces
<1>1. JobRight(m, job[m], staging[m], store, archived) /\ job[m] \in ChainJobRecord
  BY DEF ChainInv, JobsRight, ChainTyped
<1>2. job[m].kind = "resign" /\ job[m].pc \in {"pointer", "chain"} \cup Renewing
  BY <1>1 DEF JobRight, ChainJobRecord
<1>3. ASSUME job[m].pc \in {"psig", "put", "final"}
      PROVE  job[m].want \in T!Pointers /\ job[m].want # Nil /\ job[m].seen # Nil /\ job[m].want.tip = job[m].seen.tip
  BY <1>1, <1>2, <1>3 DEF JobRight, Renewing, ChainJobRecord
<1>4. ASSUME job[m].pc \in {"psig", "put", "final"}, NEW pc \in {"psig", "put", "final"}, NEW g, NEW st, NEW ar
      PROVE  JobRight(m, At(job[m], pc), g, st, ar) /\ pc \in ChainPlaces
  BY <1>2, <1>3, <1>4 DEF JobRight, At, Renewing, ChainPlaces, Uploading, HasArchived, HasEntry, HasSignature,
     HasEvidence, AtTheHead
<1> QED  BY <1>2, <1>3, <1>4

\* The pointer a job is about to write is of its own entry, or of the tip it renews.
LEMMA WantedIs ==
  ASSUME ChainInv, TransparencyAssumed, NEW m \in Machines, job[m].pc \in {"psig", "put", "final"}
  PROVE  /\ T!Wanted(m) \in T!Pointers
         /\ job[m].kind = "publish" => T!Wanted(m) = T!Stage(m).pointer
         /\ job[m].kind # "publish" => job[m].seen # Nil /\ T!Wanted(m).tip = job[m].seen.tip
<1>1. CASE job[m].kind = "publish"
  <2>1. job[m].pc \in Uploading
    BY DEF Uploading, HasArchived, HasEntry, HasSignature, HasEvidence, AtTheHead
  <2> QED  BY <1>1, <2>1, UploaderHas DEF T!Wanted
<1>2. CASE job[m].kind # "publish"
  BY <1>2, RenewerHas DEF T!Wanted
<1> QED  BY <1>1, <1>2

\* What an upload has before its pointer is out goes with it to the next place.
LEMMA EvidentGoes ==
  ASSUME ChainInv, TransparencyAssumed, NEW m \in Machines, job[m].kind = "publish", job[m].pc \in HasEvidence,
         NEW pc \in HasEvidence,
         store'.entry = store.entry, store'.esig = store.esig, store'.objs = store.objs, archived' = archived,
         pc \in AtTheHead => store'.pointer # Nil /\ T!Stage(m).entry \in T!Parts(store'.pointer.tip)
  PROVE  JobRight(m, At(job[m], pc), staging[m], store', archived') /\ pc \in ChainPlaces
<1>1. /\ job[m].pc \in Uploading /\ job[m].pc \in HasArchived /\ job[m].pc \in HasEntry /\ job[m].pc \in HasSignature
      /\ pc \in Uploading \cup {"adopt"} /\ pc # "adopt"
  BY DEF Uploading, HasArchived, HasEntry, HasSignature, HasEvidence, AtTheHead
<1>2. /\ T!Stage(m).entry \in archived' /\ store'.entry[job[m].ver] = T!Stage(m).entry
         /\ store'.esig[job[m].ver] = T!Stage(m).entry
      /\ m \in store'.objs[job[m].ver]
  BY <1>1, UploaderHas
<1> QED  BY <1>1, <1>2, UploadGoes

LEMMA PutPointerSignatureKeeps ==
  ASSUME ChainInv, TransparencyAssumed, NEW m \in Machines, T!PutPointerSignature(m)
  PROVE  ChainInv' /\ T!ChainGrows
<1>1. job[m].pc = "psig" /\ archived' = archived /\ T!Remote
  BY DEF T!PutPointerSignature
<1>2. CASE store' = [store EXCEPT !.psig = T!Wanted(m)] /\ T!Go(m, "put")
  <2>1. /\ store' \in StoreRecord /\ StoreRight(store') /\ Grows(store, archived, store', archived')
        /\ store'.pointer = store.pointer /\ store'.entry = store.entry /\ store'.esig = store.esig
           /\ store'.objs = store.objs
        /\ archived' \subseteq T!Entries
    <3>1. T!Wanted(m) \in T!Pointers
      BY <1>1, WantedIs
    <3> QED  BY <1>1, <1>2, <3>1, RestIsKept
  <2>2. JobRight(m, At(job[m], "put"), staging[m], store', archived') /\ "put" \in ChainPlaces
    <3>1. CASE job[m].kind = "publish"
      <4>1. "put" \in HasEvidence /\ "put" \notin AtTheHead /\ job[m].pc \in HasEvidence
        BY <1>1 DEF HasEvidence, AtTheHead
      <4> QED  BY <1>1, <2>1, <3>1, <4>1, EvidentGoes
    <3>2. CASE job[m].kind # "publish"
      BY <1>1, <3>2, RenewerHas
    <3> QED  BY <3>1, <3>2
  <2> QED  BY <1>1, <1>2, <2>1, <2>2, RemoteGoes
<1>3. CASE T!End(m, "retryable") /\ UNCHANGED store
  BY <1>1, <1>3, RemoteEnds DEF ChainResults
<1> QED  BY <1>2, <1>3 DEF T!PutPointerSignature

\* The pointer moves from the one that was verified to the wanted one.
LEMMA PointerMoves ==
  ASSUME ChainInv, TransparencyAssumed, NEW m \in Machines, job[m].pc = "put", store.pointer = job[m].seen,
         store' = [store EXCEPT !.pointer = T!Wanted(m)], archived' = archived
  PROVE  /\ store' \in StoreRecord /\ StoreRight(store') /\ Grows(store, archived, store', archived')
         /\ store'.pointer = T!Wanted(m) /\ store'.entry = store.entry /\ store'.esig = store.esig
            /\ store'.objs = store.objs
         /\ T!ChainGrows /\ T!PointerIsBacked'
<1>1. store \in StoreRecord /\ StoreRight(store) /\ T!Wanted(m) \in T!Pointers /\ T!Wanted(m) # Nil
      /\ job[m] \in ChainJobRecord
  BY WantedIs DEF ChainInv, ChainTyped, StoresRight, TransparencyAssumed
<1> DEFINE w == T!Wanted(m)
           t == w.tip
<1>2. /\ store'.pointer = w /\ store'.entry = store.entry /\ store'.esig = store.esig /\ store'.objs = store.objs
      /\ store' \in StoreRecord
  <2> HIDE DEF w
  <2> QED  BY <1>1 DEF StoreRecord, w
<1>3. StoreRight(store')
  BY <1>1, <1>2 DEF StoreRight
<1>4. /\ t \in T!Entries
      /\ \/ store.pointer # Nil /\ t = store.pointer.tip
         \/ /\ T!Previous(t) = T!Tip(m) /\ t = T!Stage(m).entry
            /\ store.entry[T!Last1(t).ver] = t /\ store.esig[T!Last1(t).ver] = t /\ t \in archived
            /\ T!Last1(t).who \in store.objs[T!Last1(t).ver]
  <2>1. t \in T!Entries
    BY <1>1 DEF T!Pointers
  <2>2. CASE job[m].kind = "publish"
    <3>1. job[m].pc \in Uploading /\ job[m].pc \in HasArchived /\ job[m].pc \in HasEntry
          /\ job[m].pc \in HasSignature /\ job[m].pc \in HasEvidence
      BY DEF Uploading, HasArchived, HasEntry, HasSignature, HasEvidence
    <3>2. w = T!Stage(m).pointer
      BY <2>2, WantedIs
    <3> HIDE DEF w
    <3> QED  BY <2>1, <2>2, <3>1, <3>2, UploaderHas
  <2>3. CASE job[m].kind # "publish"
    BY <2>1, <2>3, WantedIs
  <2> QED  BY <2>2, <2>3
<1>5. T!Tip(m) = IF store.pointer = Nil THEN <<>> ELSE store.pointer.tip
  BY DEF T!Tip
<1>6. /\ T!Parts(t) \subseteq (IF store.pointer = Nil THEN {} ELSE T!Parts(store.pointer.tip)) \cup {t}
      /\ store.pointer # Nil => T!Parts(store.pointer.tip) \subseteq T!Parts(t)
  <2>1. T!Parts(t) = T!Parts(T!Previous(t)) \cup {t} /\ (T!Previous(t) = <<>> => T!Parts(T!Previous(t)) = {})
    BY <1>4, PartsGrow
  <2> HIDE DEF t
  <2>2. CASE store.pointer # Nil /\ t = store.pointer.tip
    BY <2>2
  <2>3. CASE T!Previous(t) = T!Tip(m)
    BY <1>5, <2>1, <2>3
  <2> QED  BY <1>4, <2>2, <2>3
<1>7. Grows(store, archived, store', archived')
  <2>1. store.pointer # Nil => store'.pointer # Nil
        /\ T!Parts(store.pointer.tip) \subseteq T!Parts(store'.pointer.tip)
    BY <1>1, <1>2, <1>6
  <2> QED  BY <1>2, <2>1 DEF Grows
<1>8. T!ChainGrows
  <2> HIDE DEF w
  <2> QED  BY <1>1, <1>2, <1>4, <1>5 DEF T!ChainGrows, w
<1>9. T!PointerIsBacked'
  <2> SUFFICES ASSUME NEW e \in T!Parts(store'.pointer.tip)
               PROVE  /\ store'.entry[T!Last1(e).ver] = e /\ store'.esig[T!Last1(e).ver] = e
                      /\ e \in archived' /\ T!Last1(e).who \in store'.objs[T!Last1(e).ver]
    BY DEF T!PointerIsBacked, T!Locked, T!Last1, T!Parts
  <2>1. e \in T!Parts(t)
    BY <1>2
  <2>2. CASE store.pointer # Nil /\ e \in T!Parts(store.pointer.tip)
    BY <1>2, <1>7, <2>2, StaysBacked
  <2>3. CASE e = t /\ T!Previous(t) = T!Tip(m) /\ t = T!Stage(m).entry
    <3>1. \/ store.pointer # Nil /\ t = store.pointer.tip
          \/ /\ store.entry[T!Last1(t).ver] = t /\ store.esig[T!Last1(t).ver] = t /\ t \in archived
             /\ T!Last1(t).who \in store.objs[T!Last1(t).ver]
      BY <1>4
    <3>2. t \in T!Parts(t)
      BY <1>4, PartsGrow
    <3> HIDE DEF t
    <3>3. CASE store.pointer # Nil /\ t = store.pointer.tip
      BY <2>2, <2>3, <3>2, <3>3
    <3>4. CASE /\ store.entry[T!Last1(t).ver] = t /\ store.esig[T!Last1(t).ver] = t /\ t \in archived
               /\ T!Last1(t).who \in store.objs[T!Last1(t).ver]
      BY <1>2, <2>3, <3>4
    <3> QED  BY <3>1, <3>3, <3>4
  <2>4. CASE store.pointer # Nil /\ t = store.pointer.tip
    BY <2>1, <2>2, <2>4
  <2> HIDE DEF t
  <2> QED  BY <1>4, <1>6, <2>1, <2>2, <2>3, <2>4
<1> QED  BY <1>2, <1>3, <1>7, <1>8, <1>9

LEMMA PutPointerKeeps ==
  ASSUME ChainInv, TransparencyAssumed, NEW m \in Machines, T!PutPointer(m)
  PROVE  ChainInv' /\ T!ChainGrows
<1>1. job[m].pc = "put" /\ archived' = archived /\ T!Remote
  BY DEF T!PutPointer
<1>2. CASE store.pointer = job[m].seen /\ store' = [store EXCEPT !.pointer = T!Wanted(m)] /\ T!Go(m, "final")
  <2>1. /\ store' \in StoreRecord /\ StoreRight(store') /\ Grows(store, archived, store', archived')
        /\ store'.pointer = T!Wanted(m) /\ store'.entry = store.entry /\ store'.esig = store.esig
           /\ store'.objs = store.objs
        /\ T!ChainGrows /\ T!PointerIsBacked'
    BY <1>1, <1>2, PointerMoves
  <2>2. JobRight(m, At(job[m], "final"), staging[m], store', archived') /\ "final" \in ChainPlaces
    <3>1. CASE job[m].kind = "publish"
      <4>1. "final" \in HasEvidence /\ job[m].pc \in HasEvidence /\ job[m].pc \in Uploading
        BY <1>1 DEF HasEvidence, AtTheHead, Uploading, HasArchived, HasEntry, HasSignature
      <4>2. T!Wanted(m).tip = T!Stage(m).entry /\ T!Wanted(m) # Nil /\ T!Stage(m).entry \in T!Entries
        BY <1>1, <3>1, <4>1, WantedIs, UploaderHas DEF TransparencyAssumed
      <4>3. store'.pointer # Nil /\ T!Stage(m).entry \in T!Parts(store'.pointer.tip)
        BY <2>1, <4>2, PartsGrow
      <4> QED  BY <1>1, <2>1, <3>1, <4>1, <4>3, EvidentGoes
    <3>2. CASE job[m].kind # "publish"
      BY <1>1, <3>2, RenewerHas
    <3> QED  BY <3>1, <3>2
  <2>3. At(job[m], "final") \in ChainJobRecord /\ job' = [job EXCEPT ![m] = At(job[m], "final")]
    BY <1>2, <2>2, GoIs
  <2>4. StagesMove(m, staging[m])
    BY <1>1, StageKeeps DEF T!Remote
  <2>5. /\ tclock' \in 1..MaxStamp /\ head' \in [Machines -> SUBSET T!Entries]
           /\ committed' \in [Machines -> SUBSET T!Entries]
        /\ \A k \in Machines : committed'[k] \subseteq head'[k]
        /\ jobs' \in 0..MaxJobs /\ archived' \subseteq T!Entries /\ head' = head
    BY <1>1 DEF ChainInv, ChainTyped, T!Remote
  <2>6. ChainTyped' /\ StoresRight' /\ StagesRight' /\ JobsRight'
    BY <2>1, <2>2, <2>3, <2>4, <2>5, MachineMoves DEF StagesMove
  <2>7. T!WitnessIsPublished'
    <3>1. \A k \in Machines : \A e \in head[k] : store'.pointer # Nil /\ e \in T!Parts(store'.pointer.tip)
      BY <2>1, StaysBacked
    <3> QED  BY <2>5, <3>1 DEF T!WitnessIsPublished, T!Parts
  <2> QED  BY <2>1, <2>6, <2>7 DEF ChainInv
<1>3. CASE T!End(m, "retryable") /\ UNCHANGED store
  BY <1>1, <1>3, RemoteEnds DEF ChainResults
<1> QED  BY <1>2, <1>3 DEF T!PutPointer

LEMMA FinalCheckKeeps ==
  ASSUME ChainInv, TransparencyAssumed, NEW m \in Machines, T!FinalCheck(m)
  PROVE  ChainInv' /\ T!ChainGrows
<1>1. job[m].pc = "final" /\ store' = store /\ archived' = archived /\ T!Remote
  BY DEF T!FinalCheck
<1>2. CASE job[m].kind = "publish" /\ T!Go(m, "head")
  <2>1. "head" \in HasEvidence /\ job[m].pc \in HasEvidence /\ job[m].pc \in AtTheHead /\ job[m].pc \in Uploading
    BY <1>1 DEF HasEvidence, AtTheHead, Uploading, HasArchived, HasEntry, HasSignature
  <2>2. store.pointer # Nil /\ T!Stage(m).entry \in T!Parts(store.pointer.tip)
    BY <1>2, <2>1, UploaderHas
  <2>3. JobRight(m, At(job[m], "head"), staging[m], store', archived') /\ "head" \in ChainPlaces
    BY <1>1, <1>2, <2>1, <2>2, EvidentGoes
  <2>4. Grows(store, archived, store', archived')
    BY <1>1, GrowsSame
  <2>5. store' \in StoreRecord /\ StoreRight(store') /\ archived' \subseteq T!Entries
        /\ store'.pointer = store.pointer
    BY <1>1 DEF ChainInv, ChainTyped, StoresRight
  <2> QED  BY <1>1, <1>2, <2>3, <2>4, <2>5, RemoteGoes
<1>3. CASE T!End(m, "done") \/ T!End(m, "retryable")
  BY <1>1, <1>3, RemoteEnds DEF ChainResults
<1> QED  BY <1>2, <1>3 DEF T!FinalCheck

LEMMA AppendHeadKeeps ==
  ASSUME ChainInv, TransparencyAssumed, NEW m \in Machines, T!AppendHead(m)
  PROVE  ChainInv' /\ T!ChainGrows
<1> DEFINE e == T!Stage(m).entry
<1>1. /\ job[m].pc = "head" /\ job[m].kind = "publish" /\ job[m].pc \in Uploading /\ job[m].pc \in AtTheHead
      /\ UNCHANGED <<tclock, store, archived, staging, committed, jobs>>
  BY PublisherIs DEF T!AppendHead, AtTheHead, Uploading, HasArchived, HasEntry, HasSignature, HasEvidence, Renewing
<1>2. e \in T!Entries /\ store.pointer # Nil /\ e \in T!Parts(store.pointer.tip)
  BY <1>1, UploaderHas
<1>3. CASE T!End(m, "terminal") /\ UNCHANGED head
  <2>1. T!Local /\ StagesMove(m, staging[m])
    BY <1>1, <1>3, StageKeeps DEF T!Local
  <2> QED  BY <1>3, <2>1, LocalEnds DEF ChainResults
<1>4. CASE head' = [head EXCEPT ![m] = @ \cup {e}] /\ T!End(m, "done")
  <2>1. Ended("done") \in ChainJobRecord /\ JobRight(m, Ended("done"), staging[m], store', archived')
        /\ job' = [job EXCEPT ![m] = Ended("done")]
    BY <1>4, EndRight, EndIs DEF ChainResults
  <2>2. StagesMove(m, staging[m])
    BY <1>1, StageKeeps
  <2>3. Grows(store, archived, store', archived')
    BY <1>1, GrowsSame
  <2>4. /\ head' \in [Machines -> SUBSET T!Entries] /\ \A k \in Machines : head[k] \subseteq head'[k]
           /\ head'[k] \subseteq head[k] \cup {e}
    <3> HIDE DEF e
    <3> QED  BY <1>2, <1>4 DEF ChainInv, ChainTyped
  <2>5. /\ tclock' \in 1..MaxStamp /\ committed' \in [Machines -> SUBSET T!Entries]
        /\ \A k \in Machines : committed'[k] \subseteq head'[k]
        /\ jobs' \in 0..MaxJobs /\ archived' \subseteq T!Entries /\ store' \in StoreRecord /\ StoreRight(store')
    <3>1. \A k \in Machines : committed[k] \subseteq head'[k]
      BY <2>4 DEF ChainInv, ChainTyped
    <3> QED  BY <1>1, <3>1 DEF ChainInv, ChainTyped, StoresRight
  <2>6. ChainTyped' /\ StoresRight' /\ StagesRight' /\ JobsRight'
    <3> HIDE DEF e, Ended
    <3> QED  BY <2>1, <2>2, <2>3, <2>4, <2>5, MachineMoves DEF StagesMove
  <2>7. T!PointerIsBacked' /\ T!ChainGrows
    BY <1>1, <2>3, <2>5, BackedSame
  <2>8. T!WitnessIsPublished'
    <3>1. \A k \in Machines : \A d \in head'[k] : store.pointer # Nil /\ d \in T!Parts(store.pointer.tip)
      <4> HIDE DEF e
      <4> QED  BY <1>2, <2>4 DEF ChainInv, T!WitnessIsPublished
    <3> QED  BY <1>1, <3>1 DEF T!WitnessIsPublished, T!Parts
  <2> QED  BY <2>6, <2>7, <2>8 DEF ChainInv
<1> QED  BY <1>3, <1>4 DEF T!AppendHead

LEMMA StopKeeps ==
  ASSUME ChainInv, TransparencyAssumed, NEW m \in Machines, T!Stop(m)
  PROVE  ChainInv' /\ T!ChainGrows
<1>1. T!End(m, "retryable") /\ T!Local /\ UNCHANGED staging
  BY DEF T!Stop, T!Local
<1> QED  BY <1>1, StageKeeps, LocalEnds DEF ChainResults

LEMMA DiscardStageKeeps ==
  ASSUME ChainInv, TransparencyAssumed, NEW m \in Machines, NEW v \in Versions, T!DiscardStage(m, v)
  PROVE  ChainInv' /\ T!ChainGrows
<1> DEFINE g == [staging[m] EXCEPT ![v] = T!NoStage]
<1>1. T!NoStage \in StageRecord /\ StageRight(m, v, T!NoStage)
  BY DEF T!NoStage, StageRecord, StageRight
<1>2. staging' = [staging EXCEPT ![m][v] = T!NoStage]
  BY DEF T!DiscardStage
<1>3. StagesMove(m, g)
  BY <1>1, <1>2, StageSets
<1>4. /\ job[m] \in ChainJobRecord /\ job' = [job EXCEPT ![m] = job[m]] /\ job[m].kind = "none" /\ job[m].pc = "idle"
  BY DEF T!DiscardStage, ChainInv, ChainTyped, JobsRight, JobRight
<1>5. JobRight(m, job[m], g, store, archived)
  BY <1>4 DEF JobRight
<1> HIDE DEF g
<1> QED  BY <1>3, <1>4, <1>5, LocalMoves DEF StagesMove, T!DiscardStage, ChainInv, ChainTyped

LEMMA ChainInit ==
  ASSUME TransparencyAssumed, T!Init
  PROVE  ChainInv
<1>1. T!NoStage \in StageRecord /\ T!Idle \in ChainJobRecord
  BY DEF T!NoStage, StageRecord, T!Idle, ChainJobRecord, ChainPlaces
<1>2. store \in StoreRecord /\ \A v \in Versions : store.entry[v] = Nil /\ store.esig[v] = Nil
  BY DEF T!Init, StoreRecord
<1>3. store.pointer = Nil
  BY DEF T!Init
<1>4. ChainTyped
  BY <1>1, <1>2 DEF T!Init, ChainTyped, TransparencyAssumed
<1>5. StoresRight
  BY <1>2 DEF StoresRight, StoreRight
<1>6. StagesRight
  <2>1. \A m \in Machines, v \in Versions : staging[m][v] = T!NoStage
    BY DEF T!Init
  <2>2. \A m \in Machines, v \in Versions : StageRight(m, v, T!NoStage)
    BY DEF StageRight, T!NoStage
  <2> QED  BY <2>1, <2>2 DEF StagesRight
<1>7. JobsRight
  <2>1. \A m \in Machines : job[m] = T!Idle
    BY DEF T!Init
  <2>2. T!Idle.pc = "idle" /\ T!Idle.kind = "none"
    BY DEF T!Idle
  <2> HIDE DEF T!Idle
  <2>3. \A m, g, st, ar : JobRight(m, T!Idle, g, st, ar)
    BY <2>2 DEF JobRight
  <2> QED  BY <2>1, <2>3 DEF JobsRight
<1>8. T!PointerIsBacked /\ T!WitnessIsPublished
  BY <1>3 DEF T!PointerIsBacked, T!WitnessIsPublished, T!Init
<1> QED  BY <1>4, <1>5, <1>6, <1>7, <1>8 DEF ChainInv

LEMMA ChainStep ==
  ASSUME ChainInv, TransparencyAssumed, T!Next
  PROVE  ChainInv' /\ T!ChainGrows
<1>1. CASE T!Tick
  BY <1>1, TickKeeps
<1>2. ASSUME NEW m \in Machines,
             T!CommitHead(m) \/ T!ResignStarts(m) \/ \E v \in Versions : T!PublishStarts(m, v) \/ T!DiscardStage(m, v)
      PROVE  ChainInv' /\ T!ChainGrows
  BY <1>2, CommitHeadKeeps, ResignStartsKeeps, PublishStartsKeeps, DiscardStageKeeps
<1>3. ASSUME NEW m \in Machines,
             \/ T!FetchPointer(m) \/ T!FetchRest(m)
             \/ T!PrepareRecorded(m) \/ T!PrepareStaged(m) \/ T!PrepareFresh(m) \/ T!Sign(m)
             \/ T!PreflightClean(m) \/ T!PreflightTaken(m)
             \/ T!AdoptDropsSignature(m) \/ T!AdoptRenames(m) \/ T!AdoptDropsPointer(m)
      PROVE  ChainInv' /\ T!ChainGrows
  BY <1>3, FetchPointerKeeps, FetchRestKeeps, PrepareRecordedKeeps, PrepareStagedKeeps, PrepareFreshKeeps, SignKeeps,
     PreflightCleanKeeps, PreflightTakenKeeps, AdoptDropsSignatureKeeps, AdoptRenamesKeeps, AdoptDropsPointerKeeps
<1>4. ASSUME NEW m \in Machines,
             \/ T!Archive(m) \/ T!PutEntry(m) \/ T!PutEntrySignature(m) \/ T!PutEvidence(m)
             \/ T!PutLedger(m) \/ T!Renew(m) \/ T!PutPointerSignature(m) \/ T!PutPointer(m)
             \/ T!FinalCheck(m) \/ T!AppendHead(m) \/ T!Stop(m)
      PROVE  ChainInv' /\ T!ChainGrows
  BY <1>4, ArchiveKeeps, PutEntryKeeps, PutEntrySignatureKeeps, PutEvidenceKeeps, PutLedgerKeeps, RenewKeeps,
     PutPointerSignatureKeeps, PutPointerKeeps, FinalCheckKeeps, AppendHeadKeeps, StopKeeps
<1> QED  BY <1>1, <1>2, <1>3, <1>4 DEF T!Next

LEMMA ChainStutters ==
  ASSUME ChainInv, UNCHANGED T!tvars
  PROVE  ChainInv' /\ T!ChainGrows
<1>1. tclock' \in 1..MaxStamp /\ jobs' \in 0..MaxJobs /\ committed' \in [Machines -> SUBSET T!Entries]
      /\ \A k \in Machines : committed'[k] \subseteq head[k]
  BY DEF T!tvars, ChainInv, ChainTyped
<1> QED  BY <1>1, NobodyMoves DEF T!tvars

LEMMA ChainInvTyped == ASSUME ChainInv  PROVE T!TypeOK
<1>1. store \in StoreRecord /\ job \in [Machines -> ChainJobRecord]
  BY DEF ChainInv, ChainTyped
<1>2. /\ store.entry \in [Versions -> T!Entries \cup {Nil}] /\ store.esig \in [Versions -> T!Entries \cup {Nil}]
      /\ store.objs \in [Versions -> SUBSET Machines]
      /\ store.pointer \in T!Pointers \cup {Nil} /\ store.psig \in T!Pointers \cup {Nil}
  BY <1>1 DEF StoreRecord
<1>3. \A v \in Versions : /\ {store.entry[v], store.esig[v]} \subseteq T!Entries \cup {Nil}
                         /\ store.objs[v] \subseteq Machines
  BY <1>2
<1>4. \A m \in Machines : job[m].result \in {"none", "already", "done", "retryable", "terminal"}
  BY <1>1 DEF ChainJobRecord
<1> QED  BY <1>2, <1>3, <1>4 DEF ChainInv, ChainTyped, T!TypeOK
==============================================================================
