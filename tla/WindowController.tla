-------------------------- MODULE WindowController --------------------------
(* The controller of the window: a client of the app over the session bus.   *)
(* Every request and every read is given an id when it starts, and the       *)
(* controller compares ids to tell which answer may end which request.       *)
(* Modelled: saving settings and pausing or resuming, with the reads they    *)
(* wait for, answers that get lost, and an app that is replaced.             *)
(* controller.rs is the controller, ui.rs the buttons that drive it.         *)
EXTENDS Naturals

CONSTANTS
  Fields,      \* the settings with a switch, saved in this order
  MaxIds,      \* bound on the ids given to reads and presses
  MaxPresses,  \* bound on the presses of save, pause and resume
  MaxUpsets,   \* bound on changes by others, lost answers and new apps
  Nil

VARIABLES
  service,  \* the app: its bus name, the settings on disk, what it takes in, the commands it was told
  win,      \* the controller: known bus name, next id, last status id, document, edits
  save,     \* the settings draft's request
  intake,   \* the pause or resume asked for
  read,     \* the one status read under way
  calls,    \* the calls of the buttons under way
  stray,    \* settings writes whose caller stopped waiting
  wasHeld,  \* the app held the settings asked for, since the window learned how the save ended
  wasDone,  \* the app did what was pressed, since the window learned how the press ended
  presses, surprises

wvars == <<service, win, save, intake, read, calls, stray, wasHeld, wasDone, presses, surprises>>

Writes   == UNION {[fs -> BOOLEAN] : fs \in SUBSET Fields}
Ids      == 0..MaxIds + 2 * MaxPresses + 2   \* 0: none; a press takes up to two more
Never    == MaxIds + 2 * MaxPresses + 3      \* u64::MAX: no read is as late
States   == {"recording", "paused"}
Outcomes == {"Complete", "Rejected", "Unknown"}

Document == [conf : SUBSET Fields, capture : States]

\* What GetControlState answers.
ControlState == [conf |-> service.conf, capture |-> service.capture]

NoSave   == [id |-> 0, writes |-> << >>, verified |-> FALSE, failed |-> FALSE,
             waiting |-> FALSE, uncertain |-> FALSE, after |-> 0]
NoIntake == [id |-> 0, bus |-> 0, wish |-> "paused", after |-> 0, doubt |-> 0, error |-> FALSE]

TypeOK ==
  /\ service \in [bus : 1..MaxUpsets + 1, conf : SUBSET Fields, capture : States, told : States \union {Nil}]
  /\ win \in [bus : 0..MaxUpsets + 1, next : Ids \ {0}, last : Ids,
              doc : Document \union {Nil}, edits : Writes]
  /\ save \in [id : Ids, writes : Writes, verified : BOOLEAN, failed : BOOLEAN,
               waiting : BOOLEAN, uncertain : BOOLEAN, after : 0..Never]
  /\ intake \in [id : Ids, bus : 0..MaxUpsets + 1, wish : States, after : 0..Never, doubt : Ids, error : BOOLEAN]
  /\ read = Nil \/ read \in [id : Ids, asked : BOOLEAN, bus : 0..MaxUpsets + 1, doc : Document \union {Nil}]
  /\ \A call \in calls :
       \/ call \in [kind : {"save"}, id : Ids, bus : 1..MaxUpsets + 1, left : Writes, got : Outcomes \union {Nil}]
       \/ call \in [kind : {"intake"}, id : Ids, bus : 1..MaxUpsets + 1, wish : States,
                    got : {"ok", "error", Nil}]
  /\ stray \subseteq [bus : 1..MaxUpsets + 1, field : Fields, value : BOOLEAN]
  /\ wasHeld \in BOOLEAN /\ wasDone \in BOOLEAN

Init ==
  /\ service = [bus |-> 1, conf |-> {}, capture |-> "recording", told |-> Nil]
  /\ win = [bus |-> 0, next |-> 1, last |-> 0, doc |-> Nil, edits |-> << >>]
  /\ save = NoSave /\ intake = NoIntake
  /\ read = Nil /\ calls = {} /\ stray = {}
  /\ wasHeld = FALSE /\ wasDone = FALSE
  /\ presses = 0 /\ surprises = 0

-----------------------------------------------------------------------------
(* The app.                                                                  *)

Matches(conf, writes) == \A f \in DOMAIN writes : (f \in conf) = writes[f]

\* The settings change, or what is taken in does; it is noted when the window
\* waits for just that.
Holds(conf) ==
  /\ service' = [service EXCEPT !.conf = conf]
  /\ wasHeld' = (wasHeld \/ (save.waiting /\ save.id = 0 /\ Matches(conf, save.writes)))

Known(p) == p.doubt # 0 \/ (p.id # 0 /\ p.after # Never)

Does(state, told) ==
  /\ service' = [service EXCEPT !.capture = state, !.told = told]
  /\ wasDone' = (wasDone \/ (Known(intake) /\ state = intake.wish))

Put(conf, field, value) == IF value THEN conf \union {field} ELSE conf \ {field}

\* Surprises come after the first press, and only where they can be of consequence:
\* a bound, like their number.
Upset == presses > 0 /\ surprises < MaxUpsets /\ surprises' = surprises + 1

\* Another client, or the owner's editor, changes one setting.
OtherWrites ==
  /\ Upset /\ save.waiting
  /\ \E f \in Fields, v \in BOOLEAN : Holds(Put(service.conf, f, v))
  /\ UNCHANGED <<win, save, intake, read, calls, stray, wasDone, presses>>

\* The panel icon pauses or resumes.
OtherPauses ==
  /\ Upset /\ (intake.id # 0 \/ intake.doubt # 0)
  /\ \E s \in States \ {service.capture} : Does(s, service.told)
  /\ UNCHANGED <<win, save, intake, read, calls, stray, wasHeld, presses>>

\* The app stops and another one takes its name: commands not yet obeyed and
\* writes not yet taken are gone.
Replaced ==
  /\ Upset
  /\ service' = [service EXCEPT !.bus = @ + 1, !.told = Nil]
  /\ stray' = {}
  /\ UNCHANGED <<win, save, intake, read, calls, wasHeld, wasDone, presses>>

\* The capture loop obeys the last command.
Obey ==
  /\ service.told # Nil
  /\ Does(service.told, Nil)
  /\ UNCHANGED <<win, save, intake, read, calls, stray, wasHeld, presses, surprises>>

\* A write whose caller gave up is taken after all.
TakeStray ==
  /\ \E w \in stray : Holds(Put(service.conf, w.field, w.value)) /\ stray' = stray \ {w}
  /\ UNCHANGED <<win, save, intake, read, calls, wasDone, presses, surprises>>

-----------------------------------------------------------------------------
(* The controller's own helpers.                                             *)

NextId == win.next

\* The fields that do not show what was asked for yet.
Outstanding(edits, conf) == [f \in {g \in DOMAIN edits : (g \in conf) # edits[g]} |-> edits[f]]

\* A pause or resume that was under way is no longer known to have been done;
\* the read that may settle it has to start later than now.
Unverified(p, id) ==
  IF p.id = 0 THEN p ELSE [p EXCEPT !.id = 0, !.doubt = p.id, !.after = id, !.error = TRUE]

\* The document's owner is another app than before: what was under way has an
\* outcome nobody knows, and reads of the new app are the first ones.
ForgottenSave(s) ==
  IF s.id # 0 \/ s.waiting
  THEN [s EXCEPT !.id = 0, !.verified = FALSE, !.waiting = TRUE, !.after = 0, !.uncertain = TRUE, !.failed = FALSE]
  ELSE [s EXCEPT !.verified = FALSE]

\* Mutant of SettledSave: a read that started before the save was over counts.
SettledSaveEarly(s, id, conf, edits) ==
  IF s.waiting /\ s.id = 0 /\ Matches(conf, s.writes)
  THEN [s EXCEPT !.verified = (DOMAIN edits = {}), !.waiting = FALSE] ELSE s

\* A fresh read settles a save: it shows every requested write, or one is
\* missing that is known to have been refused.
SettledSave(s, id, conf, edits) ==
  LET kept == [s EXCEPT !.verified = @ /\ Matches(conf, s.writes)]
  IN  IF ~(s.waiting /\ s.id = 0 /\ id > s.after) THEN kept
      ELSE IF Matches(conf, s.writes)
           THEN [s EXCEPT !.verified = (DOMAIN edits = {}), !.waiting = FALSE, !.failed = FALSE, !.uncertain = FALSE]
           ELSE IF s.uncertain THEN kept
                ELSE [s EXCEPT !.verified = FALSE, !.waiting = FALSE, !.failed = TRUE]

\* Mutant of SettledIntake: a read that started before the answer counts.
SettledIntakeEarly(p, id, capture) ==
  IF p.id # 0 /\ p.id <= id /\ capture = p.wish THEN [p EXCEPT !.id = 0] ELSE p

\* A read that started after the press and after its answer settles it when it
\* shows what was asked for.
SettledIntake(p, id, capture) ==
  LET asked == IF p.id # 0 THEN p.id ELSE p.doubt
  IN  IF asked # 0 /\ asked <= id /\ id > p.after /\ capture = p.wish
      THEN [p EXCEPT !.id = 0, !.doubt = 0, !.error = FALSE] ELSE p

-----------------------------------------------------------------------------
(* The owner of the window.                                                  *)

\* A switch is turned: an edit is kept until a read shows it.
Edit(f) ==
  /\ presses < MaxPresses
  /\ win.doc # Nil
  /\ LET shows == IF f \in DOMAIN win.edits THEN win.edits[f] ELSE f \in win.doc.conf
         others == [g \in DOMAIN win.edits \ {f} |-> win.edits[g]]
     IN  win' = [win EXCEPT !.edits =
                  IF ~shows = (f \in win.doc.conf) THEN others
                  ELSE [g \in DOMAIN win.edits \union {f} |-> IF g = f THEN ~shows ELSE win.edits[g]]]
  /\ UNCHANGED <<service, save, intake, read, calls, stray, wasHeld, wasDone, presses, surprises>>

\* Save is pressed: the edited fields, and no others, are written one by one.
PressSave ==
  /\ presses < MaxPresses /\ NextId <= MaxIds
  /\ save.id = 0 /\ (~save.waiting \/ save.uncertain)
  /\ DOMAIN win.edits # {} /\ win.bus # 0
  /\ save' = [id |-> NextId, writes |-> win.edits, verified |-> FALSE, failed |-> FALSE,
              waiting |-> TRUE, uncertain |-> FALSE, after |-> Never]
  /\ calls' = calls \union {[kind |-> "save", id |-> NextId, bus |-> win.bus, left |-> win.edits, got |-> Nil]}
  /\ win' = [win EXCEPT !.next = @ + 1]
  /\ wasHeld' = FALSE
  /\ presses' = presses + 1
  /\ UNCHANGED <<service, intake, read, stray, wasDone, surprises>>

\* Pause or resume is pressed, whichever the document calls for.
PressIntake ==
  /\ presses < MaxPresses /\ NextId <= MaxIds
  /\ intake.id = 0 /\ win.bus # 0 /\ win.doc # Nil
  /\ LET wish == IF win.doc.capture = "paused" THEN "recording" ELSE "paused"
     IN  /\ intake' = [id |-> NextId, bus |-> win.bus, wish |-> wish, after |-> Never, doubt |-> 0, error |-> FALSE]
         /\ calls' = calls \union {[kind |-> "intake", id |-> NextId, bus |-> win.bus, wish |-> wish, got |-> Nil]}
  /\ win' = [win EXCEPT !.next = @ + 1]
  /\ wasDone' = FALSE
  /\ presses' = presses + 1
  /\ UNCHANGED <<service, save, read, stray, wasHeld, surprises>>

\* Thirty seconds after the press it is no longer waited for.
ExpireIntake ==
  /\ intake.id # 0
  /\ intake' = Unverified(intake, NextId)
  /\ win' = [win EXCEPT !.next = @ + 1]
  /\ wasDone' = (service.capture = intake.wish)
  /\ UNCHANGED <<service, save, read, calls, stray, wasHeld, presses, surprises>>

-----------------------------------------------------------------------------
(* The calls of the buttons.  A call is made to the bus name the window knew *)
(* when the button was pressed.                                              *)

First(left) == CHOOSE f \in DOMAIN left : \A g \in DOMAIN left : f <= g

Going(call, got, left) == (calls \ {call}) \union {[call EXCEPT !.got = got, !.left = left]}

\* The next field is written, and its answer shows it.
WriteTaken(call) ==
  /\ call.kind = "save" /\ call.got = Nil /\ call.bus = service.bus
  /\ LET f == First(call.left)
         left == [g \in DOMAIN call.left \ {f} |-> call.left[g]]
     IN  /\ Holds(Put(service.conf, f, call.left[f]))
         /\ calls' = Going(call, IF DOMAIN left = {} THEN "Complete" ELSE Nil, left)
  /\ UNCHANGED <<win, save, intake, read, stray, wasDone, presses, surprises>>

\* The app refuses it: what follows is not written.
WriteRefused(call) ==
  /\ call.kind = "save" /\ call.got = Nil /\ call.bus = service.bus
  /\ Upset
  /\ calls' = Going(call, "Rejected", << >>)
  /\ UNCHANGED <<service, win, save, intake, read, stray, wasHeld, wasDone, presses>>

\* No answer, or not of the app the window meant.  An app that is still there may
\* take the write now, later or not at all.
WriteLost(call) ==
  /\ call.kind = "save" /\ call.got = Nil
  /\ calls' = Going(call, "Unknown", << >>)
  /\ \/ call.bus # service.bus /\ UNCHANGED <<service, stray, wasHeld, surprises>>
     \/ /\ call.bus = service.bus /\ Upset
        /\ stray' = stray \union {[bus |-> call.bus, field |-> First(call.left), value |-> call.left[First(call.left)]]}
        /\ UNCHANGED <<service, wasHeld>>
  /\ UNCHANGED <<win, save, intake, read, wasDone, presses>>

\* The app is told to pause or resume; it answers before it has done so.
IntakeTaken(call) ==
  /\ call.kind = "intake" /\ call.got = Nil /\ call.bus = service.bus
  /\ service' = [service EXCEPT !.told = call.wish]
  /\ calls' = (calls \ {call}) \union {[call EXCEPT !.got = "ok"]}
  /\ UNCHANGED <<win, save, intake, read, stray, wasHeld, wasDone, presses, surprises>>

IntakeLost(call) ==
  /\ call.kind = "intake" /\ call.got = Nil
  /\ calls' = (calls \ {call}) \union {[call EXCEPT !.got = "error"]}
  /\ \/ call.bus # service.bus /\ UNCHANGED <<service, surprises>>
     \/ call.bus = service.bus /\ Upset /\ service' \in {service, [service EXCEPT !.told = call.wish]}
  /\ UNCHANGED <<win, save, intake, read, stray, wasHeld, wasDone, presses>>

\* The answer of a save reaches the controller, which from now on waits for a
\* read that starts later.
SaveReply(call) ==
  /\ call.kind = "save" /\ call.got # Nil
  /\ calls' = calls \ {call}
  /\ IF call.bus = win.bus /\ call.id = save.id
     THEN /\ save' = [save EXCEPT !.id = 0, !.after = NextId, !.waiting = TRUE, !.failed = FALSE,
                                  !.uncertain = (call.got = "Unknown")]
          /\ win' = [win EXCEPT !.next = @ + 1]
          /\ wasHeld' = Matches(service.conf, save.writes)
     ELSE UNCHANGED <<save, win, wasHeld>>
  /\ UNCHANGED <<service, intake, read, stray, wasDone, presses, surprises>>

IntakeReply(call) ==
  /\ call.kind = "intake" /\ call.got # Nil
  /\ calls' = calls \ {call}
  /\ IF call.bus = win.bus /\ call.id = intake.id
     THEN /\ intake' = IF call.got = "ok" THEN [intake EXCEPT !.after = NextId] ELSE Unverified(intake, NextId)
          /\ win' = [win EXCEPT !.next = @ + 1]
          /\ wasDone' = (service.capture = intake.wish)
     ELSE UNCHANGED <<intake, win, wasDone>>
  /\ UNCHANGED <<service, save, read, stray, wasHeld, presses, surprises>>

-----------------------------------------------------------------------------
(* The status read: one at a time, by the clock or by a button.              *)

StartRead ==
  /\ read = Nil /\ NextId <= MaxIds
  /\ read' = [id |-> NextId, asked |-> FALSE, bus |-> 0, doc |-> Nil]
  /\ win' = [win EXCEPT !.next = @ + 1]
  /\ UNCHANGED <<service, save, intake, calls, stray, wasHeld, wasDone, presses, surprises>>

\* The read finds the app and asks it; it may find none in time, or get no answer.
Asks ==
  /\ read # Nil /\ ~read.asked
  /\ \/ read' = [read EXCEPT !.asked = TRUE, !.bus = service.bus, !.doc = ControlState] /\ UNCHANGED surprises
     \/ Upset /\ read' \in {[read EXCEPT !.asked = TRUE], [read EXCEPT !.asked = TRUE, !.bus = service.bus]}
  /\ UNCHANGED <<service, win, save, intake, calls, stray, wasHeld, wasDone, presses>>

\* set_bus_owner, then apply_status_reply.
Applies ==
  /\ read # Nil /\ read.asked
  /\ read' = Nil
  /\ LET moved == read.bus # win.bus
         s1 == IF moved THEN ForgottenSave(save) ELSE save
         i1 == IF moved THEN Unverified(intake, NextId) ELSE intake
         w1 == IF moved THEN [win EXCEPT !.bus = read.bus, !.doc = Nil, !.last = 0,
                                         !.next = IF intake.id # 0 THEN @ + 1 ELSE @] ELSE win
         dropped == read.bus = 0 \/ read.id < w1.last
         edits == IF read.doc = Nil THEN win.edits ELSE Outstanding(win.edits, read.doc.conf)
     IN  /\ win' = IF dropped THEN w1 ELSE [w1 EXCEPT !.last = read.id, !.doc = read.doc, !.edits = edits]
         /\ save' = IF dropped \/ read.doc = Nil THEN s1 ELSE SettledSave(s1, read.id, read.doc.conf, edits)
         /\ intake' = IF dropped \/ read.doc = Nil THEN i1 ELSE SettledIntake(i1, read.id, read.doc.capture)
         /\ wasHeld' = IF moved THEN Matches(service.conf, save.writes)
                                   \/ (read.doc # Nil /\ Matches(read.doc.conf, save.writes))
                    ELSE wasHeld
         /\ wasDone' = IF moved /\ intake.id # 0 THEN service.capture = intake.wish ELSE wasDone
  /\ UNCHANGED <<service, calls, stray, presses, surprises>>

-----------------------------------------------------------------------------
Next ==
  \/ OtherWrites \/ OtherPauses \/ Replaced \/ Obey \/ TakeStray
  \/ PressSave \/ PressIntake \/ ExpireIntake
  \/ StartRead \/ Asks \/ Applies
  \/ \E f \in Fields : Edit(f)
  \/ \E call \in calls :
       \/ WriteTaken(call) \/ WriteRefused(call) \/ WriteLost(call) \/ SaveReply(call)
       \/ IntakeTaken(call) \/ IntakeLost(call) \/ IntakeReply(call)

Spec == Init /\ [][Next]_wvars

-----------------------------------------------------------------------------
\* Settings are called saved only on a read that the app answered when it held
\* every one of them and the window had learned how the save ended, not on one
\* asked before (saved_requires_a_read_started_after_write_completion).
SavedWasHeld == save'.verified /\ ~save.verified => wasHeld'

\* A pause or resume stops being waited for, without an error, only after the
\* app did it with the window knowing how the press ended.
DoneWasDone ==
  (intake.id # 0 \/ intake.doubt # 0) /\ intake'.id = 0 /\ intake'.doubt = 0 => wasDone'
=============================================================================
