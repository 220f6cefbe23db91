------------------------------ MODULE Settings ------------------------------
(* The settings file, config.json, and everyone who writes it                 *)
(* (src/config.rs, private_file.rs, window_control.rs, cli.rs, shell.rs).     *)
(*                                                                            *)
(* A writer takes the lock of its process, copies the file an older release   *)
(* left elsewhere, reads what is there, lays its own keys over it and renames *)
(* a new file over the old one if the old one is still what it read.  The     *)
(* command line is a process of its own and does not share that lock; the     *)
(* owner's editor takes none.  Files of older releases carry an older version *)
(* and values those releases wrote by themselves.                             *)
EXTENDS Naturals

CONSTANTS MaxWrites, MaxUpsets, Nil

VARIABLES
  file,    \* config.json: its map, half copied or whole, or Nil
  old,     \* the config.json of an older release, where that kept it, or Nil
  legacy,  \* what the older release had in it
  daemon,  \* the app: "down", "starting" or "up"
  live,    \* the activity policy the running app keeps to, or Nil
  writer,  \* the write each writer is in the middle of (checked: ghost, what it last looked at)
  writes, upsets, \* writes begun, and failures, deaths and hand edits, bounded
  last,    \* ghost: who changed the file last
  said,    \* ghost: said[k]: what k was last saved as, or Nil
  agreed   \* ghost: the owner turned page addresses on, with the consent

svars == <<file, old, legacy, daemon, live, writer, writes, upsets, last, said, agreed>>

\* Other writers of the app (the panel offer, the stream name) save one key each.
Writers == {"window", "aside", "command"}
Process(w) == IF w = "command" THEN "command" ELSE "app"

\* A key of each kind: a setting, a preference, two choices of the activity policy.
Keys == {"cursor", "offer", "source", "urls"}
PreVersion == {"source", "urls"}
Frozen == {"cursor", "offer"}     \* dropped before version 2 where TRUE, their default then
Nothing == [k \in Keys |-> Nil]
Only(k, v) == [Nothing EXCEPT ![k] = v]
Map(n, s, c) == [version |-> n, set |-> s, consent |-> c, whole |-> TRUE]
Torn == [version |-> 0, set |-> Nothing, consent |-> FALSE, whole |-> FALSE]
Readable(f) == f # Nil /\ f.whole

\* What earlier releases left: the defaults they wrote out, and the consent with
\* them whether or not addresses were on.
Left == {Map(0, [cursor |-> TRUE, offer |-> Nil, source |-> FALSE, urls |-> FALSE], TRUE),
         Map(0, [cursor |-> FALSE, offer |-> TRUE, source |-> TRUE, urls |-> TRUE], TRUE)}
Found == Left \cup {Map(1, [cursor |-> TRUE, offer |-> FALSE, source |-> FALSE, urls |-> Nil], FALSE)}

-----------------------------------------------------------------------------
(* What a file says *)

\* address_consent_given, activity_choices_are_owner_set and saved_activity_value.
Consented(f) == f.consent /\ (f.version >= 1 \/ f.set["urls"] = TRUE)
Choice(f, k) == IF f.version = 0 \/ f.set[k] = Nil THEN TRUE ELSE f.set[k]

\* load_config: a file that cannot be read is one that says nothing.
PolicyOf(f) ==
  IF Readable(f) THEN [source |-> Choice(f, "source"), urls |-> Choice(f, "urls") /\ Consented(f)]
  ELSE [source |-> TRUE, urls |-> FALSE]

\* What of a file's values its owner chose, as far as the file can tell.
Chosen(f) ==
  [k \in Keys |-> IF \/ k \in PreVersion /\ f.version < 1
                     \/ k \in Frozen /\ f.version < 2 /\ f.set[k] = TRUE THEN Nil ELSE f.set[k]]

\* Mutant of Upgraded: saved defaults are dropped from every file.
UpgradedAlways(f) ==
  [version |-> 2, whole |-> TRUE, consent |-> Consented(f),
   set |-> [k \in Keys |-> IF k \in Frozen /\ f.set[k] = TRUE THEN Nil ELSE Chosen(f)[k]]]

\* Mutant of Upgraded: the consent stays as it was found.
UpgradedKeepsConsent(f) == [version |-> 2, whole |-> TRUE, consent |-> f.consent, set |-> Chosen(f)]

\* The one-time drops of write_config_merge, each pinned to its version.
Upgraded(f) == [version |-> 2, whole |-> TRUE, consent |-> Consented(f), set |-> Chosen(f)]

Overlaid(f, put) ==
  LET base == Upgraded(IF f = Nil THEN Map(0, Nothing, FALSE) ELSE f)
  IN [base EXCEPT !.set = [k \in Keys |-> IF put[k] # Nil THEN put[k] ELSE @[k]],
                  !.consent = @ \/ put["urls"] # Nil]

-----------------------------------------------------------------------------
Idle == [at |-> "idle", kind |-> Nil, put |-> Nothing, basis |-> Nil, checked |-> Nil]

Upset == upsets < MaxUpsets /\ upsets' = upsets + 1

Init ==
  /\ \/ file \in Found \cup {Nil} /\ old = Nil
     \/ file = Nil /\ old \in Left
  /\ legacy = old
  /\ daemon = "down" /\ live = Nil /\ writer = [w \in Writers |-> Idle]
  /\ writes = 0 /\ upsets = 0 /\ last = Nil
  /\ said = (IF file # Nil THEN Chosen(file) ELSE IF old # Nil THEN Chosen(old) ELSE Nothing)
  /\ agreed = (\E f \in {file, old} \ {Nil} : Consented(f) /\ f.set["urls"] = TRUE)

\* Somebody has put another file where config.json was: what it does not say is lost.
Forgiven(w, f) == IF file # f /\ last # Process(w) THEN Nothing ELSE said

-----------------------------------------------------------------------------
(* One write: write_config_merge *)

\* Mutant of Locked: no lock between the writers of a process.
NotLocked(w) == writer[w].at # "idle"

\* The write lock of the process is held.
Locked(w) == \E v \in Writers : Process(v) = Process(w) /\ writer[v].at # "idle"

Begin(w, kind, put) ==
  /\ ~Locked(w) /\ writes < MaxWrites /\ writes' = writes + 1
  /\ writer' = [writer EXCEPT ![w] = [Idle EXCEPT !.at = "begin", !.kind = kind, !.put = put]]

Following == [begin |-> "copy", copy |-> "fill", fill |-> "remove", rename |-> "report"]

At(w, at) == writer[w].at = at /\ writer' = [writer EXCEPT ![w].at = Following[at]]

\* What the app keeps to when the write of its start has ended.
Ends(w, policy) ==
  /\ writer' = [writer EXCEPT ![w] = Idle]
  /\ IF writer[w].kind = "start" THEN daemon' = "up" /\ live' = policy
     ELSE UNCHANGED daemon /\ live' = IF writer[w].kind = "policy" THEN policy ELSE live

\* The write gives up: nothing of the policy changes but at a start, which goes
\* on with what load_config read.
GivesUp(w, read) ==
  /\ writer' = [writer EXCEPT ![w] = Idle]
  /\ IF writer[w].kind = "start" THEN daemon' = "up" /\ live' = PolicyOf(read) ELSE UNCHANGED <<daemon, live>>

\* migrate_locked: the file of an older release is copied if there is none...
Migrates(w) ==
  /\ file = Nil /\ old # Nil /\ At(w, "begin")
  /\ UNCHANGED <<file, old, legacy, daemon, live, writes, upsets, last, said, agreed>>

\* ... which empties the file that is there when the copy begins...
CopyBegins(w) ==
  /\ old # Nil /\ At(w, "copy")
  /\ file' = Torn /\ last' = Process(w) /\ said' = Forgiven(w, Nil)
  /\ UNCHANGED <<old, legacy, daemon, live, writes, upsets, agreed>>

CopyFails(w) ==
  /\ old = Nil /\ writer[w].at = "copy" /\ GivesUp(w, file)
  /\ UNCHANGED <<file, old, legacy, writes, upsets, last, said, agreed>>

\* ... and ends in the file it opened, if that has not been replaced...
CopyEnds(w) ==
  /\ At(w, "fill") /\ file' = (IF file = Torn THEN legacy ELSE file)
  /\ UNCHANGED <<old, legacy, daemon, live, writes, upsets, last, said, agreed>>

\* ... and then the older one goes.
CopiedGoes(w) ==
  /\ writer[w].at = "remove" /\ old' = Nil
  /\ writer' = [writer EXCEPT ![w].at = "read"]
  /\ UNCHANGED <<file, legacy, daemon, live, writes, upsets, last, said, agreed>>

NothingToMigrate(w) ==
  /\ writer[w].at = "begin" /\ (file # Nil \/ old = Nil)
  /\ writer' = [writer EXCEPT ![w].at = "read"]
  /\ UNCHANGED <<file, old, legacy, daemon, live, writes, upsets, last, said, agreed>>

\* A command that only loads the settings is done when it has migrated them.
Read(w) ==
  /\ writer[w].at = "read"
  /\ IF writer[w].kind = "load" \/ (file # Nil /\ ~file.whole) THEN GivesUp(w, file)
     ELSE writer' = [writer EXCEPT ![w] = [@ EXCEPT !.at = "check", !.basis = file]] /\ UNCHANGED <<daemon, live>>
  /\ UNCHANGED <<file, old, legacy, writes, upsets, last, said, agreed>>

\* Mutant of IsCurrent: whatever is there is replaced.
IsCurrentAlways(w) == TRUE

\* is_current: the file is byte for byte the one that was read.
IsCurrent(w) == file = writer[w].basis

Checks(w) ==
  /\ writer[w].at = "check" /\ IsCurrent(w)
  /\ writer' = [writer EXCEPT ![w] = [@ EXCEPT !.at = "rename", !.checked = file]]
  /\ UNCHANGED <<file, old, legacy, daemon, live, writes, upsets, last, said, agreed>>

\* The temporary file could not be written, or the settings have changed.
WriteFails(w) ==
  /\ writer[w].at = "check" /\ GivesUp(w, writer[w].basis)
  /\ IF IsCurrent(w) THEN Upset ELSE UNCHANGED upsets
  /\ UNCHANGED <<file, old, legacy, writes, last, said, agreed>>

Document(w) == Overlaid(writer[w].basis, writer[w].put)

Renames(w) ==
  /\ At(w, "rename") /\ file' = Document(w) /\ last' = Process(w)
  /\ said' = [k \in Keys |-> IF writer[w].put[k] # Nil THEN writer[w].put[k]
                             ELSE Forgiven(w, writer[w].checked)[k]]
  /\ agreed' = (agreed \/ writer[w].put["urls"] = TRUE)
  /\ UNCHANGED <<old, legacy, daemon, live, writes, upsets>>

\* The answer: the app keeps to what was saved...
Saved(w) ==
  /\ writer[w].at = "report" /\ Ends(w, PolicyOf(Document(w)))
  /\ UNCHANGED <<file, old, legacy, writes, upsets, last, said, agreed>>

\* ... and to what it kept to, with the new file in place, if that could not be synced.
NotSynced(w) ==
  /\ writer[w].at = "report" /\ Upset
  /\ GivesUp(w, writer[w].basis)
  /\ UNCHANGED <<file, old, legacy, writes, last, said, agreed>>

-----------------------------------------------------------------------------
(* Who writes *)

\* prepare_run_config: the start loads, and saves the file in its own form.
AppStarts ==
  /\ daemon = "down" /\ daemon' = "starting" /\ Begin("window", "start", Nothing)
  /\ UNCHANGED <<file, old, legacy, live, upsets, last, said, agreed>>

\* handle_write_setting: a setting, or choices of the policy in one write.  A
\* choice written by itself may only make the policy stricter; it is saved and
\* applied as one of the policy is.
WindowWrites ==
  /\ daemon = "up"
  /\ \/ Begin("window", "setting", Only("cursor", FALSE))
     \/ \E v \in BOOLEAN : \/ Begin("window", "policy", Only("urls", v))
                           \/ Begin("window", "policy", Only("source", v))
  /\ UNCHANGED <<file, old, legacy, daemon, live, upsets, last, said, agreed>>

\* set_panel_icon_offer and save_linked_stream, from other tasks of the app.
AsideWrites ==
  /\ daemon = "up" /\ Begin("aside", "setting", Only("offer", FALSE))
  /\ UNCHANGED <<file, old, legacy, daemon, live, upsets, last, said, agreed>>

\* cmd_settings: an answered prompt is written, one that was not is not; other
\* commands only load.
CommandWrites ==
  /\ \/ Begin("command", "setting", Only("cursor", TRUE))
     \/ old # Nil /\ Begin("command", "load", Nothing)  \* without one it changes nothing
  /\ UNCHANGED <<file, old, legacy, daemon, live, upsets, last, said, agreed>>

\* The owner's editor saves the file with one value changed.
HandEdit ==
  /\ Readable(file) /\ file.version = 2 /\ Upset
  /\ \E k \in {"offer", "source", "urls"} : LET v == file.set[k] # TRUE IN
       /\ file' = [file EXCEPT !.set[k] = v] /\ said' = [said EXCEPT ![k] = v]
       /\ agreed' = (agreed \/ (k = "urls" /\ v))
  /\ last' = "hand"
  /\ UNCHANGED <<old, legacy, daemon, live, writer, writes>>

\* A process dies in the middle of what it writes.
Dies(p) ==
  /\ Upset
  /\ IF p = "app" THEN daemon # "down" /\ daemon' = "down" /\ live' = Nil
     ELSE writer["command"] # Idle /\ UNCHANGED <<daemon, live>>
  /\ writer' = [w \in Writers |-> IF Process(w) = p THEN Idle ELSE writer[w]]
  /\ UNCHANGED <<file, old, legacy, writes, last, said, agreed>>

Next ==
  \/ AppStarts \/ WindowWrites \/ AsideWrites \/ CommandWrites \/ HandEdit
  \/ \E p \in {"app", "command"} : Dies(p)
  \/ \E w \in Writers :
       \/ Migrates(w) \/ CopyBegins(w) \/ CopyFails(w) \/ CopyEnds(w) \/ CopiedGoes(w) \/ NothingToMigrate(w)
       \/ Read(w) \/ Checks(w) \/ WriteFails(w) \/ Renames(w) \/ Saved(w) \/ NotSynced(w)

Spec == Init /\ [][Next]_svars

-----------------------------------------------------------------------------
(* What must hold *)

Maps == [version : 0..2, set : [Keys -> {TRUE, FALSE, Nil}], consent : BOOLEAN, whole : BOOLEAN]

TypeOK ==
  /\ {file, old, legacy} \subseteq Maps \cup {Nil}
  /\ daemon \in {"down", "starting", "up"} /\ live \in [source : BOOLEAN, urls : BOOLEAN] \cup {Nil}
  /\ \A w \in Writers :
       /\ writer[w].at \in {"idle", "begin", "copy", "fill", "remove", "read", "check", "rename", "report"}
       /\ writer[w].put \in [Keys -> {TRUE, FALSE, Nil}] /\ writer[w].basis \in Maps \cup {Nil}
  /\ writes \in 0..MaxWrites /\ upsets \in 0..MaxUpsets
  /\ said \in [Keys -> {TRUE, FALSE, Nil}] /\ agreed \in BOOLEAN
  /\ last \in {Nil, "app", "command", "hand"}

\* A value that was saved stays until the same value is saved again: no other
\* write, upgrade or crash takes it away, but one that another process has begun
\* to put in place in the moment it was saved.  Before the copy of an older file
\* is whole, it is that file that has it.
SavedStays ==
  \A k \in Keys : said[k] # Nil =>
    IF Readable(file) THEN file.set[k] = said[k] ELSE old # Nil /\ Chosen(old)[k] = said[k]

\* Page addresses are read only when the owner turned them on with the consent,
\* whatever an older release wrote, and whatever a later save makes of it.
AddressesAreAgreed == \A p \in {live, PolicyOf(file)} \ {Nil} : p.urls => agreed
=============================================================================
