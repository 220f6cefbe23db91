--------------------------- MODULE JournalDetails ---------------------------
(* What the app knows of the journal it is paired with: its version, its name *)
(* and its About text (src/private_link.rs: LinkFacts, PrivateLinkOpener;     *)
(* private_link_optional.rs, private_link_metadata.rs, sync_health.rs,        *)
(* about.rs).                                                                 *)
(*                                                                            *)
(* The journal is dialed over two carriers: the main one, and one of the      *)
(* optional lane's own.  A proven main carrier starts an attempt that asks    *)
(* the journal for its details and keeps them in a file beside the facts;     *)
(* the window, another process, reads both.  The journal may be replaced by   *)
(* a newer version, and the pairing by another one.                           *)
EXTENDS Integers, FiniteSets

CONSTANTS Journals, MaxVersion, MaxOwners, MaxDials, MaxEvents, Nil

VARIABLES
  journals,  \* journals[j]: the version j runs
  owner,     \* the owner of the link: its journal, or Nil
  fenced,    \* the owner's writer and opener take no more work
  epoch,     \* association_epoch
  known,     \* LinkFactState: [proven, registered, unavailable, revoked, observed, gen, optional]
  dials,     \* dials[lane]: the association a dial under way began with, or Nil
  dialed,    \* dials made, of this owner (the opener's generation) and in all
  lane,      \* the optional lane: [busy, pending, passes, last]
  attempt,   \* the attempt under way, or Nil
  details,   \* paired_journal.json: [id, said, about], or Nil
  events,    \* upgrades, refusals and leases run out, bounded
  saved      \* ghost: <<epoch, dial>> the details were saved under

jvars == <<journals, owner, fenced, epoch, known, dials, dialed, lane, attempt, details, events, saved>>

NoFacts == [proven |-> FALSE, registered |-> FALSE, unavailable |-> FALSE, revoked |-> FALSE,
            observed |-> FALSE, gen |-> 0, optional |-> FALSE]
IdleLane == [busy |-> FALSE, pending |-> FALSE, passes |-> 0, last |-> Nil]
Event == events < MaxEvents /\ events' = events + 1

NoDials == [main |-> Nil, optional |-> Nil]

\* What journal j answers now: its details are of one version.
Says(j) == [by |-> j, version |-> journals[j]]

Init ==
  /\ journals = [j \in Journals |-> 1] /\ owner = Nil /\ fenced = FALSE /\ epoch = 0
  /\ known = NoFacts /\ dials = NoDials /\ dialed = [owner |-> 0, all |-> 0]
  /\ lane = IdleLane /\ attempt = Nil /\ details = Nil /\ saved = Nil
  /\ events = 0

-----------------------------------------------------------------------------
(* Owners *)

\* A write that has passed its checks holds the writer and the state lock.
Writing == attempt # Nil /\ attempt.at \in {"saving", "keeping"}

StartOwner(j) ==
  /\ owner = Nil /\ epoch < 2 * MaxOwners /\ ~Writing
  /\ owner' = j /\ fenced' = FALSE /\ epoch' = epoch + 1 /\ known' = NoFacts
  /\ dialed' = [dialed EXCEPT !.owner = 0]
  /\ UNCHANGED <<journals, dials, lane, attempt, details, events, saved>>

\* fence_shutdown of the writer and the opener, and the leases with them...
Fence ==
  /\ owner # Nil /\ ~fenced /\ fenced' = TRUE
  /\ attempt' = IF attempt = Nil THEN Nil ELSE [attempt EXCEPT !.lease = FALSE]
  /\ UNCHANGED <<journals, owner, epoch, known, dials, dialed, lane, details, events, saved>>

\* ... and the owner is lost.
OwnerLost ==
  /\ fenced /\ owner # Nil /\ owner' = Nil /\ epoch' = epoch + 1
  /\ known' = [NoFacts EXCEPT !.unavailable = TRUE]
  /\ UNCHANGED <<journals, fenced, dials, dialed, lane, attempt, details, events, saved>>

\* The journal restarts with a newer version: its carriers end.
Upgrade(j) ==
  /\ Event /\ owner = j /\ journals[j] < MaxVersion /\ journals' = [journals EXCEPT ![j] = @ + 1]
  /\ UNCHANGED <<owner, fenced, epoch, known, dials, dialed, lane, attempt, details, saved>>

-----------------------------------------------------------------------------
(* The optional lane *)

Usable(f) == f.proven /\ ~f.unavailable /\ ~f.revoked

\* trigger: the lane l, and whether it starts an attempt, when the facts are f.
SameTrigger(l, f) == l.last = <<epoch, f.gen>>
Triggered(l, f) ==
  IF ~Usable(f) \/ f.optional \/ SameTrigger(l, f) THEN [lane |-> l, starts |-> FALSE]
  ELSE LET n == [(IF l.last = Nil \/ l.last[1] # epoch THEN IdleLane ELSE l) EXCEPT !.last = <<epoch, f.gen>>]
           m == IF n.busy THEN n ELSE [n EXCEPT !.passes = 0]
       IN IF m.busy THEN [lane |-> [m EXCEPT !.pending = TRUE], starts |-> FALSE]
          ELSE [lane |-> [m EXCEPT !.busy = TRUE, !.pending = FALSE, !.passes = @ + 1], starts |-> TRUE]

NewAttempt == [at |-> "ask", epoch |-> epoch, writer |-> owner, lease |-> TRUE, put |-> 0, dial |-> 0,
               said |-> Nil, about |-> Nil]

\* A fact is published: the sink keeps it and triggers the lane, and a new
\* attempt makes the lease of the one before it void.
Publishes(f) ==
  LET t == Triggered(lane, f) IN
  /\ known' = f /\ lane' = t.lane
  /\ attempt' = IF t.starts THEN NewAttempt ELSE attempt

-----------------------------------------------------------------------------
(* Dials *)

\* begin_journal_dial: only a main dial says anything of the main carrier.
BeginDial(which) ==
  /\ owner # Nil /\ ~fenced /\ dials[which] = Nil /\ dialed.all < MaxDials
  /\ (which = "optional" => attempt # Nil /\ attempt.lease)
  /\ dials' = [dials EXCEPT ![which] = epoch]
  /\ dialed' = [dialed EXCEPT !.all = @ + 1]
  /\ known' = [known EXCEPT !.observed = FALSE, !.proven = (which = "optional" /\ @)]
  /\ UNCHANGED <<journals, owner, fenced, epoch, lane, attempt, details, events, saved>>

\* Mutant of Proven: a version observed over an earlier dial stands.
ProvenKeeps(f, gen, optional) == [f EXCEPT !.gen = gen, !.optional = optional, !.proven = TRUE]

\* publish_with_source(CarrierProven): nothing is observed over this dial yet.
Proven(f, gen, optional) ==
  [f EXCEPT !.gen = gen, !.optional = optional, !.proven = TRUE,
            !.observed = @ /\ f.gen = gen]

\* The carrier stands: CarrierProven, then ObserverRegistered, each only for
\* the association the dial began with and while the opener is open.
DialProves(which) ==
  /\ dials[which] # Nil
  /\ dials' = [dials EXCEPT ![which] = Nil]
  /\ IF dials[which] = epoch /\ ~fenced
     THEN LET f == Proven(known, dialed.owner + 1, which = "optional")
          IN /\ dialed' = [dialed EXCEPT !.owner = @ + 1]
             /\ Publishes([f EXCEPT !.registered = TRUE, !.unavailable = FALSE])
     ELSE UNCHANGED <<dialed, known, lane, attempt>>
  /\ UNCHANGED <<journals, owner, fenced, epoch, details, events, saved>>

DialFails(which) ==
  /\ dials[which] # Nil /\ dials' = [dials EXCEPT ![which] = Nil]
  /\ UNCHANGED <<journals, owner, fenced, epoch, known, dialed, lane, attempt, details, events, saved>>

\* An answer, or the relay token that could not be kept, closes the link.
LinkRefused(why) ==
  /\ Event /\ owner # Nil /\ ~fenced /\ known.proven /\ ~known[why]
  /\ known' = [known EXCEPT ![why] = TRUE, !.observed = FALSE]
  /\ UNCHANGED <<journals, owner, fenced, epoch, dials, dialed, lane, attempt, details, saved>>

-----------------------------------------------------------------------------
(* One attempt: execute_metadata_sync *)

At(p) == attempt # Nil /\ attempt.at = p
Go(p) == attempt' = [attempt EXCEPT !.at = p]
Rest == UNCHANGED <<journals, owner, fenced, epoch, dials, dialed, lane>>

\* metadata_owner_is_current, with the fence and the lease: asked before a file
\* is written, and again before it takes the place of the old one.
MayPublish == ~fenced /\ attempt.lease /\ attempt.epoch = epoch /\ Usable(known)

\* A request is answered as long as the lease and the owner last.
Asking == attempt.lease /\ attempt.epoch = epoch

\* GET clients/self, or the status of a journal that does not know it.
Asks ==
  /\ At("ask") \/ At("asks again")
  /\ \/ /\ Asking
        /\ attempt' = [attempt EXCEPT !.at = "save", !.said = Says(owner)]
     \/ /\ At("ask") /\ Asking   \* 404
        /\ attempt' = [attempt EXCEPT !.at = "save last", !.said = Says(owner)]
     \/ Go("about")
  /\ UNCHANGED <<known, details, events, saved>> /\ Rest

\* GET about, at any moment of it.
AsksAbout ==
  /\ attempt # Nil /\ attempt.about = Nil /\ Asking
  /\ attempt' = [attempt EXCEPT !.about = Says(owner)]
  /\ UNCHANGED <<known, details, events, saved>> /\ Rest

BeginSave ==
  /\ At("save") \/ At("save last")
  /\ IF MayPublish
     THEN attempt' = [attempt EXCEPT !.at = "saving", !.dial = known.gen,
                                     !.put = IF At("save last") THEN 2 ELSE @]
     ELSE Go("about")
  /\ UNCHANGED <<known, details, events, saved>> /\ Rest

\* What is known of the version stays with it: a file of the same journal and
\* version keeps its About text.
Save ==
  /\ At("saving")
  /\ \/ /\ MayPublish /\ Go("noting")
        /\ details' = [id |-> attempt.writer, said |-> attempt.said,
                       about |-> IF details # Nil /\ details.id = attempt.writer
                                    /\ details.said.version = attempt.said.version
                                 THEN details.about ELSE Nil]
        /\ saved' = <<epoch, attempt.dial>>
     \/ Go("about") /\ UNCHANGED <<details, saved>>
  /\ UNCHANGED <<known, events>> /\ Rest

\* note_metadata_saved, outside the writer's lock.
NoteSaved ==
  /\ At("noting")
  /\ Go(IF attempt.put < 2 THEN "compare" ELSE "about")
  /\ known' = [known EXCEPT !.observed =
                 @ \/ (attempt.epoch = epoch /\ known.gen = attempt.dial /\ Usable(known))]
  /\ UNCHANGED <<details, events, saved>> /\ Rest

\* What the journal holds of this device is what it says of itself now, or it is
\* put; a conflict is asked about again, once.
Compare ==
  /\ At("compare")
  /\ \/ Go("about")
     \/ /\ Asking
        /\ attempt' = [attempt EXCEPT !.at = "save last", !.said = Says(owner)]
     \/ attempt.put = 0 /\ attempt' = [attempt EXCEPT !.at = "asks again", !.put = 1]
  /\ UNCHANGED <<known, details, events, saved>> /\ Rest

\* Mutant of SaveAbout's guard: the version is not compared.
AboutFitsAnyone(said) == details # Nil /\ details.id = attempt.writer

AboutFits(said) ==
  details # Nil /\ details.id = attempt.writer /\ details.said.version = said.version

\* Both answers are in: the About text is kept if it is of the version kept.
SaveAbout ==
  /\ At("about")
  /\ IF attempt.about # Nil /\ MayPublish /\ AboutFits(attempt.about)
     THEN attempt' = [attempt EXCEPT !.at = "keeping", !.said = attempt.about]
     ELSE Go("done")
  /\ UNCHANGED <<known, details, events, saved>> /\ Rest

KeepAbout ==
  /\ At("keeping") /\ Go("done")
  /\ \/ MayPublish /\ details' = [details EXCEPT !.about = attempt.said]
     \/ UNCHANGED details
  /\ UNCHANGED <<known, events, saved>> /\ Rest

\* The lease runs out: whatever is asked is given up.
Expire ==
  /\ Event /\ attempt # Nil /\ attempt.lease
  /\ attempt' = [attempt EXCEPT !.lease = FALSE]
  /\ UNCHANGED <<known, details, saved>> /\ Rest

\* run_lane: one more pass if something came up meanwhile.
EndPass ==
  /\ At("done")
  /\ IF attempt.epoch = epoch /\ lane.pending /\ lane.passes < 2
     THEN /\ lane' = [lane EXCEPT !.pending = FALSE, !.passes = @ + 1]
          /\ attempt' = NewAttempt
     ELSE /\ lane' = [lane EXCEPT !.busy = (@ /\ attempt.epoch # epoch)]
          /\ attempt' = Nil
  /\ UNCHANGED <<journals, owner, fenced, epoch, known, dials, dialed, details, events, saved>>

Next ==
  \/ \E j \in Journals : StartOwner(j) \/ Upgrade(j)
  \/ Fence \/ OwnerLost
  \/ \E which \in {"main", "optional"} : BeginDial(which) \/ DialProves(which) \/ DialFails(which)
  \/ \E why \in {"unavailable", "revoked"} : LinkRefused(why)
  \/ Asks \/ AsksAbout \/ BeginSave \/ Save \/ NoteSaved \/ Compare
  \/ SaveAbout \/ KeepAbout \/ Expire \/ EndPass

Spec == Init /\ [][Next]_jvars

-----------------------------------------------------------------------------
(* What is shown, and what must hold *)

\* The status line and the About block of a device paired with j.
Shown(j) ==
  IF details = Nil \/ details.id # j THEN Nil
  ELSE [said |-> details.said, about |-> details.about,
        current |-> owner # Nil /\ known.observed /\ known.proven /\ ~known.unavailable]

TypeOK ==
  /\ owner \in Journals \cup {Nil} /\ epoch \in 0..2 * MaxOwners
  /\ known.gen \in 0..MaxDials /\ lane.passes \in 0..2
  /\ (attempt # Nil => attempt.put \in 0..2)

\* What is shown of a journal was said by that journal, all of it by the same
\* version, and nothing is shown as current that was not saved by the owner of
\* now, after the latest dial.
ShownIsItsOwn ==
  \A j \in Journals :
    LET s == Shown(j) IN
    s # Nil =>
      /\ s.said.by = j /\ s.about \in {Nil, s.said}
      /\ (s.current => owner = j /\ saved = <<epoch, known.gen>>)
=============================================================================
