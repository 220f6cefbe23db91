--------------------------- MODULE BrowserCustody ---------------------------
(***************************************************************************)
(* What the app holds for the journal from the browser: custody.rs, with   *)
(* the sync worker that takes finished periods away (sync.rs) and the      *)
(* extension on the other side of the socket.                              *)
(*                                                                         *)
(* A batch is accepted by three writes: its records to the pages file of   *)
(* the open period, a receipt that covers them, and its identity to the    *)
(* evidence file, which outlives both.  A finished period is renamed into  *)
(* a capture segment.  Whoever removes a directory first writes tombstones *)
(* for its identities, then unlinks pages, receipts and directory in this  *)
(* order.  The process may die between any two of these steps.             *)
(*                                                                         *)
(* What is abstracted.  A batch is one record as long as any other.  The   *)
(* map of receipts in memory only names periods in replies: the evidence   *)
(* decides what is a duplicate.  Refusals that change nothing (age, size,  *)
(* a full queue) are left out.                                             *)
(***************************************************************************)
EXTENDS Naturals, Sequences, FiniteSets

CONSTANTS
  Batches,         \* identities (inst, batch_id)
  Snapshots,       \* those that start with a segment_start record
  Context,         \* Context[b]: the page the batch is about
  MaxPeriods,      \* bound: period directories ever made
  FileMax,         \* batches a pages file can hold
  MaxFaults,       \* bound: file operations that fail
  MaxRemovals,     \* bound: segments the journal answers segment_removed for
  NoBatch

ASSUME CustodyAssumption ==
  /\ Snapshots \subseteq Batches /\ NoBatch \notin Batches
  /\ MaxPeriods \in Nat \ {0} /\ FileMax \in Nat \ {0}
  /\ MaxFaults \in Nat /\ MaxRemovals \in Nat

Periods  == 1..MaxPeriods
Contexts == {Context[b] : b \in Batches}
NoPeriod == 0

VARIABLES
  \* on disk
  place,      \* the directory of a period: "none", "open", "segment" or "gone"
  pages,      \* the batches in its pages file; <<>> if there is none
  receipts,   \* the batches its receipts file names; <<>> if there is none
  acked,      \* it has an acknowledgement marker
  evidence,   \* the evidence file: "no", "accepted" or "removed" for each batch
  \* Custody
  custody,    \* "down", "opening", "open", or "unavailable" when open failed
  known,      \* the evidence in memory
  period, committed, contexts,   \* the period that takes batches
  unfinished, reserved,
  job,        \* what the holder of the custody lock is doing
  batch,      \* the batch being accepted
  todo,       \* directories discard_pending has still to remove
  \* the sync worker
  sync, segment,
  \* the extension, and observation
  dropped,    \* batches the extension was told it may forget
  delivered,  \* of each period, the batches the journal received from it
  discarded,  \* batches their owner discarded
  withdrawn,  \* batches the journal's answer said to remove
  unsynced,   \* batches whose receipt was written and failed to sync
  mixed,      \* batches kept under another's receipt, and those it names
  faults, removals  \* what may still go wrong

diskVars  == <<place, pages, receipts, acked, evidence>>
memVars   == <<custody, known, period, committed, contexts, unfinished>>
jobVars   == <<job, batch, todo>>
syncVars  == <<sync, segment, reserved>>
wordVars  == <<dropped, delivered, discarded, withdrawn, unsynced>>
ghostVars == <<wordVars, mixed>>
vars == <<diskVars, memVars, jobVars, syncVars, ghostVars, faults, removals>>

Kinds == {"no", "accepted", "removed"}

TypeOK ==
  /\ place \in [Periods -> {"none", "open", "segment", "gone"}]
  /\ pages \in [Periods -> Seq(Batches)] /\ receipts \in [Periods -> Seq(Batches)]
  /\ acked \in [Periods -> BOOLEAN] /\ evidence \in [Batches -> Kinds]
  /\ custody \in {"down", "opening", "open", "unavailable"} /\ known \in [Batches -> Kinds]
  /\ period \in Periods \cup {NoPeriod} /\ committed \in Nat /\ contexts \subseteq Contexts
  /\ unfinished \subseteq Periods /\ reserved \subseteq Periods
  /\ job \in {"free", "pages", "receipt", "evidence", "tombstone", "unlink", "rmdir"}
  /\ batch \in Batches \cup {NoBatch} /\ todo \subseteq Periods
  /\ sync \in {"idle", "sending", "confirmed", "unlink", "rmdir", "purge", "purging"}
  /\ segment \in Periods \cup {NoPeriod}
  /\ dropped \subseteq Batches /\ delivered \in [Periods -> SUBSET Batches]
  /\ discarded \subseteq Batches /\ withdrawn \subseteq Batches
  /\ unsynced \subseteq Batches /\ mixed \subseteq Batches
  /\ faults \in 0..MaxFaults /\ removals \in 0..MaxRemovals

-----------------------------------------------------------------------------
(* Reading a directory *)

Content(s) == {s[i] : i \in DOMAIN s}
Least(a, b) == IF a < b THEN a ELSE b
First(S) == CHOOSE p \in S : \A q \in S : p <= q

\* read_receipts: the receipts that lie within the payload on disk.
Covered(p) == SubSeq(receipts[p], 1, Least(Len(receipts[p]), Len(pages[p])))

\* truncate_to_receipts: what is left of the payload, whatever the receipts call it.
Kept(p) == SubSeq(pages[p], 1, Len(Covered(p)))

\* The text of one batch under the receipt of another: after a receipt failed to
\* sync, the next batch is written where the one that receipt names was.
MixedIn(S) ==
  {b \in Batches : \E p \in S : \E i \in DOMAIN Covered(p) :
     Covered(p)[i] # pages[p][i] /\ b \in {Covered(p)[i], pages[p][i]}}

\* has_removed_identity: any complete receipt line names a removed batch.
HasRemoved(p) == \E b \in Content(receipts[p]) : known[b] = "removed"

\* Mutant of Tombstoned: any evidence is taken for a tombstone.
TombstonedByAny(p) == receipts[p] # <<>> /\ \A b \in Content(receipts[p]) : known[b] # "no"

Tombstoned(p) == receipts[p] # <<>> /\ \A b \in Content(receipts[p]) : known[b] = "removed"
Shell(p) == receipts[p] = <<>> /\ pages[p] = <<>>

Dirs == {p \in Periods : place[p] \in {"open", "segment"}}
OpenDirs == {p \in Periods : place[p] = "open"}
Unused == {p \in Periods : place[p] = "none"}

SnapshotsOf(s) == {Context[b] : b \in Content(s) \cap Snapshots}

Init ==
  /\ place = [p \in Periods |-> "none"]
  /\ pages = [p \in Periods |-> <<>>] /\ receipts = [p \in Periods |-> <<>>]
  /\ acked = [p \in Periods |-> FALSE] /\ evidence = [b \in Batches |-> "no"]
  /\ custody = "down" /\ known = [b \in Batches |-> "no"]
  /\ period = NoPeriod /\ committed = 0 /\ contexts = {}
  /\ unfinished = {} /\ reserved = {}
  /\ job = "free" /\ batch = NoBatch /\ todo = {}
  /\ sync = "idle" /\ segment = NoPeriod
  /\ dropped = {} /\ delivered = [p \in Periods |-> {}]
  /\ discarded = {} /\ withdrawn = {} /\ unsynced = {} /\ mixed = {}
  /\ faults = MaxFaults /\ removals = MaxRemovals

Ready == custody = "open" /\ job = "free"

-----------------------------------------------------------------------------
(* Finishing periods *)

Fault == faults > 0 /\ faults' = faults - 1

\* finalize for every period of Try: those of Fail stay, because a removal is
\* awaiting its unlink or because the rename failed; the others are cut back to
\* their receipts and become segments, or go if nothing is left.
MayFail(Try, Fail) ==
  /\ {p \in Try : HasRemoved(p)} \subseteq Fail
  /\ IF \A p \in Fail : HasRemoved(p) THEN UNCHANGED faults ELSE Fault
Finalize(Try, Fail) ==
  /\ MayFail(Try, Fail)
  /\ place' = [p \in Periods |-> IF p \notin Try \ Fail THEN place[p]
                                 ELSE IF Covered(p) = <<>> THEN "gone" ELSE "segment"]
  /\ pages' = [p \in Periods |-> IF p \notin Try \ Fail THEN pages[p] ELSE Kept(p)]
  /\ receipts' = [p \in Periods |-> IF p \in Try \ Fail /\ Covered(p) = <<>> THEN <<>> ELSE receipts[p]]
  /\ mixed' = mixed \cup MixedIn(Try \ Fail)

\* rotate: a period without a directory leaves no trace, and its name serves again;
\* after a discard that failed half way there may be no period at all.
Closing == IF period # NoPeriod /\ place[period] = "open" THEN {period} ELSE {}

\* Mutant of NewPeriod: the pages seen in the last period stay known.
NewPeriodKeepsContexts(p) == period' = p /\ committed' = 0 /\ UNCHANGED contexts

\* Mutant of NewPeriod: the next name is taken, free or not.
NewPeriodNext(p) == period' = period + 1 /\ committed' = 0 /\ contexts' = {}

NewPeriod(p) == period' = p /\ committed' = 0 /\ contexts' = {}

Tick(rotate) ==
  /\ Ready
  /\ rotate \/ unfinished # {}
  /\ rotate => (Closing # {} \/ period = NoPeriod) /\ Unused # {}
  /\ LET Try == unfinished \cup IF rotate THEN Closing ELSE {} IN
     \E Fail \in SUBSET Try : Finalize(Try, Fail) /\ unfinished' = Fail
  /\ IF rotate THEN NewPeriod(First(Unused)) ELSE UNCHANGED <<period, committed, contexts>>
  /\ UNCHANGED <<acked, evidence, custody, known, jobVars, syncVars, wordVars>>

-----------------------------------------------------------------------------
(* Taking in a batch *)

\* The reply reaches the extension or is lost; only an acceptance lets it forget.
Reply(b) == dropped' \in {dropped, dropped \cup {b}}

Duplicate(b) ==
  /\ Ready /\ b \notin dropped /\ known[b] # "no"
  /\ Reply(b)
  /\ UNCHANGED <<diskVars, memVars, jobVars, syncVars, delivered, discarded, withdrawn, unsynced, mixed>>

\* The checks of accept: a full pages file, or no period at all, starts a new one, and a batch
\* about a page this period has no snapshot of is refused.
Accept(b) ==
  /\ Ready /\ b \notin dropped /\ known[b] = "no"
  /\ period # NoPeriod => ~HasRemoved(period)
  /\ LET next == period = NoPeriod \/ committed >= FileMax IN
     /\ next => Unused # {}
     /\ IF next THEN \E Fail \in SUBSET Closing : /\ Finalize(Closing, Fail)
                                                 /\ unfinished' = unfinished \cup Fail
                                                 /\ NewPeriod(First(Unused))
                ELSE UNCHANGED <<place, pages, receipts, unfinished, period, committed, contexts, faults, mixed>>
     /\ IF b \in Snapshots \/ Context[b] \in contexts'
          THEN job' = "pages" /\ batch' = b
          ELSE UNCHANGED <<job, batch>>
  /\ UNCHANGED <<acked, evidence, custody, known, todo, syncVars, wordVars>>

Free == job' = "free" /\ batch' = NoBatch /\ todo' = {}

\* Write at the length this process knows is committed, and drop what follows.
At(s) == Append(SubSeq(s, 1, Least(committed, Len(s))), batch)

WritePages ==
  /\ job = "pages"
  /\ place' = [place EXCEPT ![period] = "open"]
  /\ \/ pages' = [pages EXCEPT ![period] = At(@)] /\ job' = "receipt" /\ UNCHANGED <<batch, todo, faults>>
     \/ Fault /\ pages' \in {pages, [pages EXCEPT ![period] = At(@)]} /\ Free
  /\ UNCHANGED <<receipts, acked, evidence, memVars, syncVars, ghostVars>>

WriteReceipt ==
  /\ job = "receipt"
  /\ \/ /\ receipts' = [receipts EXCEPT ![period] = At(@)]
        /\ committed' = committed + 1
        /\ job' = "evidence" /\ UNCHANGED <<batch, todo, unsynced, faults>>
     \/ /\ Fault
        /\ \/ receipts' \in {receipts, [receipts EXCEPT ![period] = SubSeq(@, 1, Least(committed, Len(@)))]}
              /\ UNCHANGED unsynced
           \/ receipts' = [receipts EXCEPT ![period] = At(@)] /\ unsynced' = unsynced \cup {batch}
        /\ Free /\ UNCHANGED committed
  /\ UNCHANGED <<place, pages, acked, evidence, custody, known, period, contexts, unfinished,
                 syncVars, dropped, delivered, discarded, withdrawn, mixed>>

\* The batch is accepted whether or not its identity reached the evidence file.
WriteEvidence ==
  /\ job = "evidence"
  /\ known' = [known EXCEPT ![batch] = "accepted"]
  /\ \/ evidence' = known' /\ UNCHANGED faults
     \/ UNCHANGED evidence /\ Fault
  /\ contexts' = contexts \cup IF batch \in Snapshots THEN {Context[batch]} ELSE {}
  /\ Reply(batch)
  /\ Free
  /\ UNCHANGED <<place, pages, receipts, acked, custody, period, committed, unfinished, syncVars,
                 delivered, discarded, withdrawn, unsynced, mixed>>

-----------------------------------------------------------------------------
(* Removal *)

\* Mutant of Entomb: the identities go with the pages.
EntombForgets(p) ==
  /\ known' = [b \in Batches |-> IF b \in Content(Covered(p)) THEN "no" ELSE known[b]]
  /\ evidence' = known'

\* write_evidence for the removal of p: all of it or nothing.
Entomb(p) ==
  /\ known' = [b \in Batches |-> IF b \in Content(Covered(p)) THEN "removed" ELSE known[b]]
  /\ evidence' = known'

\* discard_pending, asked for by the owner; a reserved segment is left alone.
Discard ==
  /\ Ready
  /\ job' = "tombstone" /\ todo' = Dirs \ reserved
  /\ UNCHANGED <<diskVars, memVars, batch, syncVars, ghostVars>>

DiscardFails ==
  /\ Fault /\ job \in {"tombstone", "unlink", "rmdir"} /\ todo # {}
  /\ Free
  /\ UNCHANGED <<diskVars, memVars, syncVars, ghostVars>>

\* The directories of open periods come first, then the segments.
Doomed == First(IF todo \cap OpenDirs # {} THEN todo \cap OpenDirs ELSE todo)

\* Mutant of DiscardTombstone: the directory is removed without tombstones.
DiscardUnmarked ==
  /\ job = "tombstone" /\ todo # {}
  /\ LET p == Doomed IN
       /\ discarded' = discarded \cup Content(Covered(p))
       /\ job' = "unlink"
  /\ UNCHANGED <<diskVars, memVars, batch, todo, syncVars, dropped, delivered, withdrawn, unsynced, mixed>>

DiscardTombstone ==
  /\ job = "tombstone" /\ todo # {}
  /\ LET p == Doomed IN
       /\ Entomb(p)
       /\ discarded' = discarded \cup Content(Covered(p))
       /\ job' = "unlink"
  /\ UNCHANGED <<place, pages, receipts, acked, custody, period, committed, contexts, unfinished,
                 batch, todo, syncVars, dropped, delivered, withdrawn, unsynced, mixed>>

DiscardUnlink ==
  /\ job = "unlink"
  /\ pages' = [pages EXCEPT ![Doomed] = <<>>]
  /\ job' = "rmdir"
  /\ UNCHANGED <<place, receipts, acked, evidence, memVars, batch, todo, syncVars, ghostVars>>

DiscardRmdir ==
  /\ job = "rmdir"
  /\ LET p == Doomed IN
       /\ place' = [place EXCEPT ![p] = "gone"]
       /\ receipts' = [receipts EXCEPT ![p] = <<>>]
       /\ acked' = [acked EXCEPT ![p] = FALSE]
       /\ period' = IF period = p THEN NoPeriod ELSE period
       /\ unfinished' = unfinished \ {p}
       /\ todo' = todo \ {p}
  /\ job' = "tombstone"
  /\ UNCHANGED <<pages, evidence, custody, known, committed, contexts, batch, syncVars, ghostVars>>

\* The period that was open keeps its place in memory if its directory does not
\* exist; a new one starts in any case.
DiscardDone ==
  /\ job = "tombstone" /\ todo = {}
  /\ Unused # {}
  /\ NewPeriod(First(Unused))
  /\ Free
  /\ UNCHANGED <<diskVars, custody, known, unfinished, syncVars, ghostVars>>

-----------------------------------------------------------------------------
(* The sync worker *)

\* reserve_upload, for a send or for the removal of a confirmed segment.
Reserve(p) ==
  /\ Ready /\ sync = "idle"
  /\ place[p] = "segment" /\ p \notin reserved /\ ~HasRemoved(p)
  /\ reserved' = reserved \cup {p} /\ segment' = p
  /\ sync' = IF acked[p] THEN "confirmed" ELSE "sending"
  /\ pages[p] # <<>>
  /\ UNCHANGED <<diskVars, memVars, jobVars, ghostVars>>

\* The reservation is dropped under the custody lock.
Release == job = "free" /\ sync' = "idle" /\ segment' = NoPeriod /\ reserved' = reserved \ {segment}

\* The journal has the segment; the answer is lost, or the marker is written.
Stored ==
  /\ sync = "sending"
  /\ delivered' = [delivered EXCEPT ![segment] = @ \cup Content(pages[segment])]
  /\ \/ acked' = [acked EXCEPT ![segment] = TRUE] /\ sync' = "confirmed" /\ UNCHANGED <<segment, reserved>>
     \/ Release /\ UNCHANGED acked
  /\ UNCHANGED <<place, pages, receipts, evidence, memVars, jobVars, dropped, discarded, withdrawn, unsynced, mixed>>

\* 500 segment_removed: remove_segment_removed takes bookkeeping, payload and directory.
SegmentRemoved ==
  /\ sync = "sending" /\ removals > 0 /\ removals' = removals - 1
  /\ withdrawn' = withdrawn \cup Content(pages[segment])
  /\ sync' = "purge"
  /\ UNCHANGED <<diskVars, memVars, jobVars, segment, reserved, dropped, delivered, discarded, unsynced, mixed>>

PurgeReceipts ==
  /\ sync = "purge"
  /\ receipts' = [receipts EXCEPT ![segment] = <<>>]
  /\ sync' = "purging"
  /\ UNCHANGED <<place, pages, acked, evidence, memVars, jobVars, segment, reserved, ghostVars>>

PurgePages ==
  /\ sync = "purging"
  /\ pages' = [pages EXCEPT ![segment] = <<>>]
  /\ place' = [place EXCEPT ![segment] = "gone"]
  /\ Release
  /\ UNCHANGED <<receipts, acked, evidence, memVars, jobVars, ghostVars>>

\* Mutant of Confirm: the tombstones are left for later.
ConfirmUnmarked ==
  /\ sync = "confirmed" /\ Ready
  /\ sync' = "unlink"
  /\ UNCHANGED <<diskVars, memVars, jobVars, segment, reserved, ghostVars>>

\* remove_confirmed_segment: the tombstones first, under the custody lock.
Confirm ==
  /\ sync = "confirmed" /\ Ready
  /\ Entomb(segment)
  /\ sync' = "unlink"
  /\ UNCHANGED <<place, pages, receipts, acked, custody, period, committed, contexts, unfinished,
                 jobVars, segment, reserved, ghostVars>>

Unlink ==
  /\ sync = "unlink"
  /\ pages' = [pages EXCEPT ![segment] = <<>>]
  /\ sync' = "rmdir"
  /\ UNCHANGED <<place, receipts, acked, evidence, memVars, jobVars, segment, reserved, ghostVars>>

Rmdir ==
  /\ sync = "rmdir"
  /\ place' = [place EXCEPT ![segment] = "gone"]
  /\ receipts' = [receipts EXCEPT ![segment] = <<>>]
  /\ acked' = [acked EXCEPT ![segment] = FALSE]
  /\ Release
  /\ UNCHANGED <<pages, evidence, memVars, jobVars, ghostVars>>

SyncFails ==
  /\ \/ sync = "sending" /\ UNCHANGED faults
     \/ sync \notin {"idle", "sending"} /\ Fault
  /\ Release
  /\ UNCHANGED <<diskVars, memVars, jobVars, ghostVars>>

-----------------------------------------------------------------------------
(* Crash and restart *)

Crash ==
  /\ custody # "down"
  /\ custody' = "down" /\ known' = [b \in Batches |-> "no"]
  /\ period' = NoPeriod /\ committed' = 0 /\ contexts' = {}
  /\ unfinished' = {} /\ reserved' = {} /\ Free
  /\ sync' = "idle" /\ segment' = NoPeriod
  /\ UNCHANGED <<diskVars, ghostVars>>

LoadEvidence ==
  /\ custody = "down"
  /\ custody' = "opening" /\ known' = evidence
  /\ UNCHANGED <<diskVars, period, committed, contexts, unfinished, jobVars, syncVars, ghostVars>>

\* finish_tombstoned_unlinks; the pages of a removed directory go first.
FinishUnlink(p) ==
  /\ custody = "opening" /\ p \in Dirs /\ (Tombstoned(p) \/ Shell(p))
  /\ IF pages[p] # <<>>
       THEN pages' = [pages EXCEPT ![p] = <<>>] /\ UNCHANGED <<place, receipts, acked>>
       ELSE /\ place' = [place EXCEPT ![p] = "gone"]
            /\ receipts' = [receipts EXCEPT ![p] = <<>>]
            /\ acked' = [acked EXCEPT ![p] = FALSE]
            /\ UNCHANGED pages
  /\ UNCHANGED <<evidence, memVars, jobVars, syncVars, ghostVars>>

\* recover_open and reconcile_evidence: at most one period is still in its five
\* minutes and takes batches again, the others are finished; then every
\* identity on disk has evidence, and every accepted one must be on disk.
Found == UNION {Content(Covered(p)) : p \in Dirs}
Recover ==
  /\ custody = "opening"
  /\ \A p \in Dirs : ~Tombstoned(p) /\ ~Shell(p)
  /\ \E again \in OpenDirs \cup {NoPeriod} :
       /\ again = NoPeriod => Unused # {}
       /\ \E Fail \in SUBSET (OpenDirs \ {again}) :
            LET Try == OpenDirs \ {again} IN
            /\ MayFail(Try, Fail)
            /\ place' = [p \in Periods |-> IF p \notin Try \ Fail THEN place[p]
                                           ELSE IF Covered(p) = <<>> THEN "gone" ELSE "segment"]
            /\ pages' = [p \in Periods |-> IF p \in OpenDirs THEN Kept(p) ELSE pages[p]]
            /\ receipts' = [p \in Periods |-> IF p \in Try \ Fail /\ Covered(p) = <<>> THEN <<>> ELSE receipts[p]]
            /\ unfinished' = Fail
       /\ period' = IF again = NoPeriod THEN First(Unused) ELSE again
       /\ committed' = IF again = NoPeriod THEN 0 ELSE Len(Covered(again))
       /\ contexts' = IF again = NoPeriod THEN {} ELSE SnapshotsOf(Kept(again))
  /\ mixed' = mixed \cup MixedIn(OpenDirs)
  /\ known' = [b \in Batches |-> IF b \in Found /\ known[b] = "no" THEN "accepted" ELSE known[b]]
  /\ evidence' = known'
  /\ custody' = IF \E b \in Batches : known[b] = "accepted" /\ b \notin Found THEN "unavailable" ELSE "open"
  /\ UNCHANGED <<acked, jobVars, syncVars, wordVars>>

-----------------------------------------------------------------------------
Reliable ==
  \/ \E b \in Batches : Duplicate(b)
  \/ Discard \/ DiscardTombstone \/ DiscardUnlink \/ DiscardRmdir \/ DiscardDone
  \/ \E p \in Periods : Reserve(p) \/ FinishUnlink(p)
  \/ Stored \/ PurgeReceipts \/ PurgePages \/ Confirm \/ Unlink \/ Rmdir
  \/ Crash \/ LoadEvidence

Fallible ==
  \/ \E rotate \in BOOLEAN : Tick(rotate)
  \/ \E b \in Batches : Accept(b)
  \/ WritePages \/ WriteReceipt \/ WriteEvidence
  \/ DiscardFails \/ SyncFails \/ Recover

Next ==
  \/ Reliable /\ UNCHANGED <<faults, removals>>
  \/ Fallible /\ UNCHANGED removals
  \/ SegmentRemoved /\ UNCHANGED faults

Spec == Init /\ [][Next]_vars

-----------------------------------------------------------------------------
(* What must hold *)

\* The bytes of b are in p, and a receipt covers them.
Holds(p, b) == p \in Dirs /\ \E i \in DOMAIN Covered(p) : pages[p][i] = b /\ Covered(p)[i] = b

\* A batch the extension was told it may forget is on disk under its receipt, in
\* the journal, or was removed on the owner's or the journal's word; but for one
\* whose text a receipt took that belongs to another (mixed).
AnsweredIsKept ==
  \A b \in dropped :
    \/ \E p \in Periods : Holds(p, b) \/ b \in delivered[p]
    \/ b \in discarded \cup withdrawn \cup mixed

\* Three ways for a batch to be taken in again.  Its receipt is written and then
\* fails to sync: it is answered queue_full and keeps no identity, but its period
\* may leave with it.  The receipts of a segment the journal removed go without a
\* trace: an identity that had not reached the evidence file is lost.  And a batch
\* whose text came under the receipt of another is known by the other's identity.
Forgotten == unsynced \cup withdrawn \cup mixed

\* "a replayed batch id is answered `duplicate` and nothing is taken in twice"
\* (custody.rs): no batch is in two periods, be they held or delivered, but for
\* those that could be forgotten.
TakenInOnce ==
  \A b \in Batches \ Forgotten : \A p, q \in Periods :
    (Holds(p, b) \/ b \in delivered[p]) /\ (Holds(q, b) \/ b \in delivered[q]) => p = q

\* A period that leaves carries, for every change to a page, the snapshot it is a
\* change of: rotation, recovery and discard must not split them.
ChangesHaveSnapshots ==
  \A p \in Periods : place[p] = "segment" =>
    \A i \in DOMAIN pages[p] :
      Context[pages[p][i]] \in SnapshotsOf(SubSeq(pages[p], 1, i))

\* What the owner discarded is never sent afterwards, whatever failed or crashed
\* in the middle of the removal; but for a batch that is in two periods (see
\* TakenInOnce), of which one was being sent when the other was discarded.
DiscardIsFinal ==
  [][\A p \in Periods : (delivered'[p] \ delivered[p]) \cap discarded \subseteq Forgotten]_vars

\* Open succeeds after any crash, as long as the journal removed no segment.
OpenSucceeds == withdrawn = {} => custody # "unavailable"

\* What is held can be read again: open succeeds, and each change in a period
\* that leaves finds its snapshot there.
PeriodsCanBeRead == OpenSucceeds /\ ChangesHaveSnapshots

\* "Recover all pending browser pages" (Custody::open): a segment the journal
\* removed leaves identities that are accepted and nowhere, and none is recovered.
PendingIsRecovered == custody # "unavailable"
=============================================================================
