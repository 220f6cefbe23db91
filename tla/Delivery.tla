------------------------------ MODULE Delivery ------------------------------
(***************************************************************************)
(* Delivery of finished segments from the captures directory to the       *)
(* owner's journal: the pass of sync.rs (SyncWorker::sync_pass), with the  *)
(* file system, the journal behind the private link, and the pairing that *)
(* may change under the pass.                                             *)
(*                                                                         *)
(* What is abstracted.  A segment directory holds one payload file per     *)
(* name; a file is its content, and two equal contents have equal sizes,   *)
(* hashes and stamps.  Retry floors are a flag that is set and expires.    *)
(* The order in which a pass visits segments is left open (SyncPass has    *)
(* the order).  Hashing a file and unlinking it right after is one step.   *)
(* Browser segments, whose removal is also recorded by the browser         *)
(* custody, are in BrowserCustody.                                         *)
(***************************************************************************)
EXTENDS Naturals, FiniteSets

CONSTANTS
  Segments,     \* segment directories, <day>/<stream>/<HHMMSS_LEN>
  Names,        \* payload file names inside a segment
  Contents,     \* what a payload file can hold
  Empty,        \* the content of a zero-byte file
  Absent,       \* no such file
  Pairings,     \* (identity_key, pairing_id) pairs: one per journal pairing
  NoOne,        \* no capability installed; also: no marker file
  NoSegment,    \* the worker has no segment in hand
  MaxEpoch,     \* bound: changes of the association
  MaxEdits,     \* bound: rewrites of a payload by someone else
  MaxAttempts,  \* immediate_attempts: sends per upload, 1 or 2
  MaxInFlight   \* bound: upload requests in the network at once

ASSUME DeliveryAssumption ==
  /\ Empty \in Contents
  /\ Absent \notin Contents
  /\ NoOne \notin Pairings
  /\ NoSegment \notin Segments
  /\ MaxEpoch \in Nat /\ MaxEdits \in Nat
  /\ MaxAttempts \in Nat /\ MaxInFlight \in Nat

VARIABLES
  \* the captures directory; survives a crash
  place,      \* where a segment directory is
  disk,       \* disk[s][n]: content of the payload file, or Absent
  ack,        \* .ingest_ack.json of each segment
  retry,      \* .ingest_retry.json: the pairing whose retry floor is ahead
  cutover,    \* ingest_cutover.json: [done, legacy]
  \* the association installed in UploadClient
  assoc,      \* [by, epoch]
  \* the journals
  inflight,   \* upload requests in the network
  held,       \* <<p, s, n, c>>: the journal of p holds content c of file n
  withdrawn,  \* <<p, s>>: the owner deleted segment s in the journal of p
  \* the sync worker; lost in a crash
  pc,         \* where in the pass the worker is
  seen,       \* SyncWorker::association, captured at the start of the pass
  todo,       \* segments the current loop has still to visit
  seg,        \* the segment in hand
  from,       \* the loop the segment in hand returns to
  pre,        \* hashes computed before the upload
  req,        \* the last request sent for the segment in hand
  attempt,    \* sends of this upload so far
  listing,    \* the journal's listing of the segment in hand
  floors,     \* retry_floors: in-memory floors for unwritable markers
  \* observation only
  taken,      \* the content each payload file last had on this device
  edits       \* rewrites so far

deviceVars  == <<place, disk, ack, retry, cutover>>
journalVars == <<inflight, held, withdrawn>>
jobVars     == <<seg, from, pre, req, attempt, listing>>
workerVars  == <<pc, seen, todo, jobVars, floors>>
ghostVars   == <<taken, edits>>
vars == <<deviceVars, assoc, journalVars, workerVars, ghostVars>>

-----------------------------------------------------------------------------
Body     == [Names -> Contents \cup {Absent}]
NoBody   == [n \in Names |-> Absent]
NoAck    == [by |-> NoOne, sum |-> NoBody, stamp |-> NoBody]
NoReq    == [by |-> NoOne, seg |-> NoSegment, body |-> NoBody]
NoList   == [entries |-> "none", body |-> NoBody]
Present(s) == {n \in Names : disk[s][n] # Absent}
Held == {s \in Segments : place[s] = "held"}

Requests == [by : Pairings \cup {NoOne}, seg : Segments \cup {NoSegment}, body : Body]
Acks     == [by : Pairings \cup {NoOne}, sum : Body, stamp : Body]
Listings == [entries : {"none", "one", "many", "unavailable"}, body : Body]
Loops    == {"finish", "phase1", "phase2", "cleanup"}

\* with_association_current holds the capability lock for the whole of these
\* steps: the association cannot change under them.
LockedAt == {"acked", "removing", "rmdir", "purging", "purgeFiles"}

TypeOK ==
  /\ place \in [Segments -> {"absent", "held", "failed", "gone"}]
  /\ disk \in [Segments -> Body]
  /\ ack \in [Segments -> Acks]
  /\ retry \in [Segments -> Pairings \cup {NoOne}]
  /\ cutover \in [done : BOOLEAN, legacy : SUBSET Segments]
  /\ assoc \in [by : Pairings \cup {NoOne}, epoch : Nat]
  /\ inflight \subseteq Requests
  /\ held \subseteq Pairings \X Segments \X Names \X Contents
  /\ withdrawn \subseteq Pairings \X Segments
  /\ pc \in Loops \cup LockedAt \cup {"down", "idle", "cutover", "hashed", "sent", "listed", "proven"}
  /\ seen \in [by : Pairings \cup {NoOne}, epoch : Nat]
  /\ todo \subseteq Segments
  /\ seg \in Segments \cup {NoSegment}
  /\ from \in Loops
  /\ pre \in Body
  /\ req \in Requests
  /\ attempt \in Nat
  /\ listing \in Listings
  /\ floors \subseteq Segments
  /\ taken \in [Segments -> Body]
  /\ edits \in Nat

Init ==
  /\ place = [s \in Segments |-> "absent"]
  /\ disk = [s \in Segments |-> NoBody]
  /\ ack = [s \in Segments |-> NoAck]
  /\ retry = [s \in Segments |-> NoOne]
  /\ cutover = [done |-> FALSE, legacy |-> {}]
  /\ assoc \in [by : Pairings \cup {NoOne}, epoch : {0}]
  /\ inflight = {} /\ held = {} /\ withdrawn = {}
  /\ pc = "idle" /\ seen = assoc /\ todo = {}
  /\ seg = NoSegment /\ from = "finish" /\ pre = NoBody /\ req = NoReq /\ attempt = 0
  /\ listing = NoList /\ floors = {}
  /\ taken = [s \in Segments |-> NoBody] /\ edits = 0

-----------------------------------------------------------------------------
(* Acknowledgement markers *)

\* A worker with no capability accepts a marker of any pairing.
PairingOk(s) == seen.by = NoOne \/ ack[s].by = seen.by

Contradicted(s) ==
  /\ ack[s].by # NoOne /\ PairingOk(s)
  /\ \E n \in Present(s) :
       \/ ack[s].sum[n] = Absent
       \/ disk[s][n] \notin {ack[s].sum[n], ack[s].stamp[n]}

\* is_ack_valid trusts an unchanged stamp without hashing.
AckValid(s) == ack[s].by # NoOne /\ PairingOk(s) /\ ~Contradicted(s)

\* What evaluating is_ack_valid on the segments of S leaves on disk: a marker
\* the bytes contradict is removed, a stamp that moved under equal bytes is
\* written again.
CheckAcks(S) ==
  ack' = [s \in Segments |->
            CASE s \in S /\ Contradicted(s) -> NoAck
              [] s \in S /\ AckValid(s) ->
                   [ack[s] EXCEPT !.stamp =
                      [n \in Names |-> IF n \in Present(s) THEN disk[s][n] ELSE @[n]]]
              [] OTHER -> ack[s]]

\* remove_confirmed_segment hashes every payload before it removes any.
AllMatch(s) == \A n \in Present(s) : ack[s].by # NoOne /\ disk[s][n] = ack[s].sum[n]

Mismatch(s) == ack[s].by # NoOne /\ ack[s].by # seen.by
Blocked(s)  == s \in floors \/ (retry[s] # NoOne /\ retry[s] = seen.by)

-----------------------------------------------------------------------------
(* The surroundings: recorder, other writers, pairing, network, journal *)

Capture(s) ==
  /\ place[s] = "absent"
  /\ \E b \in Body \ {NoBody} :
       /\ disk' = [disk EXCEPT ![s] = b]
       /\ taken' = [taken EXCEPT ![s] = b]
  /\ place' = [place EXCEPT ![s] = "held"]
  /\ UNCHANGED <<ack, retry, cutover, assoc, journalVars, workerVars, edits>>

Rewrite(s, n, c) ==
  /\ edits < MaxEdits
  /\ place[s] = "held"
  /\ disk[s][n] \notin {Absent, c}
  /\ disk' = [disk EXCEPT ![s][n] = c]
  /\ taken' = [taken EXCEPT ![s][n] = c]
  /\ edits' = edits + 1
  /\ UNCHANGED <<place, ack, retry, cutover, assoc, journalVars, workerVars>>

\* prepare_new_owner and install_capability both take the write lock.
ChangeAssociation(p) ==
  /\ pc \notin LockedAt
  /\ assoc.epoch < MaxEpoch
  /\ assoc' = [by |-> p, epoch |-> assoc.epoch + 1]
  /\ UNCHANGED <<deviceVars, journalVars, workerVars, ghostVars>>

\* A request can arrive long after the worker gave up on it.
JournalReceives(r) ==
  /\ r \in inflight
  /\ inflight' = inflight \ {r}
  /\ held' = IF <<r.by, r.seg>> \in withdrawn THEN held
             ELSE held \cup {<<r.by, r.seg, n, r.body[n]>> :
                               n \in {m \in Names : r.body[m] # Absent}}
  /\ UNCHANGED <<deviceVars, assoc, withdrawn, workerVars, ghostVars>>

JournalWithdraws(p, s) ==
  /\ \E n \in Names, c \in Contents : <<p, s, n, c>> \in held
  /\ <<p, s>> \notin withdrawn
  /\ withdrawn' = withdrawn \cup {<<p, s>>}
  /\ held' = {h \in held : ~(h[1] = p /\ h[2] = s)}
  /\ UNCHANGED <<deviceVars, assoc, inflight, workerVars, ghostVars>>

RetryExpires(s) ==
  /\ retry[s] # NoOne \/ s \in floors
  /\ retry' = [retry EXCEPT ![s] = NoOne]
  /\ floors' = floors \ {s}
  /\ UNCHANGED <<place, disk, ack, cutover, assoc, journalVars, pc, seen, todo, jobVars, ghostVars>>

NoJob ==
  /\ seg' = NoSegment /\ from' = "finish" /\ pre' = NoBody
  /\ req' = NoReq /\ attempt' = 0 /\ listing' = NoList

\* The process dies anywhere; the next one starts with an empty worker.
Crash ==
  /\ pc # "down"
  /\ pc' = "down" /\ todo' = {} /\ floors' = {}
  /\ NoJob
  /\ UNCHANGED <<deviceVars, assoc, journalVars, seen, ghostVars>>

Restart ==
  /\ pc = "down"
  /\ pc' = "idle" /\ seen' = assoc
  /\ UNCHANGED <<deviceVars, assoc, journalVars, todo, jobVars, floors, ghostVars>>

-----------------------------------------------------------------------------
(* The pass *)

Goto(next) == pc' = next /\ NoJob
Return == Goto(from)
Take(s, next) == pc' = next /\ seg' = s /\ from' = pc /\ todo' = todo \ {s}

\* refresh_association, then finish_confirmed_locally over collect_segments.
BeginPass ==
  /\ pc = "idle"
  /\ seen' = assoc
  /\ floors' = IF seen = assoc THEN floors ELSE {}
  /\ todo' = Held
  /\ Goto("finish")
  /\ UNCHANGED <<deviceVars, assoc, journalVars, ghostVars>>

\* A worker without a capability only waits: not even the local part is done.
StartPass == assoc.by # NoOne /\ BeginPass

\* The capability went between has_capability and the refresh of the pass.
StartUnpaired == assoc.by = NoOne /\ BeginPass

\* Mutants of FinishOne: a directory without payload is left to nobody; an
\* acknowledged segment is left to the upload loop.
FinishOneWithPayload(s) ==
  /\ pc = "finish" /\ s \in todo /\ assoc = seen
  /\ IF AckValid(s) /\ AllMatch(s) /\ Present(s) # {}
       THEN Take(s, "removing") /\ UNCHANGED <<pre, req, attempt, listing>>
       ELSE todo' = todo \ {s} /\ UNCHANGED <<pc, jobVars>>
  /\ CheckAcks({s})
  /\ UNCHANGED <<place, disk, retry, cutover, assoc, journalVars, seen, floors, ghostVars>>
FinishOneEmptyOnly(s) ==
  /\ pc = "finish" /\ s \in todo /\ assoc = seen
  /\ IF Present(s) = {}
       THEN Take(s, "removing") /\ UNCHANGED <<pre, req, attempt, listing>>
       ELSE todo' = todo \ {s} /\ UNCHANGED <<pc, jobVars>>
  /\ CheckAcks({s})
  /\ UNCHANGED <<place, disk, retry, cutover, assoc, journalVars, seen, floors, ghostVars>>

\* One segment of finish_confirmed_locally: an acknowledged one, or one with
\* no payload left, is removed; a marker its bytes contradict goes.
FinishOne(s) ==
  /\ pc = "finish" /\ s \in todo /\ assoc = seen
  /\ \/ /\ (AckValid(s) \/ Present(s) = {}) /\ AllMatch(s)
        /\ Take(s, "removing")
        /\ CheckAcks({s})
        /\ UNCHANGED <<pre, req, attempt, listing>>
     \/ /\ AckValid(s) /\ ~AllMatch(s)
        /\ ack' = [ack EXCEPT ![s] = NoAck]
        /\ todo' = todo \ {s}
        /\ UNCHANGED <<pc, jobVars>>
     \/ /\ ~AckValid(s) /\ Present(s) # {}
        /\ CheckAcks({s})
        /\ todo' = todo \ {s}
        /\ UNCHANGED <<pc, jobVars>>
  /\ UNCHANGED <<place, disk, retry, cutover, assoc, journalVars, seen, floors, ghostVars>>

\* The loop ends, or gives up because the association changed; a worker whose
\* circuit is open or whose pairing was revoked stops here.
FinishDone ==
  /\ pc = "finish" /\ (todo = {} \/ assoc # seen)
  /\ \E next \in {"cutover", "idle"} : Goto(next)
  /\ todo' = {}
  /\ UNCHANGED <<deviceVars, assoc, journalVars, seen, floors, ghostVars>>

\* ensure_cutover, then the segment list the two phases work from.  A list
\* that could not be written is made anew by the next pass.
EnsureCutover ==
  /\ pc = "cutover"
  /\ \/ /\ ~cutover.done
        /\ cutover' = [done |-> TRUE, legacy |-> {s \in Held : ack[s].by = NoOne}]
     \/ UNCHANGED cutover
  /\ todo' = Held
  /\ Goto("phase1")
  /\ UNCHANGED <<place, disk, ack, retry, assoc, journalVars, seen, floors, ghostVars>>

Phase1Skip(s) ==
  /\ pc = "phase1" /\ s \in todo
  /\ \/ Blocked(s) /\ UNCHANGED ack
     \/ /\ ~Blocked(s)
        /\ AckValid(s) \/ s \in cutover.legacy \/ Mismatch(s) \/ Present(s) = {}
        /\ CheckAcks({s})
  /\ todo' = todo \ {s}
  /\ UNCHANGED <<place, disk, retry, cutover, assoc, journalVars, pc, seen, jobVars, floors, ghostVars>>

DueDirect(s) ==
  /\ ~Blocked(s) /\ ~AckValid(s) /\ ~Mismatch(s)
  /\ s \notin cutover.legacy /\ Present(s) # {}

Phase1Quarantine(s) ==
  /\ pc = "phase1" /\ s \in todo /\ DueDirect(s)
  /\ \A n \in Present(s) : disk[s][n] = Empty
  /\ place' = [place EXCEPT ![s] = "failed"]
  /\ CheckAcks({s})
  /\ todo' = todo \ {s}
  /\ UNCHANGED <<disk, retry, cutover, assoc, journalVars, pc, seen, jobVars, floors, ghostVars>>

\* upload_segment up to the hashes: a stale association ends the whole pass.
BeginUpload(s) ==
  IF assoc = seen
    THEN /\ pc' = "hashed" /\ seg' = s /\ pre' = disk[s]
         /\ from' = IF pc = "phase1" THEN "phase1" ELSE "phase2"
         /\ req' = NoReq /\ attempt' = 0 /\ listing' = NoList
         /\ todo' = todo \ {s}
    ELSE Goto("idle") /\ todo' = {}

Phase1Upload(s) ==
  /\ pc = "phase1" /\ s \in todo /\ DueDirect(s)
  /\ \E n \in Present(s) : disk[s][n] # Empty
  /\ CheckAcks({s})
  /\ BeginUpload(s)
  /\ UNCHANGED <<place, disk, retry, cutover, assoc, journalVars, seen, floors, ghostVars>>

\* After phase 1, phase 2 lists the segments a listing may settle; a pass that
\* was stopped (circuit open, shutting down, a Stop outcome) cleans up instead.
Phase1Done ==
  /\ pc = "phase1"
  /\ \/ /\ todo = {}
        /\ todo' = {s \in Held : (s \in cutover.legacy \/ Mismatch(s)) /\ Present(s) # {}}
        /\ Goto("phase2")
     \/ todo' = {} /\ Goto("cleanup")
  /\ UNCHANGED <<deviceVars, assoc, journalVars, seen, floors, ghostVars>>

-----------------------------------------------------------------------------
(* One upload *)

\* Every attempt reads the files again; the capability is the installed one.
Send ==
  /\ pc \in {"hashed", "sent"}
  /\ assoc.by # NoOne /\ attempt < MaxAttempts
  /\ Cardinality(inflight) < MaxInFlight
  /\ req' = [by |-> assoc.by, seg |-> seg, body |-> disk[seg]]
  /\ inflight' = inflight \cup {req'}
  /\ attempt' = attempt + 1
  /\ pc' = "sent"
  /\ UNCHANGED <<deviceVars, assoc, held, withdrawn, seen, todo, seg, from, pre, listing, floors, ghostVars>>

Stored(r) == \A n \in Names : r.body[n] # Absent => <<r.by, r.seg, n, r.body[n]>> \in held

UploadStale ==
  /\ pc \in {"hashed", "sent"} /\ assoc # seen
  /\ Goto("idle") /\ todo' = {}
  /\ UNCHANGED <<deviceVars, assoc, journalVars, seen, floors, ghostVars>>

\* Mutants of UploadAcked: the marker takes the local hashes unverified; the
\* association is not looked at again after the answer.
UploadAckedUnverified ==
  /\ pc = "sent" /\ assoc = seen
  /\ req \notin inflight /\ Stored(req)
  /\ ack' = [ack EXCEPT ![seg] = [by |-> req.by, sum |-> pre, stamp |-> disk[seg]]]
  /\ pc' = "acked"
  /\ UNCHANGED <<place, disk, retry, cutover, assoc, journalVars, seen, todo, jobVars, floors, ghostVars>>
UploadAckedForAnyJournal ==
  /\ pc = "sent"
  /\ req \notin inflight /\ Stored(req) /\ req.body = pre
  /\ ack' = [ack EXCEPT ![seg] = [by |-> req.by, sum |-> req.body, stamp |-> disk[seg]]]
  /\ pc' = "acked"
  /\ UNCHANGED <<place, disk, retry, cutover, assoc, journalVars, seen, todo, jobVars, floors, ghostVars>>

\* A receipt whose hashes are the ones computed before the upload: the marker
\* takes the receipt's hashes and the stamps the files have now.
UploadAcked ==
  /\ pc = "sent" /\ assoc = seen
  /\ req \notin inflight /\ Stored(req) /\ req.body = pre
  /\ ack' = [ack EXCEPT ![seg] = [by |-> req.by, sum |-> req.body, stamp |-> disk[seg]]]
  /\ pc' = "acked"
  /\ UNCHANGED <<place, disk, retry, cutover, assoc, journalVars, seen, todo, jobVars, floors, ghostVars>>

\* The journal has the bytes but the marker could not be written.
AckWriteFails ==
  /\ pc = "sent" /\ assoc = seen
  /\ req \notin inflight /\ Stored(req) /\ req.body = pre
  /\ floors' = floors \cup {seg}
  /\ retry' = [retry EXCEPT ![seg] = seen.by]
  /\ Return
  /\ UNCHANGED <<place, disk, ack, cutover, assoc, journalVars, seen, todo, ghostVars>>

\* 500 segment_removed: the owner deleted this segment in the journal.
UploadRemoved ==
  /\ pc = "sent" /\ assoc = seen
  /\ req \notin inflight /\ <<req.by, seg>> \in withdrawn
  /\ pc' = "purging"
  /\ UNCHANGED <<deviceVars, assoc, journalVars, seen, todo, jobVars, floors, ghostVars>>

\* Every other answer, and no answer: a bounded failure leaves a retry marker,
\* another failure does not, and some outcomes stop the pass.  In phase 2 that
\* ends only the day at hand, unless the circuit opened.
UploadFails ==
  /\ pc \in {"hashed", "sent"} /\ assoc = seen
  /\ \/ retry' = [retry EXCEPT ![seg] = seen.by]
     \/ UNCHANGED retry
  /\ \/ Return /\ UNCHANGED todo
     \/ from = "phase2" /\ Return /\ todo' \in SUBSET todo
     \/ Goto("cleanup") /\ todo' = {}
  /\ UNCHANGED <<place, disk, ack, cutover, assoc, journalVars, seen, floors, ghostVars>>

-----------------------------------------------------------------------------
(* Removing an acknowledged segment: remove_confirmed_segment *)

\* An upload drops the retry marker once the removal was tried, whatever came
\* of it; finish_confirmed_locally leaves it.
DropRetry == retry' = IF from = "finish" THEN retry ELSE [retry EXCEPT ![seg] = NoOne]

BeginRemove ==
  /\ pc = "acked"
  /\ IF AllMatch(seg)
       THEN pc' = "removing" /\ UNCHANGED <<ack, retry, jobVars>>
       ELSE ack' = [ack EXCEPT ![seg] = NoAck] /\ DropRetry /\ Return
  /\ UNCHANGED <<place, disk, cutover, assoc, journalVars, seen, todo, floors, ghostVars>>

\* Mutant of RemoveFile: the hashes of BeginRemove are trusted.
RemoveFileUnhashed(n) ==
  /\ pc = "removing" /\ n \in Present(seg)
  /\ disk' = [disk EXCEPT ![seg][n] = Absent]
  /\ UNCHANGED <<place, ack, retry, cutover, assoc, journalVars, workerVars, ghostVars>>

\* Hashed again directly before the unlink.
RemoveFile(n) ==
  /\ pc = "removing" /\ n \in Present(seg)
  /\ IF disk[seg][n] = ack[seg].sum[n]
       THEN disk' = [disk EXCEPT ![seg][n] = Absent] /\ UNCHANGED <<ack, retry, pc, jobVars>>
       ELSE ack' = [ack EXCEPT ![seg] = NoAck] /\ DropRetry /\ Return /\ UNCHANGED disk
  /\ UNCHANGED <<place, cutover, assoc, journalVars, seen, todo, floors, ghostVars>>

RemoveBookkeeping ==
  /\ pc = "removing" /\ Present(seg) = {}
  /\ ack' = [ack EXCEPT ![seg] = NoAck]
  /\ retry' = [retry EXCEPT ![seg] = NoOne]
  /\ pc' = "rmdir"
  /\ UNCHANGED <<place, disk, cutover, assoc, journalVars, seen, todo, jobVars, floors, ghostVars>>

RemoveDirectory ==
  /\ pc = "rmdir"
  /\ place' = [place EXCEPT ![seg] = "gone"]
  /\ Return
  /\ UNCHANGED <<disk, ack, retry, cutover, assoc, journalVars, seen, todo, floors, ghostVars>>

\* An unlink, rmdir or read fails: the rest waits for the next pass.
RemoveFails ==
  /\ pc \in {"removing", "rmdir"}
  /\ DropRetry
  /\ Return
  /\ UNCHANGED <<place, disk, ack, cutover, assoc, journalVars, seen, todo, floors, ghostVars>>

-----------------------------------------------------------------------------
(* Removing a segment the journal says was deleted: remove_segment_removed *)

PurgeBookkeeping ==
  /\ pc = "purging"
  /\ ack' = [ack EXCEPT ![seg] = NoAck]
  /\ retry' = [retry EXCEPT ![seg] = NoOne]
  /\ pc' = "purgeFiles"
  /\ UNCHANGED <<place, disk, cutover, assoc, journalVars, seen, todo, jobVars, floors, ghostVars>>

PurgeFile(n) ==
  /\ pc = "purgeFiles" /\ n \in Present(seg)
  /\ disk' = [disk EXCEPT ![seg][n] = Absent]
  /\ UNCHANGED <<place, ack, retry, cutover, assoc, journalVars, workerVars, ghostVars>>

PurgeDirectory ==
  /\ pc = "purgeFiles" /\ Present(seg) = {}
  /\ place' = [place EXCEPT ![seg] = "gone"]
  /\ Return
  /\ UNCHANGED <<disk, ack, retry, cutover, assoc, journalVars, seen, todo, floors, ghostVars>>

\* Mutant of PurgeFails: the segment in hand is noted after it was let go.
PurgeFailsLate ==
  /\ pc \in {"purging", "purgeFiles"}
  /\ Return
  /\ floors' = floors \cup {seg'}
  /\ UNCHANGED <<deviceVars, assoc, journalVars, seen, todo, ghostVars>>

PurgeFails ==
  /\ pc \in {"purging", "purgeFiles"}
  /\ floors' = floors \cup {seg}
  /\ Return
  /\ UNCHANGED <<deviceVars, assoc, journalVars, seen, todo, ghostVars>>

-----------------------------------------------------------------------------
(* Phase 2: settling a segment by the journal's listing *)

\* The journal's view of segment s.  A name it holds twice is as good as one it
\* does not hold: unique_listing_file wants exactly one match.
ListingOf(p, s) ==
  [n \in Names |->
     LET cs == {c \in Contents : <<p, s, n, c>> \in held}
     IN  IF Cardinality(cs) = 1 THEN CHOOSE c \in cs : TRUE ELSE Absent]

HasRows(p, s) == \E n \in Names, c \in Contents : <<p, s, n, c>> \in held

NeedsListing(s) ==
  /\ ~Blocked(s) /\ ~AckValid(s) /\ Present(s) # {}
  /\ s \in cutover.legacy \/ Mismatch(s)

Phase2Skip(s) ==
  /\ pc = "phase2" /\ s \in todo /\ ~NeedsListing(s)
  /\ CheckAcks({s})
  /\ todo' = todo \ {s}
  /\ UNCHANGED <<place, disk, retry, cutover, assoc, journalVars, pc, seen, jobVars, floors, ghostVars>>

\* fetch_source_day_custody.  Two physical rows for one segment are possible
\* whenever there is one; no answer is possible always.
FetchListing(s) ==
  /\ pc = "phase2" /\ s \in todo /\ NeedsListing(s)
  /\ Take(s, "listed")
  /\ \/ listing' = [entries |-> "unavailable", body |-> NoBody]
     \/ /\ assoc.by # NoOne
        /\ \E k \in IF HasRows(assoc.by, s) THEN {"one", "many"} ELSE {"none"} :
             listing' = [entries |-> k, body |-> ListingOf(assoc.by, s)]
  /\ CheckAcks({s})
  /\ UNCHANGED <<place, disk, retry, cutover, assoc, journalVars, seen, pre, req, attempt, floors, ghostVars>>

ListingStale ==
  /\ pc \in {"listed", "proven"} /\ assoc # seen
  /\ Goto("idle") /\ todo' = {}
  /\ UNCHANGED <<deviceVars, assoc, journalVars, seen, floors, ghostVars>>

\* segment_custody_proven: every local file is the one the listing names.
Proven(s) ==
  /\ Present(s) # {}
  /\ \A n \in Present(s) : disk[s][n] = listing.body[n]

ListingProves ==
  /\ pc = "listed" /\ assoc = seen /\ listing.entries = "one" /\ Proven(seg)
  /\ pc' = "proven"
  /\ UNCHANGED <<deviceVars, assoc, journalVars, seen, todo, jobVars, floors, ghostVars>>

\* Mutant of ListingAcked: the marker takes the hashes of the local files.
ListingAckedLocalHashes ==
  /\ pc = "proven" /\ assoc = seen
  /\ ack' = [ack EXCEPT ![seg] = [by |-> seen.by, sum |-> disk[seg], stamp |-> disk[seg]]]
  /\ retry' = [retry EXCEPT ![seg] = NoOne]
  /\ pc' = "acked"
  /\ UNCHANGED <<place, disk, cutover, assoc, journalVars, seen, todo, jobVars, floors, ghostVars>>

\* The marker keeps the journal's hashes: the local bytes may have changed
\* since they were compared.
ListingAcked ==
  /\ pc = "proven" /\ assoc = seen
  /\ IF \A n \in Present(seg) : listing.body[n] # Absent
       THEN /\ ack' = [ack EXCEPT ![seg] =
                         [by    |-> seen.by,
                          sum   |-> [n \in Names |-> IF n \in Present(seg) THEN listing.body[n] ELSE Absent],
                          stamp |-> disk[seg]]]
            /\ retry' = [retry EXCEPT ![seg] = NoOne]
            /\ pc' = "acked" /\ UNCHANGED jobVars
       ELSE Return /\ UNCHANGED <<ack, retry>>
  /\ UNCHANGED <<place, disk, cutover, assoc, journalVars, seen, todo, floors, ghostVars>>

ListingUpload ==
  /\ pc = "listed"
  /\ \/ listing.entries \in {"none", "unavailable"}
     \/ listing.entries = "one" /\ ~Proven(seg)
  /\ BeginUpload(seg)
  /\ UNCHANGED <<deviceVars, assoc, journalVars, seen, floors, ghostVars>>

\* Ambiguous rows leave the segment as it is.
ListingAmbiguous ==
  /\ pc = "listed" /\ assoc = seen /\ listing.entries = "many"
  /\ Return
  /\ UNCHANGED <<deviceVars, assoc, journalVars, seen, todo, floors, ghostVars>>

Phase2Done ==
  /\ pc = "phase2"
  /\ todo' = {} /\ Goto("cleanup")
  /\ UNCHANGED <<deviceVars, assoc, journalVars, seen, floors, ghostVars>>

\* count_unacked_segments evaluates every marker once more.
EndPass ==
  /\ pc = "cleanup"
  /\ CheckAcks(Held)
  /\ Goto("idle") /\ todo' = {}
  /\ UNCHANGED <<place, disk, retry, cutover, assoc, journalVars, seen, floors, ghostVars>>

-----------------------------------------------------------------------------
Surroundings ==
  \/ \E s \in Segments : Capture(s) \/ RetryExpires(s)
  \/ \E s \in Segments, n \in Names, c \in Contents : Rewrite(s, n, c)
  \/ \E p \in Pairings \cup {NoOne} : ChangeAssociation(p)
  \/ \E r \in inflight : JournalReceives(r)
  \/ \E p \in Pairings, s \in Segments : JournalWithdraws(p, s)

Worker ==
  \/ Restart \/ StartPass \/ FinishDone \/ EnsureCutover \/ Phase1Done \/ Phase2Done \/ EndPass
  \/ \E s \in todo : \/ FinishOne(s) \/ Phase1Skip(s) \/ Phase1Quarantine(s)
                     \/ Phase1Upload(s) \/ Phase2Skip(s) \/ FetchListing(s)
  \/ Send \/ UploadStale \/ UploadAcked \/ AckWriteFails \/ UploadRemoved \/ UploadFails
  \/ BeginRemove \/ RemoveBookkeeping \/ RemoveDirectory \/ RemoveFails
  \/ PurgeBookkeeping \/ PurgeDirectory \/ PurgeFails
  \/ \E n \in Names : RemoveFile(n) \/ PurgeFile(n)
  \/ ListingStale \/ ListingProves \/ ListingAcked \/ ListingUpload \/ ListingAmbiguous

Next == Surroundings \/ Crash \/ Worker \/ StartUnpaired

Spec == Init /\ [][Next]_vars

-----------------------------------------------------------------------------
(* What must hold *)

SafeAt(p, s, n, c) == <<p, s, n, c>> \in held \/ <<p, s>> \in withdrawn
Safe(s, n) == \E p \in Pairings : SafeAt(p, s, n, taken[s][n])

\* Nothing taken in is ever lost: the last content of every payload file is on
\* this device, or in some journal, or its owner deleted the segment there.
\* Crashes, lost and late requests, bytes rewritten under an upload and a
\* journal change in the middle of it included.
NoLoss ==
  \A s \in Segments, n \in Names :
    \/ disk[s][n] = taken[s][n]
    \/ disk[s][n] = Absent /\ Safe(s, n)

\* A marker on disk never claims more than the journal it names has: its
\* hashes are of bytes that journal received, whatever the local files hold.
AckNeverLies ==
  \A s \in Segments, n \in Names :
    ack[s].by # NoOne /\ ack[s].sum[n] # Absent => SafeAt(ack[s].by, s, n, ack[s].sum[n])

\* A payload is unlinked while a journal is paired only if that very journal
\* has the bytes, or its owner deleted the segment there: an answer of the
\* journal paired before never empties the device of the one paired now.
UnlinkedForCurrentJournal ==
  [][\A s \in Segments, n \in Names :
       disk[s][n] # Absent /\ disk'[s][n] = Absent
         => assoc.by = NoOne \/ SafeAt(assoc.by, s, n, disk[s][n])]_vars

\* The worker loop runs as long as the process does, and begins passes as long as a journal
\* is paired; the file system stops failing and the process stops dying at some point, or
\* nothing could finish.
GoesWrong == Crash \/ RemoveFails \/ PurgeFails

FairSpec == Spec /\ WF_vars(Worker) /\ <>[][~GoesWrong]_vars

Acknowledged(s) == ack[s].by # NoOne /\ ack[s].by = assoc.by /\ AllMatch(s)

\* A segment a pass has still to remove: the journal has acknowledged it, or its payload is
\* gone, marker or no marker.  Without a pairing there is no pass, and an emptied one stays.
Stays(s) ==
  place[s] = "held" /\ assoc.by # NoOne /\ (Acknowledged(s) \/ Present(s) = {})

Status(s, n) ==
  CASE taken[s][n] = Absent -> "none"
    [] disk[s][n] # Absent -> IF Safe(s, n) THEN "both" ELSE "device"
    [] OTHER -> IF Safe(s, n) THEN "journal" ELSE "lost"

Custody == INSTANCE Custody WITH Items <- Segments \X Names,
                                 status <- [i \in Segments \X Names |-> Status(i[1], i[2])]

\* The pass implements the custody an owner is promised (module Custody).
CustodySpec == Custody!Spec
=============================================================================
