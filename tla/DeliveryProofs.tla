--------------------------- MODULE DeliveryProofs ---------------------------
(***************************************************************************)
(* NoLoss, AckNeverLies and UnlinkedForCurrentJournal hold for every set   *)
(* of segments, names, contents and pairings.  They are not inductive      *)
(* alone: a removal is safe because the marker it follows is true and of   *)
(* the pairing in force, a marker is true because of the request it        *)
(* answers, and both because the association cannot change and come back.  *)
(* IInv says so.                                                           *)
(***************************************************************************)
EXTENDS Delivery, FiniteSetTheorems, TLAPS

\* An association seen earlier is the current one or will never be again.
SeenOrPast == /\ seen.epoch <= assoc.epoch
              /\ seen.epoch = assoc.epoch => seen = assoc

InHand == pc \in LockedAt \cup {"hashed", "sent", "listed", "proven"} => seg \in Segments

LockedIsCurrent == pc \in LockedAt => assoc = seen

\* A request is for the segment in hand, and by the pairing of the pass unless
\* the association has changed since.
RequestInHand == pc = "sent" => /\ req.by \in Pairings /\ req.seg = seg
                                /\ assoc = seen => req.by = seen.by

RequestsByPairings == \A r \in inflight : r.by \in Pairings /\ r.seg \in Segments

\* TypeOK is inductive only with what it needs of requests and of the segment
\* in hand.
TypeInv == TypeOK /\ InHand /\ RequestsByPairings

\* What the worker works on has been taken in.
WorksOnTaken == /\ \A s \in todo : place[s] # "absent"
                /\ seg # NoSegment => place[seg] # "absent"

UntakenIsEmpty == \A s \in Segments : place[s] = "absent" => \A n \in Names : disk[s][n] = Absent

ListingIsTrue ==
  pc \in {"listed", "proven"} /\ assoc = seen =>
    \A n \in Names : listing.body[n] # Absent =>
      seen.by \in Pairings /\ SafeAt(seen.by, seg, n, listing.body[n])

RemovalHasMarker ==
  pc \in {"acked", "removing"} /\ Present(seg) # {} => ack[seg].by # NoOne /\ PairingOk(seg)

PurgeWasAsked ==
  pc \in {"purging", "purgeFiles"} => seen.by \in Pairings /\ <<seen.by, seg>> \in withdrawn

IInv == /\ TypeInv /\ SeenOrPast /\ LockedIsCurrent /\ RequestInHand /\ WorksOnTaken
        /\ ListingIsTrue /\ RemovalHasMarker /\ PurgeWasAsked
        /\ UntakenIsEmpty /\ AckNeverLies /\ NoLoss

-----------------------------------------------------------------------------

LEMMA NoBodyType == NoBody \in Body
  BY DEF NoBody, Body

LEMMA NoJobType == NoJob => /\ seg' \in Segments \cup {NoSegment} /\ from' \in Loops
                            /\ pre' \in Body /\ req' \in Requests /\ attempt' \in Nat
                            /\ listing' \in Listings
  BY NoBodyType DEF NoJob, NoReq, NoList, Loops, Requests, Listings

LEMMA NoAckType == NoAck \in Acks
  BY NoBodyType DEF NoAck, Acks

\* Letting the segment in hand go leaves the worker in one of the loops.
LEMMA ReturnType ==
  TypeOK /\ Return => /\ pc' \in Loops /\ InHand'
                      /\ seg' \in Segments \cup {NoSegment} /\ from' \in Loops
                      /\ pre' \in Body /\ req' \in Requests /\ attempt' \in Nat
                      /\ listing' \in Listings
  BY NoJobType DEF TypeOK, Return, Goto, Loops, InHand, LockedAt

LEMMA CheckAcksType ==
  ASSUME TypeOK, NEW S, CheckAcks(S)
  PROVE  ack' \in [Segments -> Acks]
<1>2. ASSUME NEW s \in Segments
      PROVE  [ack[s] EXCEPT !.stamp =
                [n \in Names |-> IF n \in Present(s) THEN disk[s][n] ELSE @[n]]] \in Acks
  <2>1. ack[s] \in Acks /\ disk[s] \in Body
    BY DEF TypeOK
  <2> QED BY <2>1 DEF Acks, Body
<1> QED BY NoAckType, <1>2 DEF CheckAcks, TypeOK

LEMMA DropRetryType ==
  TypeOK /\ DropRetry => retry' \in [Segments -> Pairings \cup {NoOne}]
  BY DEF TypeOK, DropRetry

LEMMA OneIsNotNone == ASSUME NEW S, Cardinality(S) = 1 PROVE S # {}
<1> SUFFICES ASSUME S = {} PROVE FALSE
  OBVIOUS
<1>1. Cardinality({}) = 0
  BY FS_EmptySet
<1> QED BY <1>1

LEMMA ListingOfType ==
  ASSUME NEW p, NEW s PROVE ListingOf(p, s) \in Body
<1> DEFINE cs(n) == {c \in Contents : <<p, s, n, c>> \in held}
<1>1. ASSUME NEW n \in Names, Cardinality(cs(n)) = 1
      PROVE  (CHOOSE c \in cs(n) : TRUE) \in Contents
  <2>1. cs(n) # {}
    BY <1>1, OneIsNotNone
  <2> QED BY <2>1
<1> QED BY <1>1 DEF ListingOf, Body

LEMMA TypeInductive == TypeInv /\ [Next]_vars => TypeInv'
<1> SUFFICES ASSUME TypeInv, [Next]_vars PROVE TypeInv'
  OBVIOUS
<1> TypeOK
  BY DEF TypeInv
<1> USE NoBodyType, NoJobType
<1>c. CASE UNCHANGED vars
  BY <1>c DEF vars, deviceVars, journalVars, workerVars, jobVars, ghostVars, TypeInv, TypeOK, InHand, RequestsByPairings
<1>1. ASSUME NEW s \in Segments, Capture(s) PROVE TypeInv'
  BY <1>1 DEF Capture, TypeInv, TypeOK, InHand, RequestsByPairings, LockedAt, deviceVars, journalVars, workerVars, jobVars, ghostVars, Body
<1>2. ASSUME NEW s \in Segments, NEW n \in Names, NEW c \in Contents, Rewrite(s, n, c) PROVE TypeInv'
  BY <1>2 DEF Rewrite, TypeInv, TypeOK, InHand, RequestsByPairings, LockedAt, deviceVars, journalVars, workerVars, jobVars, ghostVars, Body
<1>3. ASSUME NEW p \in Pairings \cup {NoOne}, ChangeAssociation(p) PROVE TypeInv'
  BY <1>3 DEF ChangeAssociation, TypeInv, TypeOK, InHand, RequestsByPairings, LockedAt, deviceVars, journalVars, workerVars, jobVars, ghostVars
<1>4. ASSUME NEW r \in inflight, JournalReceives(r) PROVE TypeInv'
  BY <1>4 DEF JournalReceives, TypeInv, TypeOK, InHand, RequestsByPairings, LockedAt, deviceVars, journalVars, workerVars, jobVars, ghostVars, Requests, Body
<1>5. ASSUME NEW p \in Pairings, NEW s \in Segments, JournalWithdraws(p, s) PROVE TypeInv'
  BY <1>5 DEF JournalWithdraws, TypeInv, TypeOK, InHand, RequestsByPairings, LockedAt, deviceVars, journalVars, workerVars, jobVars, ghostVars
<1>6. ASSUME NEW s \in Segments, RetryExpires(s) PROVE TypeInv'
  BY <1>6 DEF RetryExpires, TypeInv, TypeOK, InHand, RequestsByPairings, LockedAt, deviceVars, journalVars, workerVars, jobVars, ghostVars
<1>7. ASSUME Crash PROVE TypeInv'
  BY <1>7 DEF Crash, TypeInv, TypeOK, InHand, RequestsByPairings, LockedAt, deviceVars, journalVars, workerVars, jobVars, ghostVars
<1>40. ASSUME Restart PROVE TypeInv'
  BY <1>40 DEF Restart, TypeInv, TypeOK, InHand, RequestsByPairings, LockedAt, deviceVars, journalVars, jobVars, ghostVars
<1>8. ASSUME StartPass \/ StartUnpaired PROVE TypeInv'
  BY <1>8 DEF StartPass, StartUnpaired, BeginPass, TypeInv, TypeOK, InHand, RequestsByPairings, LockedAt, deviceVars, journalVars, workerVars, jobVars, ghostVars, Held, Loops, Goto
<1>9. ASSUME NEW s \in todo, FinishOne(s) PROVE TypeInv'
  <2>1. CheckAcks({s}) => ack' \in [Segments -> Acks]
    BY CheckAcksType
  <2>2. ack' \in [Segments -> Acks]
    BY <1>9, <2>1, NoAckType DEF FinishOne, TypeOK
  <2>3. /\ pc' \in {"finish", "removing"} /\ todo' \subseteq Segments
        /\ seg' \in Segments \cup {NoSegment} /\ from' \in Loops
        /\ pc' = "removing" => seg' \in Segments
        /\ UNCHANGED <<pre, req, attempt, listing>>
    BY <1>9 DEF FinishOne, TypeOK, Take, jobVars, Loops
  <2> QED
    BY <1>9, <2>2, <2>3 DEF FinishOne, TypeInv, TypeOK, InHand, RequestsByPairings, LockedAt, Loops, journalVars, ghostVars
<1>10. ASSUME FinishDone PROVE TypeInv'
  BY <1>10 DEF FinishDone, TypeInv, TypeOK, InHand, RequestsByPairings, LockedAt, deviceVars, journalVars, workerVars, jobVars, ghostVars, Goto
<1>11. ASSUME EnsureCutover PROVE TypeInv'
  <2> DEFINE legacy == {s \in Held : ack[s].by = NoOne}
  <2>a. legacy \in SUBSET Segments
    BY DEF Held
  <2>b. cutover' = [done |-> TRUE, legacy |-> legacy] \/ cutover' = cutover
    BY <1>11 DEF EnsureCutover
  <2> HIDE DEF legacy
  <2>1. cutover' \in [done : BOOLEAN, legacy : SUBSET Segments]
    <3>1. CASE cutover' = cutover
      BY <3>1 DEF TypeOK
    <3>2. CASE cutover' = [done |-> TRUE, legacy |-> legacy]
      BY <3>2, <2>a
    <3> QED BY <3>1, <3>2, <2>b
  <2> QED
    BY <1>11, <2>1 DEF EnsureCutover, TypeInv, TypeOK, InHand, RequestsByPairings, LockedAt, journalVars, ghostVars, Held, Goto, Loops
<1>12. ASSUME NEW s \in todo, Phase1Skip(s) PROVE TypeInv'
  BY <1>12, CheckAcksType DEF Phase1Skip, TypeInv, TypeOK, InHand, RequestsByPairings, LockedAt, deviceVars, journalVars, workerVars, jobVars, ghostVars
<1>13. ASSUME NEW s \in todo, Phase1Quarantine(s) PROVE TypeInv'
  BY <1>13, CheckAcksType DEF Phase1Quarantine, TypeInv, TypeOK, InHand, RequestsByPairings, LockedAt, deviceVars, journalVars, workerVars, jobVars, ghostVars
<1>14. ASSUME NEW s \in todo, Phase1Upload(s) PROVE TypeInv'
  BY <1>14, CheckAcksType DEF Phase1Upload, TypeInv, TypeOK, InHand, RequestsByPairings, LockedAt, deviceVars, journalVars, workerVars, jobVars, ghostVars, BeginUpload, Goto, NoReq, NoList, Loops, Requests, Listings
<1>15. ASSUME Phase1Done PROVE TypeInv'
  BY <1>15 DEF Phase1Done, TypeInv, TypeOK, InHand, RequestsByPairings, LockedAt, deviceVars, journalVars, workerVars, jobVars, ghostVars, Held, Goto, Loops
<1>16. ASSUME NEW s \in todo, Phase2Skip(s) PROVE TypeInv'
  BY <1>16, CheckAcksType DEF Phase2Skip, TypeInv, TypeOK, InHand, RequestsByPairings, LockedAt, deviceVars, journalVars, workerVars, jobVars, ghostVars
<1>17. ASSUME NEW s \in todo, FetchListing(s) PROVE TypeInv'
  BY <1>17, CheckAcksType, ListingOfType DEF FetchListing, TypeInv, TypeOK, InHand, RequestsByPairings, LockedAt, deviceVars, journalVars, workerVars, jobVars, ghostVars, Take, Loops, Listings
<1>18. ASSUME Phase2Done PROVE TypeInv'
  BY <1>18 DEF Phase2Done, TypeInv, TypeOK, InHand, RequestsByPairings, LockedAt, deviceVars, journalVars, workerVars, jobVars, ghostVars, Goto, Loops
<1>19. ASSUME EndPass PROVE TypeInv'
  BY <1>19, CheckAcksType DEF EndPass, TypeInv, TypeOK, InHand, RequestsByPairings, LockedAt, deviceVars, journalVars, workerVars, jobVars, ghostVars, Goto
<1>20. ASSUME Send PROVE TypeInv'
  BY <1>20 DEF Send, TypeInv, TypeOK, InHand, RequestsByPairings, LockedAt, deviceVars, journalVars, workerVars, jobVars, ghostVars, Requests
<1>21. ASSUME UploadStale PROVE TypeInv'
  BY <1>21 DEF UploadStale, TypeInv, TypeOK, InHand, RequestsByPairings, LockedAt, deviceVars, journalVars, workerVars, jobVars, ghostVars, Goto
<1>22. ASSUME UploadAcked PROVE TypeInv'
  BY <1>22 DEF UploadAcked, TypeInv, TypeOK, InHand, RequestsByPairings, LockedAt, deviceVars, journalVars, workerVars, jobVars, ghostVars, Acks, Requests
<1>23. ASSUME AckWriteFails PROVE TypeInv'
  BY <1>23, ReturnType DEF AckWriteFails, TypeInv, TypeOK, InHand, RequestsByPairings, LockedAt, deviceVars, journalVars, ghostVars
<1>24. ASSUME UploadRemoved PROVE TypeInv'
  BY <1>24 DEF UploadRemoved, TypeInv, TypeOK, InHand, RequestsByPairings, LockedAt, deviceVars, journalVars, workerVars, jobVars, ghostVars
<1>25. ASSUME UploadFails PROVE TypeInv'
  <2>1. /\ pc' \in Loops /\ InHand' /\ todo' \subseteq Segments
        /\ seg' \in Segments \cup {NoSegment} /\ from' \in Loops
        /\ pre' \in Body /\ req' \in Requests /\ attempt' \in Nat /\ listing' \in Listings
    BY <1>25, ReturnType DEF UploadFails, TypeOK, Goto, Return, InHand, LockedAt, Loops
  <2>2. retry' \in [Segments -> Pairings \cup {NoOne}]
    BY <1>25 DEF UploadFails, TypeOK
  <2> QED
    BY <1>25, <2>1, <2>2 DEF UploadFails, TypeInv, TypeOK, RequestsByPairings, journalVars, ghostVars
<1>26. ASSUME BeginRemove PROVE TypeInv'
  <2>1. seg \in Segments
    BY <1>26 DEF BeginRemove, TypeInv, InHand, LockedAt
  <2>2. ack' \in [Segments -> Acks] /\ retry' \in [Segments -> Pairings \cup {NoOne}]
    BY <1>26, <2>1, NoAckType, DropRetryType DEF BeginRemove, TypeOK
  <2>3. /\ pc' \in Loops \cup LockedAt /\ InHand'
        /\ seg' \in Segments \cup {NoSegment} /\ from' \in Loops
        /\ pre' \in Body /\ req' \in Requests /\ attempt' \in Nat /\ listing' \in Listings
    BY <1>26, <2>1, ReturnType DEF BeginRemove, TypeOK, jobVars, LockedAt, InHand
  <2> QED
    BY <1>26, <2>2, <2>3 DEF BeginRemove, TypeInv, TypeOK, RequestsByPairings, journalVars, ghostVars
<1>27. ASSUME NEW n \in Names, RemoveFile(n) PROVE TypeInv'
  <2>1. seg \in Segments
    BY <1>27 DEF RemoveFile, TypeInv, InHand, LockedAt
  <2>2a. ack' \in [Segments -> Acks] /\ retry' \in [Segments -> Pairings \cup {NoOne}]
    BY <1>27, <2>1, NoAckType, DropRetryType DEF RemoveFile, TypeOK
  <2>2b. [disk[seg] EXCEPT ![n] = Absent] \in Body
    BY <2>1 DEF TypeOK, Body
  <2>2c. disk' = disk \/ disk' = [disk EXCEPT ![seg] = [disk[seg] EXCEPT ![n] = Absent]]
    BY <1>27 DEF RemoveFile
  <2>2. /\ ack' \in [Segments -> Acks] /\ disk' \in [Segments -> Body]
        /\ retry' \in [Segments -> Pairings \cup {NoOne}]
    BY <2>1, <2>2a, <2>2b, <2>2c DEF TypeOK
  <2>3. /\ pc' \in Loops \cup LockedAt /\ InHand'
        /\ seg' \in Segments \cup {NoSegment} /\ from' \in Loops
        /\ pre' \in Body /\ req' \in Requests /\ attempt' \in Nat /\ listing' \in Listings
    BY <1>27, <2>1, ReturnType DEF RemoveFile, TypeOK, jobVars, LockedAt, InHand
  <2> QED
    BY <1>27, <2>2, <2>3 DEF RemoveFile, TypeInv, TypeOK, RequestsByPairings, journalVars, ghostVars
<1>28. ASSUME RemoveBookkeeping PROVE TypeInv'
  BY <1>28 DEF RemoveBookkeeping, TypeInv, TypeOK, InHand, RequestsByPairings, LockedAt, deviceVars, journalVars, workerVars, jobVars, ghostVars, NoAck, Acks
<1>29. ASSUME RemoveDirectory PROVE TypeInv'
  BY <1>29, ReturnType DEF RemoveDirectory, TypeInv, TypeOK, InHand, RequestsByPairings, LockedAt, deviceVars, journalVars, ghostVars
<1>30. ASSUME RemoveFails PROVE TypeInv'
  BY <1>30, ReturnType, DropRetryType DEF RemoveFails, TypeInv, TypeOK, InHand, RequestsByPairings, LockedAt, deviceVars, journalVars, ghostVars
<1>31. ASSUME PurgeBookkeeping PROVE TypeInv'
  BY <1>31 DEF PurgeBookkeeping, TypeInv, TypeOK, InHand, RequestsByPairings, LockedAt, deviceVars, journalVars, workerVars, jobVars, ghostVars, NoAck, Acks
<1>32. ASSUME NEW n \in Names, PurgeFile(n) PROVE TypeInv'
  BY <1>32 DEF PurgeFile, TypeInv, TypeOK, InHand, RequestsByPairings, LockedAt, deviceVars, journalVars, workerVars, jobVars, ghostVars, Body
<1>33. ASSUME PurgeDirectory PROVE TypeInv'
  BY <1>33, ReturnType DEF PurgeDirectory, TypeInv, TypeOK, InHand, RequestsByPairings, LockedAt, deviceVars, journalVars, ghostVars
<1>34. ASSUME PurgeFails PROVE TypeInv'
  BY <1>34, ReturnType DEF PurgeFails, TypeInv, TypeOK, InHand, RequestsByPairings, LockedAt, deviceVars, journalVars, ghostVars
<1>35. ASSUME ListingStale PROVE TypeInv'
  BY <1>35 DEF ListingStale, TypeInv, TypeOK, InHand, RequestsByPairings, LockedAt, deviceVars, journalVars, workerVars, jobVars, ghostVars, Goto
<1>36. ASSUME ListingProves PROVE TypeInv'
  BY <1>36 DEF ListingProves, TypeInv, TypeOK, InHand, RequestsByPairings, LockedAt, deviceVars, journalVars, workerVars, jobVars, ghostVars
<1>37. ASSUME ListingAcked PROVE TypeInv'
  <2>1. seg \in Segments
    BY <1>37 DEF ListingAcked, TypeInv, InHand, LockedAt
  <2> DEFINE sum == [n \in Names |-> IF n \in Present(seg) THEN listing.body[n] ELSE Absent]
  <2>2a. sum \in Body
    BY DEF TypeOK, Listings, Body
  <2>2b. [by |-> seen.by, sum |-> sum, stamp |-> disk[seg]] \in Acks
    BY <2>1, <2>2a DEF TypeOK, Acks
  <2>2c. ack' = ack \/ ack' = [ack EXCEPT ![seg] = [by |-> seen.by, sum |-> sum, stamp |-> disk[seg]]]
    BY <1>37 DEF ListingAcked
  <2>2. ack' \in [Segments -> Acks] /\ retry' \in [Segments -> Pairings \cup {NoOne}]
    BY <1>37, <2>2b, <2>2c DEF ListingAcked, TypeOK
  <2>3. /\ pc' \in Loops \cup LockedAt /\ InHand'
        /\ seg' \in Segments \cup {NoSegment} /\ from' \in Loops
        /\ pre' \in Body /\ req' \in Requests /\ attempt' \in Nat /\ listing' \in Listings
    BY <1>37, <2>1, ReturnType DEF ListingAcked, TypeOK, jobVars, LockedAt, InHand
  <2> QED
    BY <1>37, <2>2, <2>3 DEF ListingAcked, TypeInv, TypeOK, RequestsByPairings, journalVars, ghostVars
<1>38. ASSUME ListingUpload PROVE TypeInv'
  BY <1>38 DEF ListingUpload, TypeInv, TypeOK, InHand, RequestsByPairings, LockedAt, deviceVars, journalVars, workerVars, jobVars, ghostVars, BeginUpload, Goto, NoReq, NoList, Loops, Requests, Listings
<1>39. ASSUME ListingAmbiguous PROVE TypeInv'
  BY <1>39, ReturnType DEF ListingAmbiguous, TypeInv, TypeOK, InHand, RequestsByPairings, LockedAt, deviceVars, journalVars, ghostVars
<1> QED
  BY <1>c, <1>1, <1>2, <1>3, <1>4, <1>5, <1>6, <1>7, <1>8, <1>9, <1>10, <1>11, <1>12, <1>13, <1>14, <1>15, <1>16, <1>17, <1>18, <1>19, <1>20, <1>21, <1>22, <1>23, <1>24, <1>25, <1>26, <1>27, <1>28, <1>29, <1>30, <1>31, <1>32, <1>33, <1>34, <1>35, <1>36, <1>37, <1>38, <1>39, <1>40 DEF Next, Surroundings, Worker, vars

-----------------------------------------------------------------------------
(* Footprints: which actions can disturb which part of the state. *)

LEMMA JournalFootprint ==
  [Next]_vars => \/ \E r \in inflight : JournalReceives(r)
                 \/ \E p \in Pairings, s \in Segments : JournalWithdraws(p, s)
                 \/ UNCHANGED <<held, withdrawn>>
  BY DEF
        Next, Surroundings, Worker, vars, deviceVars, journalVars, workerVars, jobVars,
        ghostVars, Capture, Rewrite, ChangeAssociation, RetryExpires, Crash, Restart, StartPass, StartUnpaired, BeginPass,
        FinishOne, FinishDone, EnsureCutover, Phase1Skip, Phase1Quarantine, Phase1Upload,
        Phase1Done, Phase2Skip, FetchListing, Phase2Done, EndPass, Send, UploadStale,
        UploadAcked, AckWriteFails, UploadRemoved, UploadFails, BeginRemove, RemoveFile,
        RemoveBookkeeping, RemoveDirectory, RemoveFails, PurgeBookkeeping, PurgeFile,
        PurgeDirectory, PurgeFails, ListingStale, ListingProves, ListingAcked, ListingUpload,
        ListingAmbiguous

LEMMA DiskFootprint ==
  [Next]_vars => \/ \E s \in Segments : Capture(s)
                 \/ \E s \in Segments, n \in Names, c \in Contents : Rewrite(s, n, c)
                 \/ \E n \in Names : RemoveFile(n) \/ PurgeFile(n)
                 \/ UNCHANGED <<disk, taken>>
  BY DEF
        Next, Surroundings, Worker, vars, deviceVars, journalVars, workerVars, jobVars,
        ghostVars, ChangeAssociation, JournalReceives, JournalWithdraws, RetryExpires, Crash, Restart,
        StartPass, StartUnpaired, BeginPass, FinishOne, FinishDone, EnsureCutover, Phase1Skip, Phase1Quarantine,
        Phase1Upload, Phase1Done, Phase2Skip, FetchListing, Phase2Done, EndPass, Send,
        UploadStale, UploadAcked, AckWriteFails, UploadRemoved, UploadFails, BeginRemove,
        RemoveBookkeeping, RemoveDirectory, RemoveFails, PurgeBookkeeping, PurgeDirectory,
        PurgeFails, ListingStale, ListingProves, ListingAcked, ListingUpload, ListingAmbiguous

LEMMA AssocFootprint ==
  [Next]_vars => /\ (\E p \in Pairings \cup {NoOne} : ChangeAssociation(p)) \/ assoc' = assoc
                 /\ seen' = seen \/ (seen' = assoc /\ assoc' = assoc)
  BY DEF
        Next, Surroundings, Worker, vars, deviceVars, journalVars, workerVars, jobVars,
        ghostVars, Capture, Rewrite, ChangeAssociation, JournalReceives, JournalWithdraws,
        RetryExpires, Crash, Restart, StartPass, StartUnpaired, BeginPass, FinishOne, FinishDone, EnsureCutover, Phase1Skip,
        Phase1Quarantine, Phase1Upload, Phase1Done, Phase2Skip, FetchListing, Phase2Done,
        EndPass, Send, UploadStale, UploadAcked, AckWriteFails, UploadRemoved, UploadFails,
        BeginRemove, RemoveFile, RemoveBookkeeping, RemoveDirectory, RemoveFails,
        PurgeBookkeeping, PurgeFile, PurgeDirectory, PurgeFails, ListingStale, ListingProves,
        ListingAcked, ListingUpload, ListingAmbiguous

\* The worker is between segments, does not move, or takes a step of a job.
Resting == pc' \in Loops \cup {"down", "idle", "cutover"}
SameJob == UNCHANGED <<pc, seen, jobVars>>

LEMMA JobFootprint ==
  ASSUME from \in Loops, [Next]_vars
  PROVE  \/ Resting \/ SameJob \/ pc' = "hashed"
         \/ \E s \in todo : FinishOne(s) \/ FetchListing(s)
         \/ Send \/ UploadAcked \/ UploadRemoved \/ BeginRemove \/ RemoveBookkeeping
         \/ PurgeBookkeeping \/ ListingProves \/ ListingAcked
<1>1. CASE Surroundings \/ UNCHANGED vars
  BY <1>1 DEF SameJob, Surroundings, Capture, Rewrite, ChangeAssociation, JournalReceives,
       JournalWithdraws, RetryExpires, workerVars, jobVars, vars
<1>2. CASE \/ Crash \/ Restart \/ StartPass \/ StartUnpaired \/ FinishDone \/ EnsureCutover \/ Phase1Done \/ Phase2Done \/ EndPass
           \/ UploadStale \/ ListingStale
  BY <1>2 DEF Resting, Loops, Crash, Restart, StartPass, StartUnpaired, BeginPass, FinishDone, EnsureCutover, Phase1Done, Phase2Done,
       EndPass, UploadStale, ListingStale, Goto
<1>3. CASE \/ AckWriteFails \/ UploadFails \/ RemoveDirectory \/ RemoveFails \/ PurgeDirectory
           \/ PurgeFails \/ ListingAmbiguous
  BY <1>3 DEF Resting, Loops, AckWriteFails, UploadFails, RemoveDirectory, RemoveFails,
       PurgeDirectory, PurgeFails, ListingAmbiguous, Return, Goto
<1>4. CASE \E s \in todo : \/ Phase1Skip(s) \/ Phase1Quarantine(s) \/ Phase1Upload(s) \/ Phase2Skip(s)
  BY <1>4 DEF Resting, SameJob, Phase1Skip, Phase1Quarantine, Phase1Upload, Phase2Skip,
       BeginUpload, Goto, Loops
<1>5. CASE \E n \in Names : RemoveFile(n) \/ PurgeFile(n)
  BY <1>5 DEF Resting, SameJob, RemoveFile, PurgeFile, Return, Goto, Loops, workerVars
<1>6. CASE ListingUpload
  BY <1>6 DEF Resting, ListingUpload, BeginUpload, Goto
<1> QED BY <1>1, <1>2, <1>3, <1>4, <1>5, <1>6 DEF Next, Worker

\* A marker is dropped, kept for the same bytes, or written by an answer.
LEMMA CheckAcksKeeps ==
  ASSUME TypeOK, NEW S, CheckAcks(S), NEW s \in Segments
  PROVE  ack'[s].by = NoOne \/ (ack'[s].by = ack[s].by /\ ack'[s].sum = ack[s].sum)
<1>1. ack[s] \in Acks
  BY DEF TypeOK
<1> QED BY <1>1 DEF CheckAcks, NoAck, Acks

LEMMA MarkerFootprint ==
  ASSUME TypeInv, [Next]_vars, NEW s \in Segments
  PROVE  \/ ack'[s].by = NoOne
         \/ ack'[s].by = ack[s].by /\ ack'[s].sum = ack[s].sum
         \/ s = seg /\ (UploadAcked \/ ListingAcked)
<1> DEFINE Kept == \/ ack'[s].by = NoOne
                   \/ ack'[s].by = ack[s].by /\ ack'[s].sum = ack[s].sum
<1> USE CheckAcksKeeps DEF TypeInv, TypeOK
<1>1. CASE Surroundings \/ UNCHANGED vars
  BY <1>1 DEF Surroundings, Capture, Rewrite, ChangeAssociation, JournalReceives,
       JournalWithdraws, RetryExpires, deviceVars, vars
<1>2. CASE \/ Crash \/ Restart \/ StartPass \/ StartUnpaired \/ FinishDone \/ EnsureCutover \/ Phase1Done \/ Phase2Done
           \/ UploadStale \/ ListingStale
  BY <1>2 DEF Crash, Restart, StartPass, StartUnpaired, BeginPass, FinishDone, EnsureCutover, Phase1Done, Phase2Done,
       UploadStale, ListingStale, deviceVars
<1>3. CASE \/ AckWriteFails \/ UploadFails \/ RemoveDirectory \/ RemoveFails \/ PurgeDirectory
           \/ PurgeFails \/ ListingAmbiguous \/ Send \/ UploadRemoved \/ ListingProves \/ ListingUpload
  BY <1>3 DEF AckWriteFails, UploadFails, RemoveDirectory, RemoveFails, PurgeDirectory, PurgeFails,
       ListingAmbiguous, Send, UploadRemoved, ListingProves, ListingUpload, deviceVars
<1>4. CASE EndPass \/ \E r \in todo : \/ Phase1Skip(r) \/ Phase1Quarantine(r) \/ Phase1Upload(r)
                                      \/ Phase2Skip(r) \/ FetchListing(r)
  BY <1>4 DEF EndPass, Phase1Skip, Phase1Quarantine, Phase1Upload, Phase2Skip, FetchListing
<1>5. CASE \E r \in todo : FinishOne(r)
  BY <1>5 DEF FinishOne, NoAck
<1>6. CASE BeginRemove \/ RemoveBookkeeping \/ PurgeBookkeeping \/ \E n \in Names : RemoveFile(n) \/ PurgeFile(n)
  BY <1>6 DEF BeginRemove, RemoveBookkeeping, PurgeBookkeeping, RemoveFile, PurgeFile, NoAck
<1>7. CASE UploadAcked \/ ListingAcked
  BY <1>7 DEF UploadAcked, ListingAcked
<1> QED BY <1>1, <1>2, <1>3, <1>4, <1>5, <1>6, <1>7 DEF Next, Worker

-----------------------------------------------------------------------------
(* One lemma per conjunct of the inductive invariant. *)

\* What a journal has, or its owner removed, stays so.
LEMMA SafeStable ==
  ASSUME [Next]_vars, NEW p, NEW s, NEW n, NEW c, SafeAt(p, s, n, c)
  PROVE  <<p, s, n, c>> \in held' \/ <<p, s>> \in withdrawn'
  BY JournalFootprint DEF SafeAt, JournalReceives, JournalWithdraws

LEMMA SeenOrPastInductive == TypeOK /\ SeenOrPast /\ [Next]_vars => SeenOrPast'
  BY AssocFootprint DEF SeenOrPast, TypeOK, ChangeAssociation

LEMMA LockedInductive == IInv /\ [Next]_vars => LockedIsCurrent'
<1> SUFFICES ASSUME IInv, [Next]_vars, pc' \in LockedAt PROVE assoc' = seen'
  BY DEF LockedIsCurrent
<1>1. ~Resting /\ pc' # "hashed"
  BY DEF Resting, LockedAt, Loops
<1>2. CASE SameJob
  BY <1>2, AssocFootprint DEF SameJob, IInv, LockedIsCurrent, LockedAt, ChangeAssociation
<1>3. CASE ~SameJob
  BY <1>1, <1>3, JobFootprint DEF IInv, TypeInv, TypeOK, LockedIsCurrent, LockedAt, FinishOne, FetchListing,
     Send, UploadAcked, UploadRemoved, BeginRemove, RemoveBookkeeping, PurgeBookkeeping,
     ListingProves, ListingAcked, Take
<1> QED BY <1>2, <1>3

LEMMA RequestInductive == IInv /\ [Next]_vars => RequestInHand'
<1> SUFFICES ASSUME IInv, [Next]_vars, pc' = "sent"
             PROVE  /\ req'.by \in Pairings /\ req'.seg = seg'
                    /\ assoc' = seen' => req'.by = seen'.by
  BY DEF RequestInHand
<1>1. CASE Send
  BY <1>1 DEF Send, IInv, TypeInv, TypeOK
<1>2. CASE SameJob
  <2>1. assoc' = seen' => assoc = seen
    BY <1>2, AssocFootprint DEF SameJob, ChangeAssociation, IInv, SeenOrPast, TypeInv, TypeOK
  <2> QED BY <1>2, <2>1 DEF SameJob, jobVars, IInv, RequestInHand
<1> QED
  BY <1>1, <1>2, JobFootprint DEF IInv, TypeInv, TypeOK, Resting, Loops, LockedAt, FinishOne, FetchListing,
     UploadAcked, UploadRemoved, BeginRemove, RemoveBookkeeping, PurgeBookkeeping,
     ListingProves, ListingAcked, Take, Return, Goto, jobVars

LEMMA AckInductive == IInv /\ [Next]_vars => AckNeverLies'
<1> SUFFICES ASSUME IInv, [Next]_vars, NEW s \in Segments, NEW n \in Names,
                    ack'[s].by # NoOne, ack'[s].sum[n] # Absent
             PROVE  \/ <<ack'[s].by, s, n, ack'[s].sum[n]>> \in held'
                    \/ <<ack'[s].by, s>> \in withdrawn'
  BY DEF AckNeverLies, SafeAt
<1>1. SUFFICES SafeAt(ack'[s].by, s, n, ack'[s].sum[n])
  BY SafeStable
<1>2. CASE ack'[s].by = ack[s].by /\ ack'[s].sum = ack[s].sum
  BY <1>2 DEF IInv, AckNeverLies
<1>3. CASE s = seg /\ UploadAcked
  <2>1. ack'[s] = [by |-> req.by, sum |-> req.body, stamp |-> disk[seg]]
    BY <1>3 DEF UploadAcked, IInv, TypeInv, TypeOK
  <2>2. req.seg = s
    BY <1>3 DEF UploadAcked, IInv, RequestInHand
  <2> QED BY <1>3, <2>1, <2>2 DEF UploadAcked, Stored, SafeAt
<1>4. CASE s = seg /\ ListingAcked
  <2>1. CASE ack' = ack
    BY <2>1 DEF IInv, AckNeverLies
  <2>2. CASE ack' # ack
    <3>1. ack'[s].by = seen.by /\ ack'[s].sum[n] = listing.body[n]
      BY <1>4, <2>2 DEF ListingAcked, IInv, TypeInv, TypeOK
    <3> QED BY <1>4, <3>1 DEF ListingAcked, IInv, ListingIsTrue
  <2> QED BY <2>1, <2>2
<1> QED BY <1>2, <1>3, <1>4, MarkerFootprint DEF IInv

LEMMA NoLossInductive == IInv /\ [Next]_vars => NoLoss'
<1> SUFFICES ASSUME IInv, [Next]_vars, NEW s \in Segments, NEW n \in Names
             PROVE  \/ disk'[s][n] = taken'[s][n]
                    \/ disk'[s][n] = Absent /\ Safe(s, n)'
  BY DEF NoLoss
<1>0. disk[s][n] = taken[s][n] \/ (disk[s][n] = Absent /\ Safe(s, n))
  BY DEF IInv, NoLoss
<1>a. disk \in [Segments -> Body] /\ taken \in [Segments -> Body]
  BY DEF IInv, TypeInv, TypeOK
<1>1. ASSUME taken'[s][n] = taken[s][n], Safe(s, n) PROVE Safe(s, n)'
  BY <1>1, SafeStable DEF Safe, SafeAt
<1>2. CASE UNCHANGED <<disk, taken>>
  BY <1>2, <1>1 DEF IInv, NoLoss
<1>3. CASE \E r \in Segments : Capture(r)
  BY <1>3, <1>1, <1>a DEF Capture, IInv, NoLoss
<1>4. CASE \E r \in Segments, m \in Names, c \in Contents : Rewrite(r, m, c)
  BY <1>4, <1>1, <1>a DEF Rewrite, IInv, NoLoss, Body
<1>5. ASSUME NEW m \in Names, RemoveFile(m) PROVE disk'[s][n] = taken'[s][n] \/ (disk'[s][n] = Absent /\ Safe(s, n)')
  <2>1. CASE disk'[s][n] = disk[s][n]
    <3>1. taken'[s][n] = taken[s][n]
      BY <1>5 DEF RemoveFile, ghostVars
    <3> QED BY <2>1, <3>1, <1>0, <1>1
  <2>2. CASE disk'[s][n] # disk[s][n]
    <3>1. /\ s = seg /\ n = m /\ disk'[s][n] = Absent /\ taken' = taken
          /\ n \in Present(s) /\ disk[s][n] = ack[s].sum[n] /\ ack[s].by # NoOne
      BY <1>5, <2>2, <1>a DEF RemoveFile, IInv, RemovalHasMarker, ghostVars, Body
    <3>2. SafeAt(ack[s].by, s, n, taken[s][n]) /\ ack[s].by \in Pairings
      BY <3>1 DEF Present, IInv, NoLoss, AckNeverLies, TypeInv, TypeOK, Acks
    <3> QED BY <3>1, <3>2, <1>1 DEF Safe
  <2> QED BY <2>1, <2>2
<1>6. ASSUME NEW m \in Names, PurgeFile(m) PROVE disk'[s][n] = taken'[s][n] \/ (disk'[s][n] = Absent /\ Safe(s, n)')
  <2>1. CASE disk'[s][n] = disk[s][n]
    <3>1. taken'[s][n] = taken[s][n]
      BY <1>6 DEF PurgeFile, ghostVars
    <3> QED BY <2>1, <3>1, <1>0, <1>1
  <2>2. CASE disk'[s][n] # disk[s][n]
    <3>1. s = seg /\ disk'[s][n] = Absent /\ taken' = taken
      BY <1>6, <2>2, <1>a DEF PurgeFile, ghostVars, Body
    <3> QED BY <1>6, <3>1, <1>1 DEF PurgeFile, IInv, PurgeWasAsked, Safe, SafeAt
  <2> QED BY <2>1, <2>2
<1> QED BY <1>2, <1>3, <1>4, <1>5, <1>6, DiskFootprint

\* A directory taken in is never again "absent", and the worker picks only
\* directories it found.
LEMMA WorkFootprint ==
  ASSUME TypeOK, [Next]_vars
  PROVE  /\ \A s \in Segments : place[s] # "absent" => place'[s] # "absent"
         /\ todo' \subseteq todo \cup Held
         /\ seg' \in todo \cup {seg, NoSegment}
<1> USE DEF TypeOK
<1>1. CASE Surroundings \/ UNCHANGED vars
  BY <1>1 DEF Surroundings, Capture, Rewrite, ChangeAssociation, JournalReceives,
       JournalWithdraws, RetryExpires, deviceVars, workerVars, jobVars, vars
<1>2. CASE \/ Crash \/ Restart \/ StartPass \/ StartUnpaired \/ FinishDone \/ EnsureCutover \/ Phase1Done \/ Phase2Done \/ EndPass
           \/ UploadStale \/ ListingStale
  BY <1>2 DEF Crash, Restart, StartPass, StartUnpaired, BeginPass, FinishDone, EnsureCutover, Phase1Done, Phase2Done, EndPass,
       UploadStale, ListingStale, Goto, NoJob, deviceVars, jobVars
<1>3. CASE \/ AckWriteFails \/ UploadFails \/ RemoveDirectory \/ RemoveFails \/ PurgeDirectory
           \/ PurgeFails \/ ListingAmbiguous
  BY <1>3 DEF AckWriteFails, UploadFails, RemoveDirectory, RemoveFails, PurgeDirectory,
       PurgeFails, ListingAmbiguous, Return, Goto, NoJob, deviceVars
<1>4. CASE \/ Send \/ UploadRemoved \/ ListingProves \/ UploadAcked \/ RemoveBookkeeping \/ PurgeBookkeeping
  BY <1>4 DEF Send, UploadRemoved, ListingProves, UploadAcked, RemoveBookkeeping,
       PurgeBookkeeping, deviceVars, jobVars
<1>5. CASE \E s \in todo : \/ Phase1Skip(s) \/ Phase1Quarantine(s) \/ Phase2Skip(s) \/ FetchListing(s)
                           \/ FinishOne(s)
  BY <1>5 DEF Phase1Skip, Phase1Quarantine, Phase2Skip, FetchListing, FinishOne, Take, jobVars
<1>6. CASE \/ ListingUpload \/ (\E s \in todo : Phase1Upload(s))
  BY <1>6 DEF ListingUpload, Phase1Upload, BeginUpload, Goto, NoJob, deviceVars
<1>7. CASE \/ BeginRemove \/ ListingAcked \/ (\E n \in Names : RemoveFile(n) \/ PurgeFile(n))
  BY <1>7 DEF BeginRemove, ListingAcked, RemoveFile, PurgeFile, Return, Goto, NoJob,
       deviceVars, workerVars, jobVars
<1> QED BY <1>1, <1>2, <1>3, <1>4, <1>5, <1>6, <1>7 DEF Next, Worker

LEMMA WorksOnTakenInductive == IInv /\ [Next]_vars => WorksOnTaken'
<1> SUFFICES ASSUME IInv, [Next]_vars PROVE WorksOnTaken'
  OBVIOUS
<1> TypeOK
  BY DEF IInv, TypeInv
<1>1. \A s \in todo \cup Held : s \in Segments /\ place[s] # "absent"
  BY DEF IInv, WorksOnTaken, Held, TypeOK
<1>2. seg' # NoSegment => seg' \in Segments /\ place[seg'] # "absent"
  BY <1>1, WorkFootprint DEF IInv, WorksOnTaken, TypeOK
<1> QED BY <1>1, <1>2, WorkFootprint DEF WorksOnTaken

LEMMA UntakenInductive == IInv /\ [Next]_vars => UntakenIsEmpty'
<1> SUFFICES ASSUME IInv, [Next]_vars, NEW s \in Segments, NEW n \in Names, place'[s] = "absent"
             PROVE  disk'[s][n] = Absent
  BY DEF UntakenIsEmpty
<1> TypeOK
  BY DEF IInv, TypeInv
<1>1. place[s] = "absent" /\ disk[s][n] = Absent
  BY WorkFootprint DEF IInv, UntakenIsEmpty
<1>2. CASE \E r \in Segments : Capture(r)
  BY <1>1, <1>2 DEF Capture, TypeOK
<1>3. ASSUME NEW r \in Segments, NEW m \in Names, NEW c \in Contents, Rewrite(r, m, c)
      PROVE  disk'[s][n] = Absent
  <2>1. r # s
    BY <1>1, <1>3 DEF Rewrite
  <2> QED BY <1>1, <1>3, <2>1 DEF Rewrite, TypeOK
<1>4. ASSUME NEW m \in Names, RemoveFile(m) \/ PurgeFile(m)
      PROVE  disk'[s][n] = Absent
  <2>1. disk[s] \in Body /\ disk \in [Segments -> Body]
    BY DEF TypeOK
  <2>2. disk' = disk \/ disk' = [disk EXCEPT ![seg] = [disk[seg] EXCEPT ![m] = Absent]]
    BY <1>4 DEF RemoveFile, PurgeFile
  <2>3. disk'[s] = disk[s] \/ disk'[s] = [disk[s] EXCEPT ![m] = Absent]
    BY <2>1, <2>2
  <2> QED BY <1>1, <2>1, <2>3 DEF Body
<1>5. CASE UNCHANGED <<disk, taken>>
  BY <1>1, <1>5
<1> QED BY <1>2, <1>3, <1>4, <1>5, DiskFootprint

LEMMA ListingOfTrue ==
  ASSUME NEW p, NEW s, NEW n \in Names, ListingOf(p, s)[n] # Absent
  PROVE  <<p, s, n, ListingOf(p, s)[n]>> \in held
<1> DEFINE cs == {c \in Contents : <<p, s, n, c>> \in held}
<1>1. ListingOf(p, s)[n] = IF Cardinality(cs) = 1 THEN CHOOSE c \in cs : TRUE ELSE Absent
  BY DEF ListingOf
<1>2. Cardinality(cs) = 1
  BY <1>1
<1>3. cs # {}
  BY <1>2, OneIsNotNone
<1>4. (CHOOSE c \in cs : TRUE) \in cs
  BY <1>3
<1> QED BY <1>1, <1>2, <1>4

LEMMA ListingInductive == IInv /\ [Next]_vars => ListingIsTrue'
<1> SUFFICES ASSUME IInv, [Next]_vars, pc' \in {"listed", "proven"}, assoc' = seen',
                    NEW n \in Names, listing'.body[n] # Absent
             PROVE  /\ seen'.by \in Pairings
                    /\ \/ <<seen'.by, seg', n, listing'.body[n]>> \in held'
                       \/ <<seen'.by, seg'>> \in withdrawn'
  BY DEF ListingIsTrue, SafeAt
<1> SUFFICES seen'.by \in Pairings /\ SafeAt(seen'.by, seg', n, listing'.body[n])
  BY SafeStable
<1>1. CASE SameJob
  <2>1. assoc = seen
    BY <1>1, AssocFootprint DEF SameJob, ChangeAssociation, IInv, SeenOrPast, TypeInv, TypeOK
  <2> QED BY <1>1, <2>1 DEF SameJob, jobVars, IInv, ListingIsTrue
<1>2. CASE ListingProves
  BY <1>2 DEF ListingProves, jobVars, IInv, ListingIsTrue
<1>3. ASSUME NEW s \in todo, FetchListing(s) PROVE seen'.by \in Pairings /\ SafeAt(seen'.by, seg', n, listing'.body[n])
  <2>1. /\ seg' = s /\ seen' = assoc
        /\ \/ listing'.body = NoBody
           \/ assoc.by # NoOne /\ listing'.body = ListingOf(assoc.by, s)
    BY <1>3 DEF FetchListing, Take
  <2>2. assoc.by \in Pairings /\ listing'.body = ListingOf(assoc.by, s)
    BY <2>1 DEF NoBody, IInv, TypeInv, TypeOK
  <2> QED BY <2>1, <2>2, ListingOfTrue DEF SafeAt
<1> QED
  BY <1>1, <1>2, <1>3, JobFootprint DEF IInv, TypeInv, TypeOK, Resting, Loops, FinishOne, Send,
     UploadAcked, UploadRemoved, BeginRemove, RemoveBookkeeping, PurgeBookkeeping,
     ListingAcked, Take, Return, Goto, jobVars

LEMMA PurgeInductive == IInv /\ [Next]_vars => PurgeWasAsked'
<1> SUFFICES ASSUME IInv, [Next]_vars, pc' \in {"purging", "purgeFiles"}
             PROVE  seen'.by \in Pairings /\ <<seen'.by, seg'>> \in withdrawn'
  BY DEF PurgeWasAsked
<1>0. withdrawn \subseteq withdrawn'
  BY JournalFootprint DEF JournalReceives, JournalWithdraws
<1>1. CASE SameJob
  BY <1>0, <1>1 DEF SameJob, jobVars, IInv, PurgeWasAsked
<1>2. CASE UploadRemoved
  BY <1>0, <1>2 DEF UploadRemoved, jobVars, IInv, RequestInHand
<1>3. CASE PurgeBookkeeping
  BY <1>0, <1>3 DEF PurgeBookkeeping, jobVars, IInv, PurgeWasAsked
<1> QED
  BY <1>1, <1>2, <1>3, JobFootprint DEF IInv, TypeInv, TypeOK, Resting, Loops, FinishOne, FetchListing,
     Send, UploadAcked, BeginRemove, RemoveBookkeeping, ListingProves,
     ListingAcked, Take, Return, Goto, jobVars

\* While a removal stays where it is, nothing touches its marker, and no
\* payload file appears.
LEMMA RemovalFootprint ==
  ASSUME IInv, [Next]_vars, SameJob, pc \in {"acked", "removing"}
  PROVE  /\ ack'[seg] = ack[seg]
         /\ Present(seg)' # {} => Present(seg) # {}
<1>0. /\ from \in Loops /\ seg \in Segments /\ place[seg] # "absent"
      /\ disk \in [Segments -> Body] /\ seg' = seg /\ pc' = pc
  BY DeliveryAssumption DEF IInv, TypeInv, TypeOK, InHand, LockedAt, WorksOnTaken, SameJob, jobVars
<1>1. ack' = ack
  <2>1. CASE Surroundings \/ UNCHANGED vars \/ Crash
    BY <2>1, <1>0 DEF Surroundings, Capture, Rewrite, ChangeAssociation, JournalReceives,
         JournalWithdraws, RetryExpires, Crash, deviceVars, vars
  <2>2. CASE Worker \/ StartUnpaired
    BY <2>2, <1>0 DEF Worker, Restart, StartPass, StartUnpaired, BeginPass, FinishDone, EnsureCutover, Phase1Done, Phase2Done, EndPass,
         FinishOne, Phase1Skip, Phase1Quarantine, Phase1Upload, Phase2Skip, FetchListing,
         Send, UploadStale, UploadAcked, AckWriteFails, UploadRemoved, UploadFails,
         BeginRemove, RemoveBookkeeping, RemoveDirectory, RemoveFails, RemoveFile, PurgeFile,
         PurgeBookkeeping, PurgeDirectory, PurgeFails, ListingStale, ListingProves,
         ListingAcked, ListingUpload, ListingAmbiguous, Return, Goto, Loops, deviceVars
  <2> QED BY <2>1, <2>2 DEF Next
<1>2. Present(seg)' # {} => Present(seg) # {}
  <2>1. CASE \E s \in Segments : Capture(s)
    BY <2>1, <1>0 DEF Capture, Present
  <2>2. CASE \E s \in Segments, n \in Names, c \in Contents : Rewrite(s, n, c)
    BY <2>2, <1>0 DEF Rewrite, Present, Body
  <2>3. CASE \E n \in Names : RemoveFile(n) \/ PurgeFile(n)
    BY <2>3 DEF RemoveFile, PurgeFile, Present
  <2>4. CASE UNCHANGED <<disk, taken>>
    BY <2>4, <1>0 DEF Present
  <2> QED BY <2>1, <2>2, <2>3, <2>4, DiskFootprint
<1> QED BY <1>1, <1>2

LEMMA RemovalInductive == IInv /\ [Next]_vars => RemovalHasMarker'
<1> SUFFICES ASSUME IInv, [Next]_vars, pc' \in {"acked", "removing"}, Present(seg)' # {}
             PROVE  /\ ack'[seg'].by # NoOne
                    /\ seen'.by = NoOne \/ ack'[seg'].by = seen'.by
  BY DEF RemovalHasMarker, PairingOk
<1> USE DEF PairingOk
<1>a. TypeInv /\ TypeOK
  BY DEF IInv, TypeInv
<1>1. CASE SameJob
  BY <1>1, RemovalFootprint DEF SameJob, jobVars, IInv, RemovalHasMarker
<1>2. CASE UploadAcked
  BY <1>2, <1>a, DeliveryAssumption DEF UploadAcked, jobVars, IInv, RequestInHand, TypeInv, TypeOK, InHand
<1>3. CASE BeginRemove
  BY <1>3, <1>a DEF BeginRemove, IInv, RemovalHasMarker, Present, jobVars, TypeOK, Return, Goto, Loops
<1>4. CASE ListingAcked
  <2>1. /\ seg' = seg /\ seen' = seen /\ disk' = disk /\ seg \in Segments /\ assoc = seen
        /\ ack'[seg].by = seen.by /\ \A n \in Present(seg) : listing.body[n] # Absent
    BY <1>4, <1>a DEF ListingAcked, jobVars, TypeInv, TypeOK, InHand, Return, Goto, Loops
  <2>2. PICK n \in Names : n \in Present(seg)
    BY <2>1 DEF Present
  <2>3. seen.by \in Pairings
    BY <1>4, <2>1, <2>2 DEF ListingAcked, IInv, ListingIsTrue
  <2> QED BY <2>1, <2>3, DeliveryAssumption
<1>5. ASSUME NEW s \in todo, FinishOne(s)
      PROVE  ack'[seg'].by # NoOne /\ (seen'.by = NoOne \/ ack'[seg'].by = seen'.by)
  <2>1. /\ s \in Segments /\ seg' = s /\ seen' = seen /\ disk' = disk
        /\ AckValid(s) \/ Present(s) = {}
        /\ CheckAcks({s})
    BY <1>5, <1>a DEF FinishOne, Take, TypeOK, jobVars
  <2>2. Present(s) # {}
    BY <2>1 DEF Present
  <2>3. ack[s].by # NoOne /\ PairingOk(s) /\ ~Contradicted(s)
    BY <2>1, <2>2 DEF AckValid
  <2>4. ack'[s].by = ack[s].by
    BY <2>1, <2>3, <1>a DEF CheckAcks, TypeOK, Acks
  <2> QED BY <2>1, <2>3, <2>4
<1> QED
  BY <1>1, <1>2, <1>3, <1>4, <1>5, <1>a, JobFootprint DEF TypeOK, Resting, Loops, FetchListing,
     Send, UploadRemoved, RemoveBookkeeping, PurgeBookkeeping, ListingProves, Take

LEMMA IInvInit == Init => IInv
<1> SUFFICES ASSUME Init PROVE IInv
  OBVIOUS
<1> USE NoBodyType, NoAckType
<1>1. TypeInv
  BY DEF Init, TypeInv, TypeOK, InHand, RequestsByPairings, NoReq, NoList, Requests, Listings,
     Loops, LockedAt
<1>2. NoLoss /\ AckNeverLies /\ UntakenIsEmpty
  BY DEF Init, NoLoss, AckNeverLies, NoAck, UntakenIsEmpty, NoBody
<1>3. WorksOnTaken
  BY DEF Init, WorksOnTaken
<1> QED
  BY <1>1, <1>2, <1>3 DEF Init, IInv, SeenOrPast, LockedIsCurrent, RequestInHand, ListingIsTrue,
     RemovalHasMarker, PurgeWasAsked, LockedAt

LEMMA IInvInductive == IInv /\ [Next]_vars => IInv'
<1> SUFFICES ASSUME IInv, [Next]_vars PROVE IInv'
  OBVIOUS
<1>1. TypeInv' /\ SeenOrPast'
  BY TypeInductive, SeenOrPastInductive DEF IInv, TypeInv
<1> QED
  BY <1>1, LockedInductive, RequestInductive, WorksOnTakenInductive, ListingInductive,
     RemovalInductive, PurgeInductive, UntakenInductive, AckInductive, NoLossInductive DEF IInv

LEMMA IInvHolds == Spec => []IInv
  BY IInvInit, IInvInductive, PTL DEF Spec

-----------------------------------------------------------------------------
\* Every variable keeps its type: the worker never holds a segment, a request
\* or a marker that sync.rs could not hold.
THEOREM TypeCorrect == Spec => []TypeOK
<1>1. IInv => TypeOK
  BY DEF IInv, TypeInv
<1> QED BY IInvHolds, <1>1, PTL

\* Nothing taken in is lost, for any number of segments, files and pairings,
\* any number of crashes, rewrites and journal changes.
THEOREM NothingIsLost == Spec => []NoLoss
<1>1. IInv => NoLoss
  BY DEF IInv
<1> QED BY IInvHolds, <1>1, PTL

\* No marker sync.rs leaves on disk claims bytes its journal never had.
THEOREM MarkersAreTrue == Spec => []AckNeverLies
<1>1. IInv => AckNeverLies
  BY DEF IInv
<1> QED BY IInvHolds, <1>1, PTL

\* No payload is unlinked for a journal that does not have it: the step
\* property follows from the markers and from the lock held over a removal.
THEOREM RemovalIsForCurrentJournal == Spec => UnlinkedForCurrentJournal
<1> DEFINE Unlinked(s, n) == disk[s][n] # Absent /\ disk'[s][n] = Absent
           Allowed == \A s \in Segments, n \in Names :
                        Unlinked(s, n) => assoc.by = NoOne \/ SafeAt(assoc.by, s, n, disk[s][n])
<1>1. IInv /\ [Next]_vars => [Allowed]_vars
  <2> SUFFICES ASSUME IInv, [Next]_vars, NEW s \in Segments, NEW n \in Names, Unlinked(s, n)
               PROVE  assoc.by = NoOne \/ SafeAt(assoc.by, s, n, disk[s][n])
    OBVIOUS
  <2>0. disk \in [Segments -> Body] /\ taken \in [Segments -> Body] /\ ack \in [Segments -> Acks]
    BY DEF IInv, TypeInv, TypeOK
  <2>1. CASE \E r \in Segments : Capture(r)
    <3>1. PICK r \in Segments : Capture(r)
      BY <2>1
    <3>2. r = s /\ place[s] = "absent"
      BY <3>1, <2>0, DeliveryAssumption DEF Capture, Body
    <3> QED BY <3>2 DEF IInv, UntakenIsEmpty
  <2>2. CASE \E r \in Segments, m \in Names, c \in Contents : Rewrite(r, m, c)
    BY <2>2, <2>0, DeliveryAssumption DEF Rewrite, Body
  <2>3. ASSUME NEW m \in Names, RemoveFile(m) PROVE assoc.by = NoOne \/ SafeAt(assoc.by, s, n, disk[s][n])
    <3>1. /\ s = seg /\ n = m /\ n \in Present(s) /\ disk[s][n] = ack[s].sum[n] /\ assoc = seen
      BY <2>3, <2>0 DEF RemoveFile, IInv, LockedIsCurrent, LockedAt, Body
    <3>2. ack[s].by # NoOne /\ (seen.by = NoOne \/ ack[s].by = seen.by)
      BY <2>3, <3>1 DEF RemoveFile, IInv, RemovalHasMarker, PairingOk
    <3> QED BY <3>1, <3>2 DEF Present, IInv, AckNeverLies
  <2>4. ASSUME NEW m \in Names, PurgeFile(m) PROVE assoc.by = NoOne \/ SafeAt(assoc.by, s, n, disk[s][n])
    <3>1. s = seg /\ assoc = seen
      BY <2>4, <2>0 DEF PurgeFile, IInv, LockedIsCurrent, LockedAt, Body
    <3> QED BY <2>4, <3>1 DEF PurgeFile, IInv, PurgeWasAsked, SafeAt
  <2>5. CASE UNCHANGED <<disk, taken>>
    BY <2>5
  <2> QED BY <2>1, <2>2, <2>3, <2>4, <2>5, DiskFootprint
<1> QED BY IInvHolds, <1>1, PTL DEF Spec, UnlinkedForCurrentJournal
-----------------------------------------------------------------------------
(* Delivery implements Custody.  The move from "none" goes to "device": a  *)
(* segment not yet taken in is known to no journal, so that nothing of it  *)
(* is there before it is here.  "lost" is out of reach by NoLoss.          *)

\* No request, journal or owner's word is about a segment not yet taken in.
UntakenIsUnknown ==
  \A s \in Segments : place[s] = "absent" =>
    /\ \A n \in Names : taken[s][n] = Absent
    /\ \A r \in inflight : r.seg # s
    /\ \A p, n, c : <<p, s, n, c>> \notin held
    /\ \A p : <<p, s>> \notin withdrawn

LEMMA RequestFootprint ==
  [Next]_vars => \/ inflight' \subseteq inflight
                 \/ Send
  BY DEF
        Next, Surroundings, Worker, vars, deviceVars, journalVars, workerVars, jobVars,
        ghostVars, Capture, Rewrite, ChangeAssociation, JournalReceives, JournalWithdraws, RetryExpires,
        Crash, Restart, StartPass, StartUnpaired, BeginPass, FinishOne, FinishDone, EnsureCutover, Phase1Skip, Phase1Quarantine,
        Phase1Upload, Phase1Done, Phase2Skip, FetchListing, Phase2Done, EndPass, UploadStale,
        UploadAcked, AckWriteFails, UploadRemoved, UploadFails, BeginRemove, RemoveFile,
        RemoveBookkeeping, RemoveDirectory, RemoveFails, PurgeBookkeeping, PurgeFile,
        PurgeDirectory, PurgeFails, ListingStale, ListingProves, ListingAcked, ListingUpload,
        ListingAmbiguous

\* What is about s in the network and the journals was there, or came by s being sent.
LEMMA UnknownInductive == IInv /\ UntakenIsUnknown /\ [Next]_vars => UntakenIsUnknown'
<1> SUFFICES ASSUME IInv, UntakenIsUnknown, [Next]_vars, NEW s \in Segments, place'[s] = "absent"
             PROVE  /\ \A n \in Names : taken'[s][n] = Absent
                    /\ \A r \in inflight' : r.seg # s
                    /\ \A p, n, c : <<p, s, n, c>> \notin held'
                    /\ \A p : <<p, s>> \notin withdrawn'
  BY DEF UntakenIsUnknown
<1> TypeOK
  BY DEF IInv, TypeInv
<1>1. place[s] = "absent"
  BY WorkFootprint
<1>2. /\ \A n \in Names : taken[s][n] = Absent
      /\ \A r \in inflight : r.seg # s
      /\ \A p, n, c : <<p, s, n, c>> \notin held
      /\ \A p : <<p, s>> \notin withdrawn
  BY <1>1 DEF UntakenIsUnknown
<1>3. \A n \in Names : taken'[s][n] = Absent
  <2> SUFFICES ASSUME NEW n \in Names  PROVE taken'[s][n] = Absent
    OBVIOUS
  <2>1. CASE \E r \in Segments : Capture(r)
    <3>1. PICK r \in Segments : Capture(r)
      BY <2>1
    <3>2. r # s
      BY <3>1, <1>1 DEF Capture, TypeOK
    <3> QED  BY <3>1, <3>2, <1>2 DEF Capture, TypeOK
  <2>2. CASE \E r \in Segments, m \in Names, c \in Contents : Rewrite(r, m, c)
    <3>1. PICK r \in Segments, m \in Names, c \in Contents : Rewrite(r, m, c)
      BY <2>2
    <3>2. r # s
      BY <3>1, <1>1 DEF Rewrite
    <3> QED  BY <3>1, <3>2, <1>2 DEF Rewrite, TypeOK
  <2>3. CASE \E m \in Names : RemoveFile(m) \/ PurgeFile(m)
    BY <2>3, <1>2 DEF RemoveFile, PurgeFile, ghostVars
  <2>4. CASE UNCHANGED <<disk, taken>>
    BY <2>4, <1>2
  <2> QED  BY <2>1, <2>2, <2>3, <2>4, DiskFootprint
<1>4. \A r \in inflight' : r.seg # s
  <2>1. CASE inflight' \subseteq inflight
    BY <2>1, <1>2
  <2>2. CASE Send
    <3>1. seg \in Segments /\ seg # s
      BY <2>2, <1>1, DeliveryAssumption DEF Send, IInv, TypeInv, InHand, WorksOnTaken, LockedAt
    <3>2. inflight' = inflight \cup {req'} /\ req'.seg = seg
      BY <2>2 DEF Send
    <3> QED  BY <3>1, <3>2, <1>2
  <2> QED  BY <2>1, <2>2, RequestFootprint
<1>5. (\A p, n, c : <<p, s, n, c>> \notin held') /\ (\A p : <<p, s>> \notin withdrawn')
  <2>1. CASE \E r \in inflight : JournalReceives(r)
    <3>1. PICK r \in inflight : JournalReceives(r)
      BY <2>1
    <3>2. r.seg # s /\ withdrawn' = withdrawn
      BY <3>1, <1>2 DEF JournalReceives
    <3>3. \A h \in held' : h \in held \/ \E n \in Names : h = <<r.by, r.seg, n, r.body[n]>>
      BY <3>1 DEF JournalReceives
    <3> QED  BY <3>2, <3>3, <1>2
  <2>2. CASE \E p \in Pairings, t \in Segments : JournalWithdraws(p, t)
    <3>1. PICK p \in Pairings, t \in Segments : JournalWithdraws(p, t)
      BY <2>2
    <3>2. t # s /\ held' \subseteq held /\ withdrawn' = withdrawn \cup {<<p, t>>}
      BY <3>1, <1>2 DEF JournalWithdraws
    <3> QED  BY <3>2, <1>2
  <2>3. CASE UNCHANGED <<held, withdrawn>>
    BY <2>3, <1>2
  <2> QED  BY <2>1, <2>2, <2>3, JournalFootprint
<1> QED  BY <1>3, <1>4, <1>5

\* The statuses an item can have, by what is on the device and what is safe.
LEMMA StatusOf ==
  ASSUME NoLoss, NEW s \in Segments, NEW n \in Names
  PROVE  /\ taken[s][n] = Absent => Status(s, n) = "none"
         /\ taken[s][n] # Absent /\ disk[s][n] # Absent =>
              Status(s, n) = IF Safe(s, n) THEN "both" ELSE "device"
         /\ taken[s][n] # Absent /\ disk[s][n] = Absent => Status(s, n) = "journal" /\ Safe(s, n)
BY DEF Status, NoLoss

\* Every step leaves each item where it is or makes one of the moves of Custody.
LEMMA StatusMoves ==
  ASSUME IInv, IInv', UntakenIsUnknown, [Next]_vars, NEW s \in Segments, NEW n \in Names
  PROVE  Status(s, n)' = Status(s, n) \/ <<Status(s, n), Status(s, n)'>> \in Custody!Moves
<1> DEFINE St == Status(s, n)
           Same == taken'[s][n] = taken[s][n]
<1>a. disk \in [Segments -> Body] /\ taken \in [Segments -> Body]
  BY DEF IInv, TypeInv, TypeOK
<1>b. NoLoss /\ NoLoss'
  BY DEF IInv
<1>c. /\ taken[s][n] = Absent => St = "none"
      /\ taken[s][n] # Absent /\ disk[s][n] # Absent => St = IF Safe(s, n) THEN "both" ELSE "device"
      /\ taken[s][n] # Absent /\ disk[s][n] = Absent => St = "journal" /\ Safe(s, n)
  BY <1>b, StatusOf
<1>d. /\ taken'[s][n] = Absent => St' = "none"
      /\ taken'[s][n] # Absent /\ disk'[s][n] # Absent => St' = IF Safe(s, n)' THEN "both" ELSE "device"
      /\ taken'[s][n] # Absent /\ disk'[s][n] = Absent => St' = "journal" /\ Safe(s, n)'
  BY <1>b DEF Status, NoLoss
<1>e. Same /\ Safe(s, n) => Safe(s, n)'
  BY SafeStable DEF Safe, SafeAt
<1> SUFFICES St' = St \/ <<St, St'>> \in Custody!Moves
  OBVIOUS
<1> HIDE DEF St
<1>f. <<"none", "device">> \in Custody!Moves /\ <<"device", "both">> \in Custody!Moves
      /\ <<"both", "device">> \in Custody!Moves /\ <<"both", "journal">> \in Custody!Moves
  BY DEF Custody!Moves
<1>g. ASSUME Same, disk'[s][n] = disk[s][n]  PROVE St' = St \/ <<St, St'>> \in Custody!Moves
  BY <1>c, <1>d, <1>e, <1>f, <1>g
<1>h. ASSUME Same, disk[s][n] # Absent, disk'[s][n] = Absent, UNCHANGED <<held, withdrawn>>
      PROVE  St' = St \/ <<St, St'>> \in Custody!Moves
  <2>1. taken[s][n] # Absent
    BY <1>b, <1>h DEF NoLoss
  <2>2. Safe(s, n)' => Safe(s, n)
    BY <1>h DEF Safe, SafeAt
  <2> QED  BY <2>1, <2>2, <1>c, <1>d, <1>f, <1>h
<1>1. CASE \E r \in Segments : Capture(r)
  <2>1. PICK r \in Segments : Capture(r)
    BY <1>1
  <2>2. CASE r = s
    <3>1. taken[s][n] = Absent /\ ~Safe(s, n)'
      BY <2>1, <2>2 DEF Capture, UntakenIsUnknown, Safe, SafeAt, journalVars
    <3>2. disk'[s][n] = taken'[s][n]
      BY <2>1, <2>2, <1>a DEF Capture
    <3> QED  BY <3>1, <3>2, <1>c, <1>d, <1>f
  <2>3. CASE r # s
    <3>1. Same /\ disk'[s][n] = disk[s][n]
      BY <2>1, <2>3, <1>a DEF Capture
    <3> QED  BY <3>1, <1>g
  <2> QED  BY <2>2, <2>3
<1>2. CASE \E r \in Segments, m \in Names, c \in Contents : Rewrite(r, m, c)
  <2>1. PICK r \in Segments, m \in Names, c \in Contents : Rewrite(r, m, c)
    BY <1>2
  <2>2. CASE r = s /\ m = n
    <3>1. disk[s][n] # Absent /\ disk'[s][n] = c /\ taken'[s][n] = c /\ c # Absent
      BY <2>1, <2>2, <1>a, DeliveryAssumption DEF Rewrite, Body
    <3>2. taken[s][n] # Absent
      BY <1>b, <3>1 DEF NoLoss
    <3> QED  BY <3>1, <3>2, <1>c, <1>d, <1>f
  <2>3. CASE ~(r = s /\ m = n)
    <3>1. Same /\ disk'[s][n] = disk[s][n]
      BY <2>1, <2>3, <1>a DEF Rewrite, Body
    <3> QED  BY <3>1, <1>g
  <2> QED  BY <2>2, <2>3
<1>3. ASSUME NEW m \in Names, RemoveFile(m) \/ PurgeFile(m)
      PROVE  St' = St \/ <<St, St'>> \in Custody!Moves
  <2>1. Same /\ UNCHANGED <<held, withdrawn>>
    BY <1>3 DEF RemoveFile, PurgeFile, ghostVars, journalVars
  <2>2. disk' = disk \/ disk' = [disk EXCEPT ![seg] = [disk[seg] EXCEPT ![m] = Absent]]
    BY <1>3 DEF RemoveFile, PurgeFile
  <2>3. disk'[s][n] = disk[s][n] \/ disk'[s][n] = Absent
    BY <2>2, <1>a DEF Body
  <2>4. CASE disk'[s][n] = disk[s][n]
    BY <2>1, <2>4, <1>g
  <2>5. CASE disk'[s][n] # disk[s][n]
    BY <2>1, <2>3, <2>5, <1>h
  <2> QED  BY <2>4, <2>5
<1>4. CASE UNCHANGED <<disk, taken>>
  BY <1>4, <1>g
<1> QED  BY <1>1, <1>2, <1>3, <1>4, DiskFootprint

LEMMA CustodyInit == Init => Custody!Init
<1> SUFFICES ASSUME Init, NEW i \in Segments \X Names  PROVE Status(i[1], i[2]) = "none"
  BY DEF Custody!Init
<1>1. i[1] \in Segments /\ i[2] \in Names
  OBVIOUS
<1> QED  BY <1>1 DEF Init, NoBody, Status

LEMMA StatusType ==
  ASSUME NoLoss, NEW s \in Segments, NEW n \in Names
  PROVE  Status(s, n) \in {"none", "device", "both", "journal"}
BY DEF Status, NoLoss

LEMMA CustodyStep ==
  ASSUME IInv, IInv', UntakenIsUnknown, [Next]_vars
  PROVE  Custody!Next
<1> DEFINE Where == [i \in Segments \X Names |-> Status(i[1], i[2])]
<1>1. \A i \in Segments \X Names :
        /\ Status(i[1], i[2])' = Status(i[1], i[2]) \/ <<Status(i[1], i[2]), Status(i[1], i[2])'>> \in Custody!Moves
        /\ Status(i[1], i[2])' \in {"none", "device", "both", "journal"}
  <2> SUFFICES ASSUME NEW i \in Segments \X Names
               PROVE  /\ \/ Status(i[1], i[2])' = Status(i[1], i[2])
                         \/ <<Status(i[1], i[2]), Status(i[1], i[2])'>> \in Custody!Moves
                      /\ Status(i[1], i[2])' \in {"none", "device", "both", "journal"}
    OBVIOUS
  <2>1. i[1] \in Segments /\ i[2] \in Names
    OBVIOUS
  <2>2. Status(i[1], i[2])' \in {"none", "device", "both", "journal"}
    BY <2>1 DEF IInv, NoLoss, Status
  <2> QED  BY <2>1, <2>2, StatusMoves
<1>2. Where' = [i \in Segments \X Names |-> Status(i[1], i[2])']
  OBVIOUS
<1>3. Where' \in [Segments \X Names -> {"none", "device", "both", "journal"}]
  BY <1>1, <1>2
<1>4. \A i \in Segments \X Names : Where'[i] = Where[i] \/ <<Where[i], Where'[i]>> \in Custody!Moves
  BY <1>1, <1>2
<1> QED  BY <1>3, <1>4 DEF Custody!Next

\* The pass, with every crash, rewrite, late request and change of the journal,
\* does to each payload file only what Custody promises its owner (sync.rs,
\* SyncWorker::sync_pass and what it calls).
THEOREM DeliveryImplementsCustody == Spec => CustodySpec
<1>1. Init => IInv /\ UntakenIsUnknown
  BY IInvInit DEF Init, UntakenIsUnknown, NoBody
<1>2. IInv /\ UntakenIsUnknown /\ [Next]_vars => (IInv /\ UntakenIsUnknown)'
  BY IInvInductive, UnknownInductive
<1>3. IInv /\ IInv' /\ UntakenIsUnknown /\ [Next]_vars => Custody!Next
  BY CustodyStep
<1> QED  BY <1>1, <1>2, <1>3, CustodyInit, PTL DEF Spec, CustodySpec, Custody!Spec
=============================================================================
