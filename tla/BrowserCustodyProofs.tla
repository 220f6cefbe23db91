------------------------ MODULE BrowserCustodyProofs ------------------------
(***************************************************************************)
(* Proofs about BrowserCustody, for any batches, pages, periods and failed *)
(* file operations: what is answered is kept, nothing is taken in twice,   *)
(* what is held can be read again, and what the owner discarded is not     *)
(* delivered afterwards.                                                   *)
(*                                                                         *)
(* The invariant has a part for each thing that a step of one actor could  *)
(* upset for another. MemoryInOrder: what the process knows is never ahead *)
(* of the evidence file in what is removed. PeriodInOrder: the receipts of *)
(* the open period are the committed ones and at most one that failed to   *)
(* sync. JobInOrder and SyncInOrder: what the holder of the custody lock   *)
(* and the sync worker have reached, and that neither holds what the other *)
(* is about to remove. TextIn: a period's text against its receipts.       *)
(* AccountOf: what became of a batch.                                      *)
(*                                                                         *)
(* A removal writes tombstones, then takes the pages, then the receipts    *)
(* and the directory. So receipts are never longer than the text but for a *)
(* period whose identities are all removed, and a restart that finds such  *)
(* a period finishes the removal (JobInOrder, SyncInOrder and the second   *)
(* line of TextIn carry this from step to step). A batch has evidence      *)
(* before its text can go, or the text of its period was delivered;        *)
(* whoever holds a text of a batch that is not forgotten is the only one   *)
(* (the fourth part of AccountOf).                                         *)
(*                                                                         *)
(* The steps that change no word on any batch are treated together: such a *)
(* step takes in only what it commits and loses only what is removed,      *)
(* withdrawn or never counted (Takes, Loses, QuietAccounts).               *)
(***************************************************************************)
EXTENDS BrowserCustody, WellFoundedInduction, TLAPS
-----------------------------------------------------------------------------
(* The invariant *)

\* The places of p that have both a text and a receipt.
Named(p) == DOMAIN pages[p] \cap DOMAIN receipts[p]

OnDisk(p) == place[p] \in {"open", "segment"}

\* The same as Holds and Found, without the parts of sequences they are made of.
Has(p, b) == OnDisk(p) /\ \E i \in Named(p) : pages[p][i] = b /\ receipts[p][i] = b
Listed(b) == \E p \in Periods : OnDisk(p) /\ \E i \in Named(p) : receipts[p][i] = b

\* Held in p or delivered from it; no longer anyone's duty to keep; not lost.
Taken(p, b) == Has(p, b) \/ b \in delivered[p]
Gone(b) == b \in discarded \cup withdrawn \cup mixed \/ \E p \in Periods : b \in delivered[p]
Accounted(b) == Gone(b) \/ \E p \in Periods : Has(p, b)

IsRemoved(s) == \A i \in DOMAIN s : evidence[s[i]] = "removed"

\* Only an open custody works.  The evidence file may miss what the memory knows
\* to be accepted, never what it knows to be removed.
MemoryInOrder ==
  /\ custody # "open" => job = "free" /\ sync = "idle"
  /\ custody \in {"down", "opening"} => period = NoPeriod /\ unfinished = {}
  /\ custody = "down" => \A b \in Batches : known[b] = "no"
  /\ custody = "opening" => known = evidence
  /\ custody # "down" => \A b \in Batches :
       (evidence[b] = "no" \/ evidence[b] = known[b]) /\ (known[b] = "removed" => evidence[b] = "removed")

\* The period that takes batches: a receipt past the committed ones was written and
\* failed to sync, and every page it knows has its snapshot among the committed texts.
PeriodInOrder ==
  /\ \A p \in unfinished : place[p] = "open"
  /\ period # NoPeriod =>
       /\ place[period] \in {"none", "open"} /\ period \notin unfinished
       /\ committed <= Len(receipts[period]) /\ Len(receipts[period]) <= committed + 1
       /\ \A i \in DOMAIN receipts[period] : i > committed =>
            /\ receipts[period][i] \in unsynced
            /\ \/ known[receipts[period][i]] = "removed"
               \/ known[receipts[period][i]] = "no" /\ receipts[period][i] \notin dropped
       /\ committed <= Len(pages[period]) => \A c \in contexts : \E i \in 1..committed :
            pages[period][i] \in Snapshots /\ Context[pages[period][i]] = c

\* How far the acceptance of a batch or a discard has come; a discard leaves alone
\* what is reserved, and before it takes pages their identities are removed.
JobInOrder ==
  /\ job = "free" => todo = {}
  /\ job \in {"pages", "receipt", "evidence"} =>
       /\ batch \in Batches /\ known[batch] = "no" /\ batch \notin dropped
       /\ period # NoPeriod /\ todo = {}
  /\ job \in {"pages", "receipt"} => \A i \in DOMAIN receipts[period] : known[receipts[period][i]] # "removed"
  /\ job = "pages" => batch \in Snapshots \/ Context[batch] \in contexts
  /\ job = "receipt" =>
       place[period] = "open" /\ Len(pages[period]) = committed + 1 /\ pages[period][committed + 1] = batch
  /\ job = "evidence" =>
       /\ place[period] = "open" /\ committed > 0 /\ Len(pages[period]) = committed
       /\ Len(receipts[period]) = committed /\ pages[period][committed] = batch /\ receipts[period][committed] = batch
  /\ \A p \in todo : OnDisk(p) /\ p \notin reserved
  /\ job \in {"unlink", "rmdir"} => todo # {}
  /\ job = "unlink" => IsRemoved(receipts[Doomed])
  /\ job = "rmdir" => pages[Doomed] = <<>>

\* How far the sync worker has come with the one segment it reserved.
SyncInOrder ==
  /\ sync = "idle" => segment = NoPeriod /\ reserved = {}
  /\ sync # "idle" => segment # NoPeriod /\ reserved = {segment} /\ place[segment] = "segment"
  /\ sync \in {"sending", "confirmed", "purge", "purging"} => pages[segment] # <<>>
  /\ sync \in {"confirmed", "unlink", "rmdir"} => acked[segment]
  /\ sync = "unlink" => IsRemoved(receipts[segment])
  /\ sync = "rmdir" => pages[segment] = <<>>
  /\ sync \in {"purge", "purging"} => \A i \in DOMAIN pages[segment] : pages[segment][i] \in withdrawn
  /\ sync = "purging" => receipts[segment] = <<>>
  /\ sync = "sending" => \A i \in DOMAIN receipts[segment] :
       receipts[segment][i] \in Forgotten \/ known[receipts[segment][i]] # "removed"

\* The text of a period and its receipts: a directory that is gone has neither; the
\* text is the longer one, or all identities are removed; a text under another's
\* receipt is one of a receipt that failed to sync, and is noted when its period
\* leaves; what is acknowledged is delivered; a change comes after its snapshot.
TextIn(p) ==
  /\ place[p] \in {"none", "gone"} => pages[p] = <<>> /\ receipts[p] = <<>>
  /\ Len(receipts[p]) <= Len(pages[p]) \/ (pages[p] = <<>> /\ IsRemoved(receipts[p]))
  /\ \A i \in Named(p) : pages[p][i] # receipts[p][i] => receipts[p][i] \in unsynced
  /\ place[p] = "segment" => \A i \in DOMAIN pages[p] :
       /\ i \in DOMAIN receipts[p] \/ pages[p][i] \in withdrawn
       /\ i \in DOMAIN receipts[p] /\ pages[p][i] # receipts[p][i] => pages[p][i] \in mixed /\ receipts[p][i] \in mixed
  /\ acked[p] => place[p] \in {"segment", "gone"} /\ \A i \in DOMAIN pages[p] : pages[p][i] \in delivered[p]
  /\ \A i \in DOMAIN pages[p] : \E j \in 1..i : pages[p][j] \in Snapshots /\ Context[pages[p][j]] = Context[pages[p][i]]

TextInOrder == \A p \in Periods : TextIn(p)

\* What became of b: what is removed is gone for a reason; what is accepted or
\* answered is held or gone; what is discarded is removed; unless it is one that
\* could be forgotten, b in a period is known, and in no other; and as long as the
\* journal removed nothing, what is accepted is found at the next start.
AccountOf(b) ==
  /\ evidence[b] = "removed" => Gone(b)
  /\ known[b] = "accepted" \/ evidence[b] = "accepted" \/ b \in dropped => Accounted(b)
  /\ b \in discarded => evidence[b] = "removed"
  /\ b \notin Forgotten =>
       /\ (\E p \in Periods : b \in delivered[p]) => evidence[b] # "no" \/ Listed(b)
       /\ custody = "open" /\ (\E p \in Periods : Taken(p, b)) => known[b] # "no" \/ (job = "evidence" /\ b = batch)
       /\ \A p, q \in Periods : Taken(p, b) /\ Taken(q, b) => p = q
  /\ withdrawn = {} /\ (known[b] = "accepted" \/ evidence[b] = "accepted") => Listed(b)

AccountInOrder == \A b \in Batches : AccountOf(b)

\* Only a segment the journal removed makes the pages unavailable.
NeverWithout == custody = "unavailable" => withdrawn # {}
-----------------------------------------------------------------------------
(* What the operators return *)

LEMMA FirstIsLeast ==
  ASSUME NEW S \in SUBSET Nat, S # {}
  PROVE  First(S) \in S
<1>1. PICK x \in S : \A y \in S : <<y, x>> \notin OpToRel(<, Nat)
  BY NatLessThanWellFounded, WFMin, Zenon
<1>2. \A y \in S : ~(y < x)
  BY <1>1, Zenon DEF OpToRel
<1>3. \A y \in S : x <= y
  BY <1>2
<1>4. \E p \in S : \A q \in S : p <= q
  BY <1>3
<1> QED  BY <1>4, Zenon DEF First

LEMMA PeriodsAreNumbers == Periods \subseteq Nat /\ NoPeriod \notin Periods
BY CustodyAssumption DEF Periods, NoPeriod

LEMMA FirstUnused ==
  ASSUME Unused # {}
  PROVE  First(Unused) \in Periods /\ First(Unused) # NoPeriod /\ place[First(Unused)] = "none"
<1>1. Unused \in SUBSET Nat
  BY PeriodsAreNumbers DEF Unused
<1>2. First(Unused) \in Unused
  BY <1>1, FirstIsLeast
<1> QED  BY <1>2, PeriodsAreNumbers DEF Unused

LEMMA DoomedIsOne ==
  ASSUME todo \subseteq Periods, todo # {}
  PROVE  Doomed \in todo /\ Doomed \in Periods
<1> DEFINE S == IF todo \cap OpenDirs # {} THEN todo \cap OpenDirs ELSE todo
<1>1. S \in SUBSET Nat /\ S # {} /\ S \subseteq todo
  BY PeriodsAreNumbers
<1>2. First(S) \in S
  BY <1>1, FirstIsLeast
<1>3. Doomed = First(S)
  BY DEF Doomed
<1> QED  BY <1>1, <1>2, <1>3

LEMMA CoveredIs ==
  ASSUME TypeOK, NEW p \in Periods
  PROVE  /\ Covered(p) \in Seq(Batches)
         /\ Len(Covered(p)) <= Len(receipts[p]) /\ Len(Covered(p)) <= Len(pages[p])
         /\ Len(Covered(p)) = Len(receipts[p]) \/ Len(Covered(p)) = Len(pages[p])
         /\ \A i \in 1..Len(Covered(p)) : Covered(p)[i] = receipts[p][i]
<1>1. receipts[p] \in Seq(Batches) /\ pages[p] \in Seq(Batches)
  BY DEF TypeOK
<1>2. Len(receipts[p]) \in Nat /\ Len(pages[p]) \in Nat
  BY <1>1
<1> DEFINE n == Least(Len(receipts[p]), Len(pages[p]))
<1>3. n \in Nat /\ n <= Len(receipts[p]) /\ n <= Len(pages[p]) /\ (n = Len(receipts[p]) \/ n = Len(pages[p]))
  BY <1>2 DEF Least
<1>4. Covered(p) = SubSeq(receipts[p], 1, n)
  BY DEF Covered
<1> HIDE DEF n
<1> QED  BY <1>1, <1>2, <1>3, <1>4

LEMMA CoveredPlaces ==
  ASSUME TypeOK, NEW p \in Periods
  PROVE  1..Len(Covered(p)) = Named(p) /\ DOMAIN Covered(p) = Named(p)
<1>1. receipts[p] \in Seq(Batches) /\ pages[p] \in Seq(Batches)
  BY DEF TypeOK
<1> DEFINE n == Len(Covered(p))
<1>2. DOMAIN Covered(p) = 1..n /\ n \in Nat
  BY CoveredIs
<1>3. DOMAIN receipts[p] = 1..Len(receipts[p]) /\ DOMAIN pages[p] = 1..Len(pages[p])
  BY <1>1
<1>4. Len(receipts[p]) \in Nat /\ Len(pages[p]) \in Nat
  BY <1>1
<1>5. n <= Len(receipts[p]) /\ n <= Len(pages[p]) /\ (n = Len(receipts[p]) \/ n = Len(pages[p]))
  BY CoveredIs
<1> HIDE DEF n
<1>6. (1..Len(pages[p])) \cap (1..Len(receipts[p])) = 1..n
  BY <1>2, <1>4, <1>5
<1>7. 1..n = Named(p)
  BY <1>3, <1>6 DEF Named
<1> QED  BY <1>2, <1>7 DEF n

LEMMA KeptIs ==
  ASSUME TypeOK, NEW p \in Periods
  PROVE  /\ Kept(p) \in Seq(Batches) /\ Len(Kept(p)) = Len(Covered(p))
         /\ \A i \in 1..Len(Covered(p)) : Kept(p)[i] = pages[p][i]
<1>1. pages[p] \in Seq(Batches) /\ Len(pages[p]) \in Nat
  BY DEF TypeOK
<1>2. Len(Covered(p)) \in Nat /\ Len(Covered(p)) <= Len(pages[p])
  BY CoveredIs
<1> DEFINE n == Len(Covered(p))
<1> HIDE DEF n
<1>3. Kept(p) = SubSeq(pages[p], 1, n)
  BY DEF Kept, n
<1>4. n \in Nat /\ n <= Len(pages[p])
  BY <1>2 DEF n
<1>5. Kept(p) \in Seq(Batches) /\ Len(Kept(p)) = n /\ \A i \in 1..n : Kept(p)[i] = pages[p][i]
  BY <1>1, <1>3, <1>4
<1> QED  BY <1>5 DEF n

\* A write at the committed length keeps what is committed and ends with the batch.
LEMMA AtIs ==
  ASSUME NEW s \in Seq(Batches), batch \in Batches, committed \in Nat, committed <= Len(s)
  PROVE  /\ At(s) \in Seq(Batches) /\ Len(At(s)) = committed + 1
         /\ \A i \in 1..committed : At(s)[i] = s[i]
         /\ At(s)[committed + 1] = batch
<1> DEFINE r == SubSeq(s, 1, committed)
<1>1. Least(committed, Len(s)) = committed
  BY DEF Least
<1>2. At(s) = Append(r, batch)
  BY <1>1 DEF At
<1>3. r \in Seq(Batches) /\ Len(r) = committed /\ \A i \in 1..committed : r[i] = s[i]
  OBVIOUS
<1> HIDE DEF r
<1> QED  BY <1>2, <1>3

LEMMA HoldsIs ==
  ASSUME TypeOK, NEW p \in Periods, NEW b
  PROVE  Holds(p, b) <=> Has(p, b)
<1>1. DOMAIN Covered(p) = Named(p) /\ \A i \in Named(p) : Covered(p)[i] = receipts[p][i]
  BY CoveredPlaces, CoveredIs
<1>2. p \in Dirs <=> OnDisk(p)
  BY DEF Dirs, OnDisk
<1> QED  BY <1>1, <1>2 DEF Holds, Has

LEMMA ContentOfCovered ==
  ASSUME TypeOK, NEW p \in Periods, NEW b
  PROVE  b \in Content(Covered(p)) <=> \E i \in Named(p) : receipts[p][i] = b
<1>1. DOMAIN Covered(p) = Named(p) /\ \A i \in Named(p) : Covered(p)[i] = receipts[p][i]
  BY CoveredPlaces, CoveredIs
<1> QED  BY <1>1 DEF Content

LEMMA FoundIs ==
  ASSUME TypeOK, NEW b
  PROVE  b \in Found <=> Listed(b)
<1>1. b \in Found <=> \E p \in Periods : OnDisk(p) /\ b \in Content(Covered(p))
  BY DEF Found, Dirs, OnDisk
<1> QED  BY <1>1, ContentOfCovered DEF Listed

LEMMA HasRemovedIs ==
  ASSUME NEW p
  PROVE  HasRemoved(p) <=> \E i \in DOMAIN receipts[p] : known[receipts[p][i]] = "removed"
BY DEF HasRemoved, Content

LEMMA TombstonedIs ==
  ASSUME NEW p
  PROVE  Tombstoned(p) <=> receipts[p] # <<>> /\ \A i \in DOMAIN receipts[p] : known[receipts[p][i]] = "removed"
BY DEF Tombstoned, Content

LEMMA EntombIs ==
  ASSUME TypeOK, NEW p \in Periods, Entomb(p)
  PROVE  /\ known' \in [Batches -> Kinds] /\ evidence' = known'
         /\ \A b \in Batches : known'[b] = IF \E i \in Named(p) : receipts[p][i] = b THEN "removed" ELSE known[b]
<1>1. \A b \in Batches : known'[b] = IF b \in Content(Covered(p)) THEN "removed" ELSE known[b]
  BY DEF Entomb
<1>2. known' \in [Batches -> Kinds] /\ evidence' = known'
  BY DEF Entomb, TypeOK, Kinds
<1> QED  BY <1>1, <1>2, ContentOfCovered

LEMMA NamedNumbers ==
  ASSUME TypeOK, NEW p \in Periods
  PROVE  /\ pages[p] \in Seq(Batches) /\ receipts[p] \in Seq(Batches)
         /\ DOMAIN pages[p] = 1..Len(pages[p]) /\ DOMAIN receipts[p] = 1..Len(receipts[p])
         /\ Len(pages[p]) \in Nat /\ Len(receipts[p]) \in Nat
BY DEF TypeOK

LEMMA AtTyped ==
  ASSUME NEW s \in Seq(Batches), batch \in Batches, committed \in Nat
  PROVE  At(s) \in Seq(Batches) /\ SubSeq(s, 1, Least(committed, Len(s))) \in Seq(Batches)
<1> DEFINE n == Least(committed, Len(s))
<1>1. n \in Nat /\ n <= Len(s)
  BY DEF Least
<1>2. At(s) = Append(SubSeq(s, 1, n), batch)
  BY DEF At
<1> HIDE DEF n
<1>3. SubSeq(s, 1, n) \in Seq(Batches)
  BY <1>1
<1> QED  BY <1>2, <1>3 DEF n

-----------------------------------------------------------------------------
(* Cutting periods back to their receipts *)

\* The periods of S are cut back; those of F leave, as a segment if anything is left.
Cut(S, F) ==
  /\ F \subseteq S /\ S \subseteq Periods /\ \A p \in S : place[p] = "open"
  /\ place' \in [Periods -> {"none", "open", "segment", "gone"}]
  /\ pages' \in [Periods -> Seq(Batches)] /\ receipts' \in [Periods -> Seq(Batches)]
  /\ \A p \in Periods \ S : place'[p] = place[p] /\ pages'[p] = pages[p] /\ receipts'[p] = receipts[p]
  /\ \A p \in S :
       /\ DOMAIN pages'[p] = Named(p) /\ \A i \in Named(p) : pages'[p][i] = pages[p][i]
       /\ p \notin F => place'[p] = place[p]
       /\ p \in F => place'[p] = IF Named(p) = {} THEN "gone" ELSE "segment"
       /\ p \notin F \/ Named(p) # {} => receipts'[p] = receipts[p]
       /\ p \in F /\ Named(p) = {} => receipts'[p] = <<>> /\ pages'[p] = <<>>
  /\ mixed \subseteq mixed' /\ mixed' \subseteq Batches
  /\ \A p \in S : \A i \in Named(p) : pages[p][i] # receipts[p][i] =>
       pages[p][i] \in mixed' /\ receipts[p][i] \in mixed'

LEMMA CutFacts ==
  ASSUME TypeOK, NEW p \in Periods
  PROVE  /\ Covered(p) = <<>> <=> Named(p) = {}
         /\ DOMAIN Kept(p) = Named(p) /\ \A i \in Named(p) : Kept(p)[i] = pages[p][i]
         /\ Named(p) = {} => Kept(p) = <<>>
<1>1. Covered(p) \in Seq(Batches) /\ Kept(p) \in Seq(Batches) /\ Len(Kept(p)) = Len(Covered(p))
  BY CoveredIs, KeptIs
<1>2. 1..Len(Covered(p)) = Named(p)
  BY CoveredPlaces
<1> DEFINE c == Covered(p)  k == Kept(p)
<1>3. c \in Seq(Batches) /\ k \in Seq(Batches) /\ Len(k) = Len(c)
  BY <1>1
<1>4. \A i \in Named(p) : k[i] = pages[p][i]
  BY <1>2, KeptIs
<1>5. Len(c) = 0 <=> 1..Len(c) = {}
  BY <1>3
<1> HIDE DEF c, k
<1>6. (c = <<>> <=> Len(c) = 0) /\ DOMAIN k = 1..Len(c) /\ (Len(c) = 0 => k = <<>>)
  BY <1>3
<1>7. 1..Len(c) = Named(p)
  BY <1>2 DEF c
<1> QED  BY <1>4, <1>5, <1>6, <1>7 DEF c, k

LEMMA MixedIs ==
  ASSUME TypeOK, NEW S \in SUBSET Periods
  PROVE  /\ MixedIn(S) \subseteq Batches
         /\ \A p \in S : \A i \in Named(p) : pages[p][i] # receipts[p][i] =>
              pages[p][i] \in MixedIn(S) /\ receipts[p][i] \in MixedIn(S)
<1>1. MixedIn(S) \subseteq Batches
  BY DEF MixedIn
<1>2. ASSUME NEW p \in S, NEW i \in Named(p), pages[p][i] # receipts[p][i]
      PROVE  pages[p][i] \in MixedIn(S) /\ receipts[p][i] \in MixedIn(S)
  <2>1. DOMAIN Covered(p) = Named(p) /\ Covered(p)[i] = receipts[p][i]
    BY CoveredPlaces, CoveredIs
  <2>2. pages[p][i] \in Batches /\ receipts[p][i] \in Batches
    BY NamedNumbers DEF Named
  <2>3. Covered(p)[i] # pages[p][i]
    BY <1>2, <2>1
  <2> QED  BY <2>1, <2>2, <2>3 DEF MixedIn
<1> QED  BY <1>1, <1>2

LEMMA CutText ==
  ASSUME TypeOK, NEW S \in SUBSET Periods, NEW F \in SUBSET S, \A p \in S : place[p] = "open",
         place' = [p \in Periods |-> IF p \notin F THEN place[p] ELSE IF Covered(p) = <<>> THEN "gone" ELSE "segment"],
         pages' = [p \in Periods |-> IF p \notin S THEN pages[p] ELSE Kept(p)],
         receipts' = [p \in Periods |-> IF p \in F /\ Covered(p) = <<>> THEN <<>> ELSE receipts[p]],
         mixed' = mixed \cup MixedIn(S)
  PROVE  Cut(S, F)
<1>1. place' \in [Periods -> {"none", "open", "segment", "gone"}]
  BY DEF TypeOK
<1>2. pages' \in [Periods -> Seq(Batches)]
  <2>1. \A p \in Periods : Kept(p) \in Seq(Batches) /\ pages[p] \in Seq(Batches)
    BY KeptIs DEF TypeOK
  <2> QED  BY <2>1
<1>3. receipts' \in [Periods -> Seq(Batches)]
  BY DEF TypeOK
<1>4. \A p \in Periods \ S : place'[p] = place[p] /\ pages'[p] = pages[p] /\ receipts'[p] = receipts[p]
  OBVIOUS
<1>5. mixed \subseteq mixed' /\ mixed' \subseteq Batches
  BY MixedIs DEF TypeOK
<1>6. \A p \in S : \A i \in Named(p) : pages[p][i] # receipts[p][i] =>
        pages[p][i] \in mixed' /\ receipts[p][i] \in mixed'
  BY MixedIs
<1>7. ASSUME NEW p \in S
      PROVE  /\ DOMAIN pages'[p] = Named(p) /\ \A i \in Named(p) : pages'[p][i] = pages[p][i]
             /\ p \notin F => place'[p] = place[p]
             /\ p \in F => place'[p] = IF Named(p) = {} THEN "gone" ELSE "segment"
             /\ p \notin F \/ Named(p) # {} => receipts'[p] = receipts[p]
             /\ p \in F /\ Named(p) = {} => receipts'[p] = <<>> /\ pages'[p] = <<>>
  <2>1. pages'[p] = Kept(p)
    OBVIOUS
  <2>2. place'[p] = IF p \notin F THEN place[p] ELSE IF Covered(p) = <<>> THEN "gone" ELSE "segment"
    OBVIOUS
  <2>3. receipts'[p] = IF p \in F /\ Covered(p) = <<>> THEN <<>> ELSE receipts[p]
    OBVIOUS
  <2>4. /\ Covered(p) = <<>> <=> Named(p) = {}
        /\ DOMAIN Kept(p) = Named(p) /\ \A i \in Named(p) : Kept(p)[i] = pages[p][i]
        /\ Named(p) = {} => Kept(p) = <<>>
    BY CutFacts
  <2> QED  BY <2>1, <2>2, <2>3, <2>4
<1> QED  BY <1>1, <1>2, <1>3, <1>4, <1>5, <1>6, <1>7, Zenon DEF Cut

LEMMA FinalizeIs ==
  ASSUME TypeOK, NEW Try \in SUBSET Periods, NEW Fail \in SUBSET Try, \A p \in Try : place[p] = "open",
         Finalize(Try, Fail)
  PROVE  Cut(Try \ Fail, Try \ Fail) /\ faults' \in 0..MaxFaults
<1>1. faults' \in 0..MaxFaults
  BY CustodyAssumption DEF Finalize, MayFail, Fault, TypeOK
<1> DEFINE S == Try \ Fail
<1>2. S \in SUBSET Periods /\ \A p \in S : place[p] = "open"
  OBVIOUS
<1>3. /\ place' = [p \in Periods |-> IF p \notin S THEN place[p] ELSE IF Covered(p) = <<>> THEN "gone" ELSE "segment"]
      /\ pages' = [p \in Periods |-> IF p \notin S THEN pages[p] ELSE Kept(p)]
      /\ receipts' = [p \in Periods |-> IF p \in S /\ Covered(p) = <<>> THEN <<>> ELSE receipts[p]]
      /\ mixed' = mixed \cup MixedIn(S)
  BY DEF Finalize
<1> HIDE DEF S
<1>4. Cut(S, S)
  BY <1>2, <1>3, CutText
<1> QED  BY <1>1, <1>4 DEF S

-----------------------------------------------------------------------------
(* Types *)

LEMMA Emptied ==
  ASSUME NEW f \in [Periods -> Seq(Batches)], NEW p
  PROVE  [f EXCEPT ![p] = <<>>] \in [Periods -> Seq(Batches)]
<1>1. <<>> \in Seq(Batches)
  OBVIOUS
<1> QED  BY <1>1

LEMMA TypeTick ==
  ASSUME TypeOK, PeriodInOrder, NEW rotate \in BOOLEAN, Tick(rotate), UNCHANGED removals
  PROVE  TypeOK'
<1>1. PICK Fail \in SUBSET (unfinished \cup IF rotate THEN Closing ELSE {}) :
        Finalize(unfinished \cup IF rotate THEN Closing ELSE {}, Fail) /\ unfinished' = Fail
  BY DEF Tick
<1> DEFINE Try == unfinished \cup IF rotate THEN Closing ELSE {}
<1>2. Try \in SUBSET Periods /\ \A p \in Try : place[p] = "open"
  BY DEF Closing, PeriodInOrder, TypeOK
<1> HIDE DEF Try
<1>3. Cut(Try \ Fail, Try \ Fail) /\ faults' \in 0..MaxFaults
  BY <1>1, <1>2, FinalizeIs DEF Try
<1>4. /\ place' \in [Periods -> {"none", "open", "segment", "gone"}]
      /\ pages' \in [Periods -> Seq(Batches)] /\ receipts' \in [Periods -> Seq(Batches)]
      /\ mixed' \subseteq Batches /\ faults' \in 0..MaxFaults
  BY <1>3 DEF Cut
<1>5. unfinished' \subseteq Periods
  BY <1>1, <1>2 DEF Try
<1>6. period' \in Periods \cup {NoPeriod} /\ committed' \in Nat /\ contexts' \subseteq Contexts
  BY FirstUnused DEF Tick, NewPeriod, TypeOK
<1> QED  BY <1>4, <1>5, <1>6 DEF Tick, TypeOK, jobVars, syncVars, wordVars

LEMMA TypeAccept ==
  ASSUME TypeOK, PeriodInOrder, NEW b \in Batches, Accept(b), UNCHANGED removals
  PROVE  TypeOK'
<1>1. /\ place' \in [Periods -> {"none", "open", "segment", "gone"}]
      /\ pages' \in [Periods -> Seq(Batches)] /\ receipts' \in [Periods -> Seq(Batches)]
      /\ mixed' \subseteq Batches /\ faults' \in 0..MaxFaults
      /\ unfinished' \subseteq Periods
      /\ period' \in Periods \cup {NoPeriod} /\ committed' \in Nat /\ contexts' \subseteq Contexts
  <2>1. CASE period = NoPeriod \/ committed >= FileMax
    <3>1. PICK Fail \in SUBSET Closing :
            Finalize(Closing, Fail) /\ unfinished' = unfinished \cup Fail /\ NewPeriod(First(Unused))
      BY <2>1 DEF Accept
    <3>2. Closing \in SUBSET Periods /\ \A p \in Closing : place[p] = "open"
      BY DEF Closing, TypeOK
    <3>3. Cut(Closing \ Fail, Closing \ Fail) /\ faults' \in 0..MaxFaults
      BY <3>1, <3>2, FinalizeIs
    <3>4. Unused # {}
      BY <2>1 DEF Accept
    <3>5. period' \in Periods \cup {NoPeriod} /\ committed' \in Nat /\ contexts' \subseteq Contexts
      BY <3>1, <3>4, FirstUnused DEF NewPeriod
    <3>6. unfinished' \subseteq Periods
      BY <3>1, <3>2 DEF TypeOK
    <3> QED  BY <3>3, <3>5, <3>6 DEF Cut
  <2>2. CASE ~(period = NoPeriod \/ committed >= FileMax)
    BY <2>2 DEF Accept, TypeOK
  <2> QED  BY <2>1, <2>2
<1>2. job' \in {"free", "pages", "receipt", "evidence", "tombstone", "unlink", "rmdir"} /\ batch' \in Batches \cup {NoBatch}
  BY DEF Accept, TypeOK
<1> QED  BY <1>1, <1>2 DEF Accept, TypeOK, syncVars, wordVars

LEMMA TypeIntake ==
  ASSUME TypeOK, JobInOrder, UNCHANGED removals, WritePages \/ WriteReceipt \/ WriteEvidence
  PROVE  TypeOK'
<1>1. CASE WritePages
  <2>1. batch \in Batches /\ period \in Periods
    BY <1>1 DEF WritePages, JobInOrder, TypeOK
  <2>2. At(pages[period]) \in Seq(Batches)
    BY <2>1, AtTyped DEF TypeOK
  <2>3. pages' \in [Periods -> Seq(Batches)] /\ place' \in [Periods -> {"none", "open", "segment", "gone"}]
    BY <1>1, <2>1, <2>2 DEF WritePages, TypeOK
  <2>4. faults' \in 0..MaxFaults /\ job' \in {"free", "receipt"} /\ batch' \in Batches \cup {NoBatch} /\ todo' \subseteq Periods
    BY <1>1, CustodyAssumption DEF WritePages, TypeOK, Fault, Free
  <2> QED  BY <1>1, <2>3, <2>4 DEF WritePages, TypeOK, memVars, syncVars, ghostVars, wordVars
<1>2. CASE WriteReceipt
  <2>1. batch \in Batches /\ period \in Periods
    BY <1>2 DEF WriteReceipt, JobInOrder, TypeOK
  <2> DEFINE s == SubSeq(receipts[period], 1, Least(committed, Len(receipts[period])))
  <2>2. At(receipts[period]) \in Seq(Batches) /\ s \in Seq(Batches)
    BY <2>1, AtTyped DEF TypeOK
  <2>3. \/ receipts' = [receipts EXCEPT ![period] = At(receipts[period])]
        \/ receipts' = receipts
        \/ receipts' = [receipts EXCEPT ![period] = s]
    BY <1>2 DEF WriteReceipt
  <2> HIDE DEF s
  <2>4. receipts' \in [Periods -> Seq(Batches)]
    BY <2>1, <2>2, <2>3 DEF TypeOK
  <2>5. faults' \in 0..MaxFaults /\ job' \in {"free", "evidence"} /\ batch' \in Batches \cup {NoBatch} /\ todo' \subseteq Periods
    BY <1>2, CustodyAssumption DEF WriteReceipt, TypeOK, Fault, Free
  <2>6. committed' \in Nat /\ unsynced' \subseteq Batches
    BY <1>2, <2>1 DEF WriteReceipt, TypeOK
  <2> QED  BY <1>2, <2>4, <2>5, <2>6 DEF WriteReceipt, TypeOK, syncVars
<1>3. CASE WriteEvidence
  <2>1. batch \in Batches /\ period \in Periods
    BY <1>3 DEF WriteEvidence, JobInOrder, TypeOK
  <2>2. known' \in [Batches -> Kinds] /\ evidence' \in [Batches -> Kinds]
    BY <1>3, <2>1 DEF WriteEvidence, TypeOK, Kinds
  <2>3. contexts' \subseteq Contexts /\ dropped' \subseteq Batches
    BY <1>3, <2>1 DEF WriteEvidence, TypeOK, Contexts, Reply
  <2>4. faults' \in 0..MaxFaults /\ job' = "free" /\ batch' = NoBatch /\ todo' = {}
    BY <1>3, CustodyAssumption DEF WriteEvidence, TypeOK, Fault, Free
  <2> QED  BY <1>3, <2>2, <2>3, <2>4 DEF WriteEvidence, TypeOK, syncVars
<1> QED  BY <1>1, <1>2, <1>3

LEMMA TypeDiscard ==
  ASSUME TypeOK, JobInOrder, UNCHANGED removals,
         \/ UNCHANGED faults /\ (Discard \/ DiscardTombstone \/ DiscardUnlink \/ DiscardRmdir \/ DiscardDone)
         \/ DiscardFails
  PROVE  TypeOK'
<1>1. CASE UNCHANGED faults /\ Discard
  BY <1>1 DEF Discard, TypeOK, Dirs, diskVars, memVars, syncVars, ghostVars, wordVars
<1>2. CASE UNCHANGED faults /\ DiscardTombstone
  <2>1. Doomed \in Periods
    BY <1>2, DoomedIsOne DEF DiscardTombstone, TypeOK
  <2>2. Entomb(Doomed) /\ discarded' = discarded \cup Content(Covered(Doomed)) /\ job' = "unlink"
    BY <1>2 DEF DiscardTombstone
  <2>3. known' \in [Batches -> Kinds] /\ evidence' = known'
    BY <2>1, <2>2, EntombIs
  <2>4. Content(Covered(Doomed)) \subseteq Batches
    BY <2>1, CoveredIs DEF Content
  <2> QED  BY <1>2, <2>2, <2>3, <2>4 DEF DiscardTombstone, TypeOK, syncVars
<1>3. CASE UNCHANGED faults /\ DiscardUnlink
  <2>1. pages' \in [Periods -> Seq(Batches)]
    BY <1>3, Emptied DEF DiscardUnlink, TypeOK
  <2> QED  BY <1>3, <2>1 DEF DiscardUnlink, TypeOK, memVars, syncVars, ghostVars, wordVars
<1>4. CASE UNCHANGED faults /\ DiscardRmdir
  <2> DEFINE p == Doomed
  <2>1. /\ place' = [place EXCEPT ![p] = "gone"] /\ receipts' = [receipts EXCEPT ![p] = <<>>]
        /\ acked' = [acked EXCEPT ![p] = FALSE] /\ period' \in {period, NoPeriod}
        /\ unfinished' = unfinished \ {p} /\ todo' = todo \ {p}
    BY <1>4 DEF DiscardRmdir
  <2> HIDE DEF p
  <2>2. /\ place' \in [Periods -> {"none", "open", "segment", "gone"}]
        /\ receipts' \in [Periods -> Seq(Batches)] /\ acked' \in [Periods -> BOOLEAN]
        /\ period' \in Periods \cup {NoPeriod} /\ unfinished' \subseteq Periods /\ todo' \subseteq Periods
    BY <2>1, Emptied DEF TypeOK
  <2> QED  BY <1>4, <2>2 DEF DiscardRmdir, TypeOK, syncVars, ghostVars, wordVars
<1>5. CASE UNCHANGED faults /\ DiscardDone
  <2>1. period' \in Periods /\ committed' = 0 /\ contexts' = {}
    BY <1>5, FirstUnused DEF DiscardDone, NewPeriod
  <2> QED  BY <1>5, <2>1 DEF DiscardDone, Free, TypeOK, diskVars, syncVars, ghostVars, wordVars
<1>6. CASE DiscardFails
  <2>1. faults' \in 0..MaxFaults
    BY <1>6, CustodyAssumption DEF DiscardFails, Fault, TypeOK
  <2> QED  BY <1>6, <2>1 DEF DiscardFails, Free, TypeOK, diskVars, memVars, syncVars, ghostVars, wordVars
<1> QED  BY <1>1, <1>2, <1>3, <1>4, <1>5, <1>6

LEMMA TypeSend ==
  ASSUME TypeOK, SyncInOrder,
         \/ UNCHANGED <<faults, removals>> /\ (Stored \/ \E p \in Periods : Reserve(p))
         \/ UNCHANGED faults /\ SegmentRemoved
         \/ UNCHANGED removals /\ SyncFails
  PROVE  TypeOK'
<1>1. CASE UNCHANGED <<faults, removals>> /\ \E p \in Periods : Reserve(p)
  BY <1>1 DEF Reserve, TypeOK, diskVars, memVars, jobVars, ghostVars, wordVars
<1>2. CASE UNCHANGED <<faults, removals>> /\ Stored
  <2>1. segment \in Periods
    BY <1>2 DEF Stored, SyncInOrder, TypeOK
  <2>2. Content(pages[segment]) \subseteq Batches
    BY <2>1, NamedNumbers DEF Content
  <2>3. delivered' = [delivered EXCEPT ![segment] = delivered[segment] \cup Content(pages[segment])]
    BY <1>2 DEF Stored
  <2>4. delivered' \in [Periods -> SUBSET Batches]
    BY <2>1, <2>2, <2>3 DEF TypeOK
  <2>5. /\ acked' \in [Periods -> BOOLEAN] /\ sync' \in {"confirmed", "idle"}
        /\ segment' \in Periods \cup {NoPeriod} /\ reserved' \subseteq Periods
    BY <1>2 DEF Stored, Release, TypeOK
  <2> QED  BY <1>2, <2>4, <2>5 DEF Stored, TypeOK, memVars, jobVars
<1>3. CASE UNCHANGED faults /\ SegmentRemoved
  <2>1. segment \in Periods
    BY <1>3 DEF SegmentRemoved, SyncInOrder, TypeOK
  <2>2. Content(pages[segment]) \subseteq Batches
    BY <2>1, NamedNumbers DEF Content
  <2>3. removals' \in 0..MaxRemovals /\ withdrawn' \subseteq Batches
    BY <1>3, <2>2, CustodyAssumption DEF SegmentRemoved, TypeOK
  <2> QED  BY <1>3, <2>3 DEF SegmentRemoved, TypeOK, diskVars, memVars, jobVars
<1>4. CASE UNCHANGED removals /\ SyncFails
  <2>1. faults' \in 0..MaxFaults
    BY <1>4, CustodyAssumption DEF SyncFails, Fault, TypeOK
  <2> QED  BY <1>4, <2>1 DEF SyncFails, Release, TypeOK, diskVars, memVars, jobVars, ghostVars, wordVars
<1> QED  BY <1>1, <1>2, <1>3, <1>4

LEMMA TypeRemove ==
  ASSUME TypeOK, SyncInOrder, UNCHANGED <<faults, removals>>,
         PurgeReceipts \/ PurgePages \/ Confirm \/ Unlink \/ Rmdir
  PROVE  TypeOK'
<1>1. segment \in Periods
  BY DEF PurgeReceipts, PurgePages, Confirm, Unlink, Rmdir, SyncInOrder, TypeOK
<1>2. CASE PurgeReceipts
  <2>1. receipts' \in [Periods -> Seq(Batches)]
    BY <1>2, Emptied DEF PurgeReceipts, TypeOK
  <2> QED  BY <1>2, <2>1 DEF PurgeReceipts, TypeOK, memVars, jobVars, ghostVars, wordVars
<1>3. CASE PurgePages
  <2>1. pages' \in [Periods -> Seq(Batches)] /\ place' \in [Periods -> {"none", "open", "segment", "gone"}]
    BY <1>3, Emptied DEF PurgePages, TypeOK
  <2> QED  BY <1>3, <2>1 DEF PurgePages, Release, TypeOK, memVars, jobVars, ghostVars, wordVars
<1>4. CASE Confirm
  <2>1. known' \in [Batches -> Kinds] /\ evidence' = known'
    BY <1>1, <1>4, EntombIs DEF Confirm
  <2> QED  BY <1>4, <2>1 DEF Confirm, TypeOK, jobVars, ghostVars, wordVars
<1>5. CASE Unlink
  <2>1. pages' \in [Periods -> Seq(Batches)]
    BY <1>5, Emptied DEF Unlink, TypeOK
  <2> QED  BY <1>5, <2>1 DEF Unlink, TypeOK, memVars, jobVars, ghostVars, wordVars
<1>6. CASE Rmdir
  <2>1. /\ place' \in [Periods -> {"none", "open", "segment", "gone"}]
        /\ receipts' \in [Periods -> Seq(Batches)] /\ acked' \in [Periods -> BOOLEAN]
    BY <1>6, Emptied DEF Rmdir, TypeOK
  <2> QED  BY <1>6, <2>1 DEF Rmdir, Release, TypeOK, memVars, jobVars, ghostVars, wordVars
<1> QED  BY <1>2, <1>3, <1>4, <1>5, <1>6

LEMMA SnapshotsAreContexts ==
  ASSUME NEW s \in Seq(Batches)
  PROVE  SnapshotsOf(s) \subseteq Contexts
BY DEF SnapshotsOf, Contexts, Content

\* Recovery cuts all open periods back and lets those go that are finished.
LEMMA RecoverIs ==
  ASSUME TypeOK, Recover
  PROVE  \E again \in OpenDirs \cup {NoPeriod} : \E Fail \in SUBSET (OpenDirs \ {again}) :
           /\ Cut(OpenDirs, (OpenDirs \ {again}) \ Fail) /\ unfinished' = Fail
           /\ period' = IF again = NoPeriod THEN First(Unused) ELSE again
           /\ committed' = IF again = NoPeriod THEN 0 ELSE Len(Covered(again))
           /\ contexts' = IF again = NoPeriod THEN {} ELSE SnapshotsOf(Kept(again))
           /\ again = NoPeriod => Unused # {}
           /\ faults' \in 0..MaxFaults
<1>1. PICK again \in OpenDirs \cup {NoPeriod} :
       /\ again = NoPeriod => Unused # {}
       /\ \E Fail \in SUBSET (OpenDirs \ {again}) :
            LET Try == OpenDirs \ {again} IN
            /\ MayFail(Try, Fail)
            /\ place' = [p \in Periods |-> IF p \notin Try \ Fail THEN place[p]
                                           ELSE IF Covered(p) = <<>> THEN "gone" ELSE "segment"]
            /\ pages' = [p \in Periods |-> IF p \in OpenDirs THEN Kept(p) ELSE pages[p]]
            /\ receipts' = [p \in Periods |-> IF p \in Try \ Fail /\ Covered(p) = <<>> THEN <<>> ELSE receipts[p]]
            /\ unfinished' = Fail
       /\ period' = IF again = NoPeriod THEN First(Unused) ELSE again
       /\ committed' = IF again = NoPeriod THEN 0 ELSE Len(Covered(again))
       /\ contexts' = IF again = NoPeriod THEN {} ELSE SnapshotsOf(Kept(again))
  BY DEF Recover
<1>2. PICK Fail \in SUBSET (OpenDirs \ {again}) :
        /\ MayFail(OpenDirs \ {again}, Fail)
        /\ place' = [p \in Periods |-> IF p \notin (OpenDirs \ {again}) \ Fail THEN place[p]
                                       ELSE IF Covered(p) = <<>> THEN "gone" ELSE "segment"]
        /\ pages' = [p \in Periods |-> IF p \in OpenDirs THEN Kept(p) ELSE pages[p]]
        /\ receipts' = [p \in Periods |-> IF p \in (OpenDirs \ {again}) \ Fail /\ Covered(p) = <<>>
                                            THEN <<>> ELSE receipts[p]]
        /\ unfinished' = Fail
  BY <1>1
<1> DEFINE F == (OpenDirs \ {again}) \ Fail
           S == OpenDirs
<1>3. faults' \in 0..MaxFaults
  BY <1>2, CustodyAssumption DEF MayFail, Fault, TypeOK
<1>4. mixed' = mixed \cup MixedIn(OpenDirs)
  BY DEF Recover
<1>5. S \in SUBSET Periods /\ F \in SUBSET S /\ \A p \in S : place[p] = "open"
  BY DEF OpenDirs
<1>6. /\ place' = [p \in Periods |-> IF p \notin F THEN place[p] ELSE IF Covered(p) = <<>> THEN "gone" ELSE "segment"]
      /\ receipts' = [p \in Periods |-> IF p \in F /\ Covered(p) = <<>> THEN <<>> ELSE receipts[p]]
      /\ mixed' = mixed \cup MixedIn(S)
  BY <1>2, <1>4
<1>7. pages' = [p \in Periods |-> IF p \notin S THEN pages[p] ELSE Kept(p)]
  BY <1>2
<1> HIDE DEF F, S
<1>8. Cut(S, F)
  BY <1>5, <1>6, <1>7, CutText
<1> QED  BY <1>1, <1>2, <1>3, <1>8 DEF F, S

LEMMA TypeRestart ==
  ASSUME TypeOK, UNCHANGED removals,
         \/ UNCHANGED faults /\ (Crash \/ LoadEvidence \/ \E p \in Periods : FinishUnlink(p))
         \/ Recover
  PROVE  TypeOK'
<1>1. CASE UNCHANGED faults /\ Crash
  <2>1. known' \in [Batches -> Kinds]
    BY <1>1 DEF Crash, Kinds
  <2> QED  BY <1>1, <2>1 DEF Crash, Free, TypeOK, diskVars, ghostVars, wordVars
<1>2. CASE UNCHANGED faults /\ LoadEvidence
  BY <1>2 DEF LoadEvidence, TypeOK, diskVars, jobVars, syncVars, ghostVars, wordVars
<1>3. CASE UNCHANGED faults /\ \E p \in Periods : FinishUnlink(p)
  <2>1. PICK p \in Periods : FinishUnlink(p)
    BY <1>3
  <2>2. CASE pages[p] # <<>>
    <3>1. pages' = [pages EXCEPT ![p] = <<>>]
      BY <2>1, <2>2 DEF FinishUnlink
    <3>2. pages' \in [Periods -> Seq(Batches)]
      BY <3>1, Emptied DEF TypeOK
    <3> QED  BY <1>3, <2>1, <2>2, <3>2 DEF FinishUnlink, TypeOK, memVars, jobVars, syncVars, ghostVars, wordVars
  <2>3. CASE pages[p] = <<>>
    <3>1. /\ place' \in [Periods -> {"none", "open", "segment", "gone"}]
          /\ receipts' \in [Periods -> Seq(Batches)] /\ acked' \in [Periods -> BOOLEAN]
      BY <2>1, <2>3, Emptied DEF FinishUnlink, TypeOK
    <3> QED  BY <1>3, <2>1, <2>3, <3>1 DEF FinishUnlink, TypeOK, memVars, jobVars, syncVars, ghostVars, wordVars
  <2> QED  BY <2>2, <2>3
<1>4. CASE Recover
  <2>1. PICK again \in OpenDirs \cup {NoPeriod} : \E Fail \in SUBSET (OpenDirs \ {again}) :
           /\ Cut(OpenDirs, (OpenDirs \ {again}) \ Fail) /\ unfinished' = Fail
           /\ period' = IF again = NoPeriod THEN First(Unused) ELSE again
           /\ committed' = IF again = NoPeriod THEN 0 ELSE Len(Covered(again))
           /\ contexts' = IF again = NoPeriod THEN {} ELSE SnapshotsOf(Kept(again))
           /\ again = NoPeriod => Unused # {}
           /\ faults' \in 0..MaxFaults
    BY <1>4, RecoverIs
  <2>2. again # NoPeriod => again \in Periods
    BY DEF OpenDirs
  <2>3. period' \in Periods
    BY <2>1, <2>2, FirstUnused
  <2>4. again # NoPeriod => Len(Covered(again)) \in Nat /\ SnapshotsOf(Kept(again)) \subseteq Contexts
    BY <2>2, CoveredIs, KeptIs, SnapshotsAreContexts
  <2>5. committed' \in Nat /\ contexts' \subseteq Contexts
    BY <2>1, <2>4
  <2>6. /\ place' \in [Periods -> {"none", "open", "segment", "gone"}]
        /\ pages' \in [Periods -> Seq(Batches)] /\ receipts' \in [Periods -> Seq(Batches)]
        /\ mixed' \subseteq Batches /\ faults' \in 0..MaxFaults /\ unfinished' \subseteq Periods
    BY <2>1 DEF Cut, OpenDirs
  <2>7. known' \in [Batches -> Kinds] /\ evidence' = known' /\ custody' \in {"open", "unavailable"}
    BY <1>4 DEF Recover, TypeOK, Kinds
  <2> QED  BY <1>4, <2>3, <2>5, <2>6, <2>7 DEF Recover, TypeOK, jobVars, syncVars, wordVars
<1> QED  BY <1>1, <1>2, <1>3, <1>4

LEMMA TypeDuplicate ==
  ASSUME TypeOK, UNCHANGED <<faults, removals>>, NEW b \in Batches, Duplicate(b)
  PROVE  TypeOK'
<1>1. dropped' \subseteq Batches
  BY DEF Duplicate, Reply, TypeOK
<1> QED  BY <1>1 DEF Duplicate, TypeOK, diskVars, memVars, jobVars, syncVars

-----------------------------------------------------------------------------
(* What a step takes in and what it lets go *)

\* A batch comes to be held only by its receipt, or by one that failed to sync.
Takes == \A p \in Periods : \A b \in Batches : Has(p, b)' =>
  \/ Has(p, b) \/ b \in unsynced'
  \/ job = "receipt" /\ job' = "evidence" /\ p = period /\ b = batch /\ batch' = batch

\* The text of a batch whose receipt failed to sync, and which was not taken in since.
Uncounted(b) == known[b] = "no" /\ evidence[b] = "no" /\ b \notin dropped /\ b \in unsynced

Lost(b) == evidence[b] = "removed" \/ (withdrawn # {} /\ b \in withdrawn \cup mixed) \/ Uncounted(b)

Loses == \A b \in Batches :
  /\ \A p \in Periods : Has(p, b) => Has(p, b)' \/ Lost(b)
  /\ Listed(b) => Listed(b)' \/ Lost(b)

LEMMA SameTextTakes ==
  ASSUME UNCHANGED <<place, pages, receipts>>
  PROVE  Takes /\ Loses
<1>1. \A p \in Periods : \A b \in Batches : Has(p, b)' <=> Has(p, b)
  BY DEF Has, OnDisk, Named
<1>2. \A b \in Batches : Listed(b)' <=> Listed(b)
  BY DEF Listed, OnDisk, Named
<1> QED  BY <1>1, <1>2 DEF Takes, Loses

LEMMA QuietAccounts ==
  ASSUME TypeOK, MemoryInOrder, JobInOrder, AccountInOrder, Takes, Loses,
         UNCHANGED <<known, evidence, custody, dropped, delivered, discarded, withdrawn>>,
         unsynced \subseteq unsynced', mixed \subseteq mixed',
         job = "evidence" => job' = "evidence" /\ batch' = batch
  PROVE  AccountInOrder'
<1> SUFFICES ASSUME NEW b \in Batches
             PROVE  /\ evidence'[b] = "removed" => Gone(b)'
                    /\ known'[b] = "accepted" \/ evidence'[b] = "accepted" \/ b \in dropped' => Accounted(b)'
                    /\ b \in discarded' => evidence'[b] = "removed"
                    /\ b \notin Forgotten' =>
                       /\ (\E p \in Periods : b \in delivered'[p]) => evidence'[b] # "no" \/ Listed(b)'
                       /\ custody' = "open" /\ (\E p \in Periods : Taken(p, b)') =>
                            known'[b] # "no" \/ (job' = "evidence" /\ b = batch')
                       /\ \A p, q \in Periods : Taken(p, b)' /\ Taken(q, b)' => p = q
                    /\ withdrawn' = {} /\ (known'[b] = "accepted" \/ evidence'[b] = "accepted") => Listed(b)'
  BY DEF AccountInOrder, AccountOf
<1>1. /\ evidence[b] = "removed" => Gone(b)
      /\ known[b] = "accepted" \/ evidence[b] = "accepted" \/ b \in dropped => Accounted(b)
      /\ b \in discarded => evidence[b] = "removed"
      /\ b \notin Forgotten =>
         /\ (\E p \in Periods : b \in delivered[p]) => evidence[b] # "no" \/ Listed(b)
         /\ custody = "open" /\ (\E p \in Periods : Taken(p, b)) =>
              known[b] # "no" \/ (job = "evidence" /\ b = batch)
         /\ \A p, q \in Periods : Taken(p, b) /\ Taken(q, b) => p = q
      /\ withdrawn = {} /\ (known[b] = "accepted" \/ evidence[b] = "accepted") => Listed(b)
  BY DEF AccountInOrder, AccountOf
<1>2. Gone(b) => Gone(b)'
  BY DEF Gone
<1>3. Lost(b) => Gone(b) \/ Uncounted(b)
  BY <1>1 DEF Lost, Gone
<1>4. Accounted(b) => Accounted(b)' \/ Uncounted(b)
  BY <1>2, <1>3 DEF Accounted, Loses
<1>5. known'[b] = "accepted" \/ evidence'[b] = "accepted" \/ b \in dropped' => Accounted(b)'
  BY <1>1, <1>4 DEF Uncounted
<1>6. b \notin Forgotten' => b \notin Forgotten /\ b \notin unsynced'
  BY DEF Forgotten
<1>7. b \notin Forgotten => (Lost(b) => evidence[b] = "removed")
  BY DEF Lost, Forgotten, Uncounted
<1>8. b \notin Forgotten' => ((\E p \in Periods : b \in delivered'[p]) => evidence'[b] # "no" \/ Listed(b)')
  BY <1>1, <1>6, <1>7 DEF Loses
<1>9. ASSUME b \notin Forgotten', NEW p \in Periods, Taken(p, b)'
      PROVE  Taken(p, b) \/ (job = "receipt" /\ job' = "evidence" /\ p = period /\ b = batch /\ batch' = batch)
  BY <1>6, <1>9 DEF Taken, Takes
<1>10. job = "receipt" => custody = "open" /\ known[batch] = "no"
  BY DEF MemoryInOrder, JobInOrder, TypeOK
<1>11. b \notin Forgotten' /\ custody' = "open" /\ (\E p \in Periods : Taken(p, b)') =>
        known'[b] # "no" \/ (job' = "evidence" /\ b = batch')
  BY <1>1, <1>6, <1>9
<1>12. ASSUME b \notin Forgotten', NEW p \in Periods, NEW q \in Periods, Taken(p, b)', Taken(q, b)'
       PROVE  p = q
  <2>1. (Taken(p, b) \/ (job = "receipt" /\ p = period /\ b = batch)) /\ (Taken(q, b) \/ (job = "receipt" /\ q = period /\ b = batch))
    BY <1>9, <1>12
  <2>2. job = "receipt" /\ b = batch => ~Taken(p, b) /\ ~Taken(q, b)
    BY <1>1, <1>6, <1>10, <1>12
  <2>3. Taken(p, b) /\ Taken(q, b) => p = q
    BY <1>1, <1>6, <1>12
  <2> QED  BY <2>1, <2>2, <2>3
<1>13. withdrawn' = {} /\ (known'[b] = "accepted" \/ evidence'[b] = "accepted") => Listed(b)'
  <2>1. SUFFICES ASSUME withdrawn = {}, known[b] = "accepted" \/ evidence[b] = "accepted"
                 PROVE  Listed(b)'
    OBVIOUS
  <2>2. evidence[b] # "removed"
    BY <2>1 DEF MemoryInOrder, TypeOK
  <2>3. ~Lost(b)
    BY <2>1, <2>2 DEF Lost, Uncounted
  <2> QED  BY <1>1, <2>1, <2>3 DEF Loses
<1> QED  BY <1>1, <1>2, <1>5, <1>8, <1>11, <1>12, <1>13

-----------------------------------------------------------------------------
(* The text of a period *)

\* What is removed, failed, withdrawn, mixed or delivered stays so.
Onward ==
  /\ \A b \in Batches : evidence[b] = "removed" => evidence'[b] = "removed"
  /\ unsynced \subseteq unsynced' /\ withdrawn \subseteq withdrawn' /\ mixed \subseteq mixed'
  /\ \A p \in Periods : delivered[p] \subseteq delivered'[p]

LEMMA SameTextIn ==
  ASSUME TypeOK, Onward, NEW p \in Periods, TextIn(p),
         place'[p] = place[p], pages'[p] = pages[p], receipts'[p] = receipts[p], acked'[p] = acked[p]
  PROVE  TextIn(p)'
<1>1. IsRemoved(receipts[p]) => IsRemoved(receipts[p])'
  BY NamedNumbers DEF IsRemoved, Onward
<1>2. /\ place'[p] \in {"none", "gone"} => pages'[p] = <<>> /\ receipts'[p] = <<>>
      /\ Len(receipts'[p]) <= Len(pages'[p]) \/ (pages'[p] = <<>> /\ IsRemoved(receipts[p])')
  BY <1>1 DEF TextIn
<1>3. \A i \in Named(p)' : pages'[p][i] # receipts'[p][i] => receipts'[p][i] \in unsynced'
  BY DEF TextIn, Named, Onward
<1>4. place'[p] = "segment" => \A i \in DOMAIN pages'[p] :
        /\ i \in DOMAIN receipts'[p] \/ pages'[p][i] \in withdrawn'
        /\ i \in DOMAIN receipts'[p] /\ pages'[p][i] # receipts'[p][i] =>
             pages'[p][i] \in mixed' /\ receipts'[p][i] \in mixed'
  BY DEF TextIn, Onward
<1>5. acked'[p] => place'[p] \in {"segment", "gone"} /\ \A i \in DOMAIN pages'[p] : pages'[p][i] \in delivered'[p]
  BY DEF TextIn, Onward
<1>6. \A i \in DOMAIN pages'[p] : \E j \in 1..i :
        pages'[p][j] \in Snapshots /\ Context[pages'[p][j]] = Context[pages'[p][i]]
  BY DEF TextIn
<1> QED  BY <1>2, <1>3, <1>4, <1>5, <1>6 DEF TextIn, IsRemoved

LEMMA CutSame ==
  ASSUME TypeOK, NEW S, NEW F, Cut(S, F)
  PROVE  /\ \A p \in Periods : \A b \in Batches : Has(p, b)' <=> Has(p, b)
         /\ \A b \in Batches : Listed(b)' <=> Listed(b)
<1>1. ASSUME NEW p \in Periods
      PROVE  \A b : (Has(p, b)' <=> Has(p, b)) /\ ((OnDisk(p)' /\ \E i \in Named(p)' : receipts'[p][i] = b) <=>
                                                    (OnDisk(p) /\ \E i \in Named(p) : receipts[p][i] = b))
  <2>1. CASE p \notin S
    BY <2>1 DEF Cut, Has, OnDisk, Named
  <2>2. CASE p \in S /\ p \in F /\ Named(p) = {}
    <3>1. ~OnDisk(p)'
      BY <2>2 DEF Cut, OnDisk
    <3> QED  BY <2>2, <3>1 DEF Has
  <2>3. CASE p \in S /\ ~(p \in F /\ Named(p) = {})
    <3>1. receipts'[p] = receipts[p] /\ DOMAIN pages'[p] = Named(p) /\ \A i \in Named(p) : pages'[p][i] = pages[p][i]
      BY <2>3 DEF Cut
    <3>2. Named(p)' = Named(p)
      BY <3>1 DEF Named
    <3>3. OnDisk(p) /\ OnDisk(p)'
      BY <2>3 DEF Cut, OnDisk
    <3> QED  BY <3>1, <3>2, <3>3 DEF Has
  <2> QED  BY <2>1, <2>2, <2>3
<1>2. \A p \in Periods : \A b \in Batches : Has(p, b)' <=> Has(p, b)
  BY <1>1
<1>3. \A b \in Batches : Listed(b)' <=> Listed(b)
  BY <1>1 DEF Listed
<1> QED  BY <1>2, <1>3

LEMMA CutTakes ==
  ASSUME TypeOK, NEW S, NEW F, Cut(S, F)
  PROVE  Takes /\ Loses
BY CutSame DEF Takes, Loses

LEMMA CutOrder ==
  ASSUME TypeOK, TextInOrder, Onward, UNCHANGED acked, NEW S, NEW F, Cut(S, F)
  PROVE  TextInOrder'
<1> SUFFICES ASSUME NEW p \in Periods
             PROVE  TextIn(p)'
  BY DEF TextInOrder
<1>0. TextIn(p)
  BY DEF TextInOrder
<1>1. CASE p \notin S
  BY <1>0, <1>1, SameTextIn DEF Cut
<1>2. CASE p \in S /\ p \in F /\ Named(p) = {}
  <2>1. place'[p] = "gone" /\ pages'[p] = <<>> /\ receipts'[p] = <<>>
    BY <1>2 DEF Cut
  <2>2. ~acked'[p]
    BY <1>0, <1>2 DEF TextIn, Cut
  <2> QED  BY <2>1, <2>2 DEF TextIn, Named
<1>3. CASE p \in S /\ ~(p \in F /\ Named(p) = {})
  <2>1. receipts'[p] = receipts[p] /\ DOMAIN pages'[p] = Named(p) /\ \A i \in Named(p) : pages'[p][i] = pages[p][i]
    BY <1>3 DEF Cut
  <2>2. Named(p)' = Named(p)
    BY <2>1 DEF Named
  <2>3. place[p] = "open" /\ place'[p] \in {"open", "segment"}
    BY <1>3 DEF Cut
  <2>4. pages'[p] \in Seq(Batches)
    BY DEF Cut
  <2>5. Len(receipts'[p]) <= Len(pages'[p]) \/ (pages'[p] = <<>> /\ IsRemoved(receipts[p])')
    <3>1. CASE Len(receipts[p]) <= Len(pages[p])
      <4>1. Named(p) = 1..Len(receipts[p])
        BY <3>1, NamedNumbers DEF Named
      <4>2. 1..Len(pages'[p]) = 1..Len(receipts[p]) /\ Len(pages'[p]) \in Nat /\ Len(receipts[p]) \in Nat
        BY <2>1, <2>4, <4>1, NamedNumbers
      <4> QED  BY <2>1, <4>2
    <3>2. CASE pages[p] = <<>> /\ IsRemoved(receipts[p])
      <4>1. DOMAIN pages'[p] = {}
        BY <2>1, <3>2 DEF Named
      <4> DEFINE s == pages'[p]
      <4>2. s \in Seq(Batches) /\ DOMAIN s = {}
        BY <2>4, <4>1
      <4> HIDE DEF s
      <4>3. s = <<>>
        <5>1. Len(s) \in Nat /\ 1..Len(s) = {}
          BY <4>2
        <5> QED  BY <4>2, <5>1
      <4>4. pages'[p] = <<>>
        BY <4>3 DEF s
      <4>5. IsRemoved(receipts[p])'
        BY <2>1, <3>2, NamedNumbers DEF IsRemoved, Onward
      <4> QED  BY <4>4, <4>5
    <3> QED  BY <1>0, <3>1, <3>2 DEF TextIn
  <2>6. \A i \in Named(p)' : pages'[p][i] # receipts'[p][i] => receipts'[p][i] \in unsynced'
    BY <1>0, <2>1, <2>2 DEF TextIn, Onward
  <2>7. \A i \in DOMAIN pages'[p] :
          /\ i \in DOMAIN receipts'[p]
          /\ pages'[p][i] # receipts'[p][i] => pages'[p][i] \in mixed' /\ receipts'[p][i] \in mixed'
    BY <1>3, <2>1 DEF Cut, Named
  <2>8. ~acked'[p]
    BY <1>0, <2>3 DEF TextIn
  <2>9. ASSUME NEW i \in DOMAIN pages'[p]
        PROVE  \E j \in 1..i : pages'[p][j] \in Snapshots /\ Context[pages'[p][j]] = Context[pages'[p][i]]
    <3>1. PICK j \in 1..i : pages[p][j] \in Snapshots /\ Context[pages[p][j]] = Context[pages[p][i]]
      BY <1>0, <2>1 DEF TextIn, Named
    <3>2. i \in Named(p) /\ j \in Named(p)
      BY <2>1, NamedNumbers DEF Named
    <3> QED  BY <2>1, <3>1, <3>2
  <2> QED  BY <2>3, <2>5, <2>6, <2>7, <2>8, <2>9 DEF TextIn, IsRemoved
<1> QED  BY <1>1, <1>2, <1>3

\* The pages of p go, and everything its receipts name is removed.
Clears(p) ==
  /\ place' = place /\ receipts' = receipts /\ pages' = [pages EXCEPT ![p] = <<>>]
  /\ IsRemoved(receipts[p]) \/ pages[p] = <<>>

LEMMA ClearsTakes ==
  ASSUME TypeOK, NEW p \in Periods, Clears(p)
  PROVE  Takes /\ Loses
<1>1. \A q \in Periods : q # p => pages'[q] = pages[q]
  BY DEF Clears, TypeOK
<1>2. pages'[p] = <<>> /\ place' = place /\ receipts' = receipts
  BY DEF Clears, TypeOK
<1>3. Named(p)' = {}
  BY <1>2 DEF Named
<1>4. \A q \in Periods : q # p => Named(q)' = Named(q)
  BY <1>1, <1>2 DEF Named
<1>5. \A i \in Named(p) : evidence[receipts[p][i]] = "removed"
  BY DEF Clears, IsRemoved, Named
<1>6. \A q \in Periods : \A b \in Batches : (Has(q, b)' => Has(q, b)) /\ (Has(q, b) => Has(q, b)' \/ evidence[b] = "removed")
  BY <1>1, <1>2, <1>3, <1>4, <1>5 DEF Has, OnDisk
<1>7. \A b \in Batches : Listed(b) => Listed(b)' \/ evidence[b] = "removed"
  BY <1>2, <1>4, <1>5 DEF Listed, OnDisk
<1> QED  BY <1>6, <1>7 DEF Takes, Loses, Lost

LEMMA ClearsOrder ==
  ASSUME TypeOK, TextInOrder, Onward, UNCHANGED acked, NEW p \in Periods, Clears(p)
  PROVE  TextInOrder'
<1> SUFFICES ASSUME NEW q \in Periods
             PROVE  TextIn(q)'
  BY DEF TextInOrder
<1>0. TextIn(q) /\ place'[q] = place[q] /\ receipts'[q] = receipts[q]
  BY DEF TextInOrder, Clears
<1>1. CASE q # p
  BY <1>0, <1>1, SameTextIn DEF Clears, TypeOK
<1>2. CASE q = p
  <2>1. pages'[q] = <<>> /\ DOMAIN pages'[q] = {}
    BY <1>2 DEF Clears, TypeOK
  <2>2. place'[q] \in {"none", "gone"} => receipts'[q] = <<>>
    BY <1>0 DEF TextIn
  <2>3. Len(receipts'[q]) <= Len(pages'[q]) \/ IsRemoved(receipts[q])'
    <3>1. CASE IsRemoved(receipts[q])
      BY <1>0, <3>1, NamedNumbers DEF IsRemoved, Onward
    <3>2. CASE pages[q] = <<>>
      <4>1. Len(receipts[q]) <= Len(pages[q]) \/ IsRemoved(receipts[q])
        BY <1>0 DEF TextIn
      <4> QED  BY <1>0, <2>1, <3>1, <3>2, <4>1
    <3> QED  BY <1>2, <3>1, <3>2 DEF Clears
  <2>4. acked'[q] => place'[q] \in {"segment", "gone"}
    BY <1>0 DEF TextIn
  <2> QED  BY <2>1, <2>2, <2>3, <2>4 DEF TextIn, Named, IsRemoved
<1> QED  BY <1>1, <1>2

\* The directory of p goes, its pages having gone before.
Drops(p) ==
  /\ place' = [place EXCEPT ![p] = "gone"] /\ receipts' = [receipts EXCEPT ![p] = <<>>]
  /\ pages' = [pages EXCEPT ![p] = <<>>] /\ (pages[p] = <<>> \/ receipts[p] = <<>>)

LEMMA DropsTakes ==
  ASSUME TypeOK, NEW p \in Periods, Drops(p)
  PROVE  Takes /\ Loses
<1>1. \A q \in Periods : q # p => place'[q] = place[q] /\ pages'[q] = pages[q] /\ receipts'[q] = receipts[q]
  BY DEF Drops, TypeOK
<1>2. Named(p) = {} /\ ~OnDisk(p)'
  BY DEF Drops, TypeOK, Named, OnDisk
<1>3. \A q \in Periods : q # p => Named(q)' = Named(q) /\ (OnDisk(q)' <=> OnDisk(q))
  BY <1>1 DEF Named, OnDisk
<1>4. \A q \in Periods : \A b \in Batches : Has(q, b)' <=> Has(q, b)
  BY <1>1, <1>2, <1>3 DEF Has
<1>5. \A b \in Batches : Listed(b)' <=> Listed(b)
  BY <1>1, <1>2, <1>3 DEF Listed
<1> QED  BY <1>4, <1>5 DEF Takes, Loses

LEMMA DropsOrder ==
  ASSUME TypeOK, TextInOrder, Onward, NEW p \in Periods, Drops(p), \A q \in Periods : q # p => acked'[q] = acked[q]
  PROVE  TextInOrder'
<1> SUFFICES ASSUME NEW q \in Periods
             PROVE  TextIn(q)'
  BY DEF TextInOrder
<1>0. TextIn(q)
  BY DEF TextInOrder
<1>1. CASE q # p
  BY <1>0, <1>1, SameTextIn DEF Drops, TypeOK
<1>2. CASE q = p
  <2>1. place'[q] = "gone" /\ pages'[q] = <<>> /\ receipts'[q] = <<>>
    BY <1>2 DEF Drops, TypeOK
  <2> QED  BY <2>1 DEF TextIn, Named
<1> QED  BY <1>1, <1>2

\* The receipts of a segment the journal removed go before its pages.
LEMMA PurgeTakes ==
  ASSUME TypeOK, TextInOrder, NEW p \in Periods, place[p] = "segment", pages[p] # <<>>,
         \A i \in DOMAIN pages[p] : pages[p][i] \in withdrawn,
         UNCHANGED <<place, pages>>, receipts' = [receipts EXCEPT ![p] = <<>>]
  PROVE  Takes /\ Loses
<1>1. \A q \in Periods : q # p => receipts'[q] = receipts[q] /\ Named(q)' = Named(q)
  BY DEF TypeOK, Named
<1>2. receipts'[p] = <<>> /\ Named(p)' = {}
  BY DEF TypeOK, Named
<1>3. withdrawn # {}
  <2>1. Len(pages[p]) \in Nat /\ Len(pages[p]) # 0
    BY NamedNumbers
  <2>2. 1 \in DOMAIN pages[p]
    BY <2>1, NamedNumbers
  <2> QED  BY <2>2
<1>4. \A i \in Named(p) : receipts[p][i] \in withdrawn \cup mixed
  BY DEF TextInOrder, TextIn, Named
<1>5. \A q \in Periods : \A b \in Batches :
        (Has(q, b)' => Has(q, b)) /\ (Has(q, b) => Has(q, b)' \/ b \in withdrawn \cup mixed)
  BY <1>1, <1>2, <1>4 DEF Has, OnDisk
<1>6. \A b \in Batches : Listed(b) => Listed(b)' \/ b \in withdrawn \cup mixed
  BY <1>1, <1>4 DEF Listed, OnDisk
<1> QED  BY <1>3, <1>5, <1>6 DEF Takes, Loses, Lost

LEMMA PurgeOrder ==
  ASSUME TypeOK, TextInOrder, Onward, UNCHANGED acked, NEW p \in Periods, place[p] = "segment",
         \A i \in DOMAIN pages[p] : pages[p][i] \in withdrawn,
         UNCHANGED <<place, pages>>, receipts' = [receipts EXCEPT ![p] = <<>>]
  PROVE  TextInOrder'
<1> SUFFICES ASSUME NEW q \in Periods
             PROVE  TextIn(q)'
  BY DEF TextInOrder
<1>0. TextIn(q)
  BY DEF TextInOrder
<1>1. CASE q # p
  BY <1>0, <1>1, SameTextIn DEF TypeOK
<1>2. CASE q = p
  <2>1. receipts'[q] = <<>> /\ DOMAIN receipts'[q] = {} /\ place'[q] = "segment" /\ Len(receipts'[q]) = 0
    BY <1>2 DEF TypeOK
  <2>2. pages'[q] = pages[q] /\ Len(pages[q]) \in Nat
    BY NamedNumbers
  <2>3. acked'[q] => \A i \in DOMAIN pages'[q] : pages'[q][i] \in delivered'[q]
    BY <1>0, <2>2 DEF TextIn, Onward
  <2>4. \A i \in DOMAIN pages'[q] : pages'[q][i] \in withdrawn'
    BY <1>2, <2>2 DEF Onward
  <2>5. \A i \in DOMAIN pages'[q] : \E j \in 1..i :
          pages'[q][j] \in Snapshots /\ Context[pages'[q][j]] = Context[pages'[q][i]]
    BY <1>0, <2>2 DEF TextIn
  <2> QED  BY <2>1, <2>2, <2>3, <2>4, <2>5 DEF TextIn, Named
<1> QED  BY <1>1, <1>2

\* Before a batch is written the open period is whole: as many texts as receipts at least.
LEMMA OpenIsWhole ==
  ASSUME TypeOK, MemoryInOrder, PeriodInOrder, JobInOrder, TextInOrder, job \in {"pages", "receipt"}
  PROVE  /\ period \in Periods /\ batch \in Batches /\ place[period] \in {"none", "open"}
         /\ committed \in Nat /\ committed <= Len(receipts[period]) /\ Len(receipts[period]) <= committed + 1
         /\ Len(receipts[period]) <= Len(pages[period]) /\ ~acked[period]
         /\ \A i \in DOMAIN receipts[period] : i > committed => Uncounted(receipts[period][i])
<1>1. /\ period \in Periods /\ batch \in Batches /\ place[period] \in {"none", "open"}
      /\ committed \in Nat /\ committed <= Len(receipts[period]) /\ Len(receipts[period]) <= committed + 1
  BY DEF JobInOrder, PeriodInOrder, TypeOK
<1>2. TextIn(period)
  BY <1>1 DEF TextInOrder
<1>3. custody = "open"
  BY DEF MemoryInOrder
<1>4. \A i \in DOMAIN receipts[period] : known[receipts[period][i]] # "removed" /\ evidence[receipts[period][i]] # "removed"
  <2>1. \A i \in DOMAIN receipts[period] : receipts[period][i] \in Batches /\ known[receipts[period][i]] # "removed"
    BY <1>1, NamedNumbers DEF JobInOrder
  <2> QED  BY <1>3, <2>1 DEF MemoryInOrder
<1>5. Len(receipts[period]) <= Len(pages[period])
  <2>1. SUFFICES ASSUME pages[period] = <<>>, IsRemoved(receipts[period])
                 PROVE  Len(receipts[period]) = 0 /\ Len(pages[period]) = 0
    BY <1>2 DEF TextIn
  <2>2. DOMAIN receipts[period] = {}
    BY <1>4, <2>1 DEF IsRemoved
  <2>3. Len(receipts[period]) \in Nat /\ DOMAIN receipts[period] = 1..Len(receipts[period])
    BY <1>1, NamedNumbers
  <2>4. Len(receipts[period]) = 0
    <3>1. 1 \notin 1..Len(receipts[period])
      BY <2>2, <2>3
    <3> QED  BY <2>3, <3>1
  <2> QED  BY <2>1, <2>4
<1>6. ~acked[period]
  BY <1>1, <1>2 DEF TextIn
<1>7. ASSUME NEW i \in DOMAIN receipts[period], i > committed
      PROVE  Uncounted(receipts[period][i])
  <2>1. receipts[period][i] \in unsynced /\ known[receipts[period][i]] = "no" /\ receipts[period][i] \notin dropped
    BY <1>1, <1>4, <1>7, PeriodsAreNumbers DEF PeriodInOrder
  <2>2. evidence[receipts[period][i]] = "no"
    BY <1>1, <1>3, <2>1, NamedNumbers DEF MemoryInOrder
  <2> QED  BY <2>1, <2>2 DEF Uncounted
<1> QED  BY <1>1, <1>5, <1>6, <1>7

\* At the committed length, the last text is the batch being accepted.
PagesWritten ==
  /\ pages' \in [Periods -> Seq(Batches)] /\ \A q \in Periods : q # period => pages'[q] = pages[q]
  /\ Len(pages'[period]) = committed + 1 /\ pages'[period][committed + 1] = batch
  /\ \A i \in 1..committed : pages'[period][i] = pages[period][i]

LEMMA WritePagesIs ==
  ASSUME TypeOK, MemoryInOrder, PeriodInOrder, JobInOrder, TextInOrder, WritePages
  PROVE  /\ pages' = pages \/ PagesWritten
         /\ place'[period] = "open" /\ \A q \in Periods : q # period => place'[q] = place[q]
         /\ receipts' = receipts /\ job' \in {"receipt", "free"}
         /\ job' = "receipt" => PagesWritten /\ batch' = batch /\ todo' = todo
         /\ job' = "free" => todo' = {}
<1>1. job = "pages"
  BY DEF WritePages
<1>2. period \in Periods /\ batch \in Batches /\ committed \in Nat /\ committed <= Len(pages[period])
  BY <1>1, OpenIsWhole, NamedNumbers
<1> DEFINE s == At(pages[period])
<1>3. s \in Seq(Batches) /\ Len(s) = committed + 1 /\ s[committed + 1] = batch /\ \A i \in 1..committed : s[i] = pages[period][i]
  BY <1>2, NamedNumbers, AtIs
<1>4. \/ pages' = [pages EXCEPT ![period] = s] /\ job' = "receipt" /\ batch' = batch /\ todo' = todo
      \/ (pages' = pages \/ pages' = [pages EXCEPT ![period] = s]) /\ job' = "free" /\ todo' = {}
  BY DEF WritePages, Free
<1> HIDE DEF s
<1>5. pages' = [pages EXCEPT ![period] = s] => PagesWritten
  BY <1>2, <1>3 DEF PagesWritten, TypeOK
<1>6. place'[period] = "open" /\ \A q \in Periods : q # period => place'[q] = place[q]
  BY <1>2 DEF WritePages, TypeOK
<1>7. receipts' = receipts
  BY DEF WritePages
<1> QED  BY <1>4, <1>5, <1>6, <1>7

LEMMA WritePagesTakes ==
  ASSUME TypeOK, MemoryInOrder, PeriodInOrder, JobInOrder, TextInOrder, WritePages
  PROVE  Takes /\ Loses
<1>1. /\ period \in Periods /\ batch \in Batches /\ place[period] \in {"none", "open"}
      /\ committed \in Nat /\ committed <= Len(receipts[period]) /\ Len(receipts[period]) <= committed + 1
      /\ Len(receipts[period]) <= Len(pages[period])
      /\ \A i \in DOMAIN receipts[period] : i > committed => Uncounted(receipts[period][i])
  BY OpenIsWhole DEF WritePages
<1> PICK p \in Periods : p = period
  BY <1>1
<1>2. /\ pages' = pages \/ PagesWritten
      /\ place'[p] = "open" /\ \A q \in Periods : q # p => place'[q] = place[q]
      /\ receipts' = receipts
  BY WritePagesIs
<1>3. unsynced' = unsynced
  BY DEF WritePages, ghostVars, wordVars
<1>4. TextIn(p)
  BY <1>1 DEF TextInOrder
<1>5. \A q \in Periods : q # p => (OnDisk(q)' <=> OnDisk(q)) /\ pages'[q] = pages[q] /\ Named(q)' = Named(q)
  BY <1>2 DEF OnDisk, Named, PagesWritten
<1>6. DOMAIN receipts[p] = 1..Len(receipts[p]) /\ Named(p) = DOMAIN receipts[p] /\ Named(p) = Named(p)'
  <2>1. DOMAIN receipts[p] = 1..Len(receipts[p]) /\ Len(receipts[p]) \in Nat
    BY <1>1, NamedNumbers
  <2>2. DOMAIN pages[p] = 1..Len(pages[p]) /\ Len(pages[p]) \in Nat
    BY <1>1, NamedNumbers
  <2>3. Named(p) = DOMAIN receipts[p]
    BY <1>1, <2>1, <2>2 DEF Named
  <2>4. PagesWritten => DOMAIN pages'[p] = 1..(committed + 1)
    BY <1>1 DEF PagesWritten
  <2>5. PagesWritten => Named(p)' = DOMAIN receipts[p]
    BY <1>1, <1>2, <2>1, <2>4 DEF Named
  <2>6. pages' = pages => Named(p)' = Named(p)
    BY <1>2 DEF Named
  <2> QED  BY <1>2, <2>1, <2>3, <2>5, <2>6
<1>7. \A i \in Named(p) : i <= committed => pages'[p][i] = pages[p][i]
  BY <1>1, <1>2, <1>6 DEF PagesWritten
<1>8. \A i \in Named(p) : i > committed => Uncounted(receipts[p][i])
  BY <1>1, <1>6
<1>9. \A i \in Named(p) : i \in Nat /\ receipts[p][i] \in Batches
  BY <1>1, <1>6, NamedNumbers
<1>10. Named(p) # {} => OnDisk(p)
  <2>1. place[p] = "none" => receipts[p] = <<>>
    BY <1>4 DEF TextIn
  <2> QED  BY <1>1, <1>6, <2>1 DEF OnDisk
<1>11. OnDisk(p)'
  BY <1>2 DEF OnDisk
<1>12. ASSUME NEW b \in Batches
       PROVE  (Has(p, b)' => Has(p, b) \/ b \in unsynced) /\ (Has(p, b) => Has(p, b)' \/ Uncounted(b))
  <2>1. ASSUME NEW i \in Named(p), pages'[p][i] = b, receipts'[p][i] = b
        PROVE  Has(p, b) \/ b \in unsynced
    <3>1. receipts[p][i] = b /\ OnDisk(p)
      BY <1>2, <1>10, <2>1
    <3>2. CASE i <= committed
      <4>1. pages[p][i] = b
        BY <1>7, <2>1, <3>2
      <4> QED  BY <3>1, <4>1 DEF Has
    <3>3. CASE i > committed
      BY <1>8, <3>1, <3>3 DEF Uncounted
    <3> QED  BY <1>1, <1>9, <3>2, <3>3
  <2>2. ASSUME NEW i \in Named(p), pages[p][i] = b, receipts[p][i] = b
        PROVE  Has(p, b)' \/ Uncounted(b)
    <3>1. CASE i <= committed
      <4>1. pages'[p][i] = b /\ receipts'[p][i] = b /\ i \in Named(p)'
        BY <1>2, <1>6, <1>7, <2>2, <3>1
      <4> QED  BY <1>11, <4>1 DEF Has
    <3>2. CASE i > committed
      BY <1>8, <2>2, <3>2
    <3> QED  BY <1>1, <1>9, <3>1, <3>2
  <2> QED  BY <1>6, <2>1, <2>2 DEF Has
<1>13. \A q \in Periods : q # p => \A b \in Batches : Has(q, b)' <=> Has(q, b)
  BY <1>2, <1>5 DEF Has
<1>14. \A b \in Batches : Listed(b) => Listed(b)'
  BY <1>2, <1>5, <1>6, <1>11 DEF Listed
<1> QED  BY <1>3, <1>12, <1>13, <1>14 DEF Takes, Loses, Lost

LEMMA WritePagesOrder ==
  ASSUME TypeOK, MemoryInOrder, PeriodInOrder, JobInOrder, TextInOrder, WritePages
  PROVE  TextInOrder'
<1>1. /\ period \in Periods /\ batch \in Batches /\ place[period] \in {"none", "open"}
      /\ committed \in Nat /\ committed <= Len(receipts[period]) /\ Len(receipts[period]) <= committed + 1
      /\ Len(receipts[period]) <= Len(pages[period]) /\ ~acked[period]
      /\ \A i \in DOMAIN receipts[period] : i > committed => Uncounted(receipts[period][i])
  BY OpenIsWhole DEF WritePages
<1>2. /\ pages' = pages \/ PagesWritten
      /\ place'[period] = "open" /\ \A q \in Periods : q # period => place'[q] = place[q]
      /\ receipts' = receipts
  BY WritePagesIs
<1>3. UNCHANGED <<unsynced, withdrawn, mixed, evidence, delivered, acked>>
  BY DEF WritePages, ghostVars, wordVars
<1>4. Onward
  BY <1>3 DEF Onward
<1> SUFFICES ASSUME NEW p \in Periods
             PROVE  TextIn(p)'
  BY DEF TextInOrder
<1>5. TextIn(p)
  BY DEF TextInOrder
<1>6. CASE p # period
  BY <1>2, <1>3, <1>4, <1>5, <1>6, SameTextIn DEF PagesWritten
<1>7. CASE p = period
  <2>1. place'[p] = "open" /\ ~acked'[p] /\ receipts'[p] = receipts[p]
    BY <1>1, <1>2, <1>3, <1>7
  <2>2. CASE pages' = pages
    <3>1. Len(receipts'[p]) <= Len(pages'[p])
      BY <1>1, <1>7, <2>1, <2>2
    <3>2. \A i \in Named(p)' : pages'[p][i] # receipts'[p][i] => receipts'[p][i] \in unsynced'
      BY <1>3, <1>5, <2>1, <2>2 DEF TextIn, Named
    <3>3. \A i \in DOMAIN pages'[p] : \E j \in 1..i :
            pages'[p][j] \in Snapshots /\ Context[pages'[p][j]] = Context[pages'[p][i]]
      BY <1>5, <2>2 DEF TextIn
    <3> QED  BY <2>1, <3>1, <3>2, <3>3 DEF TextIn
  <2>3. CASE PagesWritten
    <3>1. /\ pages'[p] \in Seq(Batches) /\ Len(pages'[p]) = committed + 1 /\ pages'[p][committed + 1] = batch
          /\ \A i \in 1..committed : pages'[p][i] = pages[p][i]
      BY <1>7, <2>3 DEF PagesWritten
    <3>2. DOMAIN pages'[p] = 1..(committed + 1)
      BY <1>1, <3>1
    <3>3. Len(receipts'[p]) <= Len(pages'[p])
      BY <1>1, <1>7, <2>1, <3>1
    <3>4. DOMAIN pages[p] = 1..Len(pages[p]) /\ Len(pages[p]) \in Nat /\ Len(receipts[p]) \in Nat
      BY NamedNumbers
    <3>5. 1..committed \subseteq DOMAIN pages[p]
      BY <1>1, <1>7, <3>4
    <3>6. ASSUME NEW i \in Named(p)', pages'[p][i] # receipts'[p][i]
          PROVE  receipts'[p][i] \in unsynced'
      <4>1. i \in 1..(committed + 1) /\ i \in DOMAIN receipts[p]
        BY <2>1, <3>2 DEF Named
      <4>2. CASE i <= committed
        <5>1. i \in Named(p) /\ pages[p][i] # receipts[p][i]
          BY <1>1, <2>1, <3>1, <3>5, <3>6, <4>1, <4>2 DEF Named
        <5> QED  BY <1>3, <1>5, <2>1, <5>1 DEF TextIn
      <4>3. CASE i > committed
        BY <1>1, <1>3, <1>7, <2>1, <4>1, <4>3 DEF Uncounted
      <4> QED  BY <1>1, <4>1, <4>2, <4>3
    <3>7. ASSUME NEW i \in DOMAIN pages'[p]
          PROVE  \E j \in 1..i : pages'[p][j] \in Snapshots /\ Context[pages'[p][j]] = Context[pages'[p][i]]
      <4>1. CASE i <= committed
        <5>1. i \in 1..committed
          BY <1>1, <3>2, <4>1
        <5>2. PICK j \in 1..i : pages[p][j] \in Snapshots /\ Context[pages[p][j]] = Context[pages[p][i]]
          BY <1>5, <3>5, <5>1 DEF TextIn
        <5>3. j \in 1..committed
          BY <1>1, <5>1
        <5> QED  BY <3>1, <5>1, <5>2, <5>3
      <4>2. CASE i > committed
        <5>1. i = committed + 1
          BY <1>1, <3>2, <4>2
        <5>2. CASE batch \in Snapshots
          <6>1. i \in 1..i
            BY <1>1, <5>1
          <6> QED  BY <3>1, <5>1, <5>2, <6>1
        <5>3. CASE Context[batch] \in contexts
          <6>1. committed <= Len(pages[period])
            BY <1>1, <1>7, <3>4
          <6>2. PICK j \in 1..committed : pages[p][j] \in Snapshots /\ Context[pages[p][j]] = Context[batch]
            BY <1>1, <1>7, <5>3, <6>1, PeriodsAreNumbers DEF PeriodInOrder
          <6>3. j \in 1..i
            BY <1>1, <5>1
          <6> QED  BY <3>1, <5>1, <6>2, <6>3
        <5> QED  BY <5>2, <5>3 DEF JobInOrder, WritePages
      <4> QED  BY <1>1, <3>2, <4>1, <4>2
    <3> QED  BY <2>1, <3>3, <3>6, <3>7 DEF TextIn
  <2> QED  BY <1>2, <2>2, <2>3
<1> QED  BY <1>6, <1>7

\* The receipts of the open period after a write of them, whole or not.
ReceiptWritten(n) ==
  /\ receipts' \in [Periods -> Seq(Batches)] /\ \A q \in Periods : q # period => receipts'[q] = receipts[q]
  /\ Len(receipts'[period]) = n /\ \A i \in 1..committed : receipts'[period][i] = receipts[period][i]

LEMMA WriteReceiptIs ==
  ASSUME TypeOK, MemoryInOrder, PeriodInOrder, JobInOrder, TextInOrder, WriteReceipt
  PROVE  /\ \/ receipts' = receipts \/ ReceiptWritten(committed)
            \/ ReceiptWritten(committed + 1) /\ receipts'[period][committed + 1] = batch
         /\ \/ /\ ReceiptWritten(committed + 1) /\ receipts'[period][committed + 1] = batch
               /\ committed' = committed + 1 /\ job' = "evidence" /\ batch' = batch /\ todo' = todo /\ unsynced' = unsynced
            \/ /\ committed' = committed /\ job' = "free" /\ todo' = {} /\ unsynced \subseteq unsynced'
               /\ \/ receipts' = receipts \/ ReceiptWritten(committed)
                  \/ ReceiptWritten(committed + 1) /\ receipts'[period][committed + 1] = batch /\ batch \in unsynced'
<1>1. job = "receipt"
  BY DEF WriteReceipt
<1>2. period \in Periods /\ batch \in Batches /\ committed \in Nat /\ committed <= Len(receipts[period])
  BY <1>1, OpenIsWhole, NamedNumbers
<1>3. receipts[period] \in Seq(Batches)
  BY <1>2, NamedNumbers
<1> DEFINE s == At(receipts[period])
           c == SubSeq(receipts[period], 1, Least(committed, Len(receipts[period])))
<1>4. s \in Seq(Batches) /\ Len(s) = committed + 1 /\ s[committed + 1] = batch /\ \A i \in 1..committed : s[i] = receipts[period][i]
  BY <1>2, <1>3, AtIs
<1>5. c \in Seq(Batches) /\ Len(c) = committed /\ \A i \in 1..committed : c[i] = receipts[period][i]
  <2>1. c = SubSeq(receipts[period], 1, committed)
    BY <1>2, <1>3 DEF Least
  <2> DEFINE d == SubSeq(receipts[period], 1, committed)
  <2>2. d \in Seq(Batches) /\ Len(d) = committed /\ \A i \in 1..committed : d[i] = receipts[period][i]
    BY <1>2, <1>3
  <2> QED  BY <2>1, <2>2
<1>6. \/ /\ receipts' = [receipts EXCEPT ![period] = s]
         /\ committed' = committed + 1 /\ job' = "evidence" /\ batch' = batch /\ todo' = todo /\ unsynced' = unsynced
      \/ /\ committed' = committed /\ job' = "free" /\ todo' = {}
         /\ \/ (receipts' = receipts \/ receipts' = [receipts EXCEPT ![period] = c]) /\ unsynced' = unsynced
            \/ receipts' = [receipts EXCEPT ![period] = s] /\ unsynced' = unsynced \cup {batch}
  BY DEF WriteReceipt, Free
<1> HIDE DEF s, c
<1>7. receipts' = [receipts EXCEPT ![period] = s] => ReceiptWritten(committed + 1) /\ receipts'[period][committed + 1] = batch
  BY <1>2, <1>4 DEF ReceiptWritten, TypeOK
<1>8. receipts' = [receipts EXCEPT ![period] = c] => ReceiptWritten(committed)
  BY <1>2, <1>5 DEF ReceiptWritten, TypeOK
<1> QED  BY <1>6, <1>7, <1>8

LEMMA WriteReceiptTakes ==
  ASSUME TypeOK, MemoryInOrder, PeriodInOrder, JobInOrder, TextInOrder, WriteReceipt
  PROVE  Takes /\ Loses
<1>1. /\ period \in Periods /\ batch \in Batches
      /\ committed \in Nat /\ committed <= Len(receipts[period]) /\ Len(receipts[period]) <= committed + 1
      /\ \A i \in DOMAIN receipts[period] : i > committed => Uncounted(receipts[period][i])
  BY OpenIsWhole DEF WriteReceipt
<1> PICK p \in Periods : p = period
  BY <1>1
<1>2. place[p] = "open" /\ Len(pages[p]) = committed + 1 /\ DOMAIN pages[p] = 1..(committed + 1)
  BY <1>1, NamedNumbers DEF JobInOrder, WriteReceipt
<1>3. place' = place /\ pages' = pages /\ job = "receipt"
  BY DEF WriteReceipt
<1>4. \A q \in Periods : q # p => receipts'[q] = receipts[q]
  BY WriteReceiptIs DEF ReceiptWritten
<1>5. OnDisk(p) /\ OnDisk(p)'
  BY <1>2, <1>3 DEF OnDisk
<1>6. \A q \in Periods : q # p => (OnDisk(q)' <=> OnDisk(q)) /\ Named(q)' = Named(q) /\ \A b \in Batches : Has(q, b)' <=> Has(q, b)
  BY <1>3, <1>4 DEF OnDisk, Named, Has
<1>7. DOMAIN receipts[p] = 1..Len(receipts[p]) /\ Len(receipts[p]) \in Nat /\ Named(p) = DOMAIN receipts[p]
  <2>1. DOMAIN receipts[p] = 1..Len(receipts[p]) /\ Len(receipts[p]) \in Nat
    BY NamedNumbers
  <2>2. 1..Len(receipts[p]) \subseteq 1..(committed + 1)
    BY <1>1, <2>1
  <2> QED  BY <1>2, <2>1, <2>2 DEF Named
<1>8. \A i \in 1..committed : receipts'[p][i] = receipts[p][i] /\ i \in Named(p) /\ i \in Named(p)'
  <2>1. \A i \in 1..committed : receipts'[p][i] = receipts[p][i]
    BY WriteReceiptIs DEF ReceiptWritten
  <2>2. 1..committed \subseteq Named(p)
    BY <1>1, <1>7
  <2>3. receipts' = receipts \/ (receipts'[p] \in Seq(Batches) /\ (Len(receipts'[p]) = committed \/ Len(receipts'[p]) = committed + 1))
    BY WriteReceiptIs DEF ReceiptWritten
  <2>4. 1..committed \subseteq DOMAIN receipts'[p]
    BY <1>1, <1>7, <2>3
  <2>5. 1..committed \subseteq DOMAIN pages'[p]
    BY <1>1, <1>2, <1>3
  <2> QED  BY <2>1, <2>2, <2>4, <2>5 DEF Named
<1>9. \A i \in Named(p) : i \in 1..committed \/ Uncounted(receipts[p][i])
  BY <1>1, <1>7
<1>10. ASSUME NEW i \in Named(p)'
       PROVE  \/ i \in 1..committed \/ receipts' = receipts
              \/ receipts'[p][i] = batch /\ ((job' = "evidence" /\ batch' = batch) \/ batch \in unsynced')
  <2>1. i \in DOMAIN receipts'[p]
    BY DEF Named
  <2>2. ASSUME ReceiptWritten(committed)
        PROVE  i \in 1..committed
    BY <1>1, <2>1, <2>2 DEF ReceiptWritten
  <2>3. ASSUME ReceiptWritten(committed + 1)
        PROVE  i \in 1..committed \/ i = committed + 1
    <3>1. DOMAIN receipts'[p] = 1..(committed + 1)
      BY <1>1, <2>3 DEF ReceiptWritten
    <3> QED  BY <1>1, <2>1, <3>1
  <2> QED  BY <2>2, <2>3, WriteReceiptIs
<1>11. unsynced \subseteq unsynced'
  BY WriteReceiptIs
<1>12. ASSUME NEW b \in Batches
       PROVE  /\ Has(p, b)' => Has(p, b) \/ b \in unsynced' \/ (job' = "evidence" /\ b = batch /\ batch' = batch)
              /\ Has(p, b) => Has(p, b)' \/ Uncounted(b)
              /\ (\E i \in Named(p) : receipts[p][i] = b) => (\E i \in Named(p)' : receipts'[p][i] = b) \/ Uncounted(b)
  <2>1. ASSUME NEW i \in Named(p)', pages'[p][i] = b, receipts'[p][i] = b
        PROVE  Has(p, b) \/ b \in unsynced' \/ (job' = "evidence" /\ b = batch /\ batch' = batch)
    <3>1. CASE i \in 1..committed
      BY <1>3, <1>5, <1>8, <2>1, <3>1 DEF Has
    <3>2. CASE receipts' = receipts
      BY <1>3, <1>5, <2>1, <3>2 DEF Has, Named
    <3> QED  BY <1>10, <2>1, <3>1, <3>2
  <2>2. ASSUME NEW i \in Named(p), pages[p][i] = b, receipts[p][i] = b
        PROVE  Has(p, b)' \/ Uncounted(b)
    BY <1>3, <1>5, <1>8, <1>9, <2>2 DEF Has
  <2>3. ASSUME NEW i \in Named(p), receipts[p][i] = b
        PROVE  (\E k \in Named(p)' : receipts'[p][k] = b) \/ Uncounted(b)
    BY <1>8, <1>9, <2>3
  <2> QED  BY <2>1, <2>2, <2>3 DEF Has
<1>13. \A b \in Batches : Listed(b) => Listed(b)' \/ Uncounted(b)
  BY <1>4, <1>5, <1>6, <1>12 DEF Listed
<1> QED  BY <1>3, <1>6, <1>11, <1>12, <1>13 DEF Takes, Loses, Lost

LEMMA WriteReceiptOrder ==
  ASSUME TypeOK, MemoryInOrder, PeriodInOrder, JobInOrder, TextInOrder, WriteReceipt
  PROVE  TextInOrder'
<1>1. /\ period \in Periods /\ batch \in Batches
      /\ committed \in Nat /\ committed <= Len(receipts[period]) /\ Len(receipts[period]) <= committed + 1
      /\ Len(receipts[period]) <= Len(pages[period]) /\ ~acked[period]
  BY OpenIsWhole DEF WriteReceipt
<1>2. place[period] = "open" /\ Len(pages[period]) = committed + 1 /\ pages[period][committed + 1] = batch
  BY DEF JobInOrder, WriteReceipt
<1>3. UNCHANGED <<place, pages, withdrawn, mixed, evidence, delivered, acked>>
  BY DEF WriteReceipt
<1>4. Onward
  BY <1>3, WriteReceiptIs DEF Onward
<1> SUFFICES ASSUME NEW p \in Periods
             PROVE  TextIn(p)'
  BY DEF TextInOrder
<1>5. TextIn(p)
  BY DEF TextInOrder
<1>6. CASE p # period \/ receipts' = receipts
  <2>1. receipts'[p] = receipts[p]
    BY <1>6, WriteReceiptIs DEF ReceiptWritten
  <2> QED  BY <1>3, <1>4, <1>5, <2>1, SameTextIn
<1>7. ASSUME p = period, NEW n \in {committed, committed + 1}, ReceiptWritten(n),
             n = committed + 1 => receipts'[period][committed + 1] = batch
      PROVE  TextIn(p)'
  <2>1. place'[p] = "open" /\ ~acked'[p] /\ pages'[p] = pages[p]
    BY <1>1, <1>2, <1>3, <1>7
  <2>2. DOMAIN receipts'[p] = 1..n /\ Len(receipts'[p]) = n /\ \A i \in 1..committed : receipts'[p][i] = receipts[p][i]
    BY <1>1, <1>7 DEF ReceiptWritten
  <2>3. Len(receipts'[p]) <= Len(pages'[p])
    BY <1>1, <1>2, <1>7, <2>1, <2>2
  <2>4. ASSUME NEW i \in Named(p)', pages'[p][i] # receipts'[p][i]
        PROVE  receipts'[p][i] \in unsynced'
    <3>1. i \in 1..n /\ i \in DOMAIN pages[p]
      BY <2>1, <2>2 DEF Named
    <3>2. CASE i \in 1..committed
      <4>1. i \in DOMAIN receipts[p]
        BY <1>1, <1>7, <3>2, NamedNumbers
      <4>2. i \in Named(p) /\ pages[p][i] # receipts[p][i] /\ receipts'[p][i] = receipts[p][i]
        BY <2>1, <2>2, <2>4, <3>1, <3>2, <4>1 DEF Named
      <4> QED  BY <1>4, <1>5, <4>2 DEF TextIn, Onward
    <3>3. CASE i \notin 1..committed
      <4>1. i = committed + 1 /\ n = committed + 1
        BY <1>1, <3>1, <3>3
      <4> QED  BY <1>2, <1>7, <2>1, <2>4, <4>1
    <3> QED  BY <3>2, <3>3
  <2>5. \A i \in DOMAIN pages'[p] : \E j \in 1..i :
          pages'[p][j] \in Snapshots /\ Context[pages'[p][j]] = Context[pages'[p][i]]
    BY <1>5, <2>1 DEF TextIn
  <2> QED  BY <2>1, <2>3, <2>4, <2>5 DEF TextIn
<1>8. CASE p = period /\ ReceiptWritten(committed)
  <2>1. committed \in {committed, committed + 1} /\ committed # committed + 1
    BY <1>1
  <2> QED  BY <1>7, <1>8, <2>1
<1>9. CASE p = period /\ ReceiptWritten(committed + 1) /\ receipts'[period][committed + 1] = batch
  <2>1. committed + 1 \in {committed, committed + 1}
    OBVIOUS
  <2> QED  BY <1>7, <1>9, <2>1
<1> QED  BY <1>6, <1>8, <1>9, WriteReceiptIs

\* What a tick and a new batch do to the periods, apart from the other things they do.
LEMMA TickIs ==
  ASSUME TypeOK, PeriodInOrder, NEW rotate \in BOOLEAN, Tick(rotate)
  PROVE  \E S \in SUBSET Periods :
           /\ Cut(S, S) /\ unfinished' \subseteq unfinished \cup Closing /\ unfinished' \cap S = {}
           /\ \/ rotate /\ Unused # {} /\ NewPeriod(First(Unused))
              \/ period \notin S /\ unfinished' \subseteq unfinished /\ UNCHANGED <<period, committed, contexts>>
<1> DEFINE Try == unfinished \cup IF rotate THEN Closing ELSE {}
<1>1. PICK Fail \in SUBSET Try : Finalize(Try, Fail) /\ unfinished' = Fail
  BY DEF Tick
<1>2. Try \in SUBSET Periods /\ \A p \in Try : place[p] = "open"
  BY DEF Closing, PeriodInOrder, TypeOK
<1>3. Try \subseteq unfinished \cup Closing /\ (~rotate => Try = unfinished)
  OBVIOUS
<1> HIDE DEF Try
<1>4. Cut(Try \ Fail, Try \ Fail)
  BY <1>1, <1>2, FinalizeIs
<1>5. period \notin unfinished
  BY PeriodsAreNumbers DEF PeriodInOrder, TypeOK
<1>6. Try \ Fail \in SUBSET Periods /\ unfinished' \cap (Try \ Fail) = {} /\ unfinished' \subseteq unfinished \cup Closing
  BY <1>1, <1>2, <1>3
<1>7. CASE rotate
  BY <1>4, <1>6, <1>7 DEF Tick
<1>8. CASE ~rotate
  <2>1. UNCHANGED <<period, committed, contexts>> /\ period \notin Try \ Fail /\ unfinished' \subseteq unfinished
    BY <1>1, <1>3, <1>5, <1>8 DEF Tick
  <2> QED  BY <1>4, <1>6, <2>1
<1> QED  BY <1>7, <1>8

LEMMA AcceptIs ==
  ASSUME TypeOK, PeriodInOrder, NEW b \in Batches, Accept(b)
  PROVE  \/ \E S \in SUBSET Periods :
              /\ Cut(S, S) /\ unfinished' \subseteq unfinished \cup Closing /\ unfinished' \cap S = {}
              /\ Unused # {} /\ NewPeriod(First(Unused))
         \/ period # NoPeriod /\ UNCHANGED <<place, pages, receipts, unfinished, period, committed, contexts, mixed>>
<1>1. CASE period = NoPeriod \/ committed >= FileMax
  <2>1. PICK Fail \in SUBSET Closing :
          Finalize(Closing, Fail) /\ unfinished' = unfinished \cup Fail /\ NewPeriod(First(Unused))
    BY <1>1 DEF Accept
  <2>2. Closing \in SUBSET Periods /\ \A p \in Closing : place[p] = "open"
    BY DEF Closing, TypeOK
  <2>3. Cut(Closing \ Fail, Closing \ Fail)
    BY <2>1, <2>2, FinalizeIs
  <2>4. Closing \cap unfinished = {}
    BY DEF PeriodInOrder, Closing
  <2>5. Unused # {}
    BY <1>1 DEF Accept
  <2>6. Closing \ Fail \in SUBSET Periods /\ unfinished' \subseteq unfinished \cup Closing /\ unfinished' \cap (Closing \ Fail) = {}
    BY <2>1, <2>2, <2>4
  <2> QED  BY <2>1, <2>3, <2>5, <2>6
<1>2. CASE ~(period = NoPeriod \/ committed >= FileMax)
  BY <1>2 DEF Accept
<1> QED  BY <1>1, <1>2

-----------------------------------------------------------------------------
(* The invariant, its first state, and its types *)

CustodyInOrder ==
  /\ TypeOK /\ MemoryInOrder /\ PeriodInOrder /\ JobInOrder
  /\ SyncInOrder /\ TextInOrder /\ AccountInOrder /\ NeverWithout

LEMMA InitInOrder == Init => CustodyInOrder
<1> SUFFICES ASSUME Init
             PROVE  CustodyInOrder
  OBVIOUS
<1>1. <<>> \in Seq(Batches)
  OBVIOUS
<1>2. TypeOK
  <2>1. pages \in [Periods -> Seq(Batches)] /\ receipts \in [Periods -> Seq(Batches)]
    BY <1>1 DEF Init
  <2>2. known \in [Batches -> Kinds] /\ evidence \in [Batches -> Kinds]
    BY DEF Init, Kinds
  <2>3. faults \in 0..MaxFaults /\ removals \in 0..MaxRemovals
    BY CustodyAssumption DEF Init
  <2> QED  BY <2>1, <2>2, <2>3 DEF Init, TypeOK
<1>3. MemoryInOrder
  BY DEF Init, MemoryInOrder
<1>4. PeriodInOrder
  BY DEF Init, PeriodInOrder
<1>5. JobInOrder
  BY DEF Init, JobInOrder
<1>6. SyncInOrder
  BY DEF Init, SyncInOrder
<1>7. TextInOrder
  <2> SUFFICES ASSUME NEW p \in Periods
               PROVE  TextIn(p)
    BY DEF TextInOrder
  <2>1. pages[p] = <<>> /\ receipts[p] = <<>> /\ place[p] = "none" /\ ~acked[p]
    BY DEF Init
  <2>2. DOMAIN pages[p] = {} /\ Len(receipts[p]) <= Len(pages[p])
    BY <2>1
  <2> QED  BY <2>1, <2>2 DEF TextIn, Named
<1>8. AccountInOrder
  BY DEF Init, AccountInOrder, AccountOf, Taken, Has, OnDisk
<1>9. NeverWithout
  BY DEF Init, NeverWithout
<1> QED  BY <1>2, <1>3, <1>4, <1>5, <1>6, <1>7, <1>8, <1>9 DEF CustodyInOrder

LEMMA TypeStep ==
  ASSUME CustodyInOrder, Next
  PROVE  TypeOK'
<1>0. TypeOK /\ PeriodInOrder /\ JobInOrder /\ SyncInOrder
  BY DEF CustodyInOrder
<1>1. ASSUME Reliable, UNCHANGED <<faults, removals>>
      PROVE  TypeOK'
  <2>1. CASE \E b \in Batches : Duplicate(b)
    BY <1>0, <1>1, <2>1, TypeDuplicate
  <2>2. CASE Discard \/ DiscardTombstone \/ DiscardUnlink \/ DiscardRmdir \/ DiscardDone
    BY <1>0, <1>1, <2>2, TypeDiscard
  <2>3. CASE Stored \/ \E p \in Periods : Reserve(p)
    BY <1>0, <1>1, <2>3, TypeSend
  <2>4. CASE PurgeReceipts \/ PurgePages \/ Confirm \/ Unlink \/ Rmdir
    BY <1>0, <1>1, <2>4, TypeRemove
  <2>5. CASE Crash \/ LoadEvidence \/ \E p \in Periods : FinishUnlink(p)
    BY <1>0, <1>1, <2>5, TypeRestart
  <2> QED  BY <1>1, <2>1, <2>2, <2>3, <2>4, <2>5 DEF Reliable
<1>2. ASSUME Fallible, UNCHANGED removals
      PROVE  TypeOK'
  BY <1>0, <1>2, TypeTick, TypeAccept, TypeIntake, TypeDiscard, TypeSend, TypeRestart DEF Fallible
<1>3. ASSUME SegmentRemoved, UNCHANGED faults
      PROVE  TypeOK'
  BY <1>0, <1>3, TypeSend
<1> QED  BY <1>1, <1>2, <1>3 DEF Next

\* What is removed from the journal's side or failed is never taken back.
LEMMA OnwardStep ==
  ASSUME CustodyInOrder, Next
  PROVE  Onward
<1>0. TypeOK /\ MemoryInOrder /\ PeriodInOrder /\ JobInOrder /\ SyncInOrder
  BY DEF CustodyInOrder
<1>1. ASSUME NEW p \in Periods, Entomb(p), custody = "open", UNCHANGED <<delivered, withdrawn, unsynced, mixed>>
      PROVE  Onward
  <2>1. \A b \in Batches : evidence[b] = "removed" => known[b] = "removed"
    BY <1>0, <1>1 DEF MemoryInOrder
  <2>2. \A b \in Batches : evidence[b] = "removed" => evidence'[b] = "removed"
    BY <1>0, <1>1, <2>1, EntombIs
  <2> QED  BY <1>1, <2>2 DEF Onward
<1>2. ASSUME UNCHANGED <<evidence, delivered, withdrawn, unsynced, mixed>>
      PROVE  Onward
  BY <1>2 DEF Onward
<1>3. ASSUME UNCHANGED <<evidence, delivered, withdrawn, unsynced>>, \E S, F : Cut(S, F)
      PROVE  Onward
  BY <1>3 DEF Onward, Cut
<1>4. CASE \E b \in Batches : Duplicate(b)
  BY <1>2, <1>4 DEF Duplicate, diskVars
<1>5. CASE Discard \/ DiscardUnlink \/ DiscardRmdir \/ DiscardDone \/ DiscardFails
  BY <1>2, <1>5 DEF Discard, DiscardUnlink, DiscardRmdir, DiscardDone, DiscardFails, diskVars, ghostVars, wordVars
<1>6. CASE DiscardTombstone
  <2>1. Doomed \in Periods /\ custody = "open"
    BY <1>0, <1>6, DoomedIsOne DEF DiscardTombstone, MemoryInOrder, TypeOK
  <2> QED  BY <1>1, <1>6, <2>1 DEF DiscardTombstone
<1>7. CASE \E p \in Periods : Reserve(p) \/ FinishUnlink(p)
  BY <1>2, <1>7 DEF Reserve, FinishUnlink, diskVars, ghostVars, wordVars
<1>8. CASE Stored
  <2>1. segment \in Periods /\ delivered' = [delivered EXCEPT ![segment] = delivered[segment] \cup Content(pages[segment])]
    BY <1>0, <1>8 DEF Stored, SyncInOrder, TypeOK
  <2>2. \A p \in Periods : delivered[p] \subseteq delivered'[p]
    BY <1>0, <2>1 DEF TypeOK
  <2> QED  BY <1>8, <2>2 DEF Stored, Onward
<1>9. CASE PurgeReceipts \/ PurgePages \/ Unlink \/ Rmdir \/ SyncFails
  BY <1>2, <1>9 DEF PurgeReceipts, PurgePages, Unlink, Rmdir, SyncFails, diskVars, ghostVars, wordVars
<1>10. CASE Confirm
  <2>1. segment \in Periods /\ custody = "open"
    BY <1>0, <1>10 DEF Confirm, SyncInOrder, TypeOK, Ready
  <2> QED  BY <1>1, <1>10, <2>1 DEF Confirm, ghostVars, wordVars
<1>11. CASE SegmentRemoved
  BY <1>11 DEF SegmentRemoved, Onward, diskVars
<1>12. CASE Crash \/ LoadEvidence
  BY <1>2, <1>12 DEF Crash, LoadEvidence, diskVars, ghostVars, wordVars
<1>13. CASE \E rotate \in BOOLEAN : Tick(rotate)
  <2>1. \E S, F : Cut(S, F)
    BY <1>0, <1>13, TickIs
  <2> QED  BY <1>3, <1>13, <2>1 DEF Tick, wordVars
<1>14. CASE \E b \in Batches : Accept(b)
  <2>1. (\E S, F : Cut(S, F)) \/ UNCHANGED mixed
    BY <1>0, <1>14, AcceptIs
  <2> QED  BY <1>2, <1>3, <1>14, <2>1 DEF Accept, wordVars
<1>15. CASE WritePages
  BY <1>2, <1>15 DEF WritePages, ghostVars, wordVars
<1>16. CASE WriteReceipt
  <2>1. unsynced \subseteq unsynced'
    BY <1>16 DEF WriteReceipt
  <2> QED  BY <1>16, <2>1 DEF WriteReceipt, Onward
<1>17. CASE WriteEvidence
  <2>1. custody = "open" /\ known[batch] = "no" /\ batch \in Batches
    BY <1>0, <1>17 DEF WriteEvidence, MemoryInOrder, JobInOrder
  <2>2. \A b \in Batches : evidence[b] = "removed" => known[b] = "removed"
    BY <1>0, <2>1 DEF MemoryInOrder
  <2>3. \A b \in Batches : evidence[b] = "removed" => evidence'[b] = "removed"
    BY <1>0, <1>17, <2>1, <2>2 DEF WriteEvidence, TypeOK
  <2> QED  BY <1>17, <2>3 DEF WriteEvidence, Onward
<1>18. CASE Recover
  <2>1. \E S, F : Cut(S, F)
    BY <1>0, <1>18, RecoverIs
  <2>2. known = evidence /\ \A b \in Batches : known[b] = "removed" => evidence'[b] = "removed"
    BY <1>0, <1>18 DEF Recover, MemoryInOrder
  <2> QED  BY <1>18, <2>1, <2>2 DEF Recover, Onward, Cut, wordVars
<1> QED  BY <1>4, <1>5, <1>6, <1>7, <1>8, <1>9, <1>10, <1>11, <1>12, <1>13, <1>14, <1>15, <1>16, <1>17, <1>18
         DEF Next, Reliable, Fallible

LEMMA StoredIs ==
  ASSUME TypeOK, SyncInOrder, Stored
  PROVE  /\ segment \in Periods /\ place[segment] = "segment" /\ reserved = {segment}
         /\ \A p \in Periods : p # segment => delivered'[p] = delivered[p] /\ acked'[p] = acked[p]
         /\ \A b : b \in delivered'[segment] <=> b \in delivered[segment] \/ \E i \in DOMAIN pages[segment] : pages[segment][i] = b
<1>1. segment \in Periods /\ place[segment] = "segment" /\ reserved = {segment}
  BY DEF Stored, SyncInOrder, TypeOK
<1>2. delivered' = [delivered EXCEPT ![segment] = delivered[segment] \cup Content(pages[segment])]
  BY DEF Stored
<1>3. \A p \in Periods : p # segment => delivered'[p] = delivered[p]
  BY <1>1, <1>2 DEF TypeOK
<1>4. delivered'[segment] = delivered[segment] \cup Content(pages[segment])
  BY <1>1, <1>2 DEF TypeOK
<1>5. \A p \in Periods : p # segment => acked'[p] = acked[p]
  BY <1>1 DEF Stored, TypeOK
<1> QED  BY <1>1, <1>3, <1>4, <1>5 DEF Content

LEMMA TextStep ==
  ASSUME CustodyInOrder, Next
  PROVE  TextInOrder'
<1>0. TypeOK /\ MemoryInOrder /\ PeriodInOrder /\ JobInOrder /\ SyncInOrder /\ TextInOrder
  BY DEF CustodyInOrder
<1>00. Onward
  BY OnwardStep
<1>1. ASSUME UNCHANGED <<place, pages, receipts, acked>>
      PROVE  TextInOrder'
  BY <1>0, <1>00, <1>1, SameTextIn DEF TextInOrder
<1>2. CASE \E b \in Batches : Duplicate(b)
  BY <1>1, <1>2 DEF Duplicate, diskVars
<1>3. CASE Discard \/ DiscardTombstone \/ DiscardDone \/ DiscardFails
  BY <1>1, <1>3 DEF Discard, DiscardTombstone, DiscardDone, DiscardFails, diskVars
<1>4. CASE DiscardUnlink
  <2>1. Doomed \in Periods /\ IsRemoved(receipts[Doomed])
    BY <1>0, <1>4, DoomedIsOne DEF DiscardUnlink, JobInOrder, TypeOK
  <2>2. Clears(Doomed) /\ UNCHANGED acked
    BY <1>4, <2>1 DEF DiscardUnlink, Clears
  <2> QED  BY <1>0, <1>00, <2>1, <2>2, ClearsOrder
<1>5. CASE DiscardRmdir
  <2>1. Doomed \in Periods /\ pages[Doomed] = <<>>
    BY <1>0, <1>5, DoomedIsOne DEF DiscardRmdir, JobInOrder, TypeOK
  <2> PICK p \in Periods : p = Doomed
    BY <2>1
  <2>2. /\ place' = [place EXCEPT ![p] = "gone"] /\ receipts' = [receipts EXCEPT ![p] = <<>>]
        /\ acked' = [acked EXCEPT ![p] = FALSE] /\ pages' = pages
    BY <1>5 DEF DiscardRmdir
  <2>3. pages' = [pages EXCEPT ![p] = <<>>]
    BY <1>0, <2>1, <2>2 DEF TypeOK
  <2>4. Drops(p) /\ \A q \in Periods : q # p => acked'[q] = acked[q]
    BY <1>0, <2>1, <2>2, <2>3 DEF Drops, TypeOK
  <2> QED  BY <1>0, <1>00, <2>4, DropsOrder
<1>6. CASE \E p \in Periods : Reserve(p)
  BY <1>1, <1>6 DEF Reserve, diskVars
<1>7. CASE \E p \in Periods : FinishUnlink(p)
  <2>1. PICK p \in Periods : FinishUnlink(p)
    BY <1>7
  <2>2. CASE pages[p] # <<>>
    <3>1. Tombstoned(p)
      BY <2>1, <2>2 DEF FinishUnlink, Shell
    <3>2. known = evidence
      BY <1>0, <2>1 DEF FinishUnlink, MemoryInOrder
    <3>3. IsRemoved(receipts[p])
      BY <3>1, <3>2, TombstonedIs DEF IsRemoved
    <3>4. Clears(p) /\ UNCHANGED acked
      BY <2>1, <2>2, <3>3 DEF FinishUnlink, Clears
    <3> QED  BY <1>0, <1>00, <3>4, ClearsOrder
  <2>3. CASE pages[p] = <<>>
    <3>1. /\ place' = [place EXCEPT ![p] = "gone"] /\ receipts' = [receipts EXCEPT ![p] = <<>>]
          /\ acked' = [acked EXCEPT ![p] = FALSE] /\ pages' = pages
      BY <2>1, <2>3 DEF FinishUnlink
    <3>2. pages' = [pages EXCEPT ![p] = <<>>]
      BY <1>0, <2>3, <3>1 DEF TypeOK
    <3>3. Drops(p) /\ \A q \in Periods : q # p => acked'[q] = acked[q]
      BY <1>0, <2>3, <3>1, <3>2 DEF Drops, TypeOK
    <3> QED  BY <1>0, <1>00, <3>3, DropsOrder
  <2> QED  BY <2>2, <2>3
<1>8. CASE Stored
  <2> SUFFICES ASSUME NEW p \in Periods
               PROVE  TextIn(p)'
    BY DEF TextInOrder
  <2>0. TextIn(p) /\ place'[p] = place[p] /\ pages'[p] = pages[p] /\ receipts'[p] = receipts[p]
    BY <1>0, <1>8 DEF TextInOrder, Stored
  <2>1. CASE acked'[p] = acked[p]
    BY <1>0, <1>00, <2>0, <2>1, SameTextIn
  <2>2. CASE p = segment
    <3>1. place'[p] = "segment" /\ \A i \in DOMAIN pages[p] : pages[p][i] \in delivered'[p]
      BY <1>0, <1>8, <2>0, <2>2, StoredIs
    <3>2. Len(receipts'[p]) <= Len(pages'[p]) \/ (pages'[p] = <<>> /\ IsRemoved(receipts[p])')
      <4>1. IsRemoved(receipts[p]) => IsRemoved(receipts[p])'
        BY <1>0, <1>00, <2>0, NamedNumbers DEF IsRemoved, Onward
      <4> QED  BY <2>0, <4>1 DEF TextIn
    <3>3. \A i \in Named(p)' : pages'[p][i] # receipts'[p][i] => receipts'[p][i] \in unsynced'
      BY <1>00, <2>0 DEF TextIn, Named, Onward
    <3>4. \A i \in DOMAIN pages'[p] :
            /\ i \in DOMAIN receipts'[p] \/ pages'[p][i] \in withdrawn'
            /\ i \in DOMAIN receipts'[p] /\ pages'[p][i] # receipts'[p][i] =>
                 pages'[p][i] \in mixed' /\ receipts'[p][i] \in mixed'
      BY <1>00, <2>0, <3>1 DEF TextIn, Onward
    <3>5. \A i \in DOMAIN pages'[p] : \E j \in 1..i :
            pages'[p][j] \in Snapshots /\ Context[pages'[p][j]] = Context[pages'[p][i]]
      BY <2>0 DEF TextIn
    <3> QED  BY <2>0, <3>1, <3>2, <3>3, <3>4, <3>5 DEF TextIn, IsRemoved
  <2> QED  BY <1>0, <1>8, <2>1, <2>2, StoredIs
<1>9. CASE PurgeReceipts
  <2>1. /\ segment \in Periods /\ place[segment] = "segment"
        /\ \A i \in DOMAIN pages[segment] : pages[segment][i] \in withdrawn
    BY <1>0, <1>9 DEF PurgeReceipts, SyncInOrder, TypeOK
  <2>2. UNCHANGED <<place, pages, acked>> /\ receipts' = [receipts EXCEPT ![segment] = <<>>]
    BY <1>9 DEF PurgeReceipts
  <2> QED  BY <1>0, <1>00, <2>1, <2>2, PurgeOrder
<1>10. CASE PurgePages
  <2> PICK p \in Periods : p = segment
    BY <1>0, <1>10 DEF PurgePages, SyncInOrder, TypeOK
  <2>1. receipts[p] = <<>>
    BY <1>0, <1>10 DEF PurgePages, SyncInOrder
  <2>2. /\ place' = [place EXCEPT ![p] = "gone"] /\ pages' = [pages EXCEPT ![p] = <<>>]
        /\ receipts' = receipts /\ acked' = acked
    BY <1>10 DEF PurgePages
  <2>3. receipts' = [receipts EXCEPT ![p] = <<>>]
    BY <1>0, <2>1, <2>2 DEF TypeOK
  <2>4. Drops(p)
    BY <2>1, <2>2, <2>3 DEF Drops
  <2> QED  BY <1>0, <1>00, <2>2, <2>4, DropsOrder
<1>11. CASE Unlink
  <2>1. segment \in Periods /\ IsRemoved(receipts[segment])
    BY <1>0, <1>11 DEF Unlink, SyncInOrder, TypeOK
  <2>2. Clears(segment) /\ UNCHANGED acked
    BY <1>11, <2>1 DEF Unlink, Clears
  <2> QED  BY <1>0, <1>00, <2>1, <2>2, ClearsOrder
<1>12. CASE Rmdir
  <2> PICK p \in Periods : p = segment
    BY <1>0, <1>12 DEF Rmdir, SyncInOrder, TypeOK
  <2>1. pages[p] = <<>>
    BY <1>0, <1>12 DEF Rmdir, SyncInOrder
  <2>2. /\ place' = [place EXCEPT ![p] = "gone"] /\ receipts' = [receipts EXCEPT ![p] = <<>>]
        /\ acked' = [acked EXCEPT ![p] = FALSE] /\ pages' = pages
    BY <1>12 DEF Rmdir
  <2>3. pages' = [pages EXCEPT ![p] = <<>>]
    BY <1>0, <2>1, <2>2 DEF TypeOK
  <2>4. Drops(p) /\ \A q \in Periods : q # p => acked'[q] = acked[q]
    BY <1>0, <2>1, <2>2, <2>3 DEF Drops, TypeOK
  <2> QED  BY <1>0, <1>00, <2>4, DropsOrder
<1>13. CASE Confirm \/ SegmentRemoved \/ SyncFails
  BY <1>1, <1>13 DEF Confirm, SegmentRemoved, SyncFails, diskVars
<1>14. CASE Crash \/ LoadEvidence
  BY <1>1, <1>14 DEF Crash, LoadEvidence, diskVars
<1>15. CASE \E rotate \in BOOLEAN : Tick(rotate)
  <2>1. PICK S \in SUBSET Periods : Cut(S, S)
    BY <1>0, <1>15, TickIs
  <2>2. UNCHANGED acked
    BY <1>15 DEF Tick
  <2> QED  BY <1>0, <1>00, <2>1, <2>2, CutOrder
<1>16. CASE \E b \in Batches : Accept(b)
  <2>1. UNCHANGED acked
    BY <1>16 DEF Accept
  <2>2. (\E S \in SUBSET Periods : Cut(S, S)) \/ UNCHANGED <<place, pages, receipts>>
    BY <1>0, <1>16, AcceptIs
  <2> QED  BY <1>0, <1>00, <1>1, <2>1, <2>2, CutOrder
<1>17. CASE WritePages
  BY <1>0, <1>17, WritePagesOrder
<1>18. CASE WriteReceipt
  BY <1>0, <1>18, WriteReceiptOrder
<1>19. CASE WriteEvidence
  BY <1>1, <1>19 DEF WriteEvidence
<1>20. CASE Recover
  <2>1. \E S, F : Cut(S, F)
    BY <1>0, <1>20, RecoverIs
  <2>2. UNCHANGED acked
    BY <1>20 DEF Recover
  <2> QED  BY <1>0, <1>00, <2>1, <2>2, CutOrder
<1> QED  BY <1>2, <1>3, <1>4, <1>5, <1>6, <1>7, <1>8, <1>9, <1>10, <1>11, <1>12, <1>13, <1>14, <1>15, <1>16, <1>17, <1>18,
            <1>19, <1>20 DEF Next, Reliable, Fallible

-----------------------------------------------------------------------------
(* The memory of the process and the open period *)

LEMMA MemoryStep ==
  ASSUME CustodyInOrder, Next
  PROVE  MemoryInOrder'
<1>0. TypeOK /\ MemoryInOrder /\ PeriodInOrder /\ JobInOrder /\ SyncInOrder
  BY DEF CustodyInOrder
<1>1. ASSUME custody = "open", UNCHANGED <<custody, known, evidence>>
      PROVE  MemoryInOrder'
  BY <1>0, <1>1 DEF MemoryInOrder
<1>2. ASSUME custody # "open", UNCHANGED <<custody, known, evidence, job, sync, period, unfinished>>
      PROVE  MemoryInOrder'
  BY <1>0, <1>2 DEF MemoryInOrder
<1>3. ASSUME custody = "open", UNCHANGED custody, evidence' = known'
      PROVE  MemoryInOrder'
  BY <1>3 DEF MemoryInOrder
<1>4. job # "free" \/ sync # "idle" => custody = "open"
  BY <1>0 DEF MemoryInOrder
<1>5. CASE \E b \in Batches : Duplicate(b)
  BY <1>1, <1>5 DEF Duplicate, diskVars, memVars, Ready
<1>6. CASE Discard
  BY <1>1, <1>6 DEF Discard, Ready, diskVars, memVars
<1>7. CASE DiscardUnlink \/ DiscardRmdir \/ DiscardDone \/ DiscardFails
  BY <1>1, <1>4, <1>7 DEF DiscardUnlink, DiscardRmdir, DiscardDone, DiscardFails, diskVars, memVars
<1>8. CASE DiscardTombstone
  BY <1>3, <1>4, <1>8 DEF DiscardTombstone, Entomb
<1>9. CASE \E p \in Periods : Reserve(p)
  BY <1>1, <1>9 DEF Reserve, Ready, diskVars, memVars
<1>10. CASE \E p \in Periods : FinishUnlink(p)
  BY <1>2, <1>10 DEF FinishUnlink, memVars, jobVars, syncVars
<1>11. CASE Stored \/ SegmentRemoved \/ PurgeReceipts \/ PurgePages \/ Unlink \/ Rmdir
  BY <1>1, <1>4, <1>11 DEF Stored, SegmentRemoved, PurgeReceipts, PurgePages, Unlink, Rmdir, diskVars, memVars
<1>12. CASE SyncFails
  BY <1>1, <1>4, <1>12 DEF SyncFails, diskVars, memVars
<1>13. CASE Confirm
  BY <1>3, <1>13 DEF Confirm, Entomb, Ready
<1>14. CASE Crash
  BY <1>14 DEF Crash, Free, MemoryInOrder
<1>15. CASE LoadEvidence
  BY <1>0, <1>15 DEF LoadEvidence, MemoryInOrder, diskVars, jobVars, syncVars
<1>16. CASE \E rotate \in BOOLEAN : Tick(rotate)
  BY <1>1, <1>16 DEF Tick, Ready
<1>17. CASE \E b \in Batches : Accept(b)
  BY <1>1, <1>17 DEF Accept, Ready
<1>18. CASE WritePages \/ WriteReceipt
  BY <1>1, <1>4, <1>18 DEF WritePages, WriteReceipt, memVars
<1>19. CASE WriteEvidence
  <2>1. custody = "open" /\ UNCHANGED custody /\ known[batch] = "no" /\ batch \in Batches
    BY <1>0, <1>4, <1>19 DEF WriteEvidence, JobInOrder
  <2>2. CASE evidence' = known'
    BY <1>3, <2>1, <2>2
  <2>3. CASE evidence' = evidence
    <3>1. known' = [known EXCEPT ![batch] = "accepted"]
      BY <1>19 DEF WriteEvidence
    <3>2. \A b \in Batches : known'[b] = IF b = batch THEN "accepted" ELSE known[b]
      BY <1>0, <3>1 DEF TypeOK
    <3>3. evidence[batch] = "no"
      BY <1>0, <2>1 DEF MemoryInOrder
    <3> QED  BY <1>0, <2>1, <2>3, <3>2, <3>3 DEF MemoryInOrder
  <2> QED  BY <1>19, <2>2, <2>3 DEF WriteEvidence
<1>20. CASE Recover
  <2>1. custody' \in {"open", "unavailable"} /\ evidence' = known' /\ job' = job /\ sync' = sync
    BY <1>20 DEF Recover, jobVars, syncVars
  <2>2. job = "free" /\ sync = "idle"
    BY <1>4, <1>20 DEF Recover
  <2> QED  BY <2>1, <2>2 DEF MemoryInOrder
<1> QED  BY <1>5, <1>6, <1>7, <1>8, <1>9, <1>10, <1>11, <1>12, <1>13, <1>14, <1>15, <1>16, <1>17, <1>18, <1>19, <1>20
         DEF Next, Reliable, Fallible

\* A period that stays as it is stays in order, whatever is removed elsewhere.
LEMMA QuietPeriod ==
  ASSUME TypeOK, PeriodInOrder, UNCHANGED <<period, committed, contexts, unfinished>>, unsynced \subseteq unsynced',
         \A p \in unfinished : place'[p] = place[p],
         period # NoPeriod =>
           place'[period] = place[period] /\ receipts'[period] = receipts[period] /\ pages'[period] = pages[period],
         \A b \in Batches : known[b] = "removed" => known'[b] = "removed",
         \A b \in Batches : known[b] = "no" /\ b \notin dropped => known'[b] = "removed" \/ (known'[b] = "no" /\ b \notin dropped')
  PROVE  PeriodInOrder'
<1>1. \A p \in unfinished' : place'[p] = "open"
  BY DEF PeriodInOrder
<1>2. ASSUME period # NoPeriod
      PROVE  /\ place'[period] \in {"none", "open"} /\ period \notin unfinished
             /\ committed <= Len(receipts'[period]) /\ Len(receipts'[period]) <= committed + 1
             /\ \A i \in DOMAIN receipts'[period] : i > committed =>
                  /\ receipts'[period][i] \in unsynced'
                  /\ \/ known'[receipts'[period][i]] = "removed"
                     \/ known'[receipts'[period][i]] = "no" /\ receipts'[period][i] \notin dropped'
             /\ committed <= Len(pages'[period]) => \A c \in contexts : \E i \in 1..committed :
                  pages'[period][i] \in Snapshots /\ Context[pages'[period][i]] = c
  <2>0. period \in Periods /\ receipts'[period] = receipts[period] /\ pages'[period] = pages[period]
    BY <1>2 DEF TypeOK
  <2>1. place'[period] \in {"none", "open"} /\ period \notin unfinished
    BY <1>2 DEF PeriodInOrder
  <2>2. committed <= Len(receipts'[period]) /\ Len(receipts'[period]) <= committed + 1
    BY <1>2, <2>0 DEF PeriodInOrder
  <2>3. \A i \in DOMAIN receipts[period] : receipts[period][i] \in Batches
    BY <2>0, NamedNumbers
  <2>4. \A i \in DOMAIN receipts[period] : i > committed =>
          /\ receipts[period][i] \in unsynced
          /\ known[receipts[period][i]] = "removed" \/ (known[receipts[period][i]] = "no" /\ receipts[period][i] \notin dropped)
    BY <1>2 DEF PeriodInOrder
  <2>5. \A i \in DOMAIN receipts[period] : i > committed =>
          /\ receipts[period][i] \in unsynced'
          /\ known'[receipts[period][i]] = "removed" \/ (known'[receipts[period][i]] = "no" /\ receipts[period][i] \notin dropped')
    BY <2>3, <2>4
  <2>6. committed <= Len(pages'[period]) => \A c \in contexts : \E i \in 1..committed :
          pages'[period][i] \in Snapshots /\ Context[pages'[period][i]] = c
    BY <1>2, <2>0 DEF PeriodInOrder
  <2> QED  BY <2>0, <2>1, <2>2, <2>5, <2>6
<1> QED  BY <1>1, <1>2 DEF PeriodInOrder

\* A period that begins has neither directory nor text.
LEMMA FreshPeriod ==
  ASSUME TypeOK, TextInOrder, Unused # {}, NewPeriod(First(Unused)),
         place'[First(Unused)] = "none", receipts'[First(Unused)] = <<>>,
         \A p \in unfinished' : place'[p] = "open"
  PROVE  PeriodInOrder'
<1> PICK p \in Periods : p = First(Unused)
  BY FirstUnused
<1>1. period' = p /\ committed' = 0 /\ contexts' = {} /\ place'[p] = "none" /\ receipts'[p] = <<>>
  BY DEF NewPeriod
<1>2. p \notin unfinished'
  BY <1>1
<1>3. Len(receipts'[p]) = 0 /\ DOMAIN receipts'[p] = {}
  BY <1>1
<1> QED  BY <1>1, <1>2, <1>3 DEF PeriodInOrder

LEMMA UnusedIsEmpty ==
  ASSUME TypeOK, TextInOrder, Unused # {}
  PROVE  receipts[First(Unused)] = <<>> /\ pages[First(Unused)] = <<>>
BY FirstUnused DEF TextInOrder, TextIn

\* After a cut a period begins.
LEMMA CutFresh ==
  ASSUME TypeOK, TextInOrder, PeriodInOrder, NEW S, NEW F, Cut(S, F), Unused # {}, NewPeriod(First(Unused)),
         unfinished' \subseteq Periods, unfinished' \cap F = {}, \A p \in unfinished' : place[p] = "open"
  PROVE  PeriodInOrder'
<1>2. \A p \in unfinished' : place'[p] = "open"
  BY DEF Cut
<1>3. First(Unused) \in Periods /\ place[First(Unused)] = "none"
  BY FirstUnused
<1>4. First(Unused) \notin S
  BY <1>3 DEF Cut
<1>5. place'[First(Unused)] = "none" /\ receipts'[First(Unused)] = <<>>
  BY <1>3, <1>4, UnusedIsEmpty DEF Cut
<1> QED  BY <1>2, <1>5, FreshPeriod

LEMMA PeriodStep ==
  ASSUME CustodyInOrder, Next
  PROVE  PeriodInOrder'
<1>0. TypeOK /\ MemoryInOrder /\ PeriodInOrder /\ JobInOrder /\ SyncInOrder /\ TextInOrder /\ TypeOK'
  BY TypeStep DEF CustodyInOrder
<1>1. ASSUME UNCHANGED <<period, committed, contexts, unfinished, known, dropped, unsynced, place, pages, receipts>>
      PROVE  PeriodInOrder'
  BY <1>0, <1>1, QuietPeriod
<1>2. CASE \E b \in Batches : Duplicate(b)
  <2>1. PICK b \in Batches : Duplicate(b)
    BY <1>2
  <2>2. known[b] # "no" /\ dropped' \in {dropped, dropped \cup {b}}
    BY <2>1 DEF Duplicate, Reply
  <2>3. UNCHANGED <<period, committed, contexts, unfinished, known, unsynced, place, pages, receipts>>
    BY <2>1 DEF Duplicate, diskVars, memVars
  <2>4. \A x \in Batches : known[x] = "no" /\ x \notin dropped => known'[x] = "no" /\ x \notin dropped'
    BY <2>2, <2>3
  <2> QED  BY <1>0, <2>3, <2>4, QuietPeriod
<1>3. CASE Discard \/ DiscardFails
  BY <1>1, <1>3 DEF Discard, DiscardFails, diskVars, memVars, ghostVars, wordVars
<1>4. ASSUME NEW p \in Periods, Entomb(p), custody = "open",
             UNCHANGED <<period, committed, contexts, unfinished, dropped, unsynced, place, pages, receipts>>
      PROVE  PeriodInOrder'
  <2>1. \A b \in Batches : known'[b] \in {known[b], "removed"}
    BY <1>0, <1>4, EntombIs
  <2> QED  BY <1>0, <1>4, <2>1, QuietPeriod
<1>5. CASE DiscardTombstone
  <2>1. Doomed \in Periods /\ custody = "open"
    BY <1>0, <1>5, DoomedIsOne DEF DiscardTombstone, MemoryInOrder, TypeOK
  <2> QED  BY <1>4, <1>5, <2>1 DEF DiscardTombstone
<1>6. CASE DiscardUnlink
  <2>1. Doomed \in Periods
    BY <1>0, <1>6, DoomedIsOne DEF DiscardUnlink, JobInOrder, TypeOK
  <2>2. /\ pages' = [pages EXCEPT ![Doomed] = <<>>]
        /\ UNCHANGED <<period, committed, contexts, unfinished, known, dropped, unsynced, place, receipts>>
    BY <1>6 DEF DiscardUnlink, memVars, ghostVars, wordVars
  <2>3. CASE period # Doomed
    <3>1. period # NoPeriod => pages'[period] = pages[period]
      BY <1>0, <2>2, <2>3 DEF TypeOK
    <3> QED  BY <1>0, <2>2, <3>1, QuietPeriod
  <2>4. CASE period = Doomed
    <3>1. period \in Periods /\ period # NoPeriod /\ Len(pages'[period]) = 0 /\ committed \in Nat /\ Len(pages[period]) \in Nat
      BY <1>0, <2>1, <2>2, <2>4, NamedNumbers, PeriodsAreNumbers DEF TypeOK
    <3>2. committed <= Len(pages'[period]) => contexts = {}
      <4>1. SUFFICES ASSUME committed = 0
                     PROVE  contexts = {}
        BY <3>1
      <4>2. \A c \in contexts : \E i \in 1..committed :
               pages[period][i] \in Snapshots /\ Context[pages[period][i]] = c
        BY <1>0, <3>1, <4>1 DEF PeriodInOrder
      <4>3. 1..committed = {}
        BY <4>1
      <4> QED  BY <4>2, <4>3
    <3>3. /\ place[period] \in {"none", "open"} /\ period \notin unfinished
          /\ committed <= Len(receipts[period]) /\ Len(receipts[period]) <= committed + 1
          /\ \A i \in DOMAIN receipts[period] : i > committed =>
               /\ receipts[period][i] \in unsynced
               /\ \/ known[receipts[period][i]] = "removed"
                  \/ known[receipts[period][i]] = "no" /\ receipts[period][i] \notin dropped
          /\ \A p \in unfinished : place[p] = "open"
      BY <1>0, <3>1 DEF PeriodInOrder
    <3> PICK p \in Periods : p = period
      BY <3>1
    <3> QED  BY <2>2, <3>2, <3>3 DEF PeriodInOrder
  <2> QED  BY <2>3, <2>4
<1>7. CASE DiscardRmdir
  <2> PICK d \in Periods : d = Doomed
    BY <1>0, <1>7, DoomedIsOne DEF DiscardRmdir, JobInOrder, TypeOK
  <2>1. /\ place' = [place EXCEPT ![d] = "gone"] /\ receipts' = [receipts EXCEPT ![d] = <<>>]
        /\ unfinished' = unfinished \ {d} /\ period' = IF period = d THEN NoPeriod ELSE period
        /\ UNCHANGED <<pages, committed, contexts, known, dropped, unsynced>>
    BY <1>7 DEF DiscardRmdir, ghostVars, wordVars
  <2>2. \A p \in unfinished' : place'[p] = "open"
    BY <1>0, <2>1 DEF TypeOK, PeriodInOrder
  <2>3. CASE period' = NoPeriod
    BY <2>2, <2>3 DEF PeriodInOrder
  <2>4. CASE period' # NoPeriod
    <3>1. period' = period /\ period \in Periods /\ period # d
      BY <1>0, <2>1, <2>4 DEF TypeOK
    <3> PICK p \in Periods : p = period
      BY <3>1
    <3>2. p # d /\ place'[p] = place[p] /\ receipts'[p] = receipts[p] /\ pages'[p] = pages[p]
      BY <1>0, <2>1, <3>1 DEF TypeOK
    <3>3. /\ place[p] \in {"none", "open"} /\ p \notin unfinished
          /\ committed <= Len(receipts[p]) /\ Len(receipts[p]) <= committed + 1
          /\ \A i \in DOMAIN receipts[p] : i > committed =>
               /\ receipts[p][i] \in unsynced
               /\ \/ known[receipts[p][i]] = "removed"
                  \/ known[receipts[p][i]] = "no" /\ receipts[p][i] \notin dropped
          /\ committed <= Len(pages[p]) => \A c \in contexts : \E i \in 1..committed :
               pages[p][i] \in Snapshots /\ Context[pages[p][i]] = c
      BY <1>0, <2>4, <3>1 DEF PeriodInOrder
    <3> QED  BY <2>1, <2>2, <3>1, <3>2, <3>3 DEF PeriodInOrder
  <2> QED  BY <2>3, <2>4
<1>8. CASE DiscardDone
  <2>1. Unused # {} /\ NewPeriod(First(Unused)) /\ UNCHANGED <<place, pages, receipts, unfinished>>
    BY <1>8 DEF DiscardDone, diskVars
  <2>2. place[First(Unused)] = "none" /\ receipts[First(Unused)] = <<>>
    BY <1>0, <2>1, FirstUnused, UnusedIsEmpty
  <2>3. \A p \in unfinished' : place'[p] = "open"
    BY <1>0, <2>1 DEF PeriodInOrder
  <2>4. place'[First(Unused)] = "none" /\ receipts'[First(Unused)] = <<>>
    BY <2>1, <2>2
  <2> QED  BY <1>0, <2>1, <2>3, <2>4, FreshPeriod
<1>9. CASE \E p \in Periods : Reserve(p)
  BY <1>1, <1>9 DEF Reserve, diskVars, memVars, ghostVars, wordVars
<1>10. CASE Stored \/ SegmentRemoved \/ SyncFails
  BY <1>1, <1>10 DEF Stored, SegmentRemoved, SyncFails, diskVars, memVars, ghostVars, wordVars
<1>11. CASE PurgeReceipts \/ PurgePages \/ Unlink \/ Rmdir
  <2>1. segment \in Periods /\ place[segment] = "segment"
    BY <1>0, <1>11 DEF PurgeReceipts, PurgePages, Unlink, Rmdir, SyncInOrder, TypeOK
  <2>2. segment \notin unfinished /\ (period # NoPeriod => segment # period)
    BY <1>0, <2>1 DEF PeriodInOrder
  <2>3. /\ place' \in {place, [place EXCEPT ![segment] = "gone"]}
        /\ pages' \in {pages, [pages EXCEPT ![segment] = <<>>]}
        /\ receipts' \in {receipts, [receipts EXCEPT ![segment] = <<>>]}
        /\ UNCHANGED <<period, committed, contexts, unfinished, known, dropped, unsynced>>
    BY <1>11 DEF PurgeReceipts, PurgePages, Unlink, Rmdir, memVars, ghostVars, wordVars
  <2>4. \A p \in Periods : p # segment => place'[p] = place[p] /\ pages'[p] = pages[p] /\ receipts'[p] = receipts[p]
    BY <1>0, <2>3 DEF TypeOK
  <2>5. \A p \in unfinished : place'[p] = place[p]
    BY <1>0, <2>2, <2>4 DEF TypeOK
  <2>6. period # NoPeriod =>
           place'[period] = place[period] /\ receipts'[period] = receipts[period] /\ pages'[period] = pages[period]
    BY <1>0, <2>2, <2>4 DEF TypeOK
  <2> QED  BY <1>0, <2>3, <2>5, <2>6, QuietPeriod
<1>12. CASE Confirm
  <2>1. segment \in Periods /\ custody = "open"
    BY <1>0, <1>12 DEF Confirm, SyncInOrder, TypeOK, Ready
  <2> QED  BY <1>4, <1>12, <2>1 DEF Confirm, ghostVars, wordVars
<1>13. CASE Crash
  BY <1>13 DEF Crash, PeriodInOrder
<1>14. CASE LoadEvidence \/ \E p \in Periods : FinishUnlink(p)
  <2>1. period' = NoPeriod /\ unfinished' = {}
    BY <1>0, <1>14 DEF LoadEvidence, FinishUnlink, MemoryInOrder, memVars
  <2> QED  BY <2>1 DEF PeriodInOrder
<1>15. CASE \E rotate \in BOOLEAN : Tick(rotate)
  <2>1. PICK rotate \in BOOLEAN : Tick(rotate)
    BY <1>15
  <2>2. PICK S \in SUBSET Periods :
           /\ Cut(S, S) /\ unfinished' \subseteq unfinished \cup Closing /\ unfinished' \cap S = {}
           /\ \/ rotate /\ Unused # {} /\ NewPeriod(First(Unused))
              \/ period \notin S /\ unfinished' \subseteq unfinished /\ UNCHANGED <<period, committed, contexts>>
    BY <1>0, <2>1, TickIs
  <2>3. unfinished' \subseteq Periods /\ \A p \in unfinished' : place[p] = "open"
    BY <1>0, <2>2 DEF PeriodInOrder, Closing, TypeOK
  <2>4. CASE Unused # {} /\ NewPeriod(First(Unused))
    BY <1>0, <2>2, <2>3, <2>4, CutFresh
  <2>5. CASE period \notin S /\ unfinished' \subseteq unfinished /\ UNCHANGED <<period, committed, contexts>>
    <3>1. UNCHANGED <<known, dropped, unsynced>>
      BY <2>1 DEF Tick, wordVars
    <3>2. \A p \in unfinished' : place'[p] = "open"
      BY <2>2, <2>3 DEF Cut
    <3>3. CASE period = NoPeriod
      BY <2>5, <3>2, <3>3 DEF PeriodInOrder
    <3>4. CASE period # NoPeriod
      <4> PICK p \in Periods : p = period
        BY <1>0, <3>4 DEF TypeOK
      <4>1. p \notin S /\ place'[p] = place[p] /\ receipts'[p] = receipts[p] /\ pages'[p] = pages[p]
        BY <2>2, <2>5 DEF Cut
      <4>2. /\ place[p] \in {"none", "open"} /\ p \notin unfinished
            /\ committed <= Len(receipts[p]) /\ Len(receipts[p]) <= committed + 1
            /\ \A i \in DOMAIN receipts[p] : i > committed =>
                 /\ receipts[p][i] \in unsynced
                 /\ \/ known[receipts[p][i]] = "removed"
                    \/ known[receipts[p][i]] = "no" /\ receipts[p][i] \notin dropped
            /\ committed <= Len(pages[p]) => \A c \in contexts : \E i \in 1..committed :
                 pages[p][i] \in Snapshots /\ Context[pages[p][i]] = c
        BY <1>0, <3>4 DEF PeriodInOrder
      <4> QED  BY <2>5, <3>1, <3>2, <4>1, <4>2 DEF PeriodInOrder
    <3> QED  BY <3>3, <3>4
  <2> QED  BY <2>2, <2>4, <2>5
<1>16. CASE \E b \in Batches : Accept(b)
  <2>1. PICK b \in Batches : Accept(b)
    BY <1>16
  <2>2. UNCHANGED <<known, dropped, unsynced>>
    BY <2>1 DEF Accept, wordVars
  <2>3. ASSUME NEW S \in SUBSET Periods, Cut(S, S), unfinished' \subseteq unfinished \cup Closing, unfinished' \cap S = {},
               Unused # {}, NewPeriod(First(Unused))
        PROVE  PeriodInOrder'
    <3>1. unfinished' \subseteq Periods /\ \A p \in unfinished' : place[p] = "open"
      BY <1>0, <2>3 DEF PeriodInOrder, Closing, TypeOK
    <3> QED  BY <1>0, <2>3, <3>1, CutFresh
  <2>4. CASE UNCHANGED <<place, pages, receipts, unfinished, period, committed, contexts, mixed>>
    BY <1>1, <2>2, <2>4
  <2> QED  BY <1>0, <2>1, <2>3, <2>4, AcceptIs
<1>17. CASE WritePages
  <2>1. period \in Periods /\ period # NoPeriod /\ committed \in Nat
    BY <1>0, <1>17, PeriodsAreNumbers DEF WritePages, JobInOrder, TypeOK
  <2> PICK p \in Periods : p = period
    BY <2>1
  <2>2. UNCHANGED <<period, committed, contexts, unfinished, known, dropped, unsynced>>
    BY <1>17 DEF WritePages, memVars, ghostVars, wordVars
  <2>3. /\ pages' = pages \/ PagesWritten
        /\ place'[p] = "open" /\ \A q \in Periods : q # p => place'[q] = place[q]
        /\ receipts' = receipts
    BY <1>0, <1>17, WritePagesIs
  <2>4. /\ p \notin unfinished
        /\ committed <= Len(receipts[p]) /\ Len(receipts[p]) <= committed + 1
        /\ \A i \in DOMAIN receipts[p] : i > committed =>
             /\ receipts[p][i] \in unsynced
             /\ \/ known[receipts[p][i]] = "removed"
                \/ known[receipts[p][i]] = "no" /\ receipts[p][i] \notin dropped
        /\ committed <= Len(pages[p]) => \A c \in contexts : \E i \in 1..committed :
             pages[p][i] \in Snapshots /\ Context[pages[p][i]] = c
    BY <1>0, <2>1 DEF PeriodInOrder
  <2>5. committed <= Len(pages[p])
    BY <1>0, <1>17, OpenIsWhole, NamedNumbers DEF WritePages
  <2>6. \A i \in 1..committed : pages'[p][i] = pages[p][i]
    BY <2>3 DEF PagesWritten
  <2>7. \A q \in unfinished : place'[q] = "open"
    BY <1>0, <2>3, <2>4 DEF PeriodInOrder, TypeOK
  <2> QED  BY <2>2, <2>3, <2>4, <2>5, <2>6, <2>7 DEF PeriodInOrder
<1>18. CASE WriteReceipt
  <2>1. /\ period \in Periods /\ period # NoPeriod /\ committed \in Nat /\ place[period] = "open"
        /\ Len(pages[period]) = committed + 1 /\ known[batch] = "no" /\ batch \notin dropped
    BY <1>0, <1>18, PeriodsAreNumbers DEF WriteReceipt, JobInOrder, TypeOK
  <2> PICK p \in Periods : p = period
    BY <2>1
  <2>2. UNCHANGED <<place, pages, period, contexts, unfinished, known, dropped>>
    BY <1>18 DEF WriteReceipt
  <2>3. /\ p \notin unfinished /\ \A q \in unfinished : place[q] = "open"
        /\ committed <= Len(receipts[p]) /\ Len(receipts[p]) <= committed + 1
        /\ \A i \in DOMAIN receipts[p] : i > committed =>
             /\ receipts[p][i] \in unsynced
             /\ \/ known[receipts[p][i]] = "removed"
                \/ known[receipts[p][i]] = "no" /\ receipts[p][i] \notin dropped
        /\ committed <= Len(pages[p]) => \A c \in contexts : \E i \in 1..committed :
             pages[p][i] \in Snapshots /\ Context[pages[p][i]] = c
    BY <1>0, <2>1 DEF PeriodInOrder
  <2>4. \A c \in contexts : \E i \in 1..committed : pages[p][i] \in Snapshots /\ Context[pages[p][i]] = c
    BY <2>1, <2>3
  <2>5. unsynced \subseteq unsynced'
    BY <1>0, <1>18, WriteReceiptIs
  <2>6. CASE receipts' = receipts /\ committed' = committed
    BY <2>1, <2>2, <2>3, <2>5, <2>6 DEF PeriodInOrder
  <2>7. CASE ReceiptWritten(committed) /\ committed' = committed
    <3>1. Len(receipts'[p]) = committed /\ DOMAIN receipts'[p] = 1..committed
      BY <2>1, <2>7 DEF ReceiptWritten
    <3>2. \A i \in DOMAIN receipts'[p] : ~(i > committed)
      BY <2>1, <3>1
    <3> QED  BY <2>1, <2>2, <2>3, <2>7, <3>1, <3>2 DEF PeriodInOrder
  <2>8. CASE /\ ReceiptWritten(committed + 1) /\ receipts'[period][committed + 1] = batch
             /\ committed' = committed /\ batch \in unsynced'
    <3>1. Len(receipts'[p]) = committed + 1 /\ DOMAIN receipts'[p] = 1..(committed + 1) /\ receipts'[p][committed + 1] = batch
      BY <2>1, <2>8 DEF ReceiptWritten
    <3>2. \A i \in DOMAIN receipts'[p] : i > committed => i = committed + 1
      BY <2>1, <3>1
    <3>3. \A i \in DOMAIN receipts'[p] : i > committed => receipts'[p][i] = batch
      BY <3>1, <3>2
    <3> QED  BY <2>1, <2>2, <2>3, <2>8, <3>1, <3>3 DEF PeriodInOrder
  <2>9. CASE ReceiptWritten(committed + 1) /\ committed' = committed + 1
    <3>1. Len(receipts'[p]) = committed + 1 /\ DOMAIN receipts'[p] = 1..(committed + 1)
      BY <2>1, <2>9 DEF ReceiptWritten
    <3>2. \A i \in DOMAIN receipts'[p] : ~(i > committed + 1)
      BY <2>1, <3>1
    <3>3. \A c \in contexts : \E i \in 1..(committed + 1) : pages[p][i] \in Snapshots /\ Context[pages[p][i]] = c
      BY <2>1, <2>4
    <3>4. committed' <= Len(receipts'[p]) /\ Len(receipts'[p]) <= committed' + 1
      BY <2>1, <2>9, <3>1
    <3> QED  BY <2>1, <2>2, <2>3, <2>9, <3>2, <3>3, <3>4 DEF PeriodInOrder
  <2> QED  BY <1>0, <1>18, <2>6, <2>7, <2>8, <2>9, WriteReceiptIs
<1>19. CASE WriteEvidence
  <2>1. /\ period \in Periods /\ period # NoPeriod /\ committed \in Nat /\ committed > 0 /\ batch \in Batches
        /\ Len(pages[period]) = committed /\ Len(receipts[period]) = committed /\ pages[period][committed] = batch
        /\ place[period] = "open"
    BY <1>0, <1>19, PeriodsAreNumbers DEF WriteEvidence, JobInOrder, TypeOK
  <2> PICK p \in Periods : p = period
    BY <2>1
  <2>2. UNCHANGED <<place, pages, receipts, period, committed, unfinished>>
    BY <1>19 DEF WriteEvidence
  <2>3. contexts' = contexts \cup IF batch \in Snapshots THEN {Context[batch]} ELSE {}
    BY <1>19 DEF WriteEvidence
  <2>4. /\ p \notin unfinished /\ \A q \in unfinished : place[q] = "open"
        /\ \A c \in contexts : \E i \in 1..committed : pages[p][i] \in Snapshots /\ Context[pages[p][i]] = c
    BY <1>0, <2>1 DEF PeriodInOrder
  <2>5. committed \in 1..committed
    BY <2>1
  <2>6. \A c \in contexts' : \E i \in 1..committed : pages[p][i] \in Snapshots /\ Context[pages[p][i]] = c
    BY <2>1, <2>3, <2>4, <2>5
  <2>7. \A i \in DOMAIN receipts[p] : ~(i > committed)
    BY <2>1, NamedNumbers, <1>0
  <2> QED  BY <2>1, <2>2, <2>4, <2>6, <2>7 DEF PeriodInOrder
<1>20. CASE Recover
  <2>1. PICK again \in OpenDirs \cup {NoPeriod} : \E Fail \in SUBSET (OpenDirs \ {again}) :
           /\ Cut(OpenDirs, (OpenDirs \ {again}) \ Fail) /\ unfinished' = Fail
           /\ period' = IF again = NoPeriod THEN First(Unused) ELSE again
           /\ committed' = IF again = NoPeriod THEN 0 ELSE Len(Covered(again))
           /\ contexts' = IF again = NoPeriod THEN {} ELSE SnapshotsOf(Kept(again))
           /\ again = NoPeriod => Unused # {}
           /\ faults' \in 0..MaxFaults
    BY <1>0, <1>20, RecoverIs
  <2>2. PICK Fail \in SUBSET (OpenDirs \ {again}) :
           /\ Cut(OpenDirs, (OpenDirs \ {again}) \ Fail) /\ unfinished' = Fail
           /\ period' = IF again = NoPeriod THEN First(Unused) ELSE again
           /\ committed' = IF again = NoPeriod THEN 0 ELSE Len(Covered(again))
           /\ contexts' = IF again = NoPeriod THEN {} ELSE SnapshotsOf(Kept(again))
           /\ again = NoPeriod => Unused # {}
    BY <2>1
  <2> DEFINE F == (OpenDirs \ {again}) \ Fail
  <2>3. /\ unfinished' \subseteq Periods /\ unfinished' \cap F = {} /\ again \notin F /\ again \notin unfinished'
        /\ \A p \in unfinished' : place[p] = "open"
    BY <2>2 DEF OpenDirs
  <2>4. Cut(OpenDirs, F)
    BY <2>2
  <2> HIDE DEF F
  <2>5. CASE again = NoPeriod
    <3>1. NewPeriod(First(Unused)) /\ Unused # {}
      BY <2>2, <2>5 DEF NewPeriod
    <3> QED  BY <1>0, <2>3, <2>4, <3>1, CutFresh
  <2>6. CASE again # NoPeriod
    <3> PICK p \in Periods : p = again
      BY <2>6 DEF OpenDirs
    <3>1. p \in OpenDirs /\ place[p] = "open" /\ p \notin F /\ p \notin unfinished'
      BY <2>3, <2>6 DEF OpenDirs
    <3>2. period' = p /\ committed' = Len(Covered(p)) /\ contexts' = SnapshotsOf(Kept(p))
      BY <2>2, <2>6
    <3>3. /\ place'[p] = "open" /\ receipts'[p] = receipts[p] /\ DOMAIN pages'[p] = Named(p)
          /\ \A i \in Named(p) : pages'[p][i] = pages[p][i]
      BY <2>4, <3>1 DEF Cut
    <3>4. \A q \in unfinished' : place'[q] = "open"
      BY <2>3, <2>4 DEF Cut
    <3>5. ~Tombstoned(p) /\ ~Shell(p)
      BY <1>20, <3>1 DEF Recover, Dirs
    <3>6. known = evidence
      BY <1>0, <1>20 DEF Recover, MemoryInOrder
    <3>7. Len(receipts[p]) <= Len(pages[p])
      <4>1. ~(pages[p] = <<>> /\ IsRemoved(receipts[p]))
        BY <3>5, <3>6, TombstonedIs DEF Shell, IsRemoved
      <4> QED  BY <1>0, <4>1 DEF TextInOrder, TextIn
    <3>8. Len(Covered(p)) = Len(receipts[p]) /\ Len(receipts[p]) \in Nat /\ DOMAIN receipts[p] = 1..Len(receipts[p])
      BY <1>0, <3>7, CoveredIs, NamedNumbers
    <3>9. committed' <= Len(receipts'[p]) /\ Len(receipts'[p]) <= committed' + 1 /\ \A i \in DOMAIN receipts'[p] : ~(i > committed')
      BY <3>2, <3>3, <3>8
    <3>10. \A c \in contexts' : \E i \in 1..committed' : pages'[p][i] \in Snapshots /\ Context[pages'[p][i]] = c
      <4>1. DOMAIN Kept(p) = Named(p) /\ \A i \in Named(p) : Kept(p)[i] = pages[p][i]
        BY <1>0, CutFacts
      <4>2. Named(p) = 1..committed'
        BY <1>0, <3>2, CoveredPlaces
      <4>3. \A c \in contexts' : \E i \in DOMAIN Kept(p) : Kept(p)[i] \in Snapshots /\ Context[Kept(p)[i]] = c
        BY <3>2 DEF SnapshotsOf, Content
      <4> QED  BY <3>3, <4>1, <4>2, <4>3
    <3> QED  BY <3>1, <3>2, <3>3, <3>4, <3>9, <3>10 DEF PeriodInOrder
  <2> QED  BY <2>5, <2>6
<1> QED  BY <1>2, <1>3, <1>5, <1>6, <1>7, <1>8, <1>9, <1>10, <1>11, <1>12, <1>13, <1>14, <1>15, <1>16, <1>17, <1>18,
            <1>19, <1>20 DEF Next, Reliable, Fallible

-----------------------------------------------------------------------------
(* The holder of the custody lock *)

LEMMA FreeJob ==
  ASSUME job' = "free", todo' = {}
  PROVE  JobInOrder'
BY DEF JobInOrder

LEMMA QuietJob ==
  ASSUME TypeOK, JobInOrder,
         UNCHANGED <<place, job, batch, todo, period, committed, contexts, known, evidence, dropped, reserved>>,
         \A p \in Periods : p = period \/ p \in todo => pages'[p] = pages[p] /\ receipts'[p] = receipts[p]
  PROVE  JobInOrder'
<1>1. Doomed' = Doomed
  BY DEF Doomed, OpenDirs
<1>2. job' \in {"pages", "receipt", "evidence"} =>
        /\ period' \in Periods /\ pages'[period'] = pages[period] /\ receipts'[period'] = receipts[period]
  BY DEF JobInOrder, TypeOK
<1>3. todo # {} => Doomed \in Periods /\ pages'[Doomed] = pages[Doomed] /\ receipts'[Doomed] = receipts[Doomed]
  BY DoomedIsOne DEF TypeOK
<1>4. /\ job' = "free" => todo' = {}
      /\ job' \in {"pages", "receipt", "evidence"} =>
           /\ batch' \in Batches /\ known'[batch'] = "no" /\ batch' \notin dropped'
           /\ period' # NoPeriod /\ todo' = {}
      /\ job' = "pages" => batch' \in Snapshots \/ Context[batch'] \in contexts'
      /\ job' \in {"unlink", "rmdir"} => todo' # {}
  BY DEF JobInOrder
<1>5. \A p \in todo' : OnDisk(p)' /\ p \notin reserved'
  BY DEF JobInOrder, OnDisk
<1>6. job' \in {"pages", "receipt"} => \A i \in DOMAIN receipts'[period'] : known'[receipts'[period'][i]] # "removed"
  BY <1>2 DEF JobInOrder
<1>7. job' = "receipt" =>
        place'[period'] = "open" /\ Len(pages'[period']) = committed' + 1 /\ pages'[period'][committed' + 1] = batch'
  BY <1>2 DEF JobInOrder
<1>8. job' = "evidence" =>
       /\ place'[period'] = "open" /\ committed' > 0 /\ Len(pages'[period']) = committed'
       /\ Len(receipts'[period']) = committed' /\ pages'[period'][committed'] = batch'
       /\ receipts'[period'][committed'] = batch'
  BY <1>2 DEF JobInOrder
<1>9. job' = "unlink" => IsRemoved(receipts[Doomed])'
  <2>1. SUFFICES ASSUME job = "unlink"
                 PROVE  \A i \in DOMAIN receipts'[Doomed'] : evidence'[receipts'[Doomed'][i]] = "removed"
    BY DEF IsRemoved
  <2> QED  BY <1>1, <1>3, <2>1 DEF JobInOrder, IsRemoved
<1>10. job' = "rmdir" => pages'[Doomed'] = <<>>
  BY <1>1, <1>3 DEF JobInOrder
<1> QED  BY <1>4, <1>5, <1>6, <1>7, <1>8, <1>9, <1>10 DEF JobInOrder

LEMMA JobStep ==
  ASSUME CustodyInOrder, Next
  PROVE  JobInOrder'
<1>0. TypeOK /\ MemoryInOrder /\ PeriodInOrder /\ JobInOrder /\ SyncInOrder /\ TextInOrder /\ TypeOK'
  BY TypeStep DEF CustodyInOrder
<1>1. ASSUME job = "free", UNCHANGED <<job, todo>>
      PROVE  JobInOrder'
  BY <1>0, <1>1, FreeJob DEF JobInOrder
<1>2. CASE \E b \in Batches : Duplicate(b)
  BY <1>1, <1>2 DEF Duplicate, Ready, jobVars
<1>3. CASE DiscardFails \/ DiscardDone \/ WriteEvidence \/ Crash
  BY <1>3, FreeJob DEF DiscardFails, DiscardDone, WriteEvidence, Crash, Free
<1>4. CASE Discard
  <2>1. /\ job' = "tombstone" /\ todo' = Dirs \ reserved /\ place' = place /\ reserved' = reserved
    BY <1>4 DEF Discard, diskVars, syncVars
  <2>2. \A p \in todo' : OnDisk(p)' /\ p \notin reserved'
    BY <2>1 DEF OnDisk, Dirs
  <2> QED  BY <2>1, <2>2 DEF JobInOrder
<1>5. CASE DiscardTombstone
  <2>1. Doomed \in Periods /\ todo # {} /\ job = "tombstone"
    BY <1>0, <1>5, DoomedIsOne DEF DiscardTombstone, TypeOK
  <2>2. UNCHANGED <<place, pages, receipts, todo, reserved>> /\ job' = "unlink" /\ Entomb(Doomed)
    BY <1>5 DEF DiscardTombstone, syncVars
  <2>3. Doomed' = Doomed
    BY <2>2 DEF Doomed, OpenDirs
  <2>4. \A i \in DOMAIN receipts[Doomed] : evidence'[receipts[Doomed][i]] = "removed"
    <3> PICK p \in Periods : p = Doomed
      BY <2>1
    <3>1. \A b \in Batches : evidence'[b] = IF \E i \in Named(p) : receipts[p][i] = b THEN "removed" ELSE known[b]
      BY <1>0, <2>2, EntombIs
    <3>2. \A i \in DOMAIN receipts[p] : receipts[p][i] \in Batches
      BY <1>0, NamedNumbers
    <3>3. CASE Len(receipts[p]) <= Len(pages[p])
      <4>1. DOMAIN receipts[p] \subseteq DOMAIN pages[p]
        BY <1>0, <3>3, NamedNumbers
      <4> QED  BY <3>1, <3>2, <4>1 DEF Named
    <3>4. CASE IsRemoved(receipts[p])
      <4>1. custody = "open"
        BY <1>0, <2>1 DEF MemoryInOrder
      <4>2. \A i \in DOMAIN receipts[p] : known[receipts[p][i]] = "removed"
        BY <1>0, <3>2, <3>4, <4>1 DEF MemoryInOrder, IsRemoved
      <4> QED  BY <3>1, <3>2, <4>2
    <3> QED  BY <1>0, <3>3, <3>4 DEF TextInOrder, TextIn
  <2>5. IsRemoved(receipts[Doomed])'
    BY <2>2, <2>3, <2>4 DEF IsRemoved
  <2>6. \A p \in todo' : OnDisk(p)' /\ p \notin reserved'
    BY <1>0, <2>2 DEF JobInOrder, OnDisk
  <2> QED  BY <2>1, <2>2, <2>5, <2>6 DEF JobInOrder
<1>6. CASE DiscardUnlink
  <2>1. Doomed \in Periods /\ todo # {}
    BY <1>0, <1>6, DoomedIsOne DEF DiscardUnlink, JobInOrder, TypeOK
  <2>2. UNCHANGED <<place, receipts, todo, reserved>> /\ job' = "rmdir" /\ pages' = [pages EXCEPT ![Doomed] = <<>>]
    BY <1>6 DEF DiscardUnlink, syncVars
  <2>3. Doomed' = Doomed
    BY <2>2 DEF Doomed, OpenDirs
  <2>4. pages'[Doomed'] = <<>>
    BY <1>0, <2>1, <2>2, <2>3 DEF TypeOK
  <2>5. \A p \in todo' : OnDisk(p)' /\ p \notin reserved'
    BY <1>0, <2>2 DEF JobInOrder, OnDisk
  <2> QED  BY <2>1, <2>2, <2>4, <2>5 DEF JobInOrder
<1>7. CASE DiscardRmdir
  <2> PICK d \in Periods : d = Doomed
    BY <1>0, <1>7, DoomedIsOne DEF DiscardRmdir, JobInOrder, TypeOK
  <2>1. place' = [place EXCEPT ![d] = "gone"] /\ todo' = todo \ {d} /\ job' = "tombstone" /\ reserved' = reserved
    BY <1>7 DEF DiscardRmdir, syncVars
  <2>2. \A p \in todo' : OnDisk(p)' /\ p \notin reserved'
    BY <1>0, <2>1 DEF JobInOrder, OnDisk, TypeOK
  <2> QED  BY <2>1, <2>2 DEF JobInOrder
<1>8. CASE \E p \in Periods : Reserve(p)
  BY <1>1, <1>8 DEF Reserve, Ready, jobVars
<1>9. CASE PurgePages \/ Rmdir \/ SyncFails
  BY <1>1, <1>9 DEF PurgePages, Rmdir, SyncFails, Release, jobVars
<1>10. CASE Confirm
  BY <1>1, <1>10 DEF Confirm, Ready, jobVars
<1>11. CASE Stored
  <2>1. CASE Release
    BY <1>1, <1>11, <2>1 DEF Stored, Release, jobVars
  <2>2. CASE ~Release
    BY <1>0, <1>11, <2>2, QuietJob DEF Stored, memVars, jobVars
  <2> QED  BY <2>1, <2>2
<1>12. CASE SegmentRemoved
  BY <1>0, <1>12, QuietJob DEF SegmentRemoved, diskVars, memVars, jobVars
<1>13. CASE PurgeReceipts \/ Unlink
  <2>1. segment \in Periods /\ place[segment] = "segment" /\ reserved = {segment}
    BY <1>0, <1>13 DEF PurgeReceipts, Unlink, SyncInOrder, TypeOK
  <2>2. segment \notin todo /\ segment # period
    BY <1>0, <2>1, PeriodsAreNumbers DEF JobInOrder, PeriodInOrder
  <2>3. /\ UNCHANGED <<place, job, batch, todo, period, committed, contexts, known, evidence, dropped, reserved>>
        /\ pages' \in {pages, [pages EXCEPT ![segment] = <<>>]}
        /\ receipts' \in {receipts, [receipts EXCEPT ![segment] = <<>>]}
    BY <1>13 DEF PurgeReceipts, Unlink, memVars, jobVars, ghostVars, wordVars
  <2>4. \A p \in Periods : p = period \/ p \in todo => pages'[p] = pages[p] /\ receipts'[p] = receipts[p]
    BY <1>0, <2>2, <2>3 DEF TypeOK
  <2> QED  BY <1>0, <2>3, <2>4, QuietJob
<1>14. CASE LoadEvidence \/ (\E p \in Periods : FinishUnlink(p)) \/ Recover
  <2>1. job = "free"
    BY <1>0, <1>14 DEF LoadEvidence, FinishUnlink, Recover, MemoryInOrder
  <2> QED  BY <1>1, <1>14, <2>1 DEF LoadEvidence, FinishUnlink, Recover, jobVars
<1>15. CASE \E rotate \in BOOLEAN : Tick(rotate)
  BY <1>1, <1>15 DEF Tick, Ready, jobVars
<1>16. CASE \E b \in Batches : Accept(b)
  <2>1. PICK b \in Batches : Accept(b)
    BY <1>16
  <2>2. /\ job = "free" /\ b \notin dropped /\ known[b] = "no" /\ UNCHANGED <<known, todo, dropped>> /\ todo = {}
        /\ period # NoPeriod => ~HasRemoved(period)
    BY <1>0, <2>1 DEF Accept, Ready, JobInOrder, wordVars
  <2>3. \/ (b \in Snapshots \/ Context[b] \in contexts') /\ job' = "pages" /\ batch' = b
        \/ job' = "free"
    BY <2>1, <2>2 DEF Accept
  <2>4. CASE job' = "free"
    BY <2>2, <2>4, FreeJob
  <2>5. CASE (b \in Snapshots \/ Context[b] \in contexts') /\ job' = "pages" /\ batch' = b
    <3>1. period' # NoPeriod /\ \A i \in DOMAIN receipts'[period'] : known'[receipts'[period'][i]] # "removed"
      <4>1. ASSUME NEW S \in SUBSET Periods, Cut(S, S), Unused # {}, NewPeriod(First(Unused))
            PROVE  period' # NoPeriod /\ \A i \in DOMAIN receipts'[period'] : known'[receipts'[period'][i]] # "removed"
        <5> PICK p \in Periods : p = First(Unused)
          BY <4>1, FirstUnused
        <5>1. period' = p /\ place[p] = "none" /\ receipts[p] = <<>> /\ p # NoPeriod
          BY <1>0, <4>1, FirstUnused, UnusedIsEmpty DEF NewPeriod
        <5>2. receipts'[p] = <<>>
          BY <4>1, <5>1 DEF Cut
        <5> QED  BY <5>1, <5>2
      <4>2. ASSUME period # NoPeriod, UNCHANGED <<receipts, period>>
            PROVE  period' # NoPeriod /\ \A i \in DOMAIN receipts'[period'] : known'[receipts'[period'][i]] # "removed"
        <5>1. \A i \in DOMAIN receipts[period] : known[receipts[period][i]] # "removed"
          BY <2>2, <4>2, HasRemovedIs
        <5> QED  BY <2>2, <4>2, <5>1
      <4> QED  BY <1>0, <2>1, <4>1, <4>2, AcceptIs
    <3> QED  BY <2>2, <2>5, <3>1 DEF JobInOrder
  <2> QED  BY <2>3, <2>4, <2>5
<1>17. CASE WritePages
  <2>1. /\ batch \in Batches /\ known[batch] = "no" /\ batch \notin dropped /\ period \in Periods /\ period # NoPeriod
        /\ todo = {} /\ \A i \in DOMAIN receipts[period] : known[receipts[period][i]] # "removed"
    BY <1>0, <1>17 DEF WritePages, JobInOrder, TypeOK
  <2>2. /\ place'[period] = "open" /\ receipts' = receipts /\ job' \in {"receipt", "free"}
        /\ job' = "receipt" => PagesWritten /\ batch' = batch /\ todo' = todo
        /\ job' = "free" => todo' = {}
    BY <1>0, <1>17, WritePagesIs
  <2>3. UNCHANGED <<period, committed, known, dropped>>
    BY <1>17 DEF WritePages, memVars, ghostVars, wordVars
  <2>4. CASE job' = "free"
    BY <2>2, <2>4, FreeJob
  <2>5. CASE job' = "receipt"
    <3>1. Len(pages'[period]) = committed + 1 /\ pages'[period][committed + 1] = batch /\ batch' = batch /\ todo' = {}
      BY <2>1, <2>2, <2>5 DEF PagesWritten
    <3> PICK p \in Periods : p = period
      BY <2>1
    <3> QED  BY <2>1, <2>2, <2>3, <2>5, <3>1 DEF JobInOrder
  <2> QED  BY <2>2, <2>4, <2>5
<1>18. CASE WriteReceipt
  <2>1. /\ batch \in Batches /\ known[batch] = "no" /\ batch \notin dropped /\ period \in Periods /\ period # NoPeriod
        /\ todo = {} /\ committed \in Nat
        /\ place[period] = "open" /\ Len(pages[period]) = committed + 1 /\ pages[period][committed + 1] = batch
    BY <1>0, <1>18 DEF WriteReceipt, JobInOrder, TypeOK
  <2>2. UNCHANGED <<place, pages, period, known, dropped>>
    BY <1>18 DEF WriteReceipt
  <2>3. \/ job' = "free" /\ todo' = {}
        \/ /\ ReceiptWritten(committed + 1) /\ receipts'[period][committed + 1] = batch
           /\ committed' = committed + 1 /\ job' = "evidence" /\ batch' = batch /\ todo' = todo
    BY <1>0, <1>18, WriteReceiptIs
  <2>4. CASE /\ ReceiptWritten(committed + 1) /\ receipts'[period][committed + 1] = batch
             /\ committed' = committed + 1 /\ job' = "evidence" /\ batch' = batch /\ todo' = todo
    <3> PICK p \in Periods : p = period
      BY <2>1
    <3>1. Len(receipts'[p]) = committed' /\ committed' > 0
      BY <2>1, <2>4 DEF ReceiptWritten
    <3> QED  BY <2>1, <2>2, <2>4, <3>1 DEF JobInOrder
  <2> QED  BY <2>3, <2>4, FreeJob
<1> QED  BY <1>2, <1>3, <1>4, <1>5, <1>6, <1>7, <1>8, <1>9, <1>10, <1>11, <1>12, <1>13, <1>14, <1>15, <1>16, <1>17, <1>18
         DEF Next, Reliable, Fallible

-----------------------------------------------------------------------------
(* The sync worker *)

LEMMA FreeSync ==
  ASSUME SyncInOrder, sync' = "idle", segment' = NoPeriod, reserved' = reserved \ {segment} \/ reserved' = {}
  PROVE  SyncInOrder'
<1>1. reserved' = {}
  BY DEF SyncInOrder
<1> QED  BY <1>1 DEF SyncInOrder

\* What the sync worker holds is left alone by the others.
LEMMA QuietSync ==
  ASSUME TypeOK, SyncInOrder, Onward, UNCHANGED syncVars,
         sync # "idle" => /\ place'[segment] = place[segment] /\ pages'[segment] = pages[segment]
                          /\ receipts'[segment] = receipts[segment] /\ acked'[segment] = acked[segment],
         sync = "sending" => \A b \in Batches : known'[b] = "removed" =>
           \/ known[b] = "removed" \/ b \in Forgotten
           \/ \A i \in DOMAIN receipts[segment] : receipts[segment][i] # b
  PROVE  SyncInOrder'
<1>1. CASE sync = "idle"
  BY <1>1 DEF SyncInOrder, syncVars
<1>2. CASE sync # "idle"
  <2> PICK p \in Periods : p = segment
    BY <1>2 DEF SyncInOrder, TypeOK
  <2>1. /\ p # NoPeriod /\ reserved = {p} /\ place'[p] = "segment" /\ segment' = p /\ sync' = sync /\ reserved' = reserved
        /\ pages'[p] = pages[p] /\ receipts'[p] = receipts[p] /\ acked'[p] = acked[p]
    BY <1>2 DEF SyncInOrder, syncVars
  <2>2. /\ sync \in {"sending", "confirmed", "purge", "purging"} => pages[p] # <<>>
        /\ sync \in {"confirmed", "unlink", "rmdir"} => acked[p]
        /\ sync = "unlink" => IsRemoved(receipts[p])
        /\ sync = "rmdir" => pages[p] = <<>>
        /\ sync \in {"purge", "purging"} => \A i \in DOMAIN pages[p] : pages[p][i] \in withdrawn
        /\ sync = "purging" => receipts[p] = <<>>
        /\ sync = "sending" => \A i \in DOMAIN receipts[p] :
             receipts[p][i] \in Forgotten \/ known[receipts[p][i]] # "removed"
    BY DEF SyncInOrder
  <2>3. \A i \in DOMAIN receipts[p] : receipts[p][i] \in Batches
    BY NamedNumbers
  <2>4. Forgotten \subseteq Forgotten'
    BY DEF Forgotten, Onward
  <2>5. sync = "unlink" => \A i \in DOMAIN receipts[p] : evidence'[receipts[p][i]] = "removed"
    BY <2>2, <2>3 DEF IsRemoved, Onward
  <2>6. sync \in {"purge", "purging"} => \A i \in DOMAIN pages[p] : pages[p][i] \in withdrawn'
    BY <2>2 DEF Onward
  <2>7. sync = "sending" => \A i \in DOMAIN receipts[p] :
          receipts[p][i] \in Forgotten' \/ known'[receipts[p][i]] # "removed"
    BY <2>2, <2>3, <2>4
  <2> QED  BY <1>2, <2>1, <2>2, <2>5, <2>6, <2>7 DEF SyncInOrder, IsRemoved
<1> QED  BY <1>1, <1>2

\* A reserved segment is not among the open periods, nor those that are finished or discarded.
LEMMA SegmentIsApart ==
  ASSUME TypeOK, PeriodInOrder, JobInOrder, SyncInOrder, sync # "idle"
  PROVE  /\ segment \in Periods /\ place[segment] = "segment" /\ reserved = {segment}
         /\ segment # period /\ segment \notin unfinished /\ segment \notin todo
         /\ \A S, F : Cut(S, F) => segment \notin S
<1>1. segment \in Periods /\ place[segment] = "segment" /\ reserved = {segment} /\ segment # NoPeriod
  BY DEF SyncInOrder, TypeOK
<1>2. segment # period /\ segment \notin unfinished
  BY <1>1 DEF PeriodInOrder
<1>3. segment \notin todo
  BY <1>1 DEF JobInOrder
<1>4. \A S, F : Cut(S, F) => segment \notin S
  BY <1>1 DEF Cut
<1> QED  BY <1>1, <1>2, <1>3, <1>4

LEMMA SyncStep ==
  ASSUME CustodyInOrder, Next
  PROVE  SyncInOrder'
<1>0. /\ TypeOK /\ MemoryInOrder /\ PeriodInOrder /\ JobInOrder /\ SyncInOrder /\ TextInOrder /\ AccountInOrder
      /\ TypeOK' /\ Onward
  BY TypeStep, OnwardStep DEF CustodyInOrder
<1>1. ASSUME UNCHANGED syncVars, UNCHANGED <<place, pages, receipts, acked, known>>
      PROVE  SyncInOrder'
  BY <1>0, <1>1, QuietSync
<1>2. ASSUME sync = "idle", UNCHANGED syncVars
      PROVE  SyncInOrder'
  BY <1>0, <1>2 DEF SyncInOrder, syncVars
<1>3. ASSUME NEW S, NEW F, Cut(S, F), UNCHANGED syncVars, UNCHANGED <<acked, known>>
      PROVE  SyncInOrder'
  <2>1. sync # "idle" => /\ place'[segment] = place[segment] /\ pages'[segment] = pages[segment]
                         /\ receipts'[segment] = receipts[segment] /\ acked'[segment] = acked[segment]
    BY <1>0, <1>3, SegmentIsApart DEF Cut
  <2> QED  BY <1>0, <1>3, <2>1, QuietSync
<1>4. CASE \E b \in Batches : Duplicate(b)
  BY <1>1, <1>4 DEF Duplicate, diskVars, memVars
<1>5. CASE Discard \/ DiscardFails \/ DiscardDone
  BY <1>1, <1>5 DEF Discard, DiscardFails, DiscardDone, diskVars, memVars
<1>6. CASE DiscardTombstone
  <2>1. Doomed \in todo /\ Doomed \in Periods /\ Entomb(Doomed) /\ UNCHANGED <<place, pages, receipts, acked>> /\ UNCHANGED syncVars
    BY <1>0, <1>6, DoomedIsOne DEF DiscardTombstone, TypeOK
  <2> PICK d \in Periods : d = Doomed
    BY <2>1
  <2>2. ASSUME sync = "sending", NEW b \in Batches, known'[b] = "removed", known[b] # "removed", b \notin Forgotten,
               NEW i \in DOMAIN receipts[segment], receipts[segment][i] = b
        PROVE  FALSE
    <3>1. segment \in Periods /\ place[segment] = "segment" /\ segment # d /\ pages[segment] # <<>>
      BY <1>0, <2>1, <2>2, SegmentIsApart DEF SyncInOrder
    <3> PICK s \in Periods : s = segment
      BY <3>1
    <3>2. PICK j \in Named(d) : receipts[d][j] = b
      BY <1>0, <2>1, <2>2, EntombIs
    <3>3. \A p \in Periods : \A k \in Named(p) : receipts[p][k] = b => pages[p][k] = b
      BY <1>0, <2>2 DEF TextInOrder, TextIn, Forgotten
    <3>4. Has(d, b)
      <4>1. OnDisk(d)
        BY <1>0, <2>1 DEF JobInOrder
      <4> QED  BY <3>2, <3>3, <4>1 DEF Has
    <3>5. Has(s, b)
      <4>1. Len(receipts[s]) <= Len(pages[s])
        BY <1>0, <3>1 DEF TextInOrder, TextIn
      <4>2. i \in Named(s)
        BY <1>0, <2>2, <4>1, NamedNumbers DEF Named
      <4> QED  BY <2>2, <3>1, <3>3, <4>2 DEF Has, OnDisk
    <3> QED  BY <1>0, <2>2, <3>1, <3>4, <3>5 DEF AccountInOrder, AccountOf, Taken
  <2>3. sync = "sending" => \A b \in Batches : known'[b] = "removed" =>
           \/ known[b] = "removed" \/ b \in Forgotten
           \/ \A i \in DOMAIN receipts[segment] : receipts[segment][i] # b
    BY <2>2
  <2> QED  BY <1>0, <2>1, <2>3, QuietSync
<1>7. CASE DiscardUnlink \/ DiscardRmdir
  <2>1. Doomed \in todo /\ Doomed \in Periods
    BY <1>0, <1>7, DoomedIsOne DEF DiscardUnlink, DiscardRmdir, JobInOrder, TypeOK
  <2> PICK d \in Periods : d = Doomed
    BY <2>1
  <2>2. /\ place' \in {place, [place EXCEPT ![d] = "gone"]}
        /\ pages' \in {pages, [pages EXCEPT ![d] = <<>>]}
        /\ receipts' \in {receipts, [receipts EXCEPT ![d] = <<>>]}
        /\ acked' \in {acked, [acked EXCEPT ![d] = FALSE]}
        /\ known' = known
    BY <1>7 DEF DiscardUnlink, DiscardRmdir, memVars
  <2>3. UNCHANGED syncVars
    BY <1>7 DEF DiscardUnlink, DiscardRmdir
  <2>4. sync # "idle" => /\ place'[segment] = place[segment] /\ pages'[segment] = pages[segment]
                         /\ receipts'[segment] = receipts[segment] /\ acked'[segment] = acked[segment]
    <3>1. SUFFICES ASSUME segment \in Periods, segment # d
                   PROVE  /\ place'[segment] = place[segment] /\ pages'[segment] = pages[segment]
                          /\ receipts'[segment] = receipts[segment] /\ acked'[segment] = acked[segment]
      BY <1>0, <2>1, SegmentIsApart
    <3> QED  BY <1>0, <2>2, <3>1 DEF TypeOK
  <2> QED  BY <1>0, <2>2, <2>3, <2>4, QuietSync
<1>8. CASE \E p \in Periods : Reserve(p)
  <2>1. PICK p \in Periods : Reserve(p)
    BY <1>8
  <2>2. /\ sync = "idle" /\ place[p] = "segment" /\ pages[p] # <<>> /\ p # NoPeriod /\ ~HasRemoved(p)
        /\ segment' = p /\ sync' = (IF acked[p] THEN "confirmed" ELSE "sending") /\ reserved' = reserved \cup {p}
        /\ UNCHANGED <<place, pages, receipts, acked, known>>
    BY <2>1, PeriodsAreNumbers DEF Reserve, diskVars, memVars
  <2>3. reserved' = {p}
    BY <1>0, <2>2 DEF SyncInOrder
  <2>4. \A i \in DOMAIN receipts[p] : known[receipts[p][i]] # "removed"
    BY <2>2, HasRemovedIs
  <2>5. sync' \in {"confirmed", "sending"} /\ (sync' = "confirmed" => acked[p])
    BY <2>2
  <2> QED  BY <2>2, <2>3, <2>4, <2>5 DEF SyncInOrder
<1>9. CASE \E p \in Periods : FinishUnlink(p)
  <2>1. sync = "idle"
    BY <1>0, <1>9 DEF FinishUnlink, MemoryInOrder
  <2> QED  BY <1>2, <1>9, <2>1 DEF FinishUnlink
<1>10. CASE Stored
  <2>1. CASE Release
    BY <1>0, <2>1, FreeSync DEF Release
  <2>2. CASE ~Release
    <3>1. /\ acked' = [acked EXCEPT ![segment] = TRUE] /\ sync' = "confirmed" /\ UNCHANGED <<segment, reserved>>
          /\ UNCHANGED <<place, pages, receipts>> /\ sync = "sending"
      BY <1>10, <2>2 DEF Stored
    <3> PICK p \in Periods : p = segment
      BY <1>0, <1>10, StoredIs
    <3>2. p # NoPeriod /\ reserved = {p} /\ place[p] = "segment" /\ pages[p] # <<>>
      BY <1>0, <3>1 DEF SyncInOrder
    <3>3. acked'[p] = TRUE
      BY <1>0, <3>1 DEF TypeOK
    <3> QED  BY <3>1, <3>2, <3>3 DEF SyncInOrder
  <2> QED  BY <2>1, <2>2
<1>11. CASE SegmentRemoved
  <2> PICK p \in Periods : p = segment
    BY <1>0, <1>11 DEF SegmentRemoved, SyncInOrder, TypeOK
  <2>1. /\ sync' = "purge" /\ UNCHANGED <<segment, reserved, place, pages>> /\ sync = "sending"
        /\ withdrawn' = withdrawn \cup Content(pages[p])
    BY <1>11 DEF SegmentRemoved, diskVars
  <2>2. p # NoPeriod /\ reserved = {p} /\ place[p] = "segment" /\ pages[p] # <<>>
    BY <1>0, <2>1 DEF SyncInOrder
  <2>3. \A i \in DOMAIN pages[p] : pages[p][i] \in withdrawn'
    BY <2>1 DEF Content
  <2> QED  BY <2>1, <2>2, <2>3 DEF SyncInOrder
<1>12. CASE PurgeReceipts
  <2> PICK p \in Periods : p = segment
    BY <1>0, <1>12 DEF PurgeReceipts, SyncInOrder, TypeOK
  <2>1. /\ sync' = "purging" /\ UNCHANGED <<segment, reserved, place, pages, withdrawn>> /\ sync = "purge"
        /\ receipts' = [receipts EXCEPT ![p] = <<>>]
    BY <1>12 DEF PurgeReceipts, ghostVars, wordVars
  <2>2. /\ p # NoPeriod /\ reserved = {p} /\ place[p] = "segment" /\ pages[p] # <<>>
        /\ \A i \in DOMAIN pages[p] : pages[p][i] \in withdrawn
    BY <1>0, <2>1 DEF SyncInOrder
  <2>3. receipts'[p] = <<>>
    BY <1>0, <2>1 DEF TypeOK
  <2> QED  BY <2>1, <2>2, <2>3 DEF SyncInOrder
<1>13. CASE PurgePages \/ Rmdir \/ SyncFails
  BY <1>0, <1>13, FreeSync DEF PurgePages, Rmdir, SyncFails, Release
<1>14. CASE Confirm
  <2> PICK p \in Periods : p = segment
    BY <1>0, <1>14 DEF Confirm, SyncInOrder, TypeOK
  <2>1. /\ sync' = "unlink" /\ UNCHANGED <<segment, reserved, place, pages, receipts, acked>> /\ sync = "confirmed" /\ Entomb(p)
    BY <1>14 DEF Confirm
  <2>2. p # NoPeriod /\ reserved = {p} /\ place[p] = "segment" /\ pages[p] # <<>> /\ acked[p]
    BY <1>0, <2>1 DEF SyncInOrder
  <2>3. \A i \in DOMAIN receipts[p] : evidence'[receipts[p][i]] = "removed"
    <3>1. Len(receipts[p]) <= Len(pages[p])
      BY <1>0, <2>2 DEF TextInOrder, TextIn
    <3>2. DOMAIN receipts[p] \subseteq Named(p)
      BY <1>0, <3>1, NamedNumbers DEF Named
    <3>3. \A i \in DOMAIN receipts[p] : receipts[p][i] \in Batches
      BY <1>0, NamedNumbers
    <3> QED  BY <1>0, <2>1, <3>2, <3>3, EntombIs
  <2> QED  BY <2>1, <2>2, <2>3 DEF SyncInOrder, IsRemoved
<1>15. CASE Unlink
  <2> PICK p \in Periods : p = segment
    BY <1>0, <1>15 DEF Unlink, SyncInOrder, TypeOK
  <2>1. /\ sync' = "rmdir" /\ UNCHANGED <<segment, reserved, place, acked>> /\ sync = "unlink"
        /\ pages' = [pages EXCEPT ![p] = <<>>]
    BY <1>15 DEF Unlink
  <2>2. p # NoPeriod /\ reserved = {p} /\ place[p] = "segment" /\ acked[p]
    BY <1>0, <2>1 DEF SyncInOrder
  <2>3. pages'[p] = <<>>
    BY <1>0, <2>1 DEF TypeOK
  <2> QED  BY <2>1, <2>2, <2>3 DEF SyncInOrder
<1>16. CASE Crash
  BY <1>0, <1>16, FreeSync DEF Crash
<1>17. CASE LoadEvidence \/ Recover
  <2>1. sync = "idle"
    BY <1>0, <1>17 DEF LoadEvidence, Recover, MemoryInOrder
  <2> QED  BY <1>2, <1>17, <2>1 DEF LoadEvidence, Recover
<1>18. CASE \E rotate \in BOOLEAN : Tick(rotate)
  <2>1. \E S, F : Cut(S, F)
    BY <1>0, <1>18, TickIs
  <2>2. UNCHANGED syncVars /\ UNCHANGED <<acked, known>>
    BY <1>18 DEF Tick
  <2> QED  BY <1>3, <2>1, <2>2
<1>19. CASE \E b \in Batches : Accept(b)
  <2>1. UNCHANGED syncVars /\ UNCHANGED <<acked, known>>
    BY <1>19 DEF Accept
  <2>2. (\E S, F : Cut(S, F)) \/ UNCHANGED <<place, pages, receipts>>
    BY <1>0, <1>19, AcceptIs
  <2> QED  BY <1>1, <1>3, <2>1, <2>2
<1>20. CASE WritePages \/ WriteReceipt
  <2>1. \A p \in Periods : p # period => place'[p] = place[p] /\ pages'[p] = pages[p] /\ receipts'[p] = receipts[p]
    <3>1. CASE WritePages
      BY <1>0, <3>1, WritePagesIs DEF PagesWritten
    <3>2. CASE WriteReceipt
      BY <1>0, <3>2, WriteReceiptIs DEF ReceiptWritten, WriteReceipt
    <3> QED  BY <1>20, <3>1, <3>2
  <2>2. UNCHANGED syncVars /\ UNCHANGED <<acked, known>>
    BY <1>20 DEF WritePages, WriteReceipt, memVars
  <2>3. sync # "idle" => /\ place'[segment] = place[segment] /\ pages'[segment] = pages[segment]
                         /\ receipts'[segment] = receipts[segment] /\ acked'[segment] = acked[segment]
    BY <1>0, <2>1, <2>2, SegmentIsApart
  <2> QED  BY <1>0, <2>2, <2>3, QuietSync
<1>21. CASE WriteEvidence
  <2>1. UNCHANGED syncVars /\ UNCHANGED <<place, pages, receipts, acked>>
    BY <1>21 DEF WriteEvidence
  <2>2. \A b \in Batches : known'[b] = "removed" => known[b] = "removed"
    BY <1>0, <1>21 DEF WriteEvidence, TypeOK
  <2> QED  BY <1>0, <2>1, <2>2, QuietSync
<1> QED  BY <1>4, <1>5, <1>6, <1>7, <1>8, <1>9, <1>10, <1>11, <1>12, <1>13, <1>14, <1>15, <1>16, <1>17, <1>18,
            <1>19, <1>20, <1>21 DEF Next, Reliable, Fallible

-----------------------------------------------------------------------------
(* The accounts: what became of each batch *)

LEMMA SameText ==
  ASSUME UNCHANGED <<place, pages, receipts>>
  PROVE  /\ \A p \in Periods : \A b \in Batches : Has(p, b)' <=> Has(p, b)
         /\ \A b \in Batches : Listed(b)' <=> Listed(b)
BY DEF Has, OnDisk, Named, Listed

\* An identity is removed for a batch that is accounted for elsewhere.
LEMMA EntombAccounts ==
  ASSUME TypeOK, MemoryInOrder, AccountInOrder, custody = "open", custody' = "open", job # "evidence",
         NEW p \in Periods, Entomb(p), \A i \in Named(p) : Gone(receipts[p][i])',
         UNCHANGED <<place, pages, receipts, dropped, delivered, withdrawn, unsynced, mixed>>,
         discarded \subseteq discarded',
         \A b \in discarded' : b \in discarded \/ \E i \in Named(p) : receipts[p][i] = b
  PROVE  AccountInOrder'
<1> SUFFICES ASSUME NEW b \in Batches
             PROVE  AccountOf(b)'
  BY DEF AccountInOrder
<1>0. AccountOf(b)
  BY DEF AccountInOrder
<1>1. evidence'[b] = known'[b] /\ known'[b] = IF \E i \in Named(p) : receipts[p][i] = b THEN "removed" ELSE known[b]
  BY EntombIs
<1>2. /\ \A q \in Periods : Has(q, b)' <=> Has(q, b)
      /\ Listed(b)' <=> Listed(b)
  BY SameText
<1>3. \A q \in Periods : Taken(q, b)' <=> Taken(q, b)
  BY <1>2 DEF Taken
<1>4. (Gone(b) => Gone(b)') /\ (Accounted(b) => Accounted(b)')
  BY <1>2 DEF Accounted, Gone
<1>5. (evidence[b] = "no" \/ evidence[b] = known[b]) /\ (known[b] = "removed" => evidence[b] = "removed")
  BY DEF MemoryInOrder
<1>6. Forgotten' = Forgotten /\ withdrawn' = withdrawn
  BY DEF Forgotten
<1>7. CASE \E i \in Named(p) : receipts[p][i] = b
  <2>1. Gone(b)' /\ Accounted(b)' /\ known'[b] = "removed" /\ evidence'[b] = "removed"
    BY <1>1, <1>7 DEF Accounted
  <2> QED  BY <1>0, <1>3, <1>6, <2>1 DEF AccountOf
<1>8. CASE ~\E i \in Named(p) : receipts[p][i] = b
  <2>1. known'[b] = known[b] /\ evidence'[b] = known[b] /\ (b \in discarded' => b \in discarded)
    BY <1>1, <1>8
  <2>2. evidence'[b] = "removed" => Gone(b)'
    BY <1>0, <1>4, <1>5, <2>1 DEF AccountOf
  <2>3. known'[b] = "accepted" \/ evidence'[b] = "accepted" \/ b \in dropped' => Accounted(b)'
    BY <1>0, <1>4, <2>1 DEF AccountOf
  <2>4. b \in discarded' => evidence'[b] = "removed"
    BY <1>0, <1>5, <2>1 DEF AccountOf
  <2>5. b \notin Forgotten' =>
          /\ (\E q \in Periods : b \in delivered'[q]) => evidence'[b] # "no" \/ Listed(b)'
          /\ custody' = "open" /\ (\E q \in Periods : Taken(q, b)') => known'[b] # "no" \/ (job' = "evidence" /\ b = batch')
          /\ \A q, r \in Periods : Taken(q, b)' /\ Taken(r, b)' => q = r
    BY <1>0, <1>2, <1>3, <1>5, <1>6, <2>1 DEF AccountOf
  <2>6. withdrawn' = {} /\ (known'[b] = "accepted" \/ evidence'[b] = "accepted") => Listed(b)'
    BY <1>0, <1>2, <1>6, <2>1 DEF AccountOf
  <2> QED  BY <2>2, <2>3, <2>4, <2>5, <2>6 DEF AccountOf
<1> QED  BY <1>7, <1>8

LEMMA DiscardAccounts ==
  ASSUME CustodyInOrder, DiscardTombstone
  PROVE  AccountInOrder'
<1>0. TypeOK /\ MemoryInOrder /\ JobInOrder /\ AccountInOrder
  BY DEF CustodyInOrder
<1> PICK d \in Periods : d = Doomed
  BY <1>0, DoomedIsOne DEF DiscardTombstone, TypeOK
<1>1. /\ Entomb(d) /\ discarded' = discarded \cup Content(Covered(d)) /\ job = "tombstone"
      /\ UNCHANGED <<place, pages, receipts, dropped, delivered, withdrawn, unsynced, mixed, custody>>
  BY DEF DiscardTombstone
<1>2. custody = "open"
  BY <1>0, <1>1 DEF MemoryInOrder
<1>3. \A b : b \in discarded' <=> b \in discarded \/ \E i \in Named(d) : receipts[d][i] = b
  BY <1>0, <1>1, ContentOfCovered
<1>4. \A i \in Named(d) : Gone(receipts[d][i])'
  BY <1>1, <1>3 DEF Gone
<1>5. /\ discarded \subseteq discarded' /\ custody' = "open" /\ job # "evidence"
      /\ \A b \in discarded' : b \in discarded \/ \E i \in Named(d) : receipts[d][i] = b
  BY <1>1, <1>2, <1>3
<1> QED  BY <1>0, <1>1, <1>2, <1>4, <1>5, EntombAccounts

LEMMA ConfirmAccounts ==
  ASSUME CustodyInOrder, Confirm
  PROVE  AccountInOrder'
<1>0. TypeOK /\ MemoryInOrder /\ SyncInOrder /\ AccountInOrder /\ TextInOrder
  BY DEF CustodyInOrder
<1> PICK d \in Periods : d = segment
  BY <1>0 DEF Confirm, SyncInOrder, TypeOK
<1>1. /\ Entomb(d) /\ job = "free" /\ custody = "open"
      /\ UNCHANGED <<place, pages, receipts, dropped, delivered, withdrawn, unsynced, mixed, discarded, custody>>
  BY DEF Confirm, Ready, ghostVars, wordVars
<1>2. acked[d] /\ place[d] = "segment" /\ TextIn(d)
  BY <1>0 DEF Confirm, SyncInOrder, TextInOrder
<1>3. ASSUME NEW i \in Named(d)
      PROVE  Gone(receipts[d][i])'
  <2>1. i \in DOMAIN pages[d] /\ i \in DOMAIN receipts[d]
    BY DEF Named
  <2>2. pages[d][i] \in delivered[d]
    BY <1>2, <2>1 DEF TextIn
  <2>3. pages[d][i] = receipts[d][i] \/ receipts[d][i] \in mixed
    BY <1>2, <2>1 DEF TextIn
  <2> QED  BY <1>1, <2>2, <2>3 DEF Gone
<1>4. custody' = "open" /\ job # "evidence"
  BY <1>1
<1> QED  BY <1>0, <1>1, <1>3, <1>4, EntombAccounts

LEMMA DuplicateAccounts ==
  ASSUME CustodyInOrder, NEW x \in Batches, Duplicate(x)
  PROVE  AccountInOrder'
<1>0. TypeOK /\ MemoryInOrder /\ AccountInOrder
  BY DEF CustodyInOrder
<1> SUFFICES ASSUME NEW b \in Batches
             PROVE  AccountOf(b)'
  BY DEF AccountInOrder
<1>1. AccountOf(b)
  BY <1>0 DEF AccountInOrder
<1>2. /\ UNCHANGED <<place, pages, receipts, known, evidence, custody, delivered, discarded, withdrawn, unsynced, mixed>>
      /\ UNCHANGED <<job, batch>>
  BY DEF Duplicate, diskVars, memVars, jobVars
<1>3. custody = "open" /\ known[x] # "no" /\ (b \in dropped' => b \in dropped \/ b = x)
  BY DEF Duplicate, Ready, Reply
<1>4. /\ \A q \in Periods : Has(q, b)' <=> Has(q, b)
      /\ Listed(b)' <=> Listed(b)
  BY <1>2, SameText
<1>5. (\A q \in Periods : Taken(q, b)' <=> Taken(q, b)) /\ (Gone(b)' <=> Gone(b)) /\ (Accounted(b)' <=> Accounted(b))
  BY <1>2, <1>4 DEF Taken, Gone, Accounted
<1>6. known[b] # "no" => Accounted(b)
  <2>1. known[b] \in {"no", "accepted", "removed"}
    BY <1>0 DEF TypeOK, Kinds
  <2>2. known[b] = "removed" => evidence[b] = "removed"
    BY <1>0, <1>3 DEF MemoryInOrder
  <2> QED  BY <1>1, <2>1, <2>2 DEF AccountOf, Accounted
<1>7. b \in dropped' => Accounted(b)
  BY <1>1, <1>3, <1>6 DEF AccountOf
<1>8. Forgotten' = Forgotten
  BY <1>2 DEF Forgotten
<1> QED  BY <1>1, <1>2, <1>4, <1>5, <1>7, <1>8 DEF AccountOf

LEMMA EvidenceAccounts ==
  ASSUME CustodyInOrder, WriteEvidence
  PROVE  AccountInOrder'
<1>0. TypeOK /\ MemoryInOrder /\ JobInOrder /\ AccountInOrder
  BY DEF CustodyInOrder
<1>1. custody = "open" /\ job = "evidence" /\ batch \in Batches /\ known[batch] = "no" /\ period \in Periods /\ committed \in Nat
  BY <1>0 DEF WriteEvidence, MemoryInOrder, JobInOrder, TypeOK
<1>2. Has(period, batch) /\ Listed(batch)
  <2> PICK p \in Periods : p = period
    BY <1>1
  <2>1. /\ place[p] = "open" /\ committed > 0 /\ Len(pages[p]) = committed
        /\ Len(receipts[p]) = committed /\ pages[p][committed] = batch /\ receipts[p][committed] = batch
    BY <1>0, <1>1 DEF JobInOrder
  <2>2. committed \in Named(p)
    BY <1>0, <1>1, <2>1, NamedNumbers DEF Named
  <2> QED  BY <2>1, <2>2 DEF Has, Listed, OnDisk
<1>3. /\ UNCHANGED <<place, pages, receipts, custody, delivered, discarded, withdrawn, unsynced, mixed>>
      /\ \A b \in Batches : known'[b] = IF b = batch THEN "accepted" ELSE known[b]
      /\ evidence' = known' \/ evidence' = evidence
      /\ \A b \in dropped' : b \in dropped \/ b = batch
  BY <1>0 DEF WriteEvidence, Reply, TypeOK
<1> SUFFICES ASSUME NEW b \in Batches
             PROVE  AccountOf(b)'
  BY DEF AccountInOrder
<1>4. AccountOf(b)
  BY <1>0 DEF AccountInOrder
<1>5. /\ \A q \in Periods : Has(q, b)' <=> Has(q, b)
      /\ Listed(b)' <=> Listed(b)
  BY <1>3, SameText
<1>6. (\A q \in Periods : Taken(q, b)' <=> Taken(q, b)) /\ (Gone(b)' <=> Gone(b)) /\ (Accounted(b)' <=> Accounted(b))
  BY <1>3, <1>5 DEF Taken, Gone, Accounted
<1>7. Forgotten' = Forgotten
  BY <1>3 DEF Forgotten
<1>8. (evidence[b] = "no" \/ evidence[b] = known[b]) /\ (known[b] = "removed" => evidence[b] = "removed")
  BY <1>0, <1>1 DEF MemoryInOrder
<1>9. CASE b = batch
  <2>1. known'[b] = "accepted" /\ evidence'[b] \in {"no", "accepted"} /\ evidence[b] = "no"
    BY <1>1, <1>3, <1>8, <1>9
  <2>2. Listed(b)' /\ Accounted(b)'
    BY <1>1, <1>2, <1>5, <1>6, <1>9 DEF Accounted
  <2>3. b \notin discarded'
    BY <1>3, <1>4, <2>1 DEF AccountOf
  <2> QED  BY <1>3, <1>4, <1>6, <1>7, <2>1, <2>2, <2>3 DEF AccountOf
<1>10. CASE b # batch
  <2>1. known'[b] = known[b] /\ evidence'[b] \in {evidence[b], known[b]} /\ (b \in dropped' => b \in dropped)
    BY <1>3, <1>10
  <2>2. evidence'[b] = "removed" => Gone(b)'
    BY <1>4, <1>6, <1>8, <2>1 DEF AccountOf
  <2>3. known'[b] = "accepted" \/ evidence'[b] = "accepted" \/ b \in dropped' => Accounted(b)'
    BY <1>4, <1>6, <2>1 DEF AccountOf
  <2>4. b \in discarded' => evidence'[b] = "removed"
    BY <1>3, <1>4, <1>8, <2>1 DEF AccountOf
  <2>5. b \notin Forgotten' =>
          /\ (\E q \in Periods : b \in delivered'[q]) => evidence'[b] # "no" \/ Listed(b)'
          /\ custody' = "open" /\ (\E q \in Periods : Taken(q, b)') => known'[b] # "no" \/ (job' = "evidence" /\ b = batch')
          /\ \A q, r \in Periods : Taken(q, b)' /\ Taken(r, b)' => q = r
    BY <1>1, <1>3, <1>4, <1>5, <1>6, <1>7, <1>8, <1>10, <2>1 DEF AccountOf
  <2>6. withdrawn' = {} /\ (known'[b] = "accepted" \/ evidence'[b] = "accepted") => Listed(b)'
    BY <1>3, <1>4, <1>5, <2>1 DEF AccountOf
  <2> QED  BY <2>2, <2>3, <2>4, <2>5, <2>6 DEF AccountOf
<1> QED  BY <1>9, <1>10

LEMMA StoredAccounts ==
  ASSUME CustodyInOrder, Stored
  PROVE  AccountInOrder'
<1>0. TypeOK /\ MemoryInOrder /\ SyncInOrder /\ TextInOrder /\ AccountInOrder
  BY DEF CustodyInOrder
<1> PICK s \in Periods : s = segment
  BY <1>0, StoredIs
<1>1. /\ UNCHANGED <<place, pages, receipts, known, evidence, custody, job, batch, dropped, discarded, withdrawn, unsynced, mixed>>
  BY DEF Stored, memVars, jobVars
<1>2. /\ place[s] = "segment" /\ TextIn(s)
      /\ \A p \in Periods : p # s => delivered'[p] = delivered[p]
      /\ \A b : b \in delivered'[s] <=> b \in delivered[s] \/ \E i \in DOMAIN pages[s] : pages[s][i] = b
  BY <1>0, StoredIs DEF TextInOrder
<1>3. \A b \in Batches : b \notin Forgotten /\ b \in delivered'[s] => b \in delivered[s] \/ (Has(s, b) /\ Listed(b))
  <2> SUFFICES ASSUME NEW b \in Batches, b \notin Forgotten, NEW i \in DOMAIN pages[s], pages[s][i] = b
               PROVE  Has(s, b) /\ Listed(b)
    BY <1>2
  <2>1. i \in DOMAIN receipts[s] /\ receipts[s][i] = b
    BY <1>2 DEF TextIn, Forgotten
  <2> QED  BY <1>2, <2>1 DEF Has, Listed, OnDisk, Named
<1> SUFFICES ASSUME NEW b \in Batches
             PROVE  AccountOf(b)'
  BY DEF AccountInOrder
<1>4. AccountOf(b)
  BY <1>0 DEF AccountInOrder
<1>5. /\ \A q \in Periods : Has(q, b)' <=> Has(q, b)
      /\ Listed(b)' <=> Listed(b)
  BY <1>1, SameText
<1>6. Forgotten' = Forgotten
  BY <1>1 DEF Forgotten
<1>7. \A p \in Periods : delivered[p] \subseteq delivered'[p]
  BY <1>2
<1>8. (Gone(b) => Gone(b)') /\ (Accounted(b) => Accounted(b)')
  BY <1>1, <1>5, <1>7 DEF Gone, Accounted
<1>9. b \notin Forgotten => \A p \in Periods :
        /\ b \in delivered'[p] => b \in delivered[p] \/ Listed(b)
        /\ Taken(p, b)' => Taken(p, b)
  BY <1>2, <1>3, <1>5 DEF Taken
<1>10. b \notin Forgotten' =>
          /\ (\E q \in Periods : b \in delivered'[q]) => evidence'[b] # "no" \/ Listed(b)'
          /\ custody' = "open" /\ (\E q \in Periods : Taken(q, b)') => known'[b] # "no" \/ (job' = "evidence" /\ b = batch')
          /\ \A q, r \in Periods : Taken(q, b)' /\ Taken(r, b)' => q = r
  BY <1>1, <1>4, <1>5, <1>6, <1>9 DEF AccountOf
<1> QED  BY <1>1, <1>4, <1>5, <1>8, <1>10 DEF AccountOf

LEMMA RemovedAccounts ==
  ASSUME CustodyInOrder, SegmentRemoved
  PROVE  AccountInOrder'
<1>0. TypeOK /\ AccountInOrder
  BY DEF CustodyInOrder
<1>1. /\ UNCHANGED <<place, pages, receipts, known, evidence, custody, job, batch, dropped, delivered, discarded, unsynced, mixed>>
      /\ withdrawn \subseteq withdrawn'
  BY DEF SegmentRemoved, diskVars, memVars, jobVars
<1> SUFFICES ASSUME NEW b \in Batches
             PROVE  AccountOf(b)'
  BY DEF AccountInOrder
<1>2. AccountOf(b)
  BY <1>0 DEF AccountInOrder
<1>3. /\ \A q \in Periods : Has(q, b)' <=> Has(q, b)
      /\ Listed(b)' <=> Listed(b)
  BY <1>1, SameText
<1>4. (\A q \in Periods : Taken(q, b)' <=> Taken(q, b)) /\ (Gone(b) => Gone(b)') /\ (Accounted(b) => Accounted(b)')
  BY <1>1, <1>3 DEF Taken, Gone, Accounted
<1>5. (b \notin Forgotten' => b \notin Forgotten) /\ (withdrawn' = {} => withdrawn = {})
  BY <1>1 DEF Forgotten
<1> QED  BY <1>1, <1>2, <1>3, <1>4, <1>5 DEF AccountOf

LEMMA RestartAccounts ==
  ASSUME CustodyInOrder, Crash \/ LoadEvidence
  PROVE  AccountInOrder'
<1>0. TypeOK /\ AccountInOrder
  BY DEF CustodyInOrder
<1>1. /\ UNCHANGED <<place, pages, receipts, evidence, dropped, delivered, discarded, withdrawn, unsynced, mixed>>
      /\ custody' # "open" /\ \A b \in Batches : known'[b] \in {"no", evidence[b]}
  BY <1>0 DEF Crash, LoadEvidence, diskVars, ghostVars, wordVars, TypeOK
<1> SUFFICES ASSUME NEW b \in Batches
             PROVE  AccountOf(b)'
  BY DEF AccountInOrder
<1>2. AccountOf(b)
  BY <1>0 DEF AccountInOrder
<1>3. /\ \A q \in Periods : Has(q, b)' <=> Has(q, b)
      /\ Listed(b)' <=> Listed(b)
  BY <1>1, SameText
<1>4. (\A q \in Periods : Taken(q, b)' <=> Taken(q, b)) /\ (Gone(b) <=> Gone(b)') /\ (Accounted(b) <=> Accounted(b)')
  BY <1>1, <1>3 DEF Taken, Gone, Accounted
<1>5. Forgotten' = Forgotten
  BY <1>1 DEF Forgotten
<1>6. known'[b] = "accepted" => evidence[b] = "accepted"
  BY <1>1
<1> QED  BY <1>1, <1>2, <1>3, <1>4, <1>5, <1>6 DEF AccountOf

\* Recovery writes evidence for what it found, and found is what has a receipt on disk.
LEMMA RecoverAccounts ==
  ASSUME CustodyInOrder, Recover
  PROVE  AccountInOrder' /\ NeverWithout'
<1>0. TypeOK /\ MemoryInOrder /\ TextInOrder /\ AccountInOrder
  BY DEF CustodyInOrder
<1>1. PICK F : Cut(OpenDirs, F)
  BY <1>0, RecoverIs
<1> DEFINE O == OpenDirs
<1>10. Cut(O, F)
  BY <1>1
<1> HIDE DEF O
<1>11. /\ \A p \in Periods : \A b \in Batches : Has(p, b)' <=> Has(p, b)
       /\ \A b \in Batches : Listed(b)' <=> Listed(b)
  BY <1>0, <1>10, CutSame
<1>2. /\ UNCHANGED <<job, batch, dropped, delivered, discarded, withdrawn, unsynced>>
      /\ known = evidence /\ evidence' = known' /\ mixed \subseteq mixed'
      /\ \A b \in Batches : known'[b] = IF b \in Found /\ known[b] = "no" THEN "accepted" ELSE known[b]
      /\ custody' = IF \E b \in Batches : known[b] = "accepted" /\ b \notin Found THEN "unavailable" ELSE "open"
  BY <1>0, <1>1 DEF Recover, MemoryInOrder, jobVars, wordVars, Cut
<1>3. \A b \in Batches : b \in Found <=> Listed(b)
  BY <1>0, FoundIs
<1>4. NeverWithout'
  <2>1. withdrawn = {} => \A b \in Batches : known[b] = "accepted" => b \in Found
    BY <1>0, <1>3 DEF AccountInOrder, AccountOf
  <2> QED  BY <1>2, <2>1 DEF NeverWithout
<1>5. ASSUME NEW b \in Batches
      PROVE  AccountOf(b)'
  <2>1. AccountOf(b)
    BY <1>0 DEF AccountInOrder
  <2>2. (\A q \in Periods : Has(q, b)' <=> Has(q, b)) /\ (Listed(b)' <=> Listed(b))
    BY <1>11
  <2>3. (\A q \in Periods : Taken(q, b)' <=> Taken(q, b)) /\ (Gone(b) => Gone(b)') /\ (Accounted(b) => Accounted(b)')
    BY <1>2, <2>2 DEF Taken, Gone, Accounted
  <2>4. Listed(b) => Accounted(b)'
    <3> SUFFICES ASSUME NEW p \in Periods, OnDisk(p), NEW i \in Named(p), receipts[p][i] = b
                 PROVE  Accounted(b)'
      BY DEF Listed
    <3>1. CASE pages[p][i] = b
      <4>1. Has(p, b)
        BY <3>1 DEF Has
      <4> QED  BY <2>3, <4>1 DEF Accounted
    <3>2. CASE pages[p][i] # b
      <4>1. place[p] = "segment" => b \in mixed
        BY <1>0, <3>2 DEF TextInOrder, TextIn, Named
      <4>2. place[p] = "open" => b \in mixed'
        BY <1>1, <3>2 DEF Cut, OpenDirs
      <4>3. b \in mixed'
        BY <1>2, <4>1, <4>2 DEF OnDisk
      <4> QED  BY <4>3 DEF Accounted, Gone
    <3> QED  BY <3>1, <3>2
  <2>5. Forgotten \subseteq Forgotten'
    BY <1>2 DEF Forgotten
  <2>6. known'[b] = (IF Listed(b) /\ evidence[b] = "no" THEN "accepted" ELSE evidence[b]) /\ evidence'[b] = known'[b]
    BY <1>2, <1>3
  <2>7. evidence'[b] = "removed" => Gone(b)'
    BY <2>1, <2>3, <2>6 DEF AccountOf
  <2>8. known'[b] = "accepted" \/ evidence'[b] = "accepted" \/ b \in dropped' => Accounted(b)'
    BY <1>2, <2>1, <2>3, <2>4, <2>6 DEF AccountOf
  <2>9. b \in discarded' => evidence'[b] = "removed"
    BY <1>2, <2>1, <2>6 DEF AccountOf
  <2>10. ASSUME b \notin Forgotten'
         PROVE  /\ (\E q \in Periods : b \in delivered'[q]) => evidence'[b] # "no" \/ Listed(b)'
                /\ custody' = "open" /\ (\E q \in Periods : Taken(q, b)') =>
                     known'[b] # "no" \/ (job' = "evidence" /\ b = batch')
                /\ \A q, r \in Periods : Taken(q, b)' /\ Taken(r, b)' => q = r
    <3>1. b \notin Forgotten
      BY <2>5, <2>10
    <3>2. \A q \in Periods : Has(q, b) => Listed(b)
      BY DEF Has, Listed
    <3>3. \A q \in Periods : b \in delivered[q] => evidence[b] # "no" \/ Listed(b)
      BY <2>1, <3>1 DEF AccountOf
    <3>4. \A q \in Periods : Taken(q, b) => known'[b] # "no"
      BY <2>6, <3>2, <3>3 DEF Taken
    <3>5. (\E q \in Periods : b \in delivered'[q]) => evidence'[b] # "no"
      BY <1>2, <2>6, <3>3
    <3>6. \A q, r \in Periods : Taken(q, b)' /\ Taken(r, b)' => q = r
      BY <2>1, <2>3, <3>1 DEF AccountOf
    <3> QED  BY <2>3, <3>4, <3>5, <3>6
  <2>11. withdrawn' = {} /\ (known'[b] = "accepted" \/ evidence'[b] = "accepted") => Listed(b)'
    BY <1>2, <2>1, <2>2, <2>6 DEF AccountOf
  <2> QED  BY <2>7, <2>8, <2>9, <2>10, <2>11 DEF AccountOf
<1> QED  BY <1>4, <1>5 DEF AccountInOrder

LEMMA AccountStep ==
  ASSUME CustodyInOrder, Next
  PROVE  AccountInOrder' /\ NeverWithout'
<1>0. /\ TypeOK /\ MemoryInOrder /\ PeriodInOrder /\ JobInOrder /\ SyncInOrder /\ TextInOrder /\ AccountInOrder
      /\ NeverWithout /\ Onward
  BY OnwardStep DEF CustodyInOrder
<1>1. ASSUME Takes, Loses, UNCHANGED <<known, evidence, custody, dropped, delivered, discarded, withdrawn>>,
             job = "evidence" => job' = "evidence" /\ batch' = batch
      PROVE  AccountInOrder'
  BY <1>0, <1>1, QuietAccounts DEF Onward
<1>2. ASSUME UNCHANGED <<place, pages, receipts, known, evidence, custody, dropped, delivered, discarded, withdrawn>>,
             job = "evidence" => job' = "evidence" /\ batch' = batch
      PROVE  AccountInOrder'
  BY <1>1, <1>2, SameTextTakes
<1>3. ASSUME custody' \in {custody, "down", "opening", "open"}, withdrawn \subseteq withdrawn'
      PROVE  NeverWithout'
  BY <1>0, <1>3 DEF NeverWithout
<1>4. CASE \E b \in Batches : Duplicate(b)
  <2>1. custody' = custody
    BY <1>4 DEF Duplicate, memVars
  <2> QED  BY <1>0, <1>3, <1>4, <2>1, DuplicateAccounts DEF Onward
<1>5. CASE Discard \/ DiscardFails \/ DiscardDone
  <2>1. UNCHANGED <<place, pages, receipts, known, evidence, custody, dropped, delivered, discarded, withdrawn>>
    BY <1>5 DEF Discard, DiscardFails, DiscardDone, diskVars, memVars, ghostVars, wordVars
  <2>2. job # "evidence"
    BY <1>5 DEF Discard, DiscardFails, DiscardDone, Ready
  <2> QED  BY <1>0, <1>2, <1>3, <2>1, <2>2 DEF Onward
<1>6. CASE DiscardTombstone
  <2>1. custody' = custody
    BY <1>6 DEF DiscardTombstone
  <2> QED  BY <1>0, <1>3, <1>6, <2>1, DiscardAccounts DEF Onward
<1>7. CASE DiscardUnlink
  <2>1. Doomed \in Periods /\ IsRemoved(receipts[Doomed])
    BY <1>0, <1>7, DoomedIsOne DEF DiscardUnlink, JobInOrder, TypeOK
  <2>2. Clears(Doomed) /\ UNCHANGED <<known, evidence, custody, dropped, delivered, discarded, withdrawn>> /\ job # "evidence"
    BY <1>7, <2>1 DEF DiscardUnlink, Clears, memVars, ghostVars, wordVars
  <2>3. Takes /\ Loses
    BY <1>0, <2>1, <2>2, ClearsTakes
  <2> QED  BY <1>0, <1>1, <1>3, <2>2, <2>3 DEF Onward
<1>8. CASE DiscardRmdir
  <2> PICK p \in Periods : p = Doomed
    BY <1>0, <1>8, DoomedIsOne DEF DiscardRmdir, JobInOrder, TypeOK
  <2>1. pages[p] = <<>>
    BY <1>0, <1>8 DEF DiscardRmdir, JobInOrder
  <2>2. /\ place' = [place EXCEPT ![p] = "gone"] /\ receipts' = [receipts EXCEPT ![p] = <<>>] /\ pages' = pages
        /\ UNCHANGED <<known, evidence, custody, dropped, delivered, discarded, withdrawn>> /\ job # "evidence"
    BY <1>8 DEF DiscardRmdir, ghostVars, wordVars
  <2>3. pages' = [pages EXCEPT ![p] = <<>>]
    BY <1>0, <2>1, <2>2 DEF TypeOK
  <2>4. Drops(p)
    BY <2>1, <2>2, <2>3 DEF Drops
  <2>5. Takes /\ Loses
    BY <1>0, <2>4, DropsTakes
  <2> QED  BY <1>0, <1>1, <1>3, <2>2, <2>5 DEF Onward
<1>9. CASE \E p \in Periods : Reserve(p)
  <2>1. UNCHANGED <<place, pages, receipts, known, evidence, custody, dropped, delivered, discarded, withdrawn>>
    BY <1>9 DEF Reserve, diskVars, memVars, ghostVars, wordVars
  <2>2. job # "evidence"
    BY <1>9 DEF Reserve, Ready
  <2> QED  BY <1>0, <1>2, <1>3, <2>1, <2>2 DEF Onward
<1>10. CASE \E p \in Periods : FinishUnlink(p)
  <2>1. PICK p \in Periods : FinishUnlink(p)
    BY <1>10
  <2>2. UNCHANGED <<known, evidence, custody, dropped, delivered, discarded, withdrawn>> /\ custody = "opening"
    BY <2>1 DEF FinishUnlink, memVars, ghostVars, wordVars
  <2>3. job # "evidence" /\ known = evidence
    BY <1>0, <2>2 DEF MemoryInOrder
  <2>4. CASE pages[p] # <<>>
    <3>1. Tombstoned(p)
      BY <2>1, <2>4 DEF FinishUnlink, Shell
    <3>2. IsRemoved(receipts[p])
      BY <2>3, <3>1, TombstonedIs DEF IsRemoved
    <3>3. Clears(p)
      BY <2>1, <2>4, <3>2 DEF FinishUnlink, Clears
    <3>4. Takes /\ Loses
      BY <1>0, <3>3, ClearsTakes
    <3> QED  BY <1>0, <1>1, <1>3, <2>2, <2>3, <3>4 DEF Onward
  <2>5. CASE pages[p] = <<>>
    <3>1. place' = [place EXCEPT ![p] = "gone"] /\ receipts' = [receipts EXCEPT ![p] = <<>>] /\ pages' = pages
      BY <2>1, <2>5 DEF FinishUnlink
    <3>2. pages' = [pages EXCEPT ![p] = <<>>]
      BY <1>0, <2>5, <3>1 DEF TypeOK
    <3>3. Drops(p)
      BY <2>5, <3>1, <3>2 DEF Drops
    <3>4. Takes /\ Loses
      BY <1>0, <3>3, DropsTakes
    <3> QED  BY <1>0, <1>1, <1>3, <2>2, <2>3, <3>4 DEF Onward
  <2> QED  BY <2>4, <2>5
<1>11. CASE Stored
  <2>1. custody' = custody
    BY <1>11 DEF Stored, memVars
  <2> QED  BY <1>0, <1>3, <1>11, <2>1, StoredAccounts DEF Onward
<1>12. CASE SegmentRemoved
  <2>1. custody' = custody
    BY <1>12 DEF SegmentRemoved, memVars
  <2> QED  BY <1>0, <1>3, <1>12, <2>1, RemovedAccounts DEF Onward
<1>13. CASE PurgeReceipts
  <2>1. /\ segment \in Periods /\ place[segment] = "segment" /\ pages[segment] # <<>>
        /\ \A i \in DOMAIN pages[segment] : pages[segment][i] \in withdrawn
    BY <1>0, <1>13 DEF PurgeReceipts, SyncInOrder, TypeOK
  <2>2. /\ UNCHANGED <<place, pages>> /\ receipts' = [receipts EXCEPT ![segment] = <<>>]
        /\ UNCHANGED <<known, evidence, custody, dropped, delivered, discarded, withdrawn, job, batch>>
    BY <1>13 DEF PurgeReceipts, memVars, jobVars, ghostVars, wordVars
  <2>3. Takes /\ Loses
    BY <1>0, <2>1, <2>2, PurgeTakes
  <2> QED  BY <1>0, <1>1, <1>3, <2>2, <2>3 DEF Onward
<1>14. CASE PurgePages \/ Rmdir
  <2> PICK p \in Periods : p = segment
    BY <1>0, <1>14 DEF PurgePages, Rmdir, SyncInOrder, TypeOK
  <2>1. /\ place' = [place EXCEPT ![p] = "gone"]
        /\ \/ receipts[p] = <<>> /\ receipts' = receipts /\ pages' = [pages EXCEPT ![p] = <<>>]
           \/ pages[p] = <<>> /\ receipts' = [receipts EXCEPT ![p] = <<>>] /\ pages' = pages
        /\ UNCHANGED <<known, evidence, custody, dropped, delivered, discarded, withdrawn, job, batch>>
    BY <1>0, <1>14 DEF PurgePages, Rmdir, SyncInOrder, memVars, jobVars, ghostVars, wordVars
  <2>2. receipts' = [receipts EXCEPT ![p] = <<>>] /\ pages' = [pages EXCEPT ![p] = <<>>]
    BY <1>0, <2>1 DEF TypeOK
  <2>3. Drops(p)
    BY <2>1, <2>2 DEF Drops
  <2>4. Takes /\ Loses
    BY <1>0, <2>3, DropsTakes
  <2> QED  BY <1>0, <1>1, <1>3, <2>1, <2>4 DEF Onward
<1>15. CASE Confirm
  <2>1. custody' = custody
    BY <1>15 DEF Confirm
  <2> QED  BY <1>0, <1>3, <1>15, <2>1, ConfirmAccounts DEF Onward
<1>16. CASE Unlink
  <2>1. segment \in Periods /\ IsRemoved(receipts[segment])
    BY <1>0, <1>16 DEF Unlink, SyncInOrder, TypeOK
  <2>2. Clears(segment) /\ UNCHANGED <<known, evidence, custody, dropped, delivered, discarded, withdrawn, job, batch>>
    BY <1>16, <2>1 DEF Unlink, Clears, memVars, jobVars, ghostVars, wordVars
  <2>3. Takes /\ Loses
    BY <1>0, <2>1, <2>2, ClearsTakes
  <2> QED  BY <1>0, <1>1, <1>3, <2>2, <2>3 DEF Onward
<1>17. CASE SyncFails
  <2>1. UNCHANGED <<place, pages, receipts, known, evidence, custody, dropped, delivered, discarded, withdrawn, job, batch>>
    BY <1>17 DEF SyncFails, diskVars, memVars, jobVars, ghostVars, wordVars
  <2> QED  BY <1>0, <1>2, <1>3, <2>1 DEF Onward
<1>18. CASE Crash \/ LoadEvidence
  <2>1. custody' \in {"down", "opening"}
    BY <1>18 DEF Crash, LoadEvidence
  <2> QED  BY <1>0, <1>3, <1>18, <2>1, RestartAccounts DEF Onward
<1>19. CASE \E rotate \in BOOLEAN : Tick(rotate)
  <2>1. \E S, F : Cut(S, F)
    BY <1>0, <1>19, TickIs
  <2>2. UNCHANGED <<known, evidence, custody, dropped, delivered, discarded, withdrawn>> /\ job # "evidence"
    BY <1>19 DEF Tick, Ready, wordVars
  <2>3. Takes /\ Loses
    BY <1>0, <2>1, CutTakes
  <2> QED  BY <1>0, <1>1, <1>3, <2>2, <2>3 DEF Onward
<1>20. CASE \E b \in Batches : Accept(b)
  <2>1. (\E S, F : Cut(S, F)) \/ UNCHANGED <<place, pages, receipts>>
    BY <1>0, <1>20, AcceptIs
  <2>2. UNCHANGED <<known, evidence, custody, dropped, delivered, discarded, withdrawn>> /\ job # "evidence"
    BY <1>20 DEF Accept, Ready, wordVars
  <2>3. Takes /\ Loses
    BY <1>0, <2>1, CutTakes, SameTextTakes
  <2> QED  BY <1>0, <1>1, <1>3, <2>2, <2>3 DEF Onward
<1>21. CASE WritePages
  <2>1. UNCHANGED <<known, evidence, custody, dropped, delivered, discarded, withdrawn>> /\ job # "evidence"
    BY <1>21 DEF WritePages, memVars, ghostVars, wordVars
  <2>2. Takes /\ Loses
    BY <1>0, <1>21, WritePagesTakes
  <2> QED  BY <1>0, <1>1, <1>3, <2>1, <2>2 DEF Onward
<1>22. CASE WriteReceipt
  <2>1. UNCHANGED <<known, evidence, custody, dropped, delivered, discarded, withdrawn>> /\ job # "evidence"
    BY <1>22 DEF WriteReceipt
  <2>2. Takes /\ Loses
    BY <1>0, <1>22, WriteReceiptTakes
  <2> QED  BY <1>0, <1>1, <1>3, <2>1, <2>2 DEF Onward
<1>23. CASE WriteEvidence
  <2>1. custody' = custody
    BY <1>23 DEF WriteEvidence
  <2> QED  BY <1>0, <1>3, <1>23, <2>1, EvidenceAccounts DEF Onward
<1>24. CASE Recover
  BY <1>24, RecoverAccounts
<1> QED  BY <1>4, <1>5, <1>6, <1>7, <1>8, <1>9, <1>10, <1>11, <1>12, <1>13, <1>14, <1>15, <1>16, <1>17, <1>18,
            <1>19, <1>20, <1>21, <1>22, <1>23, <1>24 DEF Next, Reliable, Fallible

-----------------------------------------------------------------------------
(* What holds of every behaviour *)

LEMMA Stutters ==
  ASSUME CustodyInOrder, UNCHANGED vars
  PROVE  CustodyInOrder'
<1>0. /\ TypeOK /\ MemoryInOrder /\ PeriodInOrder /\ JobInOrder /\ SyncInOrder /\ TextInOrder /\ AccountInOrder
      /\ NeverWithout
  BY DEF CustodyInOrder
<1>1. /\ UNCHANGED <<place, pages, receipts, acked, evidence>>
      /\ UNCHANGED <<custody, known, period, committed, contexts, unfinished>>
      /\ UNCHANGED <<job, batch, todo, sync, segment, reserved>>
      /\ UNCHANGED <<dropped, delivered, discarded, withdrawn, unsynced, mixed, faults, removals>>
  BY DEF vars, diskVars, memVars, jobVars, syncVars, wordVars, ghostVars
<1>2. TypeOK'
  BY <1>0, <1>1 DEF TypeOK
<1>3. MemoryInOrder'
  BY <1>0, <1>1 DEF MemoryInOrder
<1>4. PeriodInOrder'
  BY <1>0, <1>1, QuietPeriod
<1>5. JobInOrder'
  BY <1>0, <1>1, QuietJob
<1>6. Onward
  BY <1>1 DEF Onward
<1>7. SyncInOrder'
  BY <1>0, <1>1, <1>6, QuietSync DEF syncVars
<1>8. TextInOrder'
  BY <1>0, <1>1, <1>6, SameTextIn DEF TextInOrder
<1>9. AccountInOrder'
  BY <1>0, <1>1, SameTextTakes, QuietAccounts
<1>10. NeverWithout'
  BY <1>0, <1>1 DEF NeverWithout
<1> QED  BY <1>2, <1>3, <1>4, <1>5, <1>7, <1>8, <1>9, <1>10 DEF CustodyInOrder

\* The files, the memory and the accounts of Custody stay in order, whatever
\* crashes and fails in between.
THEOREM CustodyKept == Spec => []CustodyInOrder
<1>1. CustodyInOrder /\ [Next]_vars => CustodyInOrder'
  <2>1. ASSUME CustodyInOrder, Next
        PROVE  CustodyInOrder'
    BY <2>1, TypeStep, MemoryStep, PeriodStep, JobStep, SyncStep, TextStep, AccountStep DEF CustodyInOrder
  <2> QED  BY <2>1, Stutters
<1> QED  BY <1>1, InitInOrder, PTL DEF Spec

\* The variables of Custody, the sync worker and the extension keep their types.
THEOREM TypeCorrect == Spec => []TypeOK
<1>1. CustodyInOrder => TypeOK
  BY DEF CustodyInOrder
<1> QED  BY <1>1, CustodyKept, PTL

\* A batch whose acceptance was answered (custody.rs accept) is on disk under its
\* receipt, in the journal, or removed on the owner's or the journal's word; the
\* text of a batch written over one whose receipt failed to sync is the exception
\* the model names.
THEOREM AnsweredKept == Spec => []AnsweredIsKept
<1>1. CustodyInOrder => AnsweredIsKept
  <2> SUFFICES ASSUME CustodyInOrder, NEW b \in dropped
               PROVE  \/ \E p \in Periods : Holds(p, b) \/ b \in delivered[p]
                      \/ b \in discarded \cup withdrawn \cup mixed
    BY DEF AnsweredIsKept
  <2>1. TypeOK /\ AccountInOrder /\ b \in Batches
    BY DEF CustodyInOrder, TypeOK
  <2>2. Accounted(b)
    BY <2>1 DEF AccountInOrder, AccountOf
  <2>3. \A p \in Periods : Holds(p, b) <=> Has(p, b)
    BY <2>1, HoldsIs
  <2> QED  BY <2>2, <2>3 DEF Accounted, Gone
<1> QED  BY <1>1, CustodyKept, PTL

\* No batch is in two periods, held or delivered, however often the extension
\* sends it and wherever the process died while it was taken in (custody.rs:
\* "nothing is taken in twice"), but for those whose identity could be lost.
THEOREM OnceTaken == Spec => []TakenInOnce
<1>1. CustodyInOrder => TakenInOnce
  <2> SUFFICES ASSUME CustodyInOrder, NEW b \in Batches \ Forgotten, NEW p \in Periods, NEW q \in Periods,
                      Holds(p, b) \/ b \in delivered[p], Holds(q, b) \/ b \in delivered[q]
               PROVE  p = q
    BY DEF TakenInOnce
  <2>1. TypeOK /\ AccountInOrder
    BY DEF CustodyInOrder
  <2>2. \A r \in Periods : Holds(r, b) <=> Has(r, b)
    BY <2>1, HoldsIs
  <2>3. Taken(p, b) /\ Taken(q, b)
    BY <2>2 DEF Taken
  <2> QED  BY <2>1, <2>3 DEF AccountInOrder, AccountOf
<1> QED  BY <1>1, CustodyKept, PTL

\* Custody::open succeeds after any crash unless the journal removed a segment,
\* and each change in a period that leaves finds its snapshot before it.
THEOREM PeriodsReadable == Spec => []PeriodsCanBeRead
<1>1. CustodyInOrder => PeriodsCanBeRead
  <2> SUFFICES ASSUME CustodyInOrder
               PROVE  PeriodsCanBeRead
    OBVIOUS
  <2>1. OpenSucceeds
    BY DEF CustodyInOrder, NeverWithout, OpenSucceeds
  <2>2. ASSUME NEW p \in Periods, NEW i \in DOMAIN pages[p]
        PROVE  Context[pages[p][i]] \in SnapshotsOf(SubSeq(pages[p], 1, i))
    <3>1. TypeOK /\ TextIn(p)
      BY DEF CustodyInOrder, TextInOrder
    <3>2. PICK j \in 1..i : pages[p][j] \in Snapshots /\ Context[pages[p][j]] = Context[pages[p][i]]
      BY <3>1 DEF TextIn
    <3> DEFINE s == SubSeq(pages[p], 1, i)
    <3>3. pages[p] \in Seq(Batches) /\ i \in 1..Len(pages[p]) /\ Len(pages[p]) \in Nat
      BY <3>1, NamedNumbers
    <3>4. DOMAIN s = 1..i /\ s[j] = pages[p][j]
      BY <3>2, <3>3
    <3> HIDE DEF s
    <3>5. pages[p][j] \in Content(s)
      BY <3>4 DEF Content
    <3>6. Context[pages[p][i]] \in SnapshotsOf(s)
      BY <3>2, <3>5 DEF SnapshotsOf
    <3> QED  BY <3>6 DEF s
  <2>3. ChangesHaveSnapshots
    BY <2>2 DEF ChangesHaveSnapshots
  <2> QED  BY <2>1, <2>3 DEF PeriodsCanBeRead
<1> QED  BY <1>1, CustodyKept, PTL

\* No step delivers a batch its owner discarded before it (custody.rs
\* discard_pending), but for one in two periods, of which one was on its way when
\* the other was discarded.
THEOREM DiscardFinal == Spec => DiscardIsFinal
<1>1. ASSUME CustodyInOrder, [Next]_vars
      PROVE  [\A p \in Periods : (delivered'[p] \ delivered[p]) \cap discarded \subseteq Forgotten]_vars
  <2>0. TypeOK /\ MemoryInOrder /\ SyncInOrder /\ TextInOrder /\ AccountInOrder
    BY <1>1 DEF CustodyInOrder
  <2>1. CASE delivered' = delivered
    BY <2>1
  <2>2. CASE Stored
    <3> PICK s \in Periods : s = segment
      BY <2>0, <2>2, StoredIs
    <3> SUFFICES ASSUME NEW b \in delivered'[s] \ delivered[s], b \in discarded, b \notin Forgotten
                 PROVE  FALSE
      BY <2>0, <2>2, StoredIs
    <3>1. PICK i \in DOMAIN pages[s] : pages[s][i] = b
      BY <2>0, <2>2, StoredIs
    <3>2. b \in Batches /\ place[s] = "segment" /\ TextIn(s)
      BY <2>0, <2>2, StoredIs DEF TypeOK, TextInOrder
    <3>3. i \in DOMAIN receipts[s] /\ receipts[s][i] = b
      BY <3>1, <3>2 DEF TextIn, Forgotten
    <3>4. known[b] # "removed"
      BY <2>0, <2>2, <3>3 DEF SyncInOrder, Stored
    <3>5. evidence[b] = "removed"
      BY <2>0, <3>2 DEF AccountInOrder, AccountOf
    <3>6. custody = "open"
      BY <2>0, <2>2 DEF MemoryInOrder, Stored
    <3> QED  BY <2>0, <3>2, <3>4, <3>5, <3>6 DEF MemoryInOrder
  <2>3. CASE Next /\ ~Stored
    <3>1. delivered' = delivered
      <4>1. CASE \E b \in Batches : Duplicate(b) \/ Accept(b)
        BY <4>1 DEF Duplicate, Accept, wordVars
      <4>2. CASE \/ Discard \/ DiscardTombstone \/ DiscardUnlink \/ DiscardRmdir \/ DiscardDone \/ DiscardFails
        BY <4>2
           DEF Discard, DiscardTombstone, DiscardUnlink, DiscardRmdir, DiscardDone, DiscardFails, ghostVars, wordVars
      <4>3. CASE \E p \in Periods : Reserve(p) \/ FinishUnlink(p)
        BY <4>3 DEF Reserve, FinishUnlink, ghostVars, wordVars
      <4>4. CASE PurgeReceipts \/ PurgePages \/ Confirm \/ Unlink \/ Rmdir \/ SyncFails \/ SegmentRemoved
        BY <4>4 DEF PurgeReceipts, PurgePages, Confirm, Unlink, Rmdir, SyncFails, SegmentRemoved, ghostVars, wordVars
      <4>5. CASE Crash \/ LoadEvidence \/ Recover \/ \E rotate \in BOOLEAN : Tick(rotate)
        BY <4>5 DEF Crash, LoadEvidence, Recover, Tick, ghostVars, wordVars
      <4>6. CASE WritePages \/ WriteReceipt \/ WriteEvidence
        BY <4>6 DEF WritePages, WriteReceipt, WriteEvidence, ghostVars, wordVars
      <4> QED  BY <2>3, <4>1, <4>2, <4>3, <4>4, <4>5, <4>6 DEF Next, Reliable, Fallible
    <3> QED  BY <2>1, <3>1
  <2>4. CASE UNCHANGED vars
    BY <2>4
  <2> QED  BY <1>1, <2>2, <2>3, <2>4
<1> QED  BY <1>1, CustodyKept, PTL DEF Spec, DiscardIsFinal
=============================================================================
