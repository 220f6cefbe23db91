---------------------------- MODULE Transparency ----------------------------
(***************************************************************************)
(* The transparency chain of the releases: a publisher per machine (a      *)
(* checkout with its own staging directory and head log) writes signed     *)
(* entries to one object store and moves the signed pointer latest.json;   *)
(* a renewal signs the pointer again.                                      *)
(*                                                                         *)
(* An entry holds the digest of the one before, so an entry is written     *)
(* here as the sequence of all it commits to: its seq is its length, its   *)
(* prev_sha256 is Previous.  A ledger whose lines chain is its last line.  *)
(* A signature is the value it signs.  Keys, canonical bytes and           *)
(* transports are left out: a request is answered, or the job stops        *)
(* (Stop).                                                                 *)
(***************************************************************************)
EXTENDS Naturals, Sequences, FiniteSets

CONSTANTS Machines,   \* publishers: the candidate of another one is another architecture's
          Versions,
          Nil,
          MaxStamp,   \* bound: seconds the clock may show
          MaxJobs     \* bound: commands started

VARIABLES tclock,     \* transparency_now
          store,      \* the object store
          archived,   \* what the archive channel gave a receipt for
          staging,    \* [Machines -> [Versions -> what .transparency-staging holds]]
          head,       \* transparency-head-log.jsonl of each checkout
          committed,  \* what git show HEAD:transparency-head-log.jsonl gives
          job,        \* the command each machine runs
          jobs        \* commands started
tvars == <<tclock, store, archived, staging, head, committed, job, jobs>>

Last1(e) == e[Len(e)]
Previous(e) == SubSeq(e, 1, Len(e) - 1)
Row == [ver: Versions, who: Machines, stamp: 1..MaxStamp]
\* Every prefix of an entry is an entry.
Parts(e) == {SubSeq(e, 1, i) : i \in 1..Len(e)}

NoStage == [entry |-> Nil, esig |-> Nil, pointer |-> Nil, psig |-> Nil]
Idle == [kind |-> "none", pc |-> "idle", ver |-> Nil, seen |-> Nil, want |-> Nil, result |-> "none"]

Init ==
  /\ tclock = 1
  /\ store = [entry |-> [v \in Versions |-> Nil], esig |-> [v \in Versions |-> Nil],
              objs |-> [v \in Versions |-> {}], ledger |-> Nil, pointer |-> Nil, psig |-> Nil]
  /\ archived = {} /\ jobs = 0
  /\ staging = [m \in Machines |-> [v \in Versions |-> NoStage]]
  /\ head = [m \in Machines |-> {}] /\ committed = head
  /\ job = [m \in Machines |-> Idle]

Tick == /\ tclock < MaxStamp /\ tclock' = tclock + 1
        /\ UNCHANGED <<store, archived, staging, head, committed, job, jobs>>

Go(m, pc) == job' = [job EXCEPT ![m].pc = pc]
End(m, r) == job' = [job EXCEPT ![m] = [Idle EXCEPT !.result = r, !.kind = @]]
Local == UNCHANGED <<tclock, store, archived, head, committed, jobs>>
Remote == UNCHANGED <<tclock, staging, head, committed, jobs>>

\* The operator commits the head log: git add && git commit.
CommitHead(m) == /\ committed[m] # head[m]
                 /\ committed' = [committed EXCEPT ![m] = head[m]]
                 /\ UNCHANGED <<tclock, store, archived, staging, head, job, jobs>>

\* publish_transparency is refused while the last row is not committed.
PublishStarts(m, v) ==
  /\ job[m].pc = "idle" /\ jobs < MaxJobs /\ committed[m] = head[m]
  /\ jobs' = jobs + 1
  /\ job' = [job EXCEPT ![m] = [Idle EXCEPT !.kind = "publish", !.pc = "pointer", !.ver = v]]
  /\ UNCHANGED <<tclock, store, archived, staging, head, committed>>

ResignStarts(m) ==
  /\ job[m].pc = "idle" /\ jobs < MaxJobs
  /\ jobs' = jobs + 1
  /\ job' = [job EXCEPT ![m] = [Idle EXCEPT !.kind = "resign", !.pc = "pointer"]]
  /\ UNCHANGED <<tclock, store, archived, staging, head, committed>>

\* highest_head_seq
HighestHead(m) == IF head[m] = {} THEN 0
                  ELSE CHOOSE n \in {Len(e) : e \in head[m]} : \A e \in head[m] : Len(e) <= n
\* s3_list_is_empty of the prefix v/
NothingListed == \A v \in Versions :
                    store.entry[v] = Nil /\ store.esig[v] = Nil /\ store.objs[v] = {}

\* fetch_verified_chain, first half: the pointer, or the approval of a genesis.
FetchPointer(m) ==
  /\ job[m].pc = "pointer"
  /\ IF store.pointer # Nil
     THEN job' = [job EXCEPT ![m].pc = "chain", ![m].seen = store.pointer]
     ELSE IF job[m].kind = "publish" /\ NothingListed /\ HighestHead(m) = 0
          THEN Go(m, "prepare")
          ELSE End(m, "terminal")
  /\ UNCHANGED <<staging, archived>> /\ Local

\* Each locked entry down to genesis is there and signed.
Locked(tip) == \A e \in Parts(tip) : /\ store.entry[Last1(e).ver] = e
                                     /\ store.esig[Last1(e).ver] = e
\* validate_transparency_ledger with the locked tip and, where the ledger is not the
\* chain itself, reject_locked_ledger_contradiction with what is rederived.
LedgerAgrees(tip) == \/ store.ledger \in {Nil, tip}
                     \/ /\ Locked(tip)
                        /\ \/ store.ledger \in Parts(tip) \/ tip \in Parts(store.ledger)
\* fetch_verified_chain, second half: signature, tip, head log and ledger.
ChainVerifies(m, pointer) ==
  /\ store.psig = pointer
  /\ store.entry[pointer.ver] = pointer.tip /\ store.esig[pointer.ver] = pointer.tip
  /\ Len(pointer.tip) >= HighestHead(m)
  /\ LedgerAgrees(pointer.tip)
FetchRest(m) ==
  /\ job[m].pc = "chain"
  /\ IF ChainVerifies(m, job[m].seen)
     THEN Go(m, IF job[m].kind = "publish" THEN "prepare" ELSE "renew")
     ELSE End(m, "terminal")
  /\ UNCHANGED staging /\ Local

Tip(m) == IF job[m].seen = Nil THEN <<>> ELSE job[m].seen.tip
Stage(m) == staging[m][job[m].ver]
SetStage(m, s) == staging' = [staging EXCEPT ![m][job[m].ver] = s]

\* build_pointer: the pointer is signed in the name of the second the entry was built.
PointerOf(e) == [tip |-> e, ver |-> Last1(e).ver, signed |-> Last1(e).stamp]

\* The version was probed and is in the store, and is not the tip: it is recorded in
\* the chain with this candidate's evidence, and nothing is left to do, or it is burnt.
Recorded(m) == /\ job[m].seen # Nil /\ Last1(Tip(m)).ver # job[m].ver
               /\ \/ store.entry[job[m].ver] # Nil \/ store.esig[job[m].ver] # Nil
Historical(m) == LET e == store.entry[job[m].ver] IN
                 /\ e # Nil /\ store.esig[job[m].ver] = e
                 /\ e \in Parts(Tip(m)) /\ Last1(e).who = m
PrepareRecorded(m) ==
  /\ job[m].pc = "prepare" /\ Recorded(m)
  /\ IF Historical(m)
     THEN /\ SetStage(m, [entry |-> store.entry[job[m].ver], esig |-> store.entry[job[m].ver],
                          pointer |-> Nil, psig |-> Nil])
          /\ End(m, "already")
     ELSE End(m, "terminal") /\ UNCHANGED staging
  /\ Local

EntryComplete(s) == s.entry # Nil /\ s.esig # Nil
PointerComplete(s) == s.pointer # Nil /\ s.psig # Nil

\* prepare_publication with a staged and signed entry: it is the tip already, or it must
\* follow the tip; a staged pointer must be its own.
PrepareStaged(m) ==
  LET s == Stage(m) IN
  /\ job[m].pc = "prepare" /\ ~Recorded(m) /\ EntryComplete(s)
  /\ \/ /\ s.entry # Tip(m) /\ Previous(s.entry) # Tip(m)
        /\ End(m, "terminal") /\ UNCHANGED staging
     \/ /\ s.entry = Tip(m) \/ Previous(s.entry) = Tip(m)
        /\ PointerComplete(s) /\ s.pointer.tip # s.entry
        /\ End(m, "terminal") /\ UNCHANGED staging
     \/ /\ s.entry = Tip(m) \/ Previous(s.entry) = Tip(m)
        /\ PointerComplete(s) => s.pointer.tip = s.entry
        /\ IF PointerComplete(s) THEN UNCHANGED staging
           ELSE SetStage(m, [s EXCEPT !.pointer = PointerOf(s.entry), !.psig = Nil])
        /\ Go(m, "sign")
  /\ Local

\* build_entry: the next of the verified chain, stamped now, later than the tip.
Built(m) == Append(Tip(m), [ver |-> job[m].ver, who |-> m, stamp |-> tclock])
PrepareFresh(m) ==
  LET s == Stage(m) IN
  /\ job[m].pc = "prepare" /\ ~Recorded(m) /\ ~EntryComplete(s)
  /\ IF Tip(m) # <<>> /\ Last1(Tip(m)).stamp >= tclock
     THEN End(m, "retryable") /\ UNCHANGED staging
     ELSE IF PointerComplete(s)
     THEN \* what an interrupted adoption left: the pointer of another entry
          /\ SetStage(m, [s EXCEPT !.entry = Built(m)])
          /\ End(m, "terminal")
     ELSE /\ SetStage(m, [entry |-> Built(m), esig |-> Nil,
                          pointer |-> PointerOf(Built(m)), psig |-> Nil])
          /\ Go(m, "sign")
  /\ Local

\* prepare_publication signs the entry, then the pointer, each a file of its own.
Sign(m) ==
  LET s == Stage(m) IN
  /\ job[m].pc = "sign"
  /\ \/ s.esig = Nil /\ SetStage(m, [s EXCEPT !.esig = s.entry]) /\ UNCHANGED job
     \/ s.esig # Nil /\ s.psig = Nil /\ SetStage(m, [s EXCEPT !.psig = s.pointer]) /\ UNCHANGED job
     \/ /\ s.esig # Nil /\ s.psig # Nil /\ UNCHANGED staging
        /\ IF s.entry = Tip(m) THEN End(m, "already") ELSE Go(m, "preflight")
  /\ Local

\* verify_adoptable_remote_entry: another signed entry for this place and this evidence.
Adoptable(m) == LET e == store.entry[job[m].ver] IN
                /\ Previous(e) = Tip(m) /\ Last1(e).who = m /\ store.esig[job[m].ver] = e
                /\ Tip(m) # <<>> => Last1(e).stamp > Last1(Tip(m)).stamp
\* upload_publication, preflight of the immutable objects.
PreflightClean(m) ==
  LET v == job[m].ver IN
  /\ job[m].pc = "preflight"
  /\ store.entry[v] \in {Nil, Stage(m).entry} /\ store.esig[v] \in {Nil, Stage(m).entry}
  /\ Go(m, "archive")
  /\ UNCHANGED staging /\ Local
PreflightTaken(m) ==
  LET v == job[m].ver IN
  /\ job[m].pc = "preflight" /\ store.entry[v] \notin {Nil, Stage(m).entry}
  /\ IF Adoptable(m) THEN Go(m, "adopt") ELSE End(m, "terminal")
  /\ UNCHANGED staging /\ Local

\* persist_adopted_entry: the old signature goes, the pair is renamed in, and the
\* pointer of the old entry is removed; then the job asks for a retry.
AdoptDropsSignature(m) ==
  /\ job[m].pc = "adopt"
  /\ SetStage(m, [Stage(m) EXCEPT !.esig = Nil]) /\ Go(m, "adopt2") /\ Local
AdoptRenames(m) ==
  LET e == store.entry[job[m].ver] IN
  /\ job[m].pc = "adopt2"
  /\ SetStage(m, [Stage(m) EXCEPT !.entry = e, !.esig = e]) /\ Go(m, "adopt3") /\ Local
AdoptDropsPointer(m) ==
  /\ job[m].pc = "adopt3"
  /\ SetStage(m, [Stage(m) EXCEPT !.pointer = Nil, !.psig = Nil]) /\ End(m, "retryable") /\ Local

\* The archive takes the staging directory and answers with its digest.
Archive(m) == /\ job[m].pc = "archive"
              /\ archived' = archived \cup {Stage(m).entry}
              /\ Go(m, "entry") /\ UNCHANGED store /\ Remote

\* put_create_only: 412 when the key is there.  What came in between is adopted once it
\* is a signed pair, or else the job stops.
Raced(m) == IF store.esig[job[m].ver] = Nil THEN End(m, "retryable")
            ELSE IF Adoptable(m) THEN Go(m, "adopt") ELSE End(m, "terminal")
PutEntry(m) ==
  LET v == job[m].ver IN
  /\ job[m].pc = "entry"
  /\ IF store.entry[v] \in {Nil, Stage(m).entry}
     THEN store' = [store EXCEPT !.entry[v] = Stage(m).entry] /\ Go(m, "esig")
     ELSE Raced(m) /\ UNCHANGED store
  /\ UNCHANGED archived /\ Remote
\* Mutant of PutEntrySignature: the evidence is taken to be there already.
PutEntrySignatureLast(m) ==
  /\ job[m].pc = "esig"
  /\ store' = [store EXCEPT !.esig[job[m].ver] = Stage(m).esig] /\ Go(m, "ledger")
  /\ UNCHANGED archived /\ Remote
PutEntrySignature(m) ==
  LET v == job[m].ver IN
  /\ job[m].pc = "esig"
  /\ store' = [store EXCEPT !.esig[v] = Stage(m).esig] /\ Go(m, "objs")
  /\ UNCHANGED archived /\ Remote
\* The manifest and the proofs, whose names are of this architecture; then every
\* object is read back from the public surface.
PutEvidence(m) ==
  /\ job[m].pc = "objs"
  /\ store' = [store EXCEPT !.objs[job[m].ver] = @ \cup {m}] /\ Go(m, "ledger")
  /\ UNCHANGED archived /\ Remote

\* The pointer is read again; then the ledger is written over the old one.
PutLedger(m) ==
  /\ job[m].pc = "ledger"
  /\ IF store.pointer = job[m].seen
     THEN store' = [store EXCEPT !.ledger = Stage(m).entry] /\ Go(m, "psig")
     ELSE End(m, "retryable") /\ UNCHANGED store
  /\ UNCHANGED archived /\ Remote

\* resign_transparency_pointer: renew_pointer, signed now for the same tip.
Renew(m) ==
  /\ job[m].pc = "renew"
  /\ IF store.pointer = job[m].seen
     THEN job' = [job EXCEPT ![m].pc = "psig", ![m].want = [job[m].seen EXCEPT !.signed = tclock]]
     ELSE End(m, "retryable")
  /\ UNCHANGED staging /\ Local

\* The pointer a job is about to write.
Wanted(m) == IF job[m].kind = "publish" THEN Stage(m).pointer ELSE job[m].want
\* The ledger is read back, then the signature of the pointer is put before the pointer.
PutPointerSignature(m) ==
  /\ job[m].pc = "psig"
  /\ IF job[m].kind = "publish" /\ store.ledger # Stage(m).entry
     THEN End(m, "retryable") /\ UNCHANGED store
     ELSE store' = [store EXCEPT !.psig = Wanted(m)] /\ Go(m, "put")
  /\ UNCHANGED archived /\ Remote
\* Mutant of PutPointer: a put without If-Match.
PutPointerOver(m) ==
  /\ job[m].pc = "put"
  /\ IF store.psig = Wanted(m)
     THEN store' = [store EXCEPT !.pointer = Wanted(m)] /\ Go(m, "final")
     ELSE End(m, "retryable") /\ UNCHANGED store
  /\ UNCHANGED archived /\ Remote
\* Mutant of PutPointer: a put refused with 412 counts as made.
PutPointerRefused(m) ==
  /\ job[m].pc = "put"
  /\ IF store.psig = Wanted(m) /\ store.pointer = job[m].seen
     THEN store' = [store EXCEPT !.pointer = Wanted(m)] /\ Go(m, "final")
     ELSE Go(m, IF job[m].kind = "publish" THEN "head" ELSE "final") /\ UNCHANGED store
  /\ UNCHANGED archived /\ Remote
\* The signature is read back; put_conditional (If-Match) or, at genesis,
\* put_create_only: the pointer moves only from the one that was verified.
PutPointer(m) ==
  /\ job[m].pc = "put"
  /\ IF store.psig = Wanted(m) /\ store.pointer = job[m].seen
     THEN store' = [store EXCEPT !.pointer = Wanted(m)] /\ Go(m, "final")
     ELSE End(m, "retryable") /\ UNCHANGED store
  /\ UNCHANGED archived /\ Remote
\* Pointer and signature are read once more.
FinalCheck(m) ==
  /\ job[m].pc = "final"
  /\ IF store.pointer = Wanted(m) /\ store.psig = Wanted(m)
     THEN IF job[m].kind = "publish" THEN Go(m, "head") ELSE End(m, "done")
     ELSE End(m, "retryable")
  /\ UNCHANGED <<archived, store>> /\ Remote
\* append_head_row: a row of this seq with another digest is a fork.
AppendHead(m) ==
  LET e == Stage(m).entry IN
  /\ job[m].pc = "head"
  /\ IF \E r \in head[m] : Len(r) = Len(e) /\ r # e
     THEN End(m, "terminal") /\ UNCHANGED head
     ELSE head' = [head EXCEPT ![m] = @ \cup {e}] /\ End(m, "done")
  /\ UNCHANGED <<tclock, store, archived, staging, committed, jobs>>

\* The machine stops, a request fails or its answer is lost: staging stays as it is.
Stop(m) == /\ job[m].pc # "idle" /\ End(m, "retryable")
           /\ UNCHANGED <<tclock, store, archived, staging, head, committed, jobs>>
\* The repair the messages name: discard the staging directory.
DiscardStage(m, v) ==
  /\ job[m].pc = "idle" /\ job[m].result = "terminal" /\ staging[m][v] # NoStage
  /\ staging' = [staging EXCEPT ![m][v] = NoStage]
  /\ UNCHANGED <<tclock, store, archived, head, committed, job, jobs>>

Next ==
  \/ Tick
  \/ \E m \in Machines :
       \/ CommitHead(m) \/ ResignStarts(m)
       \/ \E v \in Versions : PublishStarts(m, v) \/ DiscardStage(m, v)
       \/ FetchPointer(m) \/ FetchRest(m)
       \/ PrepareRecorded(m) \/ PrepareStaged(m) \/ PrepareFresh(m) \/ Sign(m)
       \/ PreflightClean(m) \/ PreflightTaken(m)
       \/ AdoptDropsSignature(m) \/ AdoptRenames(m) \/ AdoptDropsPointer(m)
       \/ Archive(m) \/ PutEntry(m) \/ PutEntrySignature(m) \/ PutEvidence(m)
       \/ PutLedger(m) \/ Renew(m) \/ PutPointerSignature(m) \/ PutPointer(m)
       \/ FinalCheck(m) \/ AppendHead(m) \/ Stop(m)
Spec == Init /\ [][Next]_tvars

-----------------------------------------------------------------------------
\* Types: entries are chains of rows, signatures and pointers are of entries.
Entries == {e \in Seq(Row) : Len(e) >= 1}
Pointers == {p \in [tip: Entries, ver: Versions, signed: 1..MaxStamp] : p.ver = Last1(p.tip).ver}
TypeOK ==
  /\ tclock \in 1..MaxStamp /\ jobs \in 0..MaxJobs
  /\ \A v \in Versions : /\ {store.entry[v], store.esig[v]} \subseteq Entries \cup {Nil}
                         /\ store.objs[v] \subseteq Machines
  /\ {store.pointer, store.psig} \subseteq Pointers \cup {Nil}
  /\ \A m \in Machines : /\ committed[m] \subseteq head[m]
                         /\ job[m].result \in {"none", "already", "done", "retryable", "terminal"}

\* Whatever the pointer names can be audited back to genesis: every entry of the chain is
\* stored with its signature, its evidence is there and the archive has its bytes
\* (upload_publication writes the pointer last).
PointerIsBacked ==
  store.pointer # Nil =>
    /\ Locked(store.pointer.tip)
    /\ \A e \in Parts(store.pointer.tip) :
         e \in archived /\ Last1(e).who \in store.objs[Last1(e).ver]

\* The published chain is append only: each move of the pointer renews the tip or adds one
\* entry to it, whatever publishers and renewals race (the conditional PUT of upload_publication).
ChainGrows ==
  store'.pointer # store.pointer =>
    /\ store'.pointer # Nil
    /\ store.pointer # Nil =>
         \/ store'.pointer.tip = store.pointer.tip
         \/ Previous(store'.pointer.tip) = store.pointer.tip

\* The head log of a checkout is a witness: each of its rows is an entry of the published
\* chain, so that the rollback check never refuses the true chain.
WitnessIsPublished ==
  \A m \in Machines : \A e \in head[m] :
     store.pointer # Nil /\ e \in Parts(store.pointer.tip)
=============================================================================
