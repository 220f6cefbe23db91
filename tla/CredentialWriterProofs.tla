----------------------- MODULE CredentialWriterProofs -----------------------
(***************************************************************************)
(* No call of a replaced owner writes over the new pairing's credential,   *)
(* for any number of tokens, passes and failures.  The argument: once the  *)
(* writer is fenced it stays so and no call takes the credential; the      *)
(* fence comes before everything else of the replacement; and the drain    *)
(* waits for the call that held the credential when the fence came.        *)
(***************************************************************************)
EXTENDS CredentialWriter, TLAPS

\* The writer is a record with a fence: all that the argument needs of its type.
HasFence == w = [field \in DOMAIN w |-> w[field]] /\ "fenced" \in DOMAIN w

\* The writer is fenced for good before anything of the replacement.
FencedFirst == owner # "running" => w.fenced

\* After the drain nobody holds the credential.
NoLateCall == owner \in {"drained", "replaced"} => op = Free

IInv == HasFence /\ FencedFirst /\ NoLateCall /\ ReplacementStands

\* What a step of a call or a dial leaves as it was.
FenceStays == HasFence' /\ (w.fenced => w'.fenced)
FileStays == UNCHANGED <<disk, after>>

LEMMA InitIInv == Init => IInv
<1> SUFFICES ASSUME Init  PROVE IInv
  OBVIOUS
<1>1. owner = "running"
  BY DEF Init
<1>2. HasFence
  BY DEF Init, HasFence
<1> QED
  BY <1>1, <1>2 DEF IInv, FencedFirst, NoLateCall, ReplacementStands

\* A step that is none of the replacement keeps the argument standing.
LEMMA Harmless ==
  ASSUME IInv, FenceStays, UNCHANGED owner,
         op = Free => op' = Free \/ ~w.fenced,
         op = Free => FileStays
  PROVE  IInv'
<1>1. CASE owner = "running"
  BY <1>1 DEF FenceStays, IInv, FencedFirst, NoLateCall, ReplacementStands
<1>2. CASE owner # "running"
  <2>1. w.fenced /\ w'.fenced
    BY <1>2 DEF FenceStays, IInv, FencedFirst
  <2>2. owner \in {"drained", "replaced"} => op = Free /\ op' = Free
    BY <2>1 DEF IInv, NoLateCall
  <2>3. ReplacementStands'
    BY <2>2 DEF IInv, ReplacementStands, FileStays
  <2> QED  BY <2>1, <2>2, <2>3 DEF FenceStays, IInv, FencedFirst, NoLateCall
<1> QED  BY <1>1, <1>2

\* A call can only begin while the writer is not fenced.
LEMMA BeginStep ==
  ASSUME HasFence, BeginRefresh \/ BeginRelay \/ BeginClear \/ BeginEndpoints \/ BeginRetry
  PROVE  FenceStays /\ FileStays /\ UNCHANGED owner /\ (op' = op \/ ~w.fenced)
<1>1. CASE BeginRefresh
  BY <1>1 DEF BeginRefresh, HookIsStale, FenceStays, FileStays, HasFence
<1>2. CASE BeginRelay
  BY <1>2 DEF BeginRelay, AnswerIsFresh, FenceStays, FileStays, HasFence
<1>3. CASE BeginClear
  <2>1. HasFence'
    BY <1>3 DEF BeginClear, HasFence
  <2> QED  BY <1>3, <2>1 DEF BeginClear, AnswerIsFresh, FenceStays, FileStays
<1>4. CASE BeginEndpoints
  BY <1>4 DEF BeginEndpoints, FenceStays, FileStays, HasFence
<1>5. CASE BeginRetry
  BY <1>5 DEF BeginRetry, FenceStays, FileStays, HasFence
<1> QED  BY <1>1, <1>2, <1>3, <1>4, <1>5

\* The settling of a call keeps the fence, whatever became of its write.
LEMMA FinishStep ==
  ASSUME HasFence, Finish
  PROVE  FenceStays /\ UNCHANGED owner /\ op # Free
<1>1. CASE FinishRefresh
  BY <1>1 DEF FinishRefresh, FenceStays, HasFence
<1>2. CASE FinishRelay
  <2>1. HasFence'
    BY <1>2 DEF FinishRelay, Activated, HasFence
  <2> QED  BY <1>2, <2>1 DEF FinishRelay, FenceStays, HasFence
<1>3. CASE FinishClear
  BY <1>3 DEF FinishClear, FenceStays, HasFence
<1>4. CASE FinishEndpoints
  <2>1. HasFence'
    BY <1>4 DEF FinishEndpoints, HasFence
  <2> QED  BY <1>4, <2>1 DEF FinishEndpoints, FenceStays, HasFence
<1>5. CASE FinishRetryClear
  BY <1>5 DEF FinishRetryClear, FenceStays, HasFence
<1>6. CASE FinishRetryReady
  <2>1. HasFence'
    BY <1>6 DEF FinishRetryReady, Activated, HasFence
  <2> QED  BY <1>6, <2>1 DEF FinishRetryReady, FenceStays, HasFence
<1> QED  BY <1>1, <1>2, <1>3, <1>4, <1>5, <1>6 DEF Finish

\* The file is written only by a call, and looked at only by one.
LEMMA WriteStep ==
  ASSUME HasFence, LastLook \/ Rename
  PROVE  FenceStays /\ UNCHANGED owner /\ op # Free
BY DEF LastLook, Rename, FenceStays, HasFence

\* Passes, dials and the tokens' time leave the writer and the file alone.
LEMMA OtherStep ==
  ASSUME HasFence,
         \/ StartPass \/ Ask \/ Answer \/ LoseLease \/ Expire
         \/ DialStart \/ DialRefreshes \/ DialEnds \/ DialFails
  PROVE  FenceStays /\ FileStays /\ UNCHANGED owner /\ (op = Free => op' = Free)
BY Zenon DEF StartPass, Ask, Answer, LoseLease, Expire, DialStart, DialRefreshes, DialEnds, DialFails,
   Still, StillDial, Quiet, FenceStays, FileStays, HasFence

LEMMA NextIInv == IInv /\ [Next]_vars => IInv'
<1> SUFFICES ASSUME IInv, [Next]_vars  PROVE IInv'
  OBVIOUS
<1>h. HasFence
  BY DEF IInv
<1>1. CASE BeginRefresh \/ BeginRelay \/ BeginClear \/ BeginEndpoints \/ BeginRetry
  BY <1>1, <1>h, BeginStep, Harmless
<1>2. CASE Finish
  BY <1>2, <1>h, FinishStep, Harmless
<1>3. CASE LastLook \/ Rename
  BY <1>3, <1>h, WriteStep, Harmless
<1>4. CASE \/ StartPass \/ Ask \/ Answer \/ LoseLease \/ Expire
           \/ DialStart \/ DialRefreshes \/ DialEnds \/ DialFails
  BY <1>4, <1>h, OtherStep, Harmless
<1>5. CASE FenceWriter
  <2>1. HasFence' /\ w'.fenced /\ owner' = "fenced"
    BY <1>5, <1>h DEF FenceWriter, HasFence
  <2> QED  BY <2>1 DEF IInv, FencedFirst, NoLateCall, ReplacementStands
<1>6. CASE Retire
  <2>1. owner = "fenced" /\ owner' = "retired"
    BY <1>6 DEF Retire
  <2>2. HasFence' /\ w'.fenced
    BY <1>6, <1>h, <2>1 DEF Retire, HasFence, IInv, FencedFirst
  <2> QED  BY <2>1, <2>2 DEF IInv, FencedFirst, NoLateCall, ReplacementStands
<1>7. CASE Drain
  BY <1>7 DEF Drain, IInv, HasFence, FencedFirst, NoLateCall, ReplacementStands
<1>8. CASE Replace
  <2>1. PICK eps \in Endpoints : disk' = [pairing |-> "new", token |-> None, eps |-> eps]
    BY <1>8 DEF Replace
  <2>2. disk'.pairing = "new" /\ after' = {disk'}
    BY <1>8, <2>1 DEF Replace
  <2> QED  BY <1>8, <2>2 DEF Replace, IInv, HasFence, FencedFirst, NoLateCall, ReplacementStands
<1>9. CASE UNCHANGED vars
  BY <1>9 DEF vars, IInv, HasFence, FencedFirst, NoLateCall, ReplacementStands
<1> QED
  BY <1>1, <1>2, <1>3, <1>4, <1>5, <1>6, <1>7, <1>8, <1>9 DEF Next

\* Once the new pairing is stored no call of the old owner writes over it: neither
\* the file nor what a crash may leave is of the old pairing (window_control.rs,
\* wait_for_writes in private_link.rs).
THEOREM OldOwnerNeverWritesOver == Spec => []ReplacementStands
<1>1. IInv => ReplacementStands
  BY DEF IInv
<1> QED
  BY <1>1, InitIInv, NextIInv, PTL DEF Spec

\* The replacement never goes ahead of the fence, and once it has been passed by
\* the drain no call is left that could write (fence_writer, wait_for_writes).
THEOREM DrainedOwnerIsQuiet == Spec => [](FencedFirst /\ NoLateCall)
<1>1. IInv => FencedFirst /\ NoLateCall
  BY DEF IInv
<1> QED
  BY <1>1, InitIInv, NextIInv, PTL DEF Spec

-----------------------------------------------------------------------------
(***************************************************************************)
(* What the relay runs over is stored, and what is stored moves forward.   *)
(* The argument has three parts.  While a call holds the credential it     *)
(* knows what it writes and nothing it read has changed (CallKnows).  The  *)
(* incarnation of the relay client numbers the tuples that went live, so   *)
(* that a dial of the current one has the token the client has             *)
(* (DialsTheClient), and client and credential differ only while a refresh *)
(* is being told (ClientFollows).  And every token on its way to the       *)
(* credential is newer than those it has held (TokensAreNewer).            *)
(***************************************************************************)

\* What a call that holds the credential writes, and that it is still current.
CallKnows == op # Free =>
  /\ op.file = "renamed" => disk = op.to
  /\ op.gen = IF op.kind = "refresh" THEN dial.epoch ELSE w.gen
  /\ op.kind = "refresh" => op.to.token = dial.token /\ (~w.fenced => op.gen = w.epoch)
  /\ op.kind = "relay" => op.to.eps = w.cred.eps
  /\ op.kind \in {"clear", "retry clear"} => op.to = w.cred
  /\ op.kind = "endpoints" =>
       IF op.ready THEN ReadyWaits /\ op.to.token = w.ready.cred.token
       ELSE /\ op.to.token = w.cred.token
            /\ ReadyWaits => ClearWaits \/ w.ready.cred.token \in expired
  /\ op.kind = "retry ready" => ReadyWaits /\ op.to = w.ready.cred

\* What a crash may leave: what is recorded, or what the call has just renamed.
Recorded(c) == c.token = w.cred.token \/ ClearWaits \/ ReadyWaits \/ w.unavailable
FilesAreRecorded ==
  ~w.fenced /\ (op = Free \/ op.kind # "clear") =>
    \A c \in after : Recorded(c) \/ (op # Free /\ op.file = "renamed" /\ c = op.to)

\* The incarnation numbers the tuples that went live; a dial has that of its client.
DialsTheClient ==
  /\ ~w.fenced => w.epoch = opener.incarnation
  /\ ~opener.retired /\ opener.relay # None => opener.epoch = opener.incarnation
  /\ opener.retired => w.fenced
  /\ dial.at # "idle" => dial.epoch = dial.incarnation /\ dial.incarnation <= opener.incarnation
  /\ dial.at # "idle" /\ dial.incarnation = opener.incarnation =>
       dial.token # None /\ opener.relay = dial.token
  /\ dial.at = "writing" <=> (op # Free /\ op.kind = "refresh")

Telling == dial.at \in {"hook", "writing"} /\ dial.incarnation = opener.incarnation
ClientFollows == ~w.fenced /\ ~w.unavailable => Telling \/ opener.relay = w.cred.token

\* A token on its way is newer than all that were in use, wherever it is on its way.
WriterTokens ==
  /\ highest <= issued /\ opener.relay <= issued /\ w.cred.token <= issued
  /\ w.cred.token \in persisted \cup {None}
  /\ ReadyWaits => w.ready.cred.token > highest /\ w.ready.cred.token <= issued
DialTokens == dial.token <= issued /\ (Telling => dial.token > highest)
PassTokens ==
  /\ pass.gen <= w.gen /\ pass.answer <= issued
  /\ pass.at = "commit" /\ pass.answer # None /\ pass.gen = w.gen => pass.answer > highest
CallTokens ==
  op # Free => op.to.token <= issued /\ (op.kind = "relay" => op.to.token > highest)
TokensAreNewer == WriterTokens /\ DialTokens /\ PassTokens /\ CallTokens

\* The tuple that waits has the writer's endpoints, or will not be retried.
WaitsWithEndpoints ==
  ReadyWaits /\ ~overlooked => w.ready.cred.eps = w.cred.eps \/ w.ready.cred.token \in expired

WriterInv ==
  /\ TypeOK /\ w.gen > 0 /\ FencedFirst /\ NoLateCall /\ CarrierIsPersisted
  /\ CallKnows /\ FilesAreRecorded /\ DialsTheClient /\ ClientFollows /\ TokensAreNewer /\ WaitsWithEndpoints

-----------------------------------------------------------------------------
(* The types, in parts that the provers can take at a time *)

Writers == [cred : Credential, gen : Nat, epoch : Nat, clear : Nat, ready : ReadyPending,
            unavailable : BOOLEAN, failed : BOOLEAN, fenced : BOOLEAN]
Openers == [relay : Tokens, epoch : Nat, incarnation : Nat, retired : BOOLEAN]
Dials   == [at : {"idle", "dialing", "hook", "writing", "dialed", "proven"},
            token : Tokens, epoch : Nat, incarnation : Nat]
Passes  == [at : {"idle", "retry", "ask", "asked", "commit", "endpoints", "writing"},
            gen : Nat, incarnation : Nat, answer : Tokens]

WriterOK == w \in Writers
FileOK   == disk \in Credential /\ after \subseteq Credential /\ persisted \subseteq Tokens
CallOK   == op \in {Free} \cup Calls
CountsOK ==
  /\ owner \in {"running", "fenced", "retired", "drained", "blocked", "replaced"}
  /\ issued \in Tokens /\ expired \subseteq Tokens
  /\ passes \in 0..MaxPasses /\ faults \in 0..MaxFaults
  /\ highest \in Tokens /\ overlooked \in BOOLEAN
PartsOK == WriterOK /\ FileOK /\ opener \in Openers /\ CallOK /\ pass \in Passes /\ dial \in Dials /\ CountsOK

\* What waits is of a generation that has come.
Generations == w.gen > 0 /\ w.clear <= w.gen /\ w.ready.gen <= w.gen

LEMMA PartsAreTypes ==
  /\ PartsOK /\ Generations <=> TypeOK /\ w.gen > 0
  /\ (PartsOK /\ Generations)' <=> TypeOK' /\ w'.gen > 0
  BY DEF PartsOK, WriterOK, FileOK, Openers, CallOK, Passes, Dials, CountsOK, Generations, TypeOK, Writers

\* A credential with another token, and with other endpoints.
LEMMA TokenUpdate ==
  ASSUME NEW c \in Credential, NEW t \in Tokens
  PROVE  /\ [c EXCEPT !.token = t] \in Credential
         /\ [c EXCEPT !.token = t].token = t /\ [c EXCEPT !.token = t].eps = c.eps
  BY DEF Credential

LEMMA EndpointsUpdate ==
  ASSUME NEW c \in Credential, NEW e \in Endpoints
  PROVE  /\ [c EXCEPT !.eps = e] \in Credential
         /\ [c EXCEPT !.eps = e].token = c.token /\ [c EXCEPT !.eps = e].eps = e
  BY DEF Credential

\* A call as it takes the credential.
LEMMA CallFields ==
  ASSUME NEW k \in Kinds, NEW c \in Credential, NEW g \in Nat, NEW r \in BOOLEAN
  PROVE  /\ Call(k, c, g, r) \in Calls /\ Call(k, c, g, r) # Free
         /\ Call(k, c, g, r).kind = k /\ Call(k, c, g, r).to = c /\ Call(k, c, g, r).gen = g
         /\ Call(k, c, g, r).ready = r /\ Call(k, c, g, r).file = "temporary"
<1>1. Call(k, c, g, r) \in Calls
  BY DEF Call, Calls
<1> QED  BY <1>1, WriterAssumption DEF Call

\* A tuple goes live.
LEMMA ActivatedFields ==
  ASSUME w \in Writers, NEW c \in Credential
  PROVE  /\ Activated(w, c) \in Writers
         /\ Activated(w, c).cred = c /\ Activated(w, c).gen = w.gen + 1
         /\ Activated(w, c).epoch = w.epoch + 1 /\ Activated(w, c).ready = NoReady
         /\ Activated(w, c).clear = w.clear /\ Activated(w, c).fenced = w.fenced
         /\ ~Activated(w, c).unavailable
<1>1. w.gen + 1 \in Nat /\ w.epoch + 1 \in Nat /\ NoReady \in ReadyPending
  BY DEF Writers, ReadyPending
<1>2. PICK g \in Nat, e \in Nat, r \in ReadyPending : g = w.gen + 1 /\ e = w.epoch + 1 /\ r = NoReady
  BY <1>1
<1> DEFINE v == [w EXCEPT !.cred = c, !.gen = g, !.epoch = e, !.ready = r, !.unavailable = FALSE]
<1>3. v \in Writers
  BY DEF Writers
<1>4. v.cred = c /\ v.gen = g /\ v.epoch = e /\ v.ready = r
  BY DEF Writers
<1>5. v.clear = w.clear /\ v.fenced = w.fenced /\ ~v.unavailable
  BY DEF Writers
<1>6. Activated(w, c) = v
  BY <1>2 DEF Activated
<1> QED  BY <1>2, <1>3, <1>4, <1>5, <1>6

LEMMA WriterUpdates ==
  ASSUME w \in Writers, NEW c \in Credential, NEW n \in Nat
  PROVE  /\ [w EXCEPT !.cred = c, !.gen = @ + 1, !.clear = 0, !.ready = NoReady] \in Writers
         /\ [w EXCEPT !.cred = c, !.gen = @ + 1, !.epoch = @ + 1, !.ready = NoReady] \in Writers
         /\ [w EXCEPT !.failed = TRUE, !.unavailable = TRUE] \in Writers
         /\ [w EXCEPT !.ready = [gen |-> n, cred |-> c]] \in Writers
         /\ [w EXCEPT !.fenced = TRUE, !.epoch = @ + 1] \in Writers
         /\ [w EXCEPT !.epoch = @ + 1] \in Writers
         /\ [w EXCEPT !.clear = n] \in Writers
         /\ [Activated(w, c) EXCEPT !.clear = 0] \in Writers
<1>1. w.gen + 1 \in Nat /\ w.epoch + 1 \in Nat /\ NoReady \in ReadyPending
  BY DEF Writers, ReadyPending
<1>2. ASSUME NEW g \in Nat, NEW e \in Nat, NEW r \in ReadyPending
      PROVE  /\ [w EXCEPT !.cred = c, !.gen = g, !.clear = 0, !.ready = r] \in Writers
             /\ [w EXCEPT !.cred = c, !.gen = g, !.epoch = e, !.ready = r] \in Writers
             /\ [w EXCEPT !.fenced = TRUE, !.epoch = e] \in Writers
             /\ [w EXCEPT !.epoch = e] \in Writers
             /\ [w EXCEPT !.ready = r] \in Writers
  BY DEF Writers
<1>3. [w EXCEPT !.failed = TRUE, !.unavailable = TRUE] \in Writers /\ [w EXCEPT !.clear = n] \in Writers
  BY DEF Writers
<1>4. [Activated(w, c) EXCEPT !.clear = 0] \in Writers
  BY ActivatedFields DEF Writers
<1>5. [gen |-> n, cred |-> c] \in ReadyPending
  BY DEF ReadyPending
<1> QED  BY <1>1, <1>2, <1>3, <1>4, <1>5


\* The opener's client is replaced, or dropped.
LEMMA OpenerUpdates ==
  ASSUME opener \in Openers, NEW t \in Tokens, NEW e \in Nat
  PROVE  /\ [opener EXCEPT !.relay = t, !.epoch = e, !.incarnation = @ + 1] \in Openers
         /\ [opener EXCEPT !.relay = t, !.incarnation = @ + 1] \in Openers
         /\ [opener EXCEPT !.retired = TRUE, !.incarnation = @ + 1] \in Openers
<1>1. opener.incarnation + 1 \in Nat
  BY DEF Openers
<1>2. ASSUME NEW i \in Nat
      PROVE  /\ [opener EXCEPT !.relay = t, !.epoch = e, !.incarnation = i] \in Openers
             /\ [opener EXCEPT !.relay = t, !.incarnation = i] \in Openers
             /\ [opener EXCEPT !.retired = TRUE, !.incarnation = i] \in Openers
  BY DEF Openers
<1> QED  BY <1>1, <1>2

LEMMA NoneIsToken == None \in Tokens
  BY WriterAssumption DEF Tokens, None

LEMMA NextToken == ASSUME CountsOK, issued < MaxTokens  PROVE issued + 1 \in Tokens
  BY WriterAssumption DEF CountsOK, Tokens

\* A tuple that waits in its generation is one, for generations begin with one.
LEMMA WaitingTuple ==
  ASSUME WriterOK, Generations, ReadyWaits
  PROVE  w.ready \in [gen : Nat, cred : Credential] /\ w.ready.cred \in Credential
<1>1. w.ready \in ReadyPending
  BY DEF WriterOK, Writers
<1>2. w.ready # NoReady
  BY DEF Generations, ReadyWaits, NoReady
<1> QED  BY <1>1, <1>2 DEF ReadyPending

\* Every settling gives the credential free and ends the write of its call.
Settled ==
  /\ op # Free /\ op' = Free
  /\ \E durable \in BOOLEAN : WriteEnds(durable)
  /\ pass' \in {pass} \cup {[Resting EXCEPT !.at = at] : at \in {"ask", "endpoints", "idle"}}
  /\ UNCHANGED <<owner, issued, expired, passes>>

LEMMA FinishIsSettled == Finish => Settled
<1> USE DEF Settled, Unlock, Quiet, PassGoesTo, Goto
<1>1. FinishRefresh => Settled
  BY DEF FinishRefresh
<1>2. FinishRelay => Settled
  BY DEF FinishRelay
<1>3. FinishClear => Settled
  BY DEF FinishClear
<1>4. FinishEndpoints => Settled
  BY DEF FinishEndpoints
<1>5. FinishRetryClear => Settled
  BY DEF FinishRetryClear
<1>6. FinishRetryReady => Settled
  BY DEF FinishRetryReady
<1> QED  BY <1>1, <1>2, <1>3, <1>4, <1>5, <1>6 DEF Finish

\* What a step makes of the writer.
LEMMA WriterNext == ASSUME PartsOK, Next  PROVE WriterOK'
<1> USE DEF PartsOK, WriterOK
<1>1. CASE BeginClear
  <2>1. [w.cred EXCEPT !.token = None] \in Credential
    BY WriterAssumption, TokenUpdate DEF Writers, Tokens, None
  <2> QED  BY <1>1, <2>1, WriterUpdates DEF BeginClear
<1>2. CASE FinishRefresh
  <2>0. op \in Calls /\ op.to \in Credential /\ op.gen \in Nat
    BY <1>2, FinishIsSettled DEF Settled, CallOK, Calls, Finish
  <2> QED  BY <1>2, <2>0, WriterUpdates DEF FinishRefresh
<1>3. CASE FinishRelay
  <2>0. op \in Calls /\ op.to \in Credential /\ op.gen \in Nat
    BY <1>3, FinishIsSettled DEF Settled, CallOK, Calls, Finish
  <2> QED  BY <1>3, <2>0, WriterUpdates DEF FinishRelay
<1>4. CASE FinishClear
  <2>0. op \in Calls /\ op.to \in Credential /\ op.gen \in Nat
    BY <1>4, FinishIsSettled DEF Settled, CallOK, Calls, Finish
  <2> QED  BY <1>4, <2>0, WriterUpdates DEF FinishClear
<1>5. CASE FinishEndpoints
  <2>0. op \in Calls /\ op.to \in Credential /\ op.gen \in Nat
    BY <1>5, FinishIsSettled DEF Settled, CallOK, Calls, Finish
  <2>1. w' = w \/ w' = [w EXCEPT !.cred.eps = op.to.eps,
                               !.ready = IF op.ready THEN [@ EXCEPT !.cred.eps = op.to.eps] ELSE @]
    BY <1>5 DEF FinishEndpoints
  <2>2. [w.ready EXCEPT !.cred.eps = op.to.eps] \in ReadyPending
    BY <2>0 DEF Writers, ReadyPending, NoReady, Credential
  <2>3. ASSUME NEW r \in ReadyPending
        PROVE  [w EXCEPT !.cred.eps = op.to.eps, !.ready = r] \in Writers
    BY <2>0 DEF Writers, Credential
  <2>4. w.ready \in ReadyPending
    BY DEF Writers
  <2>5. CASE op.ready
    BY <2>1, <2>2, <2>3, <2>5
  <2>6. CASE ~op.ready
    BY <2>1, <2>3, <2>4, <2>6
  <2> QED  BY <2>5, <2>6
<1>6. CASE FinishRetryClear
  <2>0. op \in Calls /\ op.to \in Credential /\ op.gen \in Nat
    BY <1>6, FinishIsSettled DEF Settled, CallOK, Calls, Finish
  <2> QED  BY <1>6, <2>0, WriterUpdates DEF FinishRetryClear
<1>7. CASE FinishRetryReady
  <2>0. op \in Calls /\ op.to \in Credential /\ op.gen \in Nat
    BY <1>7, FinishIsSettled DEF Settled, CallOK, Calls, Finish
  <2> QED  BY <1>7, <2>0, ActivatedFields DEF FinishRetryReady
<1>8. CASE FenceWriter
  BY <1>8, WriterUpdates DEF FenceWriter, Writers
<1>9. CASE Retire
  BY <1>9, WriterUpdates DEF Retire, Writers
<1>10. CASE LastLook \/ Rename \/ BeginRefresh \/ BeginRelay \/ BeginEndpoints \/ BeginRetry
  BY <1>10 DEF LastLook, Rename, BeginRefresh, HookIsStale, Call, BeginRelay, AnswerIsFresh, Goto,
     Resting, BeginEndpoints, BeginRetry, Quiet, Still, StillDial, StillOwner
<1>11. CASE StartPass \/ Ask \/ Answer \/ LoseLease \/ Expire
  BY <1>11 DEF StartPass, Resting, Ask, Answer, Goto, LoseLease, Expire, Quiet, Still, StillDial,
     StillOwner
<1>12. CASE DialStart \/ DialRefreshes \/ DialEnds \/ DialFails
  BY <1>12 DEF DialStart, DialRefreshes, DialEnds, NoDial, DialFails, Quiet, Still, StillDial,
     StillOwner
<1>13. CASE Drain \/ Replace
  BY <1>13 DEF Drain, Replace, Quiet, Still, StillDial, StillOwner
<1> QED
  BY <1>1, <1>2, <1>3, <1>4, <1>5, <1>6, <1>7, <1>8, <1>9, <1>10, <1>11, <1>12, <1>13 DEF Next,
     Finish

\* What a step makes of the file.
LEMMA FileNext == ASSUME PartsOK, Next  PROVE FileOK'
<1> USE DEF PartsOK, FileOK
<1>1. CASE Finish
  BY <1>1, FinishIsSettled DEF Settled, WriteEnds, Credential
<1>2. CASE Rename
  BY <1>2 DEF Rename, CallOK, Calls
<1>3. CASE Replace
  <2>1. \A eps \in Endpoints : [pairing |-> "new", token |-> None, eps |-> eps] \in Credential
    BY WriterAssumption DEF Credential, Tokens, None
  <2> QED  BY <1>3, <2>1 DEF Replace, StillOwner
<1>4. CASE LastLook
  BY <1>4 DEF LastLook, Quiet, Still, StillDial, StillOwner
<1>5. CASE BeginRefresh \/ BeginRelay \/ BeginClear \/ BeginEndpoints \/ BeginRetry
  BY <1>5 DEF BeginRefresh, HookIsStale, Call, BeginRelay, AnswerIsFresh, Goto, Resting, BeginClear,
     BeginEndpoints, BeginRetry, Quiet, Still, StillDial, StillOwner
<1>6. CASE StartPass \/ Ask \/ Answer \/ LoseLease \/ Expire
  BY <1>6 DEF StartPass, Resting, Ask, Answer, Goto, LoseLease, Expire, Quiet, Still, StillDial,
     StillOwner
<1>7. CASE DialStart \/ DialRefreshes \/ DialEnds \/ DialFails
  BY <1>7 DEF DialStart, DialRefreshes, DialEnds, NoDial, DialFails, Quiet, Still, StillDial,
     StillOwner
<1>8. CASE FenceWriter \/ Retire \/ Drain
  BY <1>8 DEF FenceWriter, LeaseGone, Resting, Retire, Drain, Quiet, Still, StillDial, StillOwner
<1> QED
  BY <1>1, <1>2, <1>3, <1>4, <1>5, <1>6, <1>7, <1>8 DEF Next

\* What a step makes of the opener.
LEMMA OpenerNext == ASSUME PartsOK, Next  PROVE opener' \in Openers
<1> USE DEF PartsOK
<1>1. CASE BeginClear
  <2>1. None \in Tokens
    BY WriterAssumption DEF Tokens, None
  <2> QED  BY <1>1, <2>1, OpenerUpdates DEF BeginClear, Openers
<1>2. CASE FinishRefresh
  BY <1>2 DEF FinishRefresh, WriteEnds, Holds, Later, Unlock, Quiet, Still, StillDial, StillOwner
<1>3. CASE FinishRelay
  <2>0. op \in Calls /\ op.to \in Credential /\ op.gen \in Nat
    BY <1>3, FinishIsSettled DEF Settled, CallOK, Calls, Finish
  <2>1. op.to.token \in Tokens
    BY <2>0 DEF Credential
  <2>2. w.epoch + 1 \in Nat
    BY DEF WriterOK, Writers
  <2>3. ReplaceRelay(op.to.token) => opener' \in Openers
    BY <2>1, <2>2, OpenerUpdates DEF ReplaceRelay
  <2>4. ReplaceRelay(op.to.token) \/ UNCHANGED opener
    BY <1>3 DEF FinishRelay
  <2> QED  BY <2>3, <2>4
<1>4. CASE FinishClear
  BY <1>4 DEF FinishClear, WriteEnds, PassGoesTo, Goto, Resting, Unlock, Quiet, Still, StillDial,
     StillOwner
<1>5. CASE FinishEndpoints
  BY <1>5 DEF FinishEndpoints, WriteEnds, PassGoesTo, Goto, Resting, Unlock, Quiet, Still,
     StillDial, StillOwner
<1>6. CASE FinishRetryClear
  BY <1>6 DEF FinishRetryClear, WriteEnds, PassGoesTo, Goto, Resting, Unlock, Quiet, Still,
     StillDial, StillOwner
<1>7. CASE FinishRetryReady
  <2>0. op \in Calls /\ op.to \in Credential /\ op.gen \in Nat
    BY <1>7, FinishIsSettled DEF Settled, CallOK, Calls, Finish
  <2>1. op.to.token \in Tokens
    BY <2>0 DEF Credential
  <2>2. w.epoch + 1 \in Nat
    BY DEF WriterOK, Writers
  <2>3. ReplaceRelay(op.to.token) => opener' \in Openers
    BY <2>1, <2>2, OpenerUpdates DEF ReplaceRelay
  <2>4. ReplaceRelay(op.to.token) \/ UNCHANGED opener
    BY <1>7 DEF FinishRetryReady
  <2> QED  BY <2>3, <2>4
<1>8. CASE DialRefreshes
  BY <1>8, WriterAssumption DEF DialRefreshes, Openers, CountsOK, Tokens
<1>9. CASE Retire
  <2>1. None \in Tokens /\ 0 \in Nat
    BY WriterAssumption DEF Tokens, None
  <2> QED  BY <1>9, <2>1, OpenerUpdates DEF Retire
<1>10. CASE LastLook \/ Rename
  BY <1>10 DEF LastLook, Rename, Quiet, Still, StillDial, StillOwner
<1>11. CASE BeginRefresh \/ BeginRelay \/ BeginEndpoints \/ BeginRetry
  BY <1>11 DEF BeginRefresh, HookIsStale, Call, BeginRelay, AnswerIsFresh, Goto, Resting,
     BeginEndpoints, BeginRetry, Quiet, Still, StillDial, StillOwner
<1>12. CASE StartPass \/ Ask \/ Answer \/ LoseLease \/ Expire
  BY <1>12 DEF StartPass, Resting, Ask, Answer, Goto, LoseLease, Expire, Quiet, Still, StillDial,
     StillOwner
<1>13. CASE DialStart \/ DialEnds \/ DialFails
  BY <1>13 DEF DialStart, DialEnds, NoDial, DialFails, Quiet, Still, StillDial, StillOwner
<1>14. CASE FenceWriter \/ Drain \/ Replace
  BY <1>14 DEF FenceWriter, LeaseGone, Resting, Drain, Replace, Quiet, Still, StillDial, StillOwner
<1> QED
  BY <1>1, <1>2, <1>3, <1>4, <1>5, <1>6, <1>7, <1>8, <1>9, <1>10, <1>11, <1>12, <1>13, <1>14 DEF
     Next, Finish

\* What a step makes of the call.
LEMMA CallNext == ASSUME PartsOK, Generations, Next  PROVE CallOK'
<1> USE DEF PartsOK, CallOK
<1>1. CASE BeginRefresh
  <2>1. /\ "refresh" \in Kinds /\ dial.token \in Tokens /\ dial.epoch \in Nat /\ FALSE \in BOOLEAN
        /\ w.cred \in Credential
    BY DEF Kinds, Dials, WriterOK, Writers
  <2>2. [w.cred EXCEPT !.token = dial.token] \in Credential
    BY <2>1 DEF Credential
  <2>3. Call("refresh", [w.cred EXCEPT !.token = dial.token], dial.epoch, FALSE) \in Calls
    BY <2>1, <2>2, CallFields
  <2> QED  BY <1>1, <2>3 DEF BeginRefresh
<1>2. CASE BeginRelay
  <2>1. /\ "relay" \in Kinds /\ pass.answer \in Tokens /\ pass.gen \in Nat /\ FALSE \in BOOLEAN
        /\ w.cred \in Credential
    BY DEF Kinds, Passes, WriterOK, Writers
  <2>2. [w.cred EXCEPT !.token = pass.answer] \in Credential
    BY <2>1 DEF Credential
  <2>3. Call("relay", [w.cred EXCEPT !.token = pass.answer], pass.gen, FALSE) \in Calls
    BY <2>1, <2>2, CallFields
  <2> QED  BY <1>2, <2>3 DEF BeginRelay
<1>3. CASE BeginClear
  <2>1. "clear" \in Kinds /\ None \in Tokens /\ w.gen + 1 \in Nat /\ FALSE \in BOOLEAN /\ w.cred \in Credential
    BY WriterAssumption DEF Kinds, Tokens, None, WriterOK, Writers
  <2>2. [w.cred EXCEPT !.token = None] \in Credential
    BY <2>1 DEF Credential
  <2>3. Call("clear", [w.cred EXCEPT !.token = None], w.gen + 1, FALSE) \in Calls
    BY <2>1, <2>2, CallFields
  <2> QED  BY <1>3, <2>3 DEF BeginClear
<1>4. CASE BeginEndpoints
  <2>1. "endpoints" \in Kinds /\ w.gen \in Nat /\ w.cred \in Credential
    BY DEF Kinds, WriterOK, Writers
  <2>2. ReadyWaits => w.ready.cred \in Credential
    BY WaitingTuple
  <2>3. ASSUME NEW merged \in Endpoints, NEW ready \in BOOLEAN, ready => ReadyWaits
        PROVE  Call("endpoints", [(IF ready THEN w.ready.cred ELSE w.cred) EXCEPT !.eps = merged],
                    w.gen, ready) \in Calls
    BY <2>1, <2>2, <2>3, EndpointsUpdate, CallFields
  <2> QED  BY <1>4, <2>3 DEF BeginEndpoints
<1>5. CASE BeginRetry
  <2>1. /\ "retry clear" \in Kinds /\ "retry ready" \in Kinds /\ w.gen \in Nat /\ w.cred \in Credential
        /\ TRUE \in BOOLEAN /\ FALSE \in BOOLEAN
    BY DEF Kinds, WriterOK, Writers
  <2>2. ReadyWaits => w.ready.cred \in Credential
    BY WaitingTuple
  <2>3. /\ Call("retry clear", w.cred, w.gen, FALSE) \in Calls
        /\ ReadyWaits => Call("retry ready", w.ready.cred, w.gen, TRUE) \in Calls
    BY <2>1, <2>2, CallFields
  <2> QED  BY <1>5, <2>3 DEF BeginRetry
<1>6. CASE Finish
  BY <1>6, FinishIsSettled DEF Settled
<1>7. CASE LastLook \/ Rename
  BY <1>7 DEF LastLook, Rename, Calls, Quiet
<1>8. CASE LoseLease
  BY <1>8 DEF LoseLease, Calls
<1>9. CASE StartPass \/ Ask \/ Answer \/ Expire
  BY <1>9 DEF StartPass, Resting, Ask, Answer, Goto, Expire, Quiet, Still, StillDial, StillOwner
<1>10. CASE DialStart \/ DialRefreshes \/ DialEnds \/ DialFails
  BY <1>10 DEF DialStart, DialRefreshes, DialEnds, NoDial, DialFails, Quiet, Still, StillDial,
     StillOwner
<1>11. CASE FenceWriter \/ Retire \/ Drain \/ Replace
  BY <1>11 DEF FenceWriter, Retire, Drain, Replace, LeaseGone, Calls
<1> QED
  BY <1>1, <1>2, <1>3, <1>4, <1>5, <1>6, <1>7, <1>8, <1>9, <1>10, <1>11 DEF Next

\* What a step makes of the pass.
LEMMA PassNext == ASSUME PartsOK, Next  PROVE pass' \in Passes
<1> USE NoneIsToken DEF PartsOK, Passes
<1>1. CASE Ask
  BY <1>1 DEF Ask, Passes, WriterOK, Writers, Openers
<1>2. CASE Answer
  <2>1. \/ pass' = Resting \/ pass' = [Resting EXCEPT !.at = "endpoints"]
        \/ \E t \in Tokens : pass' = [pass EXCEPT !.at = "commit", !.answer = t]
    BY <1>2, NoneIsToken, NextToken DEF Answer, Goto
  <2>2. Resting \in Passes /\ [Resting EXCEPT !.at = "endpoints"] \in Passes
    BY DEF Resting
  <2>3. ASSUME NEW t \in Tokens  PROVE [pass EXCEPT !.at = "commit", !.answer = t] \in Passes
    OBVIOUS
  <2> QED  BY <2>1, <2>2, <2>3
<1>3. CASE Finish
  <2>1. None \in Tokens
    BY WriterAssumption DEF Tokens, None
  <2> QED  BY <1>3, <2>1, FinishIsSettled DEF Settled, Resting, Passes
<1>4. CASE BeginRefresh \/ BeginRelay \/ BeginClear
  BY <1>4 DEF BeginRefresh, HookIsStale, Call, BeginRelay, AnswerIsFresh, Goto, Resting, BeginClear,
     Quiet, Still, StillDial, StillOwner
<1>5. CASE BeginEndpoints
  BY <1>5 DEF BeginEndpoints, Call, Goto, Resting, Quiet, Still, StillDial, StillOwner
<1>6. CASE BeginRetry
  <2>1. pass' = [Resting EXCEPT !.at = "ask"] \/ pass' = [Resting EXCEPT !.at = "writing"]
    BY <1>6 DEF BeginRetry, Goto
  <2> QED  BY <2>1 DEF Resting
<1>7. CASE LastLook \/ Rename
  BY <1>7 DEF LastLook, Rename, Quiet, Still, StillDial, StillOwner
<1>8. CASE StartPass \/ LoseLease \/ Expire
  BY <1>8 DEF StartPass, Resting, LoseLease, Expire, Quiet, Still, StillDial, StillOwner
<1>9. CASE DialStart \/ DialRefreshes \/ DialEnds \/ DialFails
  BY <1>9 DEF DialStart, DialRefreshes, DialEnds, NoDial, DialFails, Quiet, Still, StillDial,
     StillOwner
<1>10. CASE FenceWriter \/ Retire \/ Drain \/ Replace
  BY <1>10 DEF FenceWriter, LeaseGone, Resting, Retire, Drain, Replace, Quiet, Still, StillDial,
     StillOwner
<1> QED
  BY <1>1, <1>2, <1>3, <1>4, <1>5, <1>6, <1>7, <1>8, <1>9, <1>10 DEF Next

\* What a step makes of the dial.
LEMMA DialNext == ASSUME PartsOK, Next  PROVE dial' \in Dials
<1> USE DEF PartsOK, Dials
<1>1. CASE DialStart
  BY <1>1 DEF DialStart, Openers
<1>2. CASE DialRefreshes
  BY <1>2, NextToken DEF DialRefreshes
<1>3. CASE DialEnds \/ DialFails
  BY <1>3, WriterAssumption DEF DialEnds, DialFails, NoDial, Tokens, None
<1>4. CASE FinishRefresh
  BY <1>4 DEF FinishRefresh, WriteEnds, Holds, Later, Unlock, Quiet, Still, StillDial, StillOwner
<1>5. CASE FinishRelay \/ FinishClear \/ FinishEndpoints \/ FinishRetryClear \/ FinishRetryReady
  BY <1>5 DEF FinishRelay, WriteEnds, Activated, ReplaceRelay, Holds, Later, PassGoesTo, Goto,
     Resting, Unlock, FinishClear, FinishEndpoints, FinishRetryClear, FinishRetryReady, Quiet, Still,
     StillDial, StillOwner
<1>6. CASE BeginRefresh \/ BeginRelay \/ BeginClear \/ BeginEndpoints \/ BeginRetry
  BY <1>6 DEF BeginRefresh, HookIsStale, Call, BeginRelay, AnswerIsFresh, Goto, Resting, BeginClear,
     BeginEndpoints, BeginRetry, Quiet, Still, StillDial, StillOwner
<1>7. CASE LastLook \/ Rename
  BY <1>7 DEF LastLook, Rename, Quiet, Still, StillDial, StillOwner
<1>8. CASE StartPass \/ Ask \/ Answer \/ LoseLease \/ Expire
  BY <1>8 DEF StartPass, Resting, Ask, Answer, Goto, LoseLease, Expire, Quiet, Still, StillDial,
     StillOwner
<1>9. CASE FenceWriter \/ Retire \/ Drain \/ Replace
  BY <1>9 DEF FenceWriter, LeaseGone, Resting, Retire, Drain, Replace, Quiet, Still, StillDial,
     StillOwner
<1> QED
  BY <1>1, <1>2, <1>3, <1>4, <1>5, <1>6, <1>7, <1>8, <1>9 DEF Next, Finish

\* What a step makes of the counters.
LEMMA CountsNext == ASSUME PartsOK, Next  PROVE CountsOK'
<1> USE DEF PartsOK, CountsOK
<1>1. CASE FinishRefresh
  <2>0. op \in Calls /\ op.to \in Credential /\ op.gen \in Nat
    BY <1>1, FinishIsSettled DEF Settled, CallOK, Calls, Finish
  <2>1. highest' \in {highest, op.to.token}
    BY <1>1 DEF FinishRefresh, Holds, Later
  <2>2. overlooked' \in BOOLEAN
    BY <1>1 DEF FinishRefresh
  <2>3. Settled
    BY <1>1, FinishIsSettled DEF Finish
  <2>4. faults' \in 0..MaxFaults
    BY <2>3, WriterAssumption DEF Settled, WriteEnds
  <2> QED  BY <2>0, <2>1, <2>2, <2>3, <2>4 DEF Settled, Credential
<1>2. CASE FinishRelay
  <2>0. op \in Calls /\ op.to \in Credential /\ op.gen \in Nat
    BY <1>2, FinishIsSettled DEF Settled, CallOK, Calls, Finish
  <2>1. highest' \in {highest, op.to.token}
    BY <1>2 DEF FinishRelay, Holds, Later
  <2>2. overlooked' \in BOOLEAN
    BY <1>2 DEF FinishRelay
  <2>3. Settled
    BY <1>2, FinishIsSettled DEF Finish
  <2>4. faults' \in 0..MaxFaults
    BY <2>3, WriterAssumption DEF Settled, WriteEnds
  <2> QED  BY <2>0, <2>1, <2>2, <2>3, <2>4 DEF Settled, Credential
<1>3. CASE FinishClear
  <2>0. op \in Calls /\ op.to \in Credential /\ op.gen \in Nat
    BY <1>3, FinishIsSettled DEF Settled, CallOK, Calls, Finish
  <2>1. highest' \in {highest, op.to.token}
    BY <1>3 DEF FinishClear, Holds, Later
  <2>2. overlooked' \in BOOLEAN
    BY <1>3 DEF FinishClear
  <2>3. Settled
    BY <1>3, FinishIsSettled DEF Finish
  <2>4. faults' \in 0..MaxFaults
    BY <2>3, WriterAssumption DEF Settled, WriteEnds
  <2> QED  BY <2>0, <2>1, <2>2, <2>3, <2>4 DEF Settled, Credential
<1>4. CASE FinishEndpoints
  <2>0. op \in Calls /\ op.to \in Credential /\ op.gen \in Nat
    BY <1>4, FinishIsSettled DEF Settled, CallOK, Calls, Finish
  <2>1. highest' \in {highest, op.to.token}
    BY <1>4 DEF FinishEndpoints, Holds, Later
  <2>2. overlooked' \in BOOLEAN
    BY <1>4, Zenon DEF FinishEndpoints
  <2>3. Settled
    BY <1>4, FinishIsSettled DEF Finish
  <2>4. faults' \in 0..MaxFaults
    BY <2>3, WriterAssumption DEF Settled, WriteEnds
  <2> QED  BY <2>0, <2>1, <2>2, <2>3, <2>4 DEF Settled, Credential
<1>5. CASE FinishRetryClear
  <2>0. op \in Calls /\ op.to \in Credential /\ op.gen \in Nat
    BY <1>5, FinishIsSettled DEF Settled, CallOK, Calls, Finish
  <2>1. highest' \in {highest, op.to.token}
    BY <1>5 DEF FinishRetryClear, Holds, Later
  <2>2. overlooked' \in BOOLEAN
    BY <1>5 DEF FinishRetryClear
  <2>3. Settled
    BY <1>5, FinishIsSettled DEF Finish
  <2>4. faults' \in 0..MaxFaults
    BY <2>3, WriterAssumption DEF Settled, WriteEnds
  <2> QED  BY <2>0, <2>1, <2>2, <2>3, <2>4 DEF Settled, Credential
<1>6. CASE FinishRetryReady
  <2>0. op \in Calls /\ op.to \in Credential /\ op.gen \in Nat
    BY <1>6, FinishIsSettled DEF Settled, CallOK, Calls, Finish
  <2>1. highest' \in {highest, op.to.token}
    BY <1>6 DEF FinishRetryReady, Holds, Later
  <2>2. overlooked' \in BOOLEAN
    BY <1>6 DEF FinishRetryReady
  <2>3. Settled
    BY <1>6, FinishIsSettled DEF Finish
  <2>4. faults' \in 0..MaxFaults
    BY <2>3, WriterAssumption DEF Settled, WriteEnds
  <2> QED  BY <2>0, <2>1, <2>2, <2>3, <2>4 DEF Settled, Credential
<1>7. CASE BeginRefresh \/ BeginRelay \/ BeginClear \/ BeginEndpoints \/ BeginRetry
  BY <1>7 DEF BeginRefresh, HookIsStale, Call, BeginRelay, AnswerIsFresh, Goto, Resting, BeginClear,
     BeginEndpoints, BeginRetry, Quiet, Still, StillDial, StillOwner
<1>8. CASE LastLook \/ Rename
  BY <1>8 DEF LastLook, Rename, Quiet, Still, StillDial, StillOwner
<1>9. CASE StartPass
  BY <1>9, WriterAssumption DEF StartPass, Still
<1>10. CASE Ask \/ LoseLease
  BY <1>10 DEF Ask, LoseLease, Resting, Quiet, Still, StillDial, StillOwner
<1>11. CASE Answer
  BY <1>11, NextToken DEF Answer, Still, CountsOK
<1>12. CASE Expire
  BY <1>12, WriterAssumption DEF Expire, Still, Tokens
<1>13. CASE DialStart \/ DialEnds \/ DialFails
  BY <1>13 DEF DialStart, DialEnds, NoDial, DialFails, Quiet, Still, StillDial, StillOwner
<1>14. CASE DialRefreshes
  BY <1>14, NextToken DEF DialRefreshes, Still, StillDial, CountsOK
<1>15. CASE FenceWriter \/ Retire \/ Drain \/ Replace
  BY <1>15 DEF FenceWriter, LeaseGone, Resting, Retire, Drain, Replace, Quiet, Still, StillDial,
     StillOwner
<1> QED
  BY <1>1, <1>2, <1>3, <1>4, <1>5, <1>6, <1>7, <1>8, <1>9, <1>10, <1>11, <1>12, <1>13, <1>14, <1>15
     DEF Next, Finish

-----------------------------------------------------------------------------
(* How each call settles: what became of its write, and of the writer *)

WroteDurably == after' = {op.to} /\ persisted' = persisted \cup {op.to.token}
WroteNot     == UNCHANGED <<after, persisted>>

SameWriter ==
  /\ w'.cred = w.cred /\ w'.gen = w.gen /\ w'.epoch = w.epoch /\ w'.clear = w.clear
  /\ w'.ready = w.ready /\ w'.unavailable = w.unavailable /\ w'.fenced = w.fenced

\* The tuple of the call goes live, with a client of its own.
GoesLive ==
  /\ WroteDurably /\ ~w.fenced /\ ~w'.fenced /\ TokenInTime
  /\ w'.cred = op.to /\ w'.gen = w.gen + 1 /\ w'.epoch = w.epoch + 1 /\ w'.ready = NoReady
  /\ w'.clear \in {0, w.clear} /\ ~w'.unavailable
  /\ opener'.relay = op.to.token /\ opener'.epoch = w.epoch + 1
  /\ opener'.incarnation = opener.incarnation + 1 /\ opener'.retired = opener.retired
  /\ highest' = Later(op.to.token)

\* The refreshed token is kept, or its loss puts the relay out of use.
RefreshKept ==
  /\ WroteDurably /\ ~w.fenced /\ ~w'.fenced
  /\ w'.cred = op.to /\ w'.gen = w.gen + 1 /\ w'.epoch = w.epoch /\ w'.ready = NoReady
  /\ w'.clear = 0 /\ w'.unavailable = w.unavailable
  /\ highest' = Later(op.to.token)
RefreshLost ==
  /\ WroteNot /\ w'.unavailable /\ UNCHANGED highest
  /\ w'.cred = w.cred /\ w'.gen = w.gen /\ w'.epoch = w.epoch /\ w'.clear = w.clear
  /\ w'.ready = w.ready /\ w'.fenced = w.fenced

LEMMA WriteOutcome ==
  ASSUME CallKnows, NEW durable \in BOOLEAN, WriteEnds(durable)
  PROVE  IF durable THEN WroteDurably ELSE WroteNot
<1>1. CASE durable
  BY <1>1 DEF WriteEnds, CallKnows, WroteDurably
<1>2. CASE ~durable
  BY <1>2 DEF WriteEnds, WroteNot
<1> QED  BY <1>1, <1>2

LEMMA RefreshOutcome ==
  ASSUME PartsOK, CallKnows, FinishRefresh
  PROVE  /\ op \in Calls /\ op.kind = "refresh" /\ op' = Free /\ UNCHANGED opener
         /\ (w.fenced /\ SameWriter /\ UNCHANGED highest /\ (WroteDurably \/ WroteNot))
            \/ RefreshKept \/ RefreshLost
<1>1. op \in Calls /\ op.kind = "refresh" /\ op' = Free /\ UNCHANGED opener /\ (w.fenced \/ w.epoch = op.gen)
  BY DEF FinishRefresh, Unlock, PartsOK, CallOK, CallKnows
<1>2. PICK durable \in BOOLEAN :
        /\ WriteEnds(durable)
        /\ IF w.fenced \/ w.epoch # op.gen THEN UNCHANGED <<w, highest>>
           ELSE IF durable
             THEN /\ w' = [w EXCEPT !.cred = op.to, !.gen = @ + 1, !.clear = 0, !.ready = NoReady]
                  /\ Holds(op.to)
             ELSE w' = [w EXCEPT !.failed = TRUE, !.unavailable = TRUE] /\ UNCHANGED highest
  BY DEF FinishRefresh
<1>3. IF durable THEN WroteDurably ELSE WroteNot
  BY <1>2, WriteOutcome
<1>4. w \in Writers
  BY DEF PartsOK, WriterOK
<1>5. CASE w.fenced
  BY <1>1, <1>2, <1>3, <1>5 DEF SameWriter
<1>6. CASE ~w.fenced /\ durable
  <2>1. w' = [w EXCEPT !.cred = op.to, !.gen = @ + 1, !.clear = 0, !.ready = NoReady] /\ Holds(op.to)
    BY <1>1, <1>2, <1>6
  <2> QED  BY <1>1, <1>3, <1>4, <1>6, <2>1 DEF RefreshKept, Holds, Writers
<1>7. CASE ~w.fenced /\ ~durable
  <2>1. w' = [w EXCEPT !.failed = TRUE, !.unavailable = TRUE] /\ UNCHANGED highest
    BY <1>1, <1>2, <1>7
  <2> QED  BY <1>1, <1>3, <1>4, <1>7, <2>1 DEF RefreshLost, Writers
<1> QED  BY <1>5, <1>6, <1>7

\* What may be on disk and must not be used waits for a retry.
RelayWaits ==
  /\ WroteDurably \/ WroteNot
  /\ w'.ready = [gen |-> op.gen, cred |-> op.to] /\ UNCHANGED highest
  /\ w'.cred = w.cred /\ w'.gen = w.gen /\ w'.epoch = w.epoch /\ w'.clear = w.clear
  /\ w'.unavailable = w.unavailable /\ w'.fenced = w.fenced

LEMMA RelayOutcome ==
  ASSUME PartsOK, CallKnows, FinishRelay
  PROVE  /\ op \in Calls /\ op.kind = "relay" /\ op' = Free /\ UNCHANGED dial
         /\ \/ GoesLive
            \/ RelayWaits /\ UNCHANGED opener
            \/ WroteNot /\ op.file # "renamed" /\ SameWriter /\ UNCHANGED <<opener, highest>>
<1>1. op \in Calls /\ op.kind = "relay" /\ op' = Free /\ UNCHANGED dial
  BY DEF FinishRelay, Unlock, PartsOK, CallOK
<1>2. PICK durable \in BOOLEAN :
       /\ WriteEnds(durable)
       /\ IF durable /\ ~w.fenced /\ LeaseHolds /\ TokenInTime
            THEN /\ w' = [Activated(w, op.to) EXCEPT !.clear = 0]
                 /\ ReplaceRelay(op.to.token) /\ Holds(op.to)
            ELSE /\ w' = IF durable \/ disk = op.to
                           THEN [w EXCEPT !.ready = [gen |-> op.gen, cred |-> op.to]] ELSE w
                 /\ UNCHANGED <<opener, highest>>
  BY DEF FinishRelay
<1>3. IF durable THEN WroteDurably ELSE WroteNot
  BY <1>2, WriteOutcome
<1>4. w \in Writers /\ opener \in Openers /\ op.to \in Credential
  BY <1>1 DEF PartsOK, WriterOK, Calls
<1>5. CASE durable /\ ~w.fenced /\ LeaseHolds /\ TokenInTime
  <2>1. w' = [Activated(w, op.to) EXCEPT !.clear = 0] /\ ReplaceRelay(op.to.token) /\ Holds(op.to)
    BY <1>2, <1>5
  <2> DEFINE v == Activated(w, op.to)
  <2>2. /\ v \in Writers /\ v.cred = op.to /\ v.gen = w.gen + 1 /\ v.epoch = w.epoch + 1
        /\ v.ready = NoReady /\ v.fenced = w.fenced /\ ~v.unavailable
    BY <1>4, ActivatedFields
  <2>3. /\ w'.cred = op.to /\ w'.gen = w.gen + 1 /\ w'.epoch = w.epoch + 1
        /\ w'.ready = NoReady /\ w'.fenced = w.fenced /\ ~w'.unavailable /\ w'.clear = 0
    <3> HIDE DEF v
    <3> QED  BY <2>1, <2>2 DEF Writers, v
  <2>4. /\ opener'.relay = op.to.token /\ opener'.epoch = w.epoch + 1
        /\ opener'.incarnation = opener.incarnation + 1 /\ opener'.retired = opener.retired
    BY <1>4, <2>1 DEF ReplaceRelay, Openers
  <2> QED  BY <1>1, <1>3, <1>5, <2>1, <2>3, <2>4 DEF GoesLive, Holds
<1>6. CASE ~(durable /\ ~w.fenced /\ LeaseHolds /\ TokenInTime) /\ (durable \/ disk = op.to)
  <2>1. w' = [w EXCEPT !.ready = [gen |-> op.gen, cred |-> op.to]] /\ UNCHANGED <<opener, highest>>
    BY <1>2, <1>6
  <2> QED  BY <1>1, <1>3, <1>4, <2>1 DEF RelayWaits, Writers
<1>7. CASE ~(durable /\ ~w.fenced /\ LeaseHolds /\ TokenInTime) /\ ~(durable \/ disk = op.to)
  <2>1. w' = w /\ UNCHANGED <<opener, highest>> /\ op.file # "renamed"
    BY <1>1, <1>2, <1>7, WriterAssumption DEF CallKnows
  <2> QED  BY <1>1, <1>3, <1>7, <2>1 DEF SameWriter
<1> QED  BY <1>5, <1>6, <1>7

LEMMA RetryReadyOutcome ==
  ASSUME PartsOK, CallKnows, FinishRetryReady
  PROVE  /\ op \in Calls /\ op.kind = "retry ready" /\ op' = Free /\ UNCHANGED dial
         /\ \/ GoesLive
            \/ (WroteDurably \/ WroteNot) /\ SameWriter /\ UNCHANGED <<opener, highest>>
<1>1. op \in Calls /\ op.kind = "retry ready" /\ op' = Free /\ UNCHANGED dial
  BY DEF FinishRetryReady, Unlock, PartsOK, CallOK
<1>2. PICK durable \in BOOLEAN :
       /\ WriteEnds(durable)
       /\ IF durable /\ ~w.fenced /\ LeaseHolds /\ TokenInTime
            THEN w' = Activated(w, op.to) /\ ReplaceRelay(op.to.token) /\ Holds(op.to)
            ELSE UNCHANGED <<w, opener, highest>>
  BY DEF FinishRetryReady
<1>3. IF durable THEN WroteDurably ELSE WroteNot
  BY <1>2, WriteOutcome
<1>4. w \in Writers /\ opener \in Openers /\ op.to \in Credential
  BY <1>1 DEF PartsOK, WriterOK, Calls
<1>5. CASE durable /\ ~w.fenced /\ LeaseHolds /\ TokenInTime
  <2>1. w' = Activated(w, op.to) /\ ReplaceRelay(op.to.token) /\ Holds(op.to)
    BY <1>2, <1>5
  <2>2. /\ w'.cred = op.to /\ w'.gen = w.gen + 1 /\ w'.epoch = w.epoch + 1
        /\ w'.ready = NoReady /\ w'.fenced = w.fenced /\ ~w'.unavailable /\ w'.clear = w.clear
    BY <1>4, <2>1, ActivatedFields
  <2>3. /\ opener'.relay = op.to.token /\ opener'.epoch = w.epoch + 1
        /\ opener'.incarnation = opener.incarnation + 1 /\ opener'.retired = opener.retired
    BY <1>4, <2>1 DEF ReplaceRelay, Openers
  <2> QED  BY <1>1, <1>3, <1>5, <2>1, <2>2, <2>3 DEF GoesLive, Holds
<1>6. CASE ~(durable /\ ~w.fenced /\ LeaseHolds /\ TokenInTime)
  BY <1>1, <1>2, <1>3, <1>6 DEF SameWriter
<1> QED  BY <1>5, <1>6

\* A clear is on disk, or still waits.
LEMMA ClearOutcome ==
  ASSUME PartsOK, CallKnows, FinishClear \/ FinishRetryClear
  PROVE  /\ op \in Calls /\ op.kind \in {"clear", "retry clear"} /\ op' = Free
         /\ UNCHANGED <<dial, opener, highest>>
         /\ w'.cred = w.cred /\ w'.gen = w.gen /\ w'.epoch = w.epoch /\ w'.ready = w.ready
         /\ w'.unavailable = w.unavailable /\ w'.fenced = w.fenced
         /\ \/ WroteDurably /\ w'.clear = 0
            \/ WroteNot /\ w'.clear = IF op.kind = "clear" THEN op.gen ELSE w.clear
<1>1. /\ op \in Calls /\ op.kind \in {"clear", "retry clear"} /\ op' = Free
      /\ UNCHANGED <<dial, opener, highest>>
  BY DEF FinishClear, FinishRetryClear, Unlock, PartsOK, CallOK
<1>2. PICK durable \in BOOLEAN :
        /\ WriteEnds(durable)
        /\ w' = [w EXCEPT !.clear = IF durable THEN 0 ELSE IF op.kind = "clear" THEN op.gen ELSE w.clear]
  <2>1. CASE FinishClear
    BY <2>1 DEF FinishClear
  <2>2. CASE FinishRetryClear
    <3>1. PICK durable \in BOOLEAN : WriteEnds(durable) /\ w' = IF durable THEN [w EXCEPT !.clear = 0] ELSE w
      BY <2>2 DEF FinishRetryClear
    <3>2. w = [w EXCEPT !.clear = w.clear]
      BY DEF PartsOK, WriterOK, Writers
    <3> QED  BY <2>2, <3>1, <3>2 DEF FinishRetryClear
  <2> QED  BY <2>1, <2>2
<1>3. IF durable THEN WroteDurably ELSE WroteNot
  BY <1>2, WriteOutcome
<1>4. w \in Writers
  BY DEF PartsOK, WriterOK
<1>5. /\ w'.cred = w.cred /\ w'.gen = w.gen /\ w'.epoch = w.epoch /\ w'.ready = w.ready
      /\ w'.unavailable = w.unavailable /\ w'.fenced = w.fenced
      /\ w'.clear = IF durable THEN 0 ELSE IF op.kind = "clear" THEN op.gen ELSE w.clear
  BY <1>2, <1>4 DEF Writers
<1> QED  BY <1>1, <1>3, <1>5

\* The endpoints are on disk, with the tuple they were written with, or nothing is new.
LEMMA EndpointsOutcome ==
  ASSUME PartsOK, Generations, CallKnows, FinishEndpoints
  PROVE  /\ op \in Calls /\ op.kind = "endpoints" /\ op' = Free /\ UNCHANGED <<dial, opener, highest>>
         /\ w'.gen = w.gen /\ w'.epoch = w.epoch /\ w'.clear = w.clear /\ w'.ready.gen = w.ready.gen
         /\ w'.unavailable = w.unavailable /\ w'.fenced = w.fenced /\ w'.cred.token = w.cred.token
         /\ ReadyWaits => w'.ready.cred.token = w.ready.cred.token
         /\ \/ WroteNot /\ SameWriter /\ overlooked' = overlooked
            \/ /\ WroteDurably /\ w'.cred.eps = op.to.eps
               /\ op.ready => w'.ready.cred.eps = op.to.eps /\ overlooked' = overlooked
               /\ ~op.ready => overlooked' = (overlooked \/ (ClearWaits /\ ReadyWaits))
<1>1. op \in Calls /\ op.kind = "endpoints" /\ op' = Free /\ UNCHANGED <<dial, opener, highest>>
  BY DEF FinishEndpoints, Unlock, PartsOK, CallOK
<1>2. PICK durable \in BOOLEAN :
       /\ WriteEnds(durable)
       /\ w' = IF ~durable THEN w
               ELSE [w EXCEPT !.cred.eps = op.to.eps,
                              !.ready = IF op.ready THEN [@ EXCEPT !.cred.eps = op.to.eps] ELSE @]
       /\ overlooked' = (overlooked \/ (durable /\ ~op.ready /\ ClearWaits /\ ReadyWaits))
  BY Zenon DEF FinishEndpoints
<1>3. IF durable THEN WroteDurably ELSE WroteNot
  BY <1>2, WriteOutcome
<1>4. w \in Writers /\ op.to \in Credential /\ op.ready \in BOOLEAN /\ overlooked \in BOOLEAN
  BY <1>1 DEF PartsOK, WriterOK, Calls, CountsOK
<1>5. w.cred \in Credential /\ (op.ready => ReadyWaits)
  BY <1>1, <1>4, WriterAssumption DEF Writers, CallKnows
<1>6. CASE ~durable
  BY <1>1, <1>2, <1>3, <1>4, <1>6 DEF SameWriter
<1>7. CASE durable /\ op.ready
  <2>1. w' = [w EXCEPT !.cred.eps = op.to.eps, !.ready = [w.ready EXCEPT !.cred.eps = op.to.eps]]
    BY <1>2, <1>7
  <2>2. w.ready \in [gen : Nat, cred : Credential]
    BY <1>5, <1>7, WaitingTuple DEF PartsOK
  <2>3. /\ w'.gen = w.gen /\ w'.epoch = w.epoch /\ w'.clear = w.clear
        /\ w'.unavailable = w.unavailable /\ w'.fenced = w.fenced
        /\ w'.cred = [w.cred EXCEPT !.eps = op.to.eps]
        /\ w'.ready = [w.ready EXCEPT !.cred.eps = op.to.eps]
    BY <1>4, <2>1 DEF Writers
  <2>4. w'.cred.token = w.cred.token /\ w'.cred.eps = op.to.eps
    BY <1>5, <2>3 DEF Credential
  <2>5. /\ w'.ready.gen = w.ready.gen /\ w'.ready.cred.token = w.ready.cred.token
        /\ w'.ready.cred.eps = op.to.eps
    BY <2>2, <2>3 DEF Credential
  <2>6. overlooked' = overlooked
    BY <1>2, <1>4, <1>7
  <2> QED  BY <1>1, <1>3, <1>7, <2>3, <2>4, <2>5, <2>6
<1>8. CASE durable /\ ~op.ready
  <2>1. w' = [w EXCEPT !.cred.eps = op.to.eps, !.ready = w.ready]
    BY <1>2, <1>8
  <2>2. /\ w'.gen = w.gen /\ w'.epoch = w.epoch /\ w'.clear = w.clear
        /\ w'.unavailable = w.unavailable /\ w'.fenced = w.fenced
        /\ w'.cred = [w.cred EXCEPT !.eps = op.to.eps] /\ w'.ready = w.ready
    BY <1>4, <2>1 DEF Writers
  <2>3. w'.cred.token = w.cred.token /\ w'.cred.eps = op.to.eps
    BY <1>5, <2>2 DEF Credential
  <2>4. overlooked' = (overlooked \/ (ClearWaits /\ ReadyWaits))
    BY <1>2, <1>8
  <2> QED  BY <1>1, <1>3, <1>8, <2>2, <2>3, <2>4
<1> QED  BY <1>6, <1>7, <1>8

-----------------------------------------------------------------------------
(* How each call begins, and what the other steps leave as it was *)

Begun(kind) ==
  op = Free /\ op' \in Calls /\ op' # Free /\ op'.kind = kind /\ op'.file = "temporary"
NotBegun == op = Free /\ op' = Free
FilesStay == UNCHANGED <<disk, after, persisted, highest, overlooked, issued, expired, owner>>
SameDial ==
  dial'.token = dial.token /\ dial'.epoch = dial.epoch /\ dial'.incarnation = dial.incarnation
PassRests == pass'.at \notin {"commit", "asked"} /\ pass'.gen = 0 /\ pass'.answer = None

LEMMA RestingFields ==
  ASSUME NEW at \in {"idle", "retry", "ask", "endpoints", "writing"}, pass' = [Resting EXCEPT !.at = at]
  PROVE  PassRests
  BY DEF Resting, PassRests

LEMMA CallBegins ==
  ASSUME NEW k \in Kinds, NEW c \in Credential, NEW g \in Nat, NEW r \in BOOLEAN,
         op = Free, op' = Call(k, c, g, r)
  PROVE  Begun(k) /\ op'.to = c /\ op'.gen = g /\ op'.ready = r
<1> DEFINE call == Call(k, c, g, r)
<1>1. /\ call \in Calls /\ call # Free /\ call.kind = k /\ call.to = c /\ call.gen = g
      /\ call.ready = r /\ call.file = "temporary"
  BY CallFields
<1>2. op' = call
  OBVIOUS
<1> HIDE DEF call
<1> QED  BY <1>1, <1>2 DEF Begun

LEMMA BeginRefreshOutcome ==
  ASSUME PartsOK, BeginRefresh
  PROVE  /\ FilesStay /\ UNCHANGED <<w, opener, pass>> /\ dial.at = "hook" /\ SameDial
         /\ \/ NotBegun /\ HookIsStale /\ dial'.at = "dialed"
            \/ /\ Begun("refresh") /\ ~HookIsStale /\ dial'.at = "writing"
               /\ op'.to.token = dial.token /\ op'.gen = dial.epoch
<1>1. FilesStay /\ UNCHANGED <<w, opener, pass>> /\ dial.at = "hook" /\ op = Free /\ SameDial
  BY DEF BeginRefresh, FilesStay, Quiet, PartsOK, Dials, SameDial
<1>2. CASE HookIsStale
  BY <1>1, <1>2 DEF BeginRefresh, NotBegun, PartsOK, Dials
<1>3. CASE ~HookIsStale
  <2> DEFINE to == [w.cred EXCEPT !.token = dial.token]
  <2>1. /\ "refresh" \in Kinds /\ dial.token \in Tokens /\ dial.epoch \in Nat /\ FALSE \in BOOLEAN
        /\ w.cred \in Credential
    BY DEF Kinds, PartsOK, Dials, WriterOK, Writers
  <2>2. to \in Credential /\ to.token = dial.token
    BY <2>1, TokenUpdate
  <2>3. op' = Call("refresh", to, dial.epoch, FALSE) /\ dial' = [dial EXCEPT !.at = "writing"]
    BY <1>3 DEF BeginRefresh
  <2> HIDE DEF to
  <2>4. Begun("refresh") /\ op'.to = to /\ op'.gen = dial.epoch
    BY <1>1, <2>1, <2>2, <2>3, CallBegins
  <2>5. dial'.at = "writing"
    BY <2>3 DEF PartsOK, Dials
  <2> QED  BY <1>1, <1>3, <2>2, <2>4, <2>5
<1> QED  BY <1>2, <1>3

LEMMA BeginRelayOutcome ==
  ASSUME PartsOK, BeginRelay
  PROVE  /\ FilesStay /\ UNCHANGED <<w, opener, dial>> /\ pass.at = "commit" /\ pass.answer # None /\ PassRests
         /\ \/ NotBegun
            \/ /\ Begun("relay") /\ pass.gen = w.gen
               /\ op'.to.token = pass.answer /\ op'.to.eps = w.cred.eps /\ op'.gen = w.gen
<1>1. /\ FilesStay /\ UNCHANGED <<w, opener, dial>> /\ pass.at = "commit" /\ pass.answer # None
      /\ op = Free
  BY DEF BeginRelay, FilesStay, Quiet
<1>2. PassRests
  BY RestingFields DEF BeginRelay, Goto
<1>3. CASE ~(AnswerIsFresh /\ pass.answer \notin expired)
  BY <1>1, <1>2, <1>3 DEF BeginRelay, NotBegun
<1>4. CASE AnswerIsFresh /\ pass.answer \notin expired
  <2> DEFINE to == [w.cred EXCEPT !.token = pass.answer]
  <2>1. /\ "relay" \in Kinds /\ pass.answer \in Tokens /\ pass.gen \in Nat /\ FALSE \in BOOLEAN
        /\ w.cred \in Credential
    BY DEF Kinds, PartsOK, Passes, WriterOK, Writers
  <2>2. to \in Credential /\ to.token = pass.answer /\ to.eps = w.cred.eps
    BY <2>1, TokenUpdate
  <2>3. op' = Call("relay", to, pass.gen, FALSE) /\ pass.gen = w.gen
    BY <1>4 DEF BeginRelay, AnswerIsFresh
  <2> HIDE DEF to
  <2>4. Begun("relay") /\ op'.to = to /\ op'.gen = pass.gen
    BY <1>1, <2>1, <2>2, <2>3, CallBegins
  <2> QED  BY <1>1, <1>2, <2>2, <2>3, <2>4
<1> QED  BY <1>3, <1>4

LEMMA BeginClearOutcome ==
  ASSUME PartsOK, BeginClear
  PROVE  /\ FilesStay /\ UNCHANGED dial /\ PassRests
         /\ \/ NotBegun /\ UNCHANGED <<w, opener>>
            \/ /\ Begun("clear") /\ op'.to = w'.cred /\ op'.gen = w'.gen /\ ~w.fenced /\ ~w'.fenced
               /\ w'.cred.token = None /\ w'.cred.eps = w.cred.eps /\ w'.gen = w.gen + 1
               /\ w'.epoch = w.epoch + 1 /\ w'.clear = w.clear /\ w'.ready = NoReady
               /\ w'.unavailable = w.unavailable
               /\ opener'.relay = None /\ opener'.incarnation = opener.incarnation + 1
               /\ opener'.epoch = opener.epoch /\ opener'.retired = opener.retired
<1>1. FilesStay /\ UNCHANGED dial /\ op = Free
  BY DEF BeginClear, FilesStay, Quiet
<1>2. PassRests
  BY RestingFields DEF BeginClear, Goto
<1>3. CASE ~AnswerIsFresh
  BY <1>1, <1>2, <1>3 DEF BeginClear, NotBegun
<1>4. CASE AnswerIsFresh
  <2> DEFINE to == [w.cred EXCEPT !.token = None]
  <2>1. "clear" \in Kinds /\ w.gen + 1 \in Nat /\ w.epoch + 1 \in Nat /\ FALSE \in BOOLEAN /\ w.cred \in Credential
    BY DEF Kinds, PartsOK, WriterOK, Writers
  <2>2. to \in Credential /\ to.token = None /\ to.eps = w.cred.eps
    BY <2>1, NoneIsToken, TokenUpdate
  <2>3. /\ op' = Call("clear", to, w.gen + 1, FALSE)
        /\ w' = [w EXCEPT !.cred = to, !.gen = @ + 1, !.epoch = @ + 1, !.ready = NoReady]
        /\ opener' = [opener EXCEPT !.relay = None, !.incarnation = @ + 1]
    BY <1>4 DEF BeginClear
  <2> HIDE DEF to
  <2>4. Begun("clear") /\ op'.to = to /\ op'.gen = w.gen + 1
    BY <1>1, <2>1, <2>2, <2>3, CallBegins
  <2>5. /\ w'.cred = to /\ w'.gen = w.gen + 1 /\ w'.epoch = w.epoch + 1 /\ w'.clear = w.clear
        /\ w'.ready = NoReady /\ w'.unavailable = w.unavailable /\ w'.fenced = w.fenced
    BY <2>3 DEF PartsOK, WriterOK, Writers
  <2>6. /\ opener'.relay = None /\ opener'.incarnation = opener.incarnation + 1
        /\ opener'.epoch = opener.epoch /\ opener'.retired = opener.retired
    BY <2>3 DEF PartsOK, Openers
  <2> QED  BY <1>1, <1>2, <1>4, <2>2, <2>4, <2>5, <2>6 DEF AnswerIsFresh
<1> QED  BY <1>3, <1>4

LEMMA BeginEndpointsOutcome ==
  ASSUME PartsOK, Generations, BeginEndpoints
  PROVE  /\ FilesStay /\ UNCHANGED <<w, opener, dial>> /\ PassRests
         /\ \/ NotBegun
            \/ /\ Begun("endpoints") /\ op'.gen = w.gen
               /\ IF op'.ready THEN ReadyWaits /\ op'.to.token = w.ready.cred.token
                  ELSE /\ op'.to.token = w.cred.token
                       /\ ReadyWaits => ClearWaits \/ w.ready.cred.token \in expired
<1>1. FilesStay /\ UNCHANGED <<w, opener, dial>> /\ op = Free
  BY DEF BeginEndpoints, FilesStay, Quiet
<1>2. PassRests
  BY RestingFields DEF BeginEndpoints, Goto
<1> DEFINE ready == ~ClearWaits /\ ReadyWaits /\ w.ready.cred.token \notin expired
           base  == IF ready THEN w.ready.cred ELSE w.cred
<1>3. PICK merged \in Endpoints :
        NotBegun \/ op' = Call("endpoints", [base EXCEPT !.eps = merged], w.gen, ready)
  BY <1>1 DEF BeginEndpoints, NotBegun
<1>4. CASE NotBegun
  BY <1>1, <1>2, <1>4
<1>5. CASE op' = Call("endpoints", [base EXCEPT !.eps = merged], w.gen, ready)
  <2>1. "endpoints" \in Kinds /\ w.gen \in Nat /\ w.cred \in Credential /\ ready \in BOOLEAN
    BY DEF Kinds, PartsOK, WriterOK, Writers
  <2>2. base \in Credential
    BY <2>1, WaitingTuple DEF PartsOK
  <2> DEFINE to == [base EXCEPT !.eps = merged]
  <2>3. /\ base.token = IF ready THEN w.ready.cred.token ELSE w.cred.token
        /\ ready => ReadyWaits
        /\ ~ready /\ ReadyWaits => ClearWaits \/ w.ready.cred.token \in expired
    OBVIOUS
  <2> HIDE DEF base, ready
  <2>4. to \in Credential /\ to.token = base.token
    BY <2>2, EndpointsUpdate
  <2> HIDE DEF to
  <2>5. Begun("endpoints") /\ op'.to = to /\ op'.gen = w.gen /\ op'.ready = ready
    BY <1>1, <1>5, <2>1, <2>4, CallBegins DEF to
  <2> QED  BY <1>1, <1>2, <2>3, <2>4, <2>5
<1> QED  BY <1>3, <1>4, <1>5

LEMMA BeginRetryOutcome ==
  ASSUME PartsOK, Generations, BeginRetry
  PROVE  /\ FilesStay /\ UNCHANGED <<w, opener, dial>> /\ PassRests
         /\ \/ NotBegun
            \/ Begun("retry clear") /\ op'.gen = w.gen /\ op'.to = w.cred
            \/ Begun("retry ready") /\ op'.gen = w.gen /\ op'.to = w.ready.cred /\ ReadyWaits
<1>1. FilesStay /\ UNCHANGED <<w, opener, dial>> /\ op = Free
  BY DEF BeginRetry, FilesStay, Quiet
<1>2. PassRests
  BY RestingFields DEF BeginRetry, Goto
<1>3. \/ NotBegun
      \/ op' = Call("retry clear", w.cred, w.gen, FALSE)
      \/ ReadyWaits /\ op' = Call("retry ready", w.ready.cred, w.gen, TRUE)
  BY <1>1 DEF BeginRetry, NotBegun
<1>4. "retry clear" \in Kinds /\ "retry ready" \in Kinds /\ w.gen \in Nat /\ w.cred \in Credential
  BY DEF Kinds, PartsOK, WriterOK, Writers
<1>5. CASE op' = Call("retry clear", w.cred, w.gen, FALSE)
  <2>1. Begun("retry clear") /\ op'.gen = w.gen /\ op'.to = w.cred
    BY <1>1, <1>4, <1>5, CallBegins
  <2> QED  BY <1>1, <1>2, <2>1
<1>6. CASE ReadyWaits /\ op' = Call("retry ready", w.ready.cred, w.gen, TRUE)
  <2>1. w.ready.cred \in Credential
    BY <1>6, WaitingTuple DEF PartsOK
  <2>2. Begun("retry ready") /\ op'.gen = w.gen /\ op'.to = w.ready.cred
    BY <1>1, <1>4, <1>6, <2>1, CallBegins
  <2> QED  BY <1>1, <1>2, <1>6, <2>2
<1> QED  BY <1>1, <1>2, <1>3, <1>5, <1>6

\* The call goes on: only its lease and its file may change.
SameCall ==
  IF op = Free THEN op' = Free
  ELSE /\ op \in Calls /\ op' \in Calls /\ op' # Free /\ op'.kind = op.kind /\ op'.to = op.to
       /\ op'.gen = op.gen /\ op'.ready = op.ready
SameFile == op # Free => op'.file = op.file

LEMMA CallGoesOn ==
  ASSUME CallOK
  PROVE  /\ op' = op => SameCall /\ SameFile
         /\ op # Free /\ op' = [op EXCEPT !.leased = FALSE] => SameCall /\ SameFile
         /\ \A f \in {"checked", "renamed"} :
              op # Free /\ op' = [op EXCEPT !.file = f] => SameCall /\ op'.file = f
<1>1. CASE op = Free
  BY <1>1 DEF SameCall, SameFile
<1>2. CASE op # Free
  <2>1. op \in Calls
    BY <1>2 DEF CallOK
  <2>2. [op EXCEPT !.leased = FALSE] \in Calls
    BY <2>1 DEF Calls
  <2>3. \A f \in {"checked", "renamed"} : [op EXCEPT !.file = f] \in Calls
    BY <2>1 DEF Calls
  <2>4. op' = [op EXCEPT !.leased = FALSE] => SameCall /\ SameFile
    BY <1>2, <2>1, <2>2, WriterAssumption DEF SameCall, SameFile, Calls
  <2>5. ASSUME NEW f \in {"checked", "renamed"}, op' = [op EXCEPT !.file = f]
        PROVE  SameCall /\ op'.file = f
    BY <1>2, <2>1, <2>3, <2>5, WriterAssumption DEF SameCall, Calls
  <2> QED  BY <1>2, <2>1, <2>4, <2>5 DEF SameCall, SameFile
<1> QED  BY <1>1, <1>2

LEMMA LastLookFrame ==
  ASSUME PartsOK, LastLook
  PROVE  /\ op # Free /\ SameCall /\ op.file = "temporary" /\ op'.file = "checked"
         /\ FilesStay /\ UNCHANGED <<w, opener, pass, dial>>
  BY CallGoesOn DEF LastLook, FilesStay, Quiet, PartsOK

LEMMA RenameFrame ==
  ASSUME PartsOK, Rename
  PROVE  /\ op # Free /\ SameCall /\ op'.file = "renamed" /\ disk' = op.to /\ after' = after \cup {op.to}
         /\ UNCHANGED <<w, opener, pass, dial, owner, issued, expired, persisted, highest, overlooked>>
  BY CallGoesOn DEF Rename, PartsOK

\* A pass asks for and gets a token; the lease may go and a token may expire.
PassStep ==
  \/ PassRests \/ UNCHANGED pass
  \/ pass'.at = "asked" /\ pass'.gen = w.gen /\ pass'.answer = pass.answer
  \/ pass'.at = "commit" /\ pass'.gen = pass.gen /\ pass'.answer \in {None, issued + 1} /\ issued' >= pass'.answer

LEMMA PassFrame ==
  ASSUME PartsOK, StartPass \/ Ask \/ Answer \/ LoseLease \/ Expire
  PROVE  /\ SameCall /\ SameFile /\ UNCHANGED <<disk, after, w, opener, dial, owner, persisted, highest, overlooked>>
         /\ issued \in Nat /\ issued' \in Nat /\ issued <= issued' /\ expired \subseteq expired' /\ PassStep
<1>1. CallOK /\ issued \in Nat /\ None \in Nat
  BY WriterAssumption DEF PartsOK, CountsOK, Tokens, None
<1>2. CASE StartPass
  BY <1>1, <1>2, CallGoesOn, RestingFields DEF StartPass, Still, PassStep
<1>3. CASE Ask
  <2>1. pass'.at = "asked" /\ pass'.gen = w.gen /\ pass'.answer = pass.answer
    BY <1>3 DEF Ask, PartsOK, Passes
  <2> QED  BY <1>1, <1>3, <2>1, CallGoesOn DEF Ask, Still, Quiet, PassStep
<1>4. CASE Answer
  <2>1. PassStep /\ issued' \in {issued, issued + 1}
    <3>1. CASE Goto("endpoints") /\ UNCHANGED issued
      BY <3>1, RestingFields DEF Goto, PassStep
    <3>2. CASE pass' = [pass EXCEPT !.at = "commit", !.answer = None] /\ UNCHANGED issued
      <4>1. pass'.at = "commit" /\ pass'.gen = pass.gen /\ pass'.answer = None
        BY <3>2 DEF PartsOK, Passes
      <4> QED  BY <1>1, <3>2, <4>1 DEF PassStep, None
    <3>3. CASE issued' = issued + 1 /\ pass' = [pass EXCEPT !.at = "commit", !.answer = issued + 1]
      <4>1. pass'.at = "commit" /\ pass'.gen = pass.gen /\ pass'.answer = issued + 1
        BY <3>3 DEF PartsOK, Passes
      <4> QED  BY <1>1, <3>3, <4>1 DEF PassStep
    <3> QED  BY <1>4, <3>1, <3>2, <3>3 DEF Answer
  <2> QED  BY <1>1, <1>4, <2>1, CallGoesOn DEF Answer, Still
<1>5. CASE LoseLease
  <2>1. pass' = [Resting EXCEPT !.at = "idle"]
    BY <1>5 DEF LoseLease, Resting
  <2>2. SameCall /\ SameFile
    BY <1>1, <1>5, CallGoesOn DEF LoseLease
  <2>3. PassStep
    BY <2>1, RestingFields DEF PassStep
  <2> QED  BY <1>1, <1>5, <2>2, <2>3 DEF LoseLease, Still, Quiet
<1>6. CASE Expire
  BY <1>1, <1>6, CallGoesOn DEF Expire, Still, PassStep
<1> QED  BY <1>2, <1>3, <1>4, <1>5, <1>6

LEMMA DialFrame ==
  ASSUME PartsOK, DialStart \/ DialRefreshes \/ DialEnds \/ DialFails
  PROVE  /\ UNCHANGED <<disk, after, w, op, pass, owner, expired, persisted, highest, overlooked>>
         /\ SameCall /\ SameFile /\ issued \in Nat /\ issued' \in Nat /\ issued <= issued'
<1>1. CallOK /\ issued \in Nat
  BY WriterAssumption DEF PartsOK, CountsOK, Tokens
<1>2. /\ UNCHANGED <<disk, after, w, op, pass, owner, expired, persisted, highest, overlooked>>
      /\ issued' \in {issued, issued + 1}
  BY Zenon DEF DialStart, DialRefreshes, DialEnds, DialFails, StillDial, Still
<1> QED  BY <1>1, <1>2, CallGoesOn

\* What a step of the replacement leaves of the writer: it is fenced, or nothing changed.
LEMMA OwnerFrame ==
  ASSUME PartsOK, FencedFirst, FenceWriter \/ Retire \/ Drain
  PROVE  /\ SameCall /\ SameFile /\ (pass' = pass \/ PassRests)
         /\ UNCHANGED <<disk, after, dial, issued, expired, persisted, highest, overlooked>>
         /\ w'.cred = w.cred /\ w'.gen = w.gen /\ w'.clear = w.clear /\ w'.ready = w.ready
         /\ w'.unavailable = w.unavailable
         /\ opener'.relay = opener.relay /\ opener'.epoch = opener.epoch
         /\ \/ /\ w'.fenced
               /\ \/ opener'.incarnation = opener.incarnation /\ opener'.retired = opener.retired
                  \/ opener'.incarnation = opener.incarnation + 1 /\ opener'.retired
            \/ UNCHANGED <<w, opener>>
<1>1. CallOK /\ w \in Writers /\ opener \in Openers
  BY DEF PartsOK, WriterOK
<1>2. CASE Drain
  BY <1>1, <1>2, CallGoesOn DEF Drain, StillOwner, Quiet
<1>3. CASE FenceWriter \/ Retire
  <2>1. LeaseGone /\ UNCHANGED <<disk, after>> /\ StillOwner
    BY <1>3 DEF FenceWriter, Retire
  <2>2. SameCall /\ SameFile
    BY <1>1, <2>1, CallGoesOn DEF LeaseGone
  <2>3. PassRests
    <3>1. pass' = [Resting EXCEPT !.at = "idle"]
      BY <2>1 DEF LeaseGone, Resting
    <3> QED  BY <3>1, RestingFields
  <2>4. /\ w'.cred = w.cred /\ w'.gen = w.gen /\ w'.clear = w.clear /\ w'.ready = w.ready
        /\ w'.unavailable = w.unavailable /\ w'.fenced
    <3>1. owner = "fenced" => w.fenced
      BY DEF FencedFirst
    <3> QED  BY <1>1, <1>3, <3>1 DEF FenceWriter, Retire, Writers
  <2>5. /\ opener'.relay = opener.relay /\ opener'.epoch = opener.epoch
        /\ \/ opener'.incarnation = opener.incarnation /\ opener'.retired = opener.retired
           \/ opener'.incarnation = opener.incarnation + 1 /\ opener'.retired
    BY <1>1, <1>3 DEF FenceWriter, Retire, Openers
  <2> QED  BY <2>1, <2>2, <2>3, <2>4, <2>5 DEF StillOwner, Quiet
<1> QED  BY <1>2, <1>3

LEMMA ReplaceFrame ==
  ASSUME PartsOK, FencedFirst, NoLateCall, Replace
  PROVE  /\ op = Free /\ op' = Free /\ w.fenced
         /\ UNCHANGED <<w, opener, pass, dial, issued, expired, persisted, highest, overlooked>>
  BY DEF Replace, StillOwner, Quiet, FencedFirst, NoLateCall

\* A settling ends no dial but the one whose refresh it is, and overlooks nothing but endpoints.
LEMMA FinishFrame ==
  ASSUME Finish
  PROVE  /\ op # Free /\ op' = Free /\ UNCHANGED <<issued, expired, owner, disk>> /\ persisted \subseteq persisted'
         /\ (pass' = pass \/ PassRests)
<1>1. Settled
  BY FinishIsSettled
<1>2. PICK durable \in BOOLEAN : WriteEnds(durable)
  BY <1>1 DEF Settled
<1>3. UNCHANGED disk /\ persisted \subseteq persisted'
  BY <1>2 DEF WriteEnds
<1>4. pass' = pass \/ PassRests
  BY <1>1, RestingFields DEF Settled
<1> QED  BY <1>1, <1>3, <1>4 DEF Settled

LEMMA RefreshEnds ==
  ASSUME PartsOK, FinishRefresh
  PROVE  dial'.at = "dialed" /\ SameDial /\ UNCHANGED overlooked
  BY DEF FinishRefresh, PartsOK, Dials, SameDial

LEMMA OthersOverlookNothing ==
  ASSUME FinishRelay \/ FinishClear \/ FinishRetryClear \/ FinishRetryReady
  PROVE  UNCHANGED overlooked
  BY DEF FinishRelay, FinishClear, FinishRetryClear, FinishRetryReady

\* The kinds of numbers the argument compares.
LEMMA Numbers ==
  ASSUME PartsOK
  PROVE  /\ w.gen \in Nat /\ w.epoch \in Nat /\ w.clear \in Nat /\ w.ready.gen \in Nat
         /\ w.cred \in Credential /\ w.cred.token \in Nat
         /\ opener.relay \in Nat /\ opener.epoch \in Nat /\ opener.incarnation \in Nat
         /\ dial.token \in Nat /\ dial.epoch \in Nat /\ dial.incarnation \in Nat
         /\ pass.gen \in Nat /\ pass.answer \in Nat
         /\ issued \in Nat /\ highest \in Nat
<1>1. /\ opener.relay \in Nat /\ opener.epoch \in Nat /\ opener.incarnation \in Nat
      /\ issued \in Nat /\ highest \in Nat
  BY WriterAssumption DEF PartsOK, Openers, CountsOK, Tokens
<1>2. /\ dial.token \in Nat /\ dial.epoch \in Nat /\ dial.incarnation \in Nat
      /\ pass.gen \in Nat /\ pass.answer \in Nat
  BY WriterAssumption DEF PartsOK, Dials, Passes, Tokens
<1>3. /\ w.gen \in Nat /\ w.epoch \in Nat /\ w.clear \in Nat /\ w.ready \in ReadyPending
      /\ w.cred \in Credential /\ w.cred.token \in Nat
  BY WriterAssumption DEF PartsOK, WriterOK, Writers, Credential, Tokens
<1>4. w.ready.gen \in Nat
  BY <1>3 DEF ReadyPending, NoReady
<1> QED  BY <1>1, <1>2, <1>3, <1>4

LEMMA CallNumbers ==
  ASSUME PartsOK, op # Free
  PROVE  op \in Calls /\ op.to \in Credential /\ op.to.token \in Nat /\ op.gen \in Nat
  BY WriterAssumption DEF PartsOK, CallOK, Calls, Credential, Tokens
-----------------------------------------------------------------------------
(* The invariant, a conjunct at a time *)

LEMMA TypesOfWriterInv == ASSUME WriterInv  PROVE PartsOK /\ Generations
  BY PartsAreTypes DEF WriterInv

LEMMA GenerationsNext == ASSUME WriterInv, Next  PROVE Generations'
<1>1. PartsOK /\ Generations /\ CallKnows
  BY TypesOfWriterInv DEF WriterInv
<1>2. w.gen \in Nat /\ w.clear \in Nat /\ w.ready.gen \in Nat
  BY <1>1, Numbers
<1> USE DEF Generations
<1>3. CASE BeginClear
  BY <1>1, <1>2, <1>3, BeginClearOutcome DEF NoReady
<1>4. CASE FinishRefresh
  BY <1>1, <1>2, <1>4, RefreshOutcome DEF SameWriter, RefreshKept, RefreshLost, NoReady
<1>5. CASE FinishRelay
  <2>1. op # Free /\ (op.kind = "relay" => op.gen = w.gen)
    BY <1>1, <1>5 DEF FinishRelay, CallKnows
  <2> QED  BY <1>1, <1>2, <1>5, <2>1, RelayOutcome DEF SameWriter, GoesLive, RelayWaits, NoReady
<1>6. CASE FinishRetryReady
  <2>1. GoesLive \/ SameWriter
    BY <1>1, <1>6, RetryReadyOutcome
  <2> QED  BY <1>1, <1>2, <2>1 DEF SameWriter, GoesLive, NoReady
<1>7. CASE FinishClear \/ FinishRetryClear
  <2>1. op # Free /\ (op.kind = "clear" => op.gen = w.gen)
    BY <1>1, <1>7 DEF FinishClear, FinishRetryClear, CallKnows
  <2>2. /\ w'.gen = w.gen /\ w'.ready = w.ready
        /\ \/ w'.clear = 0
           \/ w'.clear = IF op.kind = "clear" THEN op.gen ELSE w.clear
    BY <1>1, <1>7, ClearOutcome
  <2> QED  BY <1>1, <1>2, <2>1, <2>2
<1>8. CASE FinishEndpoints
  BY <1>1, <1>2, <1>8, EndpointsOutcome
<1>9. CASE BeginRefresh \/ BeginRelay \/ BeginEndpoints \/ BeginRetry
  BY <1>1, <1>9, BeginRefreshOutcome, BeginRelayOutcome, BeginEndpointsOutcome, BeginRetryOutcome
<1>10. CASE LastLook \/ Rename \/ StartPass \/ Ask \/ Answer \/ LoseLease \/ Expire
  BY <1>1, <1>10, LastLookFrame, RenameFrame, PassFrame
<1>11. CASE DialStart \/ DialRefreshes \/ DialEnds \/ DialFails
  BY <1>1, <1>11, DialFrame
<1>12. CASE FenceWriter \/ Retire \/ Drain \/ Replace
  BY <1>1, <1>12, OwnerFrame, ReplaceFrame DEF WriterInv
<1> QED
  BY <1>3, <1>4, <1>5, <1>6, <1>7, <1>8, <1>9, <1>10, <1>11, <1>12 DEF Next, Finish

\* A call keeps what it knows while it goes on and nothing it read changes.
LEMMA KnownStands ==
  ASSUME CallKnows, SameCall,
         w'.cred = w.cred, w'.gen = w.gen, w'.clear = w.clear, w'.ready = w.ready,
         ~w'.fenced => ~w.fenced /\ w'.epoch = w.epoch,
         op # Free /\ op'.file = "renamed" => disk' = op.to,
         op # Free /\ op.kind = "refresh" => SameDial,
         expired \subseteq expired'
  PROVE  CallKnows'
<1>1. CASE op = Free
  BY <1>1 DEF CallKnows, SameCall
<1>2. CASE op # Free
  <2>1. /\ op'.kind = op.kind /\ op'.to = op.to /\ op'.gen = op.gen /\ op'.ready = op.ready
        /\ op # Free /\ (ReadyWaits' <=> ReadyWaits) /\ (ClearWaits' <=> ClearWaits)
    BY <1>2 DEF SameCall, ReadyWaits, ClearWaits
  <2> QED  BY <2>1 DEF CallKnows, SameDial
<1> QED  BY <1>1, <1>2

LEMMA CallKnowsNext == ASSUME WriterInv, Next  PROVE CallKnows'
<1>1. PartsOK /\ Generations /\ CallKnows /\ DialsTheClient
  BY TypesOfWriterInv DEF WriterInv
<1>2. CASE BeginRefresh
  BY <1>1, <1>2, BeginRefreshOutcome DEF CallKnows, NotBegun, Begun, HookIsStale, SameDial
<1>3. CASE BeginRelay
  BY <1>1, <1>3, BeginRelayOutcome DEF CallKnows, NotBegun, Begun
<1>4. CASE BeginClear
  BY <1>1, <1>4, BeginClearOutcome DEF CallKnows, NotBegun, Begun
<1>5. CASE BeginEndpoints
  BY <1>1, <1>5, BeginEndpointsOutcome DEF CallKnows, NotBegun, Begun, ReadyWaits, ClearWaits, FilesStay
<1>6. CASE BeginRetry
  BY <1>1, <1>6, BeginRetryOutcome DEF CallKnows, NotBegun, Begun, ReadyWaits
<1>7. CASE Finish
  BY <1>7, FinishFrame DEF CallKnows
<1>8. CASE LastLook
  BY <1>1, <1>8, LastLookFrame, KnownStands DEF FilesStay, SameDial
<1>9. CASE Rename
  BY <1>1, <1>9, RenameFrame, KnownStands DEF SameDial
<1>10. CASE StartPass \/ Ask \/ Answer \/ LoseLease \/ Expire
  <2>1. op # Free /\ op'.file = "renamed" => disk' = op.to
    BY <1>1, <1>10, PassFrame DEF SameFile, CallKnows
  <2> QED  BY <1>1, <1>10, <2>1, PassFrame, KnownStands DEF SameDial
<1>11. CASE DialStart \/ DialRefreshes \/ DialEnds \/ DialFails
  <2>1. op # Free /\ op.kind = "refresh" => FALSE
    BY <1>1, <1>11 DEF DialsTheClient, DialStart, DialRefreshes, DialEnds, DialFails
  <2>2. op # Free /\ op'.file = "renamed" => disk' = op.to
    BY <1>1, <1>11, DialFrame DEF SameFile, CallKnows
  <2> QED  BY <1>1, <1>11, <2>1, <2>2, DialFrame, KnownStands
<1>12. CASE FenceWriter \/ Retire \/ Drain
  <2>1. op # Free /\ op'.file = "renamed" => disk' = op.to
    BY <1>1, <1>12, OwnerFrame DEF SameFile, CallKnows, WriterInv
  <2>2. ~w'.fenced => ~w.fenced /\ w'.epoch = w.epoch
    BY <1>1, <1>12, OwnerFrame DEF WriterInv
  <2> QED  BY <1>1, <1>12, <2>1, <2>2, OwnerFrame, KnownStands DEF WriterInv, SameDial
<1>13. CASE Replace
  BY <1>1, <1>13, ReplaceFrame DEF CallKnows, WriterInv
<1> QED
  BY <1>2, <1>3, <1>4, <1>5, <1>6, <1>7, <1>8, <1>9, <1>10, <1>11, <1>12, <1>13 DEF Next

\* The record of what is on disk stands while neither changes.
LEMMA RecordStands ==
  ASSUME FilesAreRecorded, after' = after, ~w'.fenced => ~w.fenced,
         w'.cred = w.cred, w'.gen = w.gen, w'.clear = w.clear, w'.ready = w.ready,
         w'.unavailable = w.unavailable,
         op = Free \/ (SameCall /\ (op.file = "renamed" => op'.file = "renamed"))
  PROVE  FilesAreRecorded'
<1>1. \A c : Recorded(c)' <=> Recorded(c)
  BY DEF Recorded, ClearWaits, ReadyWaits
<1>2. op # Free => op' # Free /\ op'.kind = op.kind /\ op'.to = op.to
  BY DEF SameCall
<1> QED  BY <1>1, <1>2 DEF FilesAreRecorded

LEMMA FilesNext == ASSUME WriterInv, Next  PROVE FilesAreRecorded'
<1>1. PartsOK /\ Generations /\ CallKnows /\ FilesAreRecorded
  BY TypesOfWriterInv DEF WriterInv
<1>2. CASE BeginRefresh \/ BeginRelay \/ BeginEndpoints \/ BeginRetry
  <2>1. FilesStay /\ w' = w /\ op = Free
    BY <1>1, <1>2, BeginRefreshOutcome, BeginRelayOutcome, BeginEndpointsOutcome, BeginRetryOutcome
       DEF NotBegun, Begun
  <2> QED  BY <1>1, <2>1, RecordStands DEF FilesStay
<1>3. CASE BeginClear
  BY <1>1, <1>3, BeginClearOutcome, RecordStands DEF NotBegun, Begun, FilesStay, FilesAreRecorded
<1>4. CASE FinishRefresh
  <2>1. op \in Calls /\ op.kind = "refresh" /\ op' = Free
    BY <1>1, <1>4, RefreshOutcome
  <2>2. (w.fenced /\ SameWriter) \/ RefreshKept \/ RefreshLost
    BY <1>1, <1>4, RefreshOutcome
  <2> QED  BY <2>1, <2>2 DEF SameWriter, RefreshKept, RefreshLost, FilesAreRecorded, Recorded, WroteDurably
<1>5. CASE FinishRelay
  <2>1. op # Free /\ op.kind = "relay" /\ op.gen = w.gen /\ op' = Free
    BY <1>1, <1>5, RelayOutcome DEF CallKnows, FinishRelay
  <2>2. CASE GoesLive
    BY <2>1, <2>2 DEF GoesLive, WroteDurably, FilesAreRecorded, Recorded
  <2>3. CASE RelayWaits
    BY <2>1, <2>3 DEF RelayWaits, FilesAreRecorded, Recorded, ReadyWaits
  <2>4. CASE WroteNot /\ op.file # "renamed" /\ SameWriter
    BY <1>1, <2>1, <2>4 DEF WroteNot, SameWriter, FilesAreRecorded, Recorded, ReadyWaits, ClearWaits
  <2> QED  BY <1>1, <1>5, <2>2, <2>3, <2>4, RelayOutcome
<1>6. CASE FinishRetryReady
  <2>1. op # Free /\ op.kind = "retry ready" /\ op' = Free /\ ReadyWaits
    BY <1>1, <1>6, RetryReadyOutcome DEF CallKnows, FinishRetryReady
  <2>2. CASE GoesLive
    BY <2>1, <2>2 DEF GoesLive, WroteDurably, FilesAreRecorded, Recorded
  <2>3. CASE SameWriter
    BY <2>1, <2>3 DEF SameWriter, FilesAreRecorded, Recorded, ReadyWaits
  <2> QED  BY <1>1, <1>6, <2>2, <2>3, RetryReadyOutcome
<1>7. CASE FinishClear \/ FinishRetryClear
  <2>1. op # Free /\ op.kind \in {"clear", "retry clear"} /\ op' = Free /\ op.to = w.cred /\ op.gen = w.gen
    BY <1>1, <1>7, ClearOutcome DEF CallKnows, FinishClear, FinishRetryClear
  <2>2. /\ w'.cred = w.cred /\ w'.gen = w.gen /\ w'.ready = w.ready
        /\ w'.unavailable = w.unavailable /\ w'.fenced = w.fenced
        /\ \/ WroteDurably /\ w'.clear = 0
           \/ WroteNot /\ w'.clear = IF op.kind = "clear" THEN op.gen ELSE w.clear
    BY <1>1, <1>7, ClearOutcome
  <2>3. CASE WroteDurably
    BY <2>1, <2>2, <2>3 DEF WroteDurably, FilesAreRecorded, Recorded
  <2>4. CASE WroteNot /\ op.kind = "clear" /\ w'.clear = op.gen
    BY <2>1, <2>2, <2>4 DEF FilesAreRecorded, Recorded, ClearWaits
  <2>5. CASE WroteNot /\ op.kind = "retry clear" /\ w'.clear = w.clear
    BY <1>1, <2>1, <2>2, <2>5 DEF WroteNot, FilesAreRecorded, Recorded, ClearWaits, ReadyWaits
  <2> QED  BY <2>1, <2>2, <2>3, <2>4, <2>5
<1>8. CASE FinishEndpoints
  <2>1. /\ op # Free /\ op.kind = "endpoints" /\ op' = Free
        /\ IF op.ready THEN ReadyWaits ELSE op.to.token = w.cred.token
    BY <1>1, <1>8, EndpointsOutcome DEF CallKnows, FinishEndpoints
  <2>2. /\ w'.gen = w.gen /\ w'.clear = w.clear /\ w'.ready.gen = w.ready.gen
        /\ w'.unavailable = w.unavailable /\ w'.fenced = w.fenced /\ w'.cred.token = w.cred.token
        /\ WroteNot \/ WroteDurably
    BY <1>1, <1>8, EndpointsOutcome
  <2>3. ASSUME NEW c  PROVE Recorded(c)' <=> Recorded(c)
    BY <2>2 DEF Recorded, ClearWaits, ReadyWaits
  <2>4. Recorded(op.to)
    BY <2>1 DEF Recorded
  <2>5. CASE WroteDurably
    BY <2>1, <2>3, <2>4, <2>5 DEF FilesAreRecorded, WroteDurably
  <2>6. CASE WroteNot
    BY <1>1, <2>1, <2>2, <2>3, <2>4, <2>6 DEF FilesAreRecorded, WroteNot
  <2> QED  BY <2>2, <2>5, <2>6
<1>9. CASE LastLook
  BY <1>1, <1>9, LastLookFrame, RecordStands DEF FilesStay
<1>10. CASE Rename
  <2>1. /\ op # Free /\ op' # Free /\ op'.kind = op.kind /\ op'.to = op.to /\ op'.file = "renamed"
        /\ after' = after \cup {op.to} /\ w' = w
    BY <1>1, <1>10, RenameFrame DEF SameCall
  <2>2. \A c : Recorded(c)' <=> Recorded(c)
    BY <2>1 DEF Recorded, ClearWaits, ReadyWaits
  <2> QED  BY <1>1, <2>1, <2>2 DEF FilesAreRecorded
<1>11. CASE StartPass \/ Ask \/ Answer \/ LoseLease \/ Expire
  BY <1>1, <1>11, PassFrame, RecordStands DEF SameFile
<1>12. CASE DialStart \/ DialRefreshes \/ DialEnds \/ DialFails
  BY <1>1, <1>12, DialFrame, RecordStands DEF SameFile
<1>13. CASE FenceWriter \/ Retire \/ Drain
  <2>1. ~w'.fenced => ~w.fenced
    BY <1>1, <1>13, OwnerFrame DEF WriterInv
  <2> QED  BY <1>1, <1>13, <2>1, OwnerFrame, RecordStands DEF SameFile, WriterInv
<1>14. CASE Replace
  BY <1>1, <1>14, ReplaceFrame DEF FilesAreRecorded, WriterInv
<1> QED
  BY <1>2, <1>3, <1>4, <1>5, <1>6, <1>7, <1>8, <1>9, <1>10, <1>11, <1>12, <1>13, <1>14
     DEF Next, Finish

LEMMA DialsNext == ASSUME WriterInv, Next  PROVE DialsTheClient'
<1>1. PartsOK /\ Generations /\ CallKnows /\ DialsTheClient
  BY TypesOfWriterInv DEF WriterInv
<1>2. /\ w.epoch \in Nat /\ opener.epoch \in Nat /\ opener.incarnation \in Nat
      /\ dial.epoch \in Nat /\ dial.incarnation \in Nat
  BY <1>1, Numbers
<1> USE DEF DialsTheClient
<1>3. CASE BeginRefresh
  <2>1. UNCHANGED <<w, opener>> /\ dial.at = "hook" /\ SameDial
    BY <1>1, <1>3, BeginRefreshOutcome
  <2>2. \/ NotBegun /\ dial'.at = "dialed"
        \/ Begun("refresh") /\ dial'.at = "writing"
    BY <1>1, <1>3, BeginRefreshOutcome
  <2>3. dial'.at = "writing" <=> (op' # Free /\ op'.kind = "refresh")
    BY <2>2 DEF NotBegun, Begun
  <2> QED  BY <1>1, <2>1, <2>2, <2>3 DEF SameDial
<1>4. CASE BeginRelay \/ BeginEndpoints \/ BeginRetry
  <2>1. UNCHANGED <<w, opener, dial>>
    BY <1>1, <1>4, BeginRelayOutcome, BeginEndpointsOutcome, BeginRetryOutcome
  <2>2. op = Free /\ (op' # Free => op'.kind # "refresh")
    BY <1>1, <1>4, BeginRelayOutcome, BeginEndpointsOutcome, BeginRetryOutcome DEF NotBegun, Begun
  <2> QED  BY <1>1, <2>1, <2>2
<1>5. CASE BeginClear
  <2>1. UNCHANGED dial /\ op = Free /\ (op' # Free => op'.kind # "refresh")
    BY <1>1, <1>5, BeginClearOutcome DEF NotBegun, Begun
  <2>2. \/ UNCHANGED <<w, opener>>
        \/ /\ w'.epoch = w.epoch + 1 /\ ~w.fenced /\ opener'.relay = None
           /\ opener'.incarnation = opener.incarnation + 1 /\ opener'.retired = opener.retired
    BY <1>1, <1>5, BeginClearOutcome
  <2>3. CASE UNCHANGED <<w, opener>>
    BY <1>1, <2>1, <2>3
  <2>4. CASE /\ w'.epoch = w.epoch + 1 /\ ~w.fenced /\ opener'.relay = None
             /\ opener'.incarnation = opener.incarnation + 1 /\ opener'.retired = opener.retired
    BY <1>1, <1>2, <2>1, <2>4
  <2> QED  BY <2>2, <2>3, <2>4
<1>6. CASE FinishRefresh
  <2>1. op' = Free /\ opener' = opener /\ dial'.at = "dialed" /\ SameDial /\ dial.at = "writing"
    BY <1>1, <1>6, RefreshOutcome, RefreshEnds DEF FinishRefresh
  <2>2. w'.epoch = w.epoch /\ (w'.fenced <=> w.fenced)
    <3>1. SameWriter \/ RefreshKept \/ RefreshLost
      BY <1>1, <1>6, RefreshOutcome
    <3> QED  BY <3>1 DEF SameWriter, RefreshKept, RefreshLost
  <2> QED  BY <1>1, <2>1, <2>2 DEF SameDial
<1>7. CASE FinishRelay \/ FinishRetryReady
  <2>1. UNCHANGED dial /\ op' = Free /\ op # Free /\ op.kind # "refresh"
    BY <1>1, <1>7, RelayOutcome, RetryReadyOutcome DEF FinishRelay, FinishRetryReady
  <2>2. \/ GoesLive
        \/ w'.epoch = w.epoch /\ w'.fenced = w.fenced /\ opener' = opener
    BY <1>1, <1>7, RelayOutcome, RetryReadyOutcome DEF SameWriter, RelayWaits
  <2>3. CASE GoesLive
    BY <1>1, <1>2, <2>1, <2>3 DEF GoesLive
  <2>4. CASE w'.epoch = w.epoch /\ w'.fenced = w.fenced /\ opener' = opener
    BY <1>1, <2>1, <2>4
  <2> QED  BY <2>2, <2>3, <2>4
<1>8. CASE FinishClear \/ FinishRetryClear \/ FinishEndpoints
  <2>1. UNCHANGED <<dial, opener>> /\ op' = Free /\ op # Free /\ op.kind # "refresh"
    BY <1>1, <1>8, ClearOutcome, EndpointsOutcome DEF FinishClear, FinishRetryClear, FinishEndpoints
  <2>2. w'.epoch = w.epoch /\ w'.fenced = w.fenced
    BY <1>1, <1>8, ClearOutcome, EndpointsOutcome
  <2> QED  BY <1>1, <2>1, <2>2
<1>9. CASE LastLook \/ Rename \/ StartPass \/ Ask \/ Answer \/ LoseLease \/ Expire
  <2>1. UNCHANGED <<w, opener, dial>> /\ SameCall
    BY <1>1, <1>9, LastLookFrame, RenameFrame, PassFrame
  <2> QED  BY <1>1, <2>1 DEF SameCall
<1>10. CASE DialStart
  <2>1. /\ dial' = [at |-> "dialing", token |-> opener.relay, epoch |-> opener.epoch,
                    incarnation |-> opener.incarnation]
        /\ opener.relay # None /\ ~opener.retired /\ dial.at = "idle" /\ UNCHANGED <<w, opener, op>>
    BY <1>10 DEF DialStart, StillDial, Still
  <2> QED  BY <1>1, <1>2, <2>1
<1>11. CASE DialRefreshes
  <2>1. /\ dial.at = "dialing" /\ dial' = [dial EXCEPT !.at = "hook", !.token = issued + 1]
        /\ opener' = IF opener.relay # None /\ opener.incarnation = dial.incarnation
                       THEN [opener EXCEPT !.relay = issued + 1] ELSE opener
        /\ UNCHANGED <<w, op>>
    BY <1>11 DEF DialRefreshes, StillDial, Still
  <2>2. /\ dial'.at = "hook" /\ dial'.token = issued + 1 /\ dial'.epoch = dial.epoch
        /\ dial'.incarnation = dial.incarnation
    BY <1>1, <2>1 DEF PartsOK, Dials
  <2>3. /\ opener'.epoch = opener.epoch /\ opener'.incarnation = opener.incarnation
        /\ opener'.retired = opener.retired
        /\ opener.incarnation = dial.incarnation => opener'.relay = issued + 1
        /\ opener'.relay # None => opener.relay # None
    BY <1>1, <2>1 DEF PartsOK, Openers
  <2>4. issued + 1 # None
    BY <1>1, Numbers DEF None
  <2> QED  BY <1>1, <2>1, <2>2, <2>3, <2>4
<1>12. CASE DialEnds \/ DialFails
  <2>1. /\ dial.at \in {"dialing", "dialed", "proven"}
        /\ dial' = [dial EXCEPT !.at = "proven"] \/ dial' = NoDial
        /\ UNCHANGED <<w, opener, op>>
    BY <1>12 DEF DialEnds, DialFails, StillDial, Still
  <2>2. \/ dial'.at = "idle"
        \/ dial'.at = "proven" /\ SameDial
    BY <1>1, <2>1 DEF PartsOK, Dials, NoDial, SameDial
  <2> QED  BY <1>1, <2>1, <2>2 DEF SameDial
<1>13. CASE FenceWriter \/ Retire \/ Drain
  <2>1. /\ SameCall /\ dial' = dial /\ opener'.relay = opener.relay /\ opener'.epoch = opener.epoch
        /\ \/ /\ w'.fenced
              /\ \/ opener'.incarnation = opener.incarnation /\ opener'.retired = opener.retired
                 \/ opener'.incarnation = opener.incarnation + 1 /\ opener'.retired
           \/ UNCHANGED <<w, opener>>
    BY <1>1, <1>13, OwnerFrame DEF WriterInv
  <2>2. dial'.at = "writing" <=> (op' # Free /\ op'.kind = "refresh")
    BY <1>1, <2>1 DEF SameCall
  <2> QED  BY <1>1, <1>2, <2>1, <2>2
<1>14. CASE Replace
  BY <1>1, <1>14, ReplaceFrame DEF WriterInv
<1> QED
  BY <1>3, <1>4, <1>5, <1>6, <1>7, <1>8, <1>9, <1>10, <1>11, <1>12, <1>13, <1>14 DEF Next, Finish

\* Client and credential agree still while neither they nor the refresh being told change.
LEMMA FollowingStands ==
  ASSUME ClientFollows, ~w'.fenced => ~w.fenced, ~w'.unavailable => ~w.unavailable,
         w'.cred.token = w.cred.token, opener'.relay = opener.relay,
         opener'.incarnation = opener.incarnation \/ w'.fenced,
         Telling => (dial'.at \in {"hook", "writing"} /\ SameDial) \/ w'.fenced
  PROVE  ClientFollows'
  BY DEF ClientFollows, Telling, SameDial

LEMMA FollowsNext == ASSUME WriterInv, Next  PROVE ClientFollows'
<1>1. PartsOK /\ Generations /\ CallKnows /\ DialsTheClient /\ ClientFollows
  BY TypesOfWriterInv DEF WriterInv
<1>2. CASE BeginRefresh
  <2>1. UNCHANGED <<w, opener>> /\ dial.at = "hook" /\ SameDial
    BY <1>1, <1>2, BeginRefreshOutcome
  <2>2. HookIsStale \/ dial'.at = "writing"
    BY <1>1, <1>2, BeginRefreshOutcome
  <2>3. HookIsStale /\ Telling => w.fenced
    BY <1>1, <2>1 DEF HookIsStale, Telling, DialsTheClient
  <2> QED  BY <1>1, <2>1, <2>2, <2>3, FollowingStands
<1>3. CASE BeginRelay \/ BeginEndpoints \/ BeginRetry
  <2>1. UNCHANGED <<w, opener, dial>>
    BY <1>1, <1>3, BeginRelayOutcome, BeginEndpointsOutcome, BeginRetryOutcome
  <2> QED  BY <1>1, <2>1 DEF ClientFollows, Telling
<1>4. CASE BeginClear
  <2>1. UNCHANGED dial
    BY <1>1, <1>4, BeginClearOutcome
  <2>2. UNCHANGED <<w, opener>> \/ (w'.cred.token = None /\ opener'.relay = None)
    BY <1>1, <1>4, BeginClearOutcome
  <2> QED  BY <1>1, <2>1, <2>2 DEF ClientFollows, Telling
<1>5. CASE FinishRefresh
  <2>1. opener' = opener /\ dial.at = "writing" /\ op # Free /\ op.kind = "refresh"
    BY <1>1, <1>5, RefreshOutcome DEF FinishRefresh, DialsTheClient
  <2>2. (w.fenced /\ SameWriter) \/ RefreshKept \/ RefreshLost
    BY <1>1, <1>5, RefreshOutcome
  <2>3. CASE w.fenced /\ SameWriter
    BY <2>3 DEF SameWriter, ClientFollows
  <2>4. CASE RefreshLost
    BY <2>4 DEF RefreshLost, ClientFollows
  <2>5. CASE RefreshKept
    <3>1. dial.incarnation = opener.incarnation /\ op.to.token = dial.token /\ w'.cred = op.to
      BY <1>1, <2>1, <2>5 DEF RefreshKept, CallKnows, DialsTheClient
    <3>2. opener'.relay = w'.cred.token
      BY <1>1, <2>1, <3>1 DEF DialsTheClient
    <3> QED  BY <3>2 DEF ClientFollows
  <2> QED  BY <2>2, <2>3, <2>4, <2>5
<1>6. CASE FinishRelay \/ FinishRetryReady
  <2>1. UNCHANGED dial
    BY <1>1, <1>6, RelayOutcome, RetryReadyOutcome
  <2>2. \/ GoesLive
        \/ w'.cred = w.cred /\ w'.unavailable = w.unavailable /\ w'.fenced = w.fenced /\ opener' = opener
    BY <1>1, <1>6, RelayOutcome, RetryReadyOutcome DEF SameWriter, RelayWaits
  <2>3. CASE GoesLive
    BY <2>3 DEF GoesLive, ClientFollows
  <2>4. CASE w'.cred = w.cred /\ w'.unavailable = w.unavailable /\ w'.fenced = w.fenced /\ opener' = opener
    BY <1>1, <2>1, <2>4 DEF ClientFollows, Telling
  <2> QED  BY <2>2, <2>3, <2>4
<1>7. CASE FinishClear \/ FinishRetryClear \/ FinishEndpoints
  <2>1. UNCHANGED <<dial, opener>>
    BY <1>1, <1>7, ClearOutcome, EndpointsOutcome
  <2>2. w'.cred.token = w.cred.token /\ w'.unavailable = w.unavailable /\ w'.fenced = w.fenced
    BY <1>1, <1>7, ClearOutcome, EndpointsOutcome
  <2> QED  BY <1>1, <2>1, <2>2 DEF ClientFollows, Telling
<1>8. CASE LastLook \/ Rename \/ StartPass \/ Ask \/ Answer \/ LoseLease \/ Expire
  <2>1. UNCHANGED <<w, opener, dial>>
    BY <1>1, <1>8, LastLookFrame, RenameFrame, PassFrame
  <2> QED  BY <1>1, <2>1 DEF ClientFollows, Telling
<1>9. CASE DialStart \/ DialEnds \/ DialFails
  <2>1. UNCHANGED <<w, opener>> /\ dial.at \notin {"hook", "writing"}
    BY <1>9 DEF DialStart, DialEnds, DialFails, StillDial, Still
  <2> QED  BY <1>1, <2>1 DEF ClientFollows, Telling
<1>10. CASE DialRefreshes
  <2>1. /\ dial.at = "dialing" /\ dial' = [dial EXCEPT !.at = "hook", !.token = issued + 1]
        /\ opener' = IF opener.relay # None /\ opener.incarnation = dial.incarnation
                       THEN [opener EXCEPT !.relay = issued + 1] ELSE opener
        /\ UNCHANGED w
    BY <1>10 DEF DialRefreshes, StillDial, Still
  <2>2. dial'.at = "hook" /\ dial'.incarnation = dial.incarnation
    BY <1>1, <2>1 DEF PartsOK, Dials
  <2>3. opener'.incarnation = opener.incarnation /\ (opener.incarnation = dial.incarnation \/ opener' = opener)
    BY <1>1, <2>1 DEF PartsOK, Openers
  <2> QED  BY <1>1, <2>1, <2>2, <2>3 DEF ClientFollows, Telling
<1>11. CASE FenceWriter \/ Retire \/ Drain
  <2>1. /\ dial' = dial /\ opener'.relay = opener.relay
        /\ w'.cred = w.cred /\ w'.unavailable = w.unavailable
        /\ w'.fenced \/ UNCHANGED <<w, opener>>
    BY <1>1, <1>11, OwnerFrame DEF WriterInv
  <2> QED  BY <1>1, <2>1 DEF ClientFollows, Telling
<1>12. CASE Replace
  BY <1>1, <1>12, ReplaceFrame DEF WriterInv, ClientFollows
<1> QED
  BY <1>2, <1>3, <1>4, <1>5, <1>6, <1>7, <1>8, <1>9, <1>10, <1>11, <1>12 DEF Next, Finish

LEMMA CarrierNext == ASSUME WriterInv, Next  PROVE CarrierIsPersisted'
<1>1. PartsOK /\ Generations /\ CallKnows /\ DialsTheClient /\ ClientFollows /\ TokensAreNewer /\ CarrierIsPersisted
  BY TypesOfWriterInv DEF WriterInv
<1>2. ASSUME dial' = dial, persisted \subseteq persisted', w.fenced => w'.fenced  PROVE CarrierIsPersisted'
  BY <1>1, <1>2 DEF CarrierIsPersisted
<1>3. CASE BeginRefresh
  BY <1>1, <1>3, BeginRefreshOutcome DEF CarrierIsPersisted
<1>4. CASE BeginRelay \/ BeginEndpoints \/ BeginRetry \/ BeginClear
  BY <1>1, <1>2, <1>4, BeginRelayOutcome, BeginEndpointsOutcome, BeginRetryOutcome, BeginClearOutcome
     DEF FilesStay
<1>5. CASE FinishRefresh
  BY <1>1, <1>5, RefreshEnds DEF CarrierIsPersisted
<1>6. CASE FinishRelay \/ FinishRetryReady
  <2>1. dial' = dial /\ persisted \subseteq persisted'
    BY <1>1, <1>6, RelayOutcome, RetryReadyOutcome, FinishFrame DEF Finish
  <2>2. w.fenced => w'.fenced
    BY <1>1, <1>6, RelayOutcome, RetryReadyOutcome DEF SameWriter, RelayWaits, GoesLive
  <2> QED  BY <1>2, <2>1, <2>2
<1>7. CASE FinishClear \/ FinishRetryClear \/ FinishEndpoints
  <2>1. dial' = dial /\ persisted \subseteq persisted'
    BY <1>1, <1>7, ClearOutcome, EndpointsOutcome, FinishFrame DEF Finish
  <2>2. w'.fenced = w.fenced
    BY <1>1, <1>7, ClearOutcome, EndpointsOutcome
  <2> QED  BY <1>2, <2>1, <2>2
<1>8. CASE LastLook \/ Rename \/ StartPass \/ Ask \/ Answer \/ LoseLease \/ Expire
  BY <1>1, <1>2, <1>8, LastLookFrame, RenameFrame, PassFrame DEF FilesStay
<1>9. CASE DialStart \/ DialRefreshes \/ DialFails
  <2>1. CASE DialStart \/ DialFails
    BY <2>1 DEF DialStart, DialFails, NoDial, CarrierIsPersisted
  <2>2. CASE DialRefreshes
    <3>1. dial \in Dials /\ dial' = [dial EXCEPT !.at = "hook", !.token = issued + 1]
      BY <1>1, <2>2 DEF DialRefreshes, PartsOK
    <3>2. dial'.at = "hook"
      BY <3>1 DEF Dials
    <3> QED  BY <3>2 DEF CarrierIsPersisted
  <2> QED  BY <1>9, <2>1, <2>2
<1>10. CASE DialEnds
  <2>1. /\ dial.at \in {"dialing", "dialed", "proven"} /\ UNCHANGED <<w, opener, persisted>>
        /\ dial' = IF dial.at # "proven" /\ CarrierStands THEN [dial EXCEPT !.at = "proven"] ELSE NoDial
    BY <1>10 DEF DialEnds, StillDial, Still
  <2>2. CASE dial.at # "proven" /\ CarrierStands
    <3>1. SameDial
      BY <1>1, <2>1, <2>2 DEF PartsOK, Dials, SameDial
    <3>2. opener.relay = dial.token /\ dial.token # None /\ ~w.unavailable /\ ~Telling
      BY <1>1, <2>1, <2>2 DEF CarrierStands, DialsTheClient, Telling
    <3>3. w.fenced \/ dial.token \in persisted
      BY <1>1, <3>2 DEF ClientFollows, TokensAreNewer, WriterTokens
    <3> QED  BY <2>1, <3>1, <3>3 DEF CarrierIsPersisted, SameDial
  <2>3. CASE ~(dial.at # "proven" /\ CarrierStands)
    BY <2>1, <2>3 DEF CarrierIsPersisted, NoDial
  <2> QED  BY <2>2, <2>3
<1>11. CASE FenceWriter \/ Retire \/ Drain
  <2>1. dial' = dial /\ persisted' = persisted /\ (w'.fenced \/ w' = w)
    BY <1>1, <1>11, OwnerFrame DEF WriterInv
  <2> QED  BY <1>2, <2>1
<1>12. CASE Replace
  BY <1>1, <1>2, <1>12, ReplaceFrame DEF WriterInv
<1> QED
  BY <1>3, <1>4, <1>5, <1>6, <1>7, <1>8, <1>9, <1>10, <1>11, <1>12 DEF Next, Finish

LEMMA EndpointsWaitNext == ASSUME WriterInv, Next  PROVE WaitsWithEndpoints'
<1>1. PartsOK /\ Generations /\ CallKnows /\ WaitsWithEndpoints
  BY TypesOfWriterInv DEF WriterInv
<1>2. ASSUME w'.gen = w.gen, w'.ready = w.ready, w'.cred = w.cred,
             overlooked' = overlooked, expired \subseteq expired'
      PROVE  WaitsWithEndpoints'
  BY <1>1, <1>2 DEF WaitsWithEndpoints, ReadyWaits
<1>3. ASSUME w'.gen = w.gen + 1, w'.ready = NoReady  PROVE ~ReadyWaits'
  <2>1. w.gen \in Nat
    BY <1>1, Numbers
  <2> QED  BY <1>3, <2>1 DEF ReadyWaits, NoReady
<1>4. CASE BeginRefresh \/ BeginRelay \/ BeginEndpoints \/ BeginRetry
  <2>1. w' = w /\ FilesStay
    BY <1>1, <1>4, BeginRefreshOutcome, BeginRelayOutcome, BeginEndpointsOutcome, BeginRetryOutcome
  <2> QED  BY <1>2, <2>1 DEF FilesStay
<1>5. CASE BeginClear
  <2>1. (w' = w /\ FilesStay) \/ (w'.gen = w.gen + 1 /\ w'.ready = NoReady)
    BY <1>1, <1>5, BeginClearOutcome
  <2> QED  BY <1>2, <1>3, <2>1 DEF FilesStay, WaitsWithEndpoints
<1>6. CASE FinishRefresh
  <2>1. (SameWriter \/ RefreshKept \/ RefreshLost) /\ UNCHANGED <<overlooked, expired>>
    BY <1>1, <1>6, RefreshOutcome, RefreshEnds, FinishFrame DEF Finish
  <2> QED  BY <1>2, <1>3, <2>1 DEF SameWriter, RefreshKept, RefreshLost, WaitsWithEndpoints
<1>7. CASE FinishRelay \/ FinishRetryReady
  <2>1. /\ GoesLive \/ SameWriter \/ (RelayWaits /\ op # Free /\ op.kind = "relay")
        /\ UNCHANGED <<overlooked, expired>>
    BY <1>1, <1>7, RelayOutcome, RetryReadyOutcome, OthersOverlookNothing, FinishFrame DEF Finish
  <2>2. CASE RelayWaits /\ op # Free /\ op.kind = "relay"
    <3>1. w'.ready.cred = op.to /\ w'.cred = w.cred /\ op.to.eps = w.cred.eps
      BY <1>1, <2>2 DEF RelayWaits, CallKnows
    <3> QED  BY <3>1 DEF WaitsWithEndpoints
  <2> QED  BY <1>2, <1>3, <2>1, <2>2 DEF SameWriter, GoesLive, WaitsWithEndpoints
<1>8. CASE FinishClear \/ FinishRetryClear
  <2>1. w'.cred = w.cred /\ w'.gen = w.gen /\ w'.ready = w.ready
    BY <1>1, <1>8, ClearOutcome
  <2>2. UNCHANGED <<overlooked, expired>>
    BY <1>8, OthersOverlookNothing, FinishFrame DEF Finish
  <2> QED  BY <1>2, <2>1, <2>2
<1>9. CASE FinishEndpoints
  <2>1. op # Free /\ op.kind = "endpoints" /\ UNCHANGED expired /\ overlooked \in BOOLEAN
    BY <1>1, <1>9, FinishFrame DEF FinishEndpoints, Finish, PartsOK, CountsOK
  <2>2. /\ w'.gen = w.gen /\ w'.ready.gen = w.ready.gen
        /\ ReadyWaits => w'.ready.cred.token = w.ready.cred.token
    BY <1>1, <1>9, EndpointsOutcome
  <2>3. \/ SameWriter /\ overlooked' = overlooked
        \/ /\ w'.cred.eps = op.to.eps
           /\ op.ready => w'.ready.cred.eps = op.to.eps /\ overlooked' = overlooked
           /\ ~op.ready => overlooked' = (overlooked \/ (ClearWaits /\ ReadyWaits))
    BY <1>1, <1>9, EndpointsOutcome
  <2>4. CASE SameWriter /\ overlooked' = overlooked
    BY <1>2, <2>1, <2>4 DEF SameWriter
  <2>5. CASE op.ready /\ w'.cred.eps = op.to.eps /\ w'.ready.cred.eps = op.to.eps
    BY <2>5 DEF WaitsWithEndpoints
  <2>6. CASE ~op.ready /\ overlooked' = (overlooked \/ (ClearWaits /\ ReadyWaits))
    <3>1. ReadyWaits => ClearWaits \/ w.ready.cred.token \in expired
      BY <1>1, <2>1, <2>6 DEF CallKnows
    <3>2. ReadyWaits' <=> ReadyWaits
      BY <2>2 DEF ReadyWaits
    <3> QED  BY <2>1, <2>2, <2>6, <3>1, <3>2 DEF WaitsWithEndpoints
  <2> QED  BY <2>3, <2>4, <2>5, <2>6
<1>10. CASE LastLook \/ Rename \/ StartPass \/ Ask \/ Answer \/ LoseLease \/ Expire
  <2>1. w' = w /\ overlooked' = overlooked /\ expired \subseteq expired'
    BY <1>1, <1>10, LastLookFrame, RenameFrame, PassFrame DEF FilesStay
  <2> QED  BY <1>2, <2>1
<1>11. CASE DialStart \/ DialRefreshes \/ DialEnds \/ DialFails
  BY <1>1, <1>2, <1>11, DialFrame
<1>12. CASE FenceWriter \/ Retire \/ Drain \/ Replace
  BY <1>1, <1>2, <1>12, OwnerFrame, ReplaceFrame DEF WriterInv
<1> QED
  BY <1>4, <1>5, <1>6, <1>7, <1>8, <1>9, <1>10, <1>11, <1>12 DEF Next, Finish

\* A newer token comes into use only as a call settles, in a generation of its own.
Rises ==
  /\ op # Free /\ op' = Free /\ highest' = Later(op.to.token) /\ w'.gen = w.gen + 1 /\ w'.ready = NoReady
  /\ ~Telling' /\ (pass' = pass \/ PassRests)

LEMMA HighestRises == ASSUME WriterInv, Next  PROVE UNCHANGED highest \/ Rises
<1>1. PartsOK /\ Generations /\ CallKnows /\ DialsTheClient
  BY TypesOfWriterInv DEF WriterInv
<1>2. CASE FinishRefresh
  <2>1. op # Free /\ op' = Free /\ (pass' = pass \/ PassRests) /\ ~Telling'
    BY <1>1, <1>2, FinishFrame, RefreshEnds DEF Finish, Telling
  <2>2. UNCHANGED highest \/ RefreshKept
    BY <1>1, <1>2, RefreshOutcome DEF RefreshLost
  <2> QED  BY <2>1, <2>2 DEF RefreshKept, Rises
<1>3. CASE FinishRelay \/ FinishRetryReady
  <2>1. op # Free /\ op' = Free /\ (pass' = pass \/ PassRests)
    BY <1>3, FinishFrame DEF Finish
  <2>2. dial' = dial /\ (UNCHANGED highest \/ GoesLive)
    BY <1>1, <1>3, RelayOutcome, RetryReadyOutcome DEF RelayWaits
  <2>3. CASE GoesLive
    <3>1. opener'.incarnation = opener.incarnation + 1 /\ opener.incarnation \in Nat
      BY <1>1, <2>3, Numbers DEF GoesLive
    <3>2. dial.incarnation \in Nat /\ (dial.at # "idle" => dial.incarnation <= opener.incarnation)
      BY <1>1, Numbers DEF DialsTheClient
    <3>3. ~Telling'
      BY <2>2, <3>1, <3>2 DEF Telling
    <3> QED  BY <2>1, <2>3, <3>3 DEF GoesLive, Rises
  <2> QED  BY <2>2, <2>3
<1>4. CASE FinishClear \/ FinishRetryClear \/ FinishEndpoints
  BY <1>1, <1>4, ClearOutcome, EndpointsOutcome
<1>5. CASE BeginRefresh \/ BeginRelay \/ BeginClear \/ BeginEndpoints \/ BeginRetry
  BY <1>1, <1>5, BeginRefreshOutcome, BeginRelayOutcome, BeginClearOutcome, BeginEndpointsOutcome,
     BeginRetryOutcome DEF FilesStay
<1>6. CASE LastLook \/ Rename \/ StartPass \/ Ask \/ Answer \/ LoseLease \/ Expire
  BY <1>1, <1>6, LastLookFrame, RenameFrame, PassFrame DEF FilesStay
<1>7. CASE DialStart \/ DialRefreshes \/ DialEnds \/ DialFails
  BY <1>1, <1>7, DialFrame
<1>8. CASE FenceWriter \/ Retire \/ Drain \/ Replace
  BY <1>1, <1>8, OwnerFrame, ReplaceFrame DEF WriterInv
<1> QED
  BY <1>2, <1>3, <1>4, <1>5, <1>6, <1>7, <1>8 DEF Next, Finish

\* Generations and issued tokens only grow, and a pass reads or is given what there is.
LEMMA GrowsNext ==
  ASSUME WriterInv, Next
  PROVE  w'.gen \in {w.gen, w.gen + 1} /\ issued <= issued' /\ expired \subseteq expired' /\ PassStep
<1>1. PartsOK /\ Generations /\ CallKnows /\ issued \in Nat
  BY TypesOfWriterInv, Numbers DEF WriterInv
<1> USE DEF PassStep
<1>2. CASE FinishRefresh \/ FinishRelay \/ FinishRetryReady
  <2>1. UNCHANGED <<issued, expired>> /\ (pass' = pass \/ PassRests)
    BY <1>2, FinishFrame DEF Finish
  <2>2. GoesLive \/ RefreshKept \/ w'.gen = w.gen
    BY <1>1, <1>2, RefreshOutcome, RelayOutcome, RetryReadyOutcome DEF SameWriter, RelayWaits, RefreshLost
  <2> QED  BY <1>1, <2>1, <2>2 DEF GoesLive, RefreshKept
<1>3. CASE FinishClear \/ FinishRetryClear \/ FinishEndpoints
  <2>1. UNCHANGED <<issued, expired>> /\ (pass' = pass \/ PassRests)
    BY <1>3, FinishFrame DEF Finish
  <2>2. w'.gen = w.gen
    BY <1>1, <1>3, ClearOutcome, EndpointsOutcome
  <2> QED  BY <1>1, <2>1, <2>2
<1>4. CASE BeginRefresh \/ BeginRelay \/ BeginClear \/ BeginEndpoints \/ BeginRetry
  <2>1. FilesStay /\ (pass' = pass \/ PassRests)
    BY <1>1, <1>4, BeginRefreshOutcome, BeginRelayOutcome, BeginClearOutcome, BeginEndpointsOutcome,
       BeginRetryOutcome
  <2>2. w' = w \/ w'.gen = w.gen + 1
    BY <1>1, <1>4, BeginRefreshOutcome, BeginRelayOutcome, BeginClearOutcome, BeginEndpointsOutcome,
       BeginRetryOutcome
  <2> QED  BY <1>1, <2>1, <2>2 DEF FilesStay
<1>5. CASE LastLook \/ Rename
  BY <1>1, <1>5, LastLookFrame, RenameFrame DEF FilesStay
<1>6. CASE StartPass \/ Ask \/ Answer \/ LoseLease \/ Expire
  <2> HIDE DEF PassStep
  <2> QED  BY <1>1, <1>6, PassFrame
<1>7. CASE DialStart \/ DialRefreshes \/ DialEnds \/ DialFails
  BY <1>1, <1>7, DialFrame
<1>8. CASE FenceWriter \/ Retire \/ Drain \/ Replace
  BY <1>1, <1>8, OwnerFrame, ReplaceFrame DEF WriterInv
<1> QED
  BY <1>2, <1>3, <1>4, <1>5, <1>6, <1>7, <1>8 DEF Next, Finish

LEMMA PassTokensNext == ASSUME WriterInv, Next  PROVE PassTokens'
<1>1. PassTokens /\ highest <= issued /\ (UNCHANGED highest \/ Rises)
  BY HighestRises DEF WriterInv, TokensAreNewer, WriterTokens
<1>2. /\ w.gen \in Nat /\ pass.gen \in Nat /\ pass.answer \in Nat /\ issued \in Nat /\ highest \in Nat
  BY TypesOfWriterInv, Numbers
<1>3. PartsOK'
  BY TypesOfWriterInv, WriterNext, FileNext, OpenerNext, CallNext, PassNext, DialNext, CountsNext DEF PartsOK
<1>4. issued' \in Nat /\ w'.gen \in Nat
  BY <1>3, WriterAssumption DEF PartsOK, CountsOK, Tokens, WriterOK, Writers
<1>5. w'.gen \in {w.gen, w.gen + 1} /\ issued <= issued' /\ PassStep
  BY GrowsNext
<1>6. CASE PassRests
  BY <1>4, <1>6 DEF PassRests, PassTokens, None
<1>7. CASE UNCHANGED pass
  <2>1. pass.gen <= w'.gen /\ pass.answer <= issued'
    BY <1>1, <1>2, <1>4, <1>5 DEF PassTokens
  <2>2. CASE UNCHANGED highest
    BY <1>1, <1>2, <1>5, <1>7, <2>1, <2>2 DEF PassTokens
  <2>3. CASE Rises
    BY <1>1, <1>2, <1>7, <2>1, <2>3 DEF PassTokens, Rises
  <2> QED  BY <1>1, <2>2, <2>3
<1>8. CASE UNCHANGED highest /\ pass'.at = "asked" /\ pass'.gen = w.gen /\ pass'.answer = pass.answer
  BY <1>1, <1>2, <1>4, <1>5, <1>8 DEF PassTokens
<1>9. CASE /\ UNCHANGED highest /\ pass'.at = "commit" /\ pass'.gen = pass.gen
           /\ pass'.answer \in {None, issued + 1} /\ issued' >= pass'.answer
  BY <1>1, <1>2, <1>4, <1>5, <1>9 DEF PassTokens, None
<1> QED  BY <1>1, <1>5, <1>6, <1>7, <1>8, <1>9 DEF PassStep, Rises

LEMMA DialTokensNext == ASSUME WriterInv, Next  PROVE DialTokens'
<1>1. /\ PartsOK /\ Generations /\ CallKnows /\ DialsTheClient /\ DialTokens /\ WriterTokens
      /\ (UNCHANGED highest \/ Rises) /\ issued <= issued'
  BY TypesOfWriterInv, HighestRises, GrowsNext DEF WriterInv, TokensAreNewer
<1>2. /\ issued \in Nat /\ highest \in Nat /\ dial.token \in Nat /\ opener.relay \in Nat
      /\ dial.incarnation \in Nat /\ opener.incarnation \in Nat
  BY <1>1, Numbers
<1>3. issued' \in Nat
  <2>1. CountsOK'
    BY <1>1, CountsNext
  <2> QED  BY <2>1, WriterAssumption DEF CountsOK, Tokens
<1>4. ASSUME dial'.token = dial.token, Telling' => Telling  PROVE DialTokens'
  BY <1>1, <1>2, <1>3, <1>4 DEF DialTokens, Rises
<1>5. ASSUME dial' = dial, opener'.incarnation \in {opener.incarnation, opener.incarnation + 1}  PROVE DialTokens'
  <2>1. dial.at # "idle" => dial.incarnation <= opener.incarnation
    BY <1>1 DEF DialsTheClient
  <2> QED  BY <1>2, <1>4, <1>5, <2>1 DEF Telling
<1>6. CASE BeginRefresh
  <2>1. SameDial /\ dial.at = "hook" /\ opener' = opener
    BY <1>1, <1>6, BeginRefreshOutcome
  <2> QED  BY <1>4, <2>1 DEF SameDial, Telling
<1>7. CASE BeginRelay \/ BeginClear \/ BeginEndpoints \/ BeginRetry
  BY <1>1, <1>5, <1>7, BeginRelayOutcome, BeginClearOutcome, BeginEndpointsOutcome, BeginRetryOutcome
<1>8. CASE FinishRefresh
  BY <1>1, <1>4, <1>8, RefreshEnds DEF SameDial, Telling
<1>9. CASE FinishRelay \/ FinishRetryReady
  <2>1. dial' = dial /\ (GoesLive \/ opener' = opener)
    BY <1>1, <1>9, RelayOutcome, RetryReadyOutcome
  <2> QED  BY <1>5, <2>1 DEF GoesLive
<1>10. CASE FinishClear \/ FinishRetryClear \/ FinishEndpoints
  BY <1>1, <1>5, <1>10, ClearOutcome, EndpointsOutcome
<1>11. CASE LastLook \/ Rename \/ StartPass \/ Ask \/ Answer \/ LoseLease \/ Expire
  BY <1>1, <1>5, <1>11, LastLookFrame, RenameFrame, PassFrame
<1>12. CASE DialStart
  <2>1. dial'.at = "dialing" /\ dial'.token = opener.relay
    BY <1>12 DEF DialStart
  <2> QED  BY <1>1, <1>2, <1>3, <2>1 DEF DialTokens, WriterTokens, Telling
<1>13. CASE DialRefreshes
  <2>1. dial' = [dial EXCEPT !.at = "hook", !.token = issued + 1] /\ issued' = issued + 1 /\ highest' = highest
    BY <1>13 DEF DialRefreshes, StillDial, Still
  <2>2. dial'.token = issued + 1
    BY <1>1, <2>1 DEF PartsOK, Dials
  <2> QED  BY <1>1, <1>2, <2>1, <2>2 DEF DialTokens, WriterTokens
<1>14. CASE DialEnds \/ DialFails
  <2>1. dial' = [dial EXCEPT !.at = "proven"] \/ dial' = NoDial
    BY <1>14 DEF DialEnds, DialFails
  <2>2. CASE dial' = [dial EXCEPT !.at = "proven"]
    <3>1. dial'.at = "proven" /\ dial'.token = dial.token
      BY <1>1, <2>2 DEF PartsOK, Dials
    <3> QED  BY <1>4, <3>1 DEF Telling
  <2>3. CASE dial' = NoDial
    BY <1>3, <2>3 DEF NoDial, DialTokens, Telling, None
  <2> QED  BY <2>1, <2>2, <2>3
<1>15. CASE FenceWriter \/ Retire \/ Drain \/ Replace
  <2>1. dial' = dial /\ opener'.incarnation \in {opener.incarnation, opener.incarnation + 1}
    BY <1>1, <1>15, OwnerFrame, ReplaceFrame DEF WriterInv
  <2> QED  BY <1>5, <2>1
<1> QED
  BY <1>6, <1>7, <1>8, <1>9, <1>10, <1>11, <1>12, <1>13, <1>14, <1>15 DEF Next, Finish

LEMMA CallTokensNext == ASSUME WriterInv, Next  PROVE CallTokens'
<1>1. /\ PartsOK /\ Generations /\ CallKnows /\ CallTokens /\ WriterTokens /\ DialTokens /\ PassTokens
      /\ (UNCHANGED highest \/ Rises) /\ issued <= issued'
  BY TypesOfWriterInv, HighestRises, GrowsNext DEF WriterInv, TokensAreNewer
<1>2. issued \in Nat /\ issued' \in Nat /\ highest \in Nat
  <2>1. CountsOK'
    BY <1>1, CountsNext
  <2> QED  BY <1>1, <2>1, WriterAssumption DEF PartsOK, CountsOK, Tokens
<1> USE DEF CallTokens
<1>3. CASE Finish
  BY <1>3, FinishFrame
<1>4. ASSUME SameCall  PROVE CallTokens'
  <2>1. op # Free => op.to.token \in Nat
    BY <1>1, CallNumbers
  <2> QED  BY <1>1, <1>2, <1>4, <2>1 DEF SameCall, Rises
<1>5. CASE BeginRefresh
  BY <1>1, <1>5, BeginRefreshOutcome DEF NotBegun, Begun, FilesStay, DialTokens
<1>6. CASE BeginRelay
  BY <1>1, <1>6, BeginRelayOutcome DEF NotBegun, Begun, FilesStay, PassTokens
<1>7. CASE BeginClear
  BY <1>1, <1>2, <1>7, BeginClearOutcome DEF NotBegun, Begun, FilesStay, None
<1>8. CASE BeginEndpoints
  BY <1>1, <1>8, BeginEndpointsOutcome DEF NotBegun, Begun, FilesStay, WriterTokens
<1>9. CASE BeginRetry
  BY <1>1, <1>9, BeginRetryOutcome DEF NotBegun, Begun, FilesStay, WriterTokens
<1>10. CASE LastLook \/ Rename \/ StartPass \/ Ask \/ Answer \/ LoseLease \/ Expire
  BY <1>1, <1>4, <1>10, LastLookFrame, RenameFrame, PassFrame
<1>11. CASE DialStart \/ DialRefreshes \/ DialEnds \/ DialFails
  BY <1>1, <1>4, <1>11, DialFrame
<1>12. CASE FenceWriter \/ Retire \/ Drain
  BY <1>1, <1>4, <1>12, OwnerFrame DEF WriterInv
<1>13. CASE Replace
  BY <1>1, <1>13, ReplaceFrame DEF WriterInv
<1> QED
  BY <1>3, <1>5, <1>6, <1>7, <1>8, <1>9, <1>10, <1>11, <1>12, <1>13 DEF Next

LEMMA WriterTokensNext == ASSUME WriterInv, Next  PROVE WriterTokens'
<1>1. /\ PartsOK /\ Generations /\ CallKnows /\ CallTokens /\ WriterTokens /\ DialTokens
      /\ (UNCHANGED highest \/ Rises) /\ issued <= issued'
  BY TypesOfWriterInv, HighestRises, GrowsNext DEF WriterInv, TokensAreNewer
<1>2. /\ issued \in Nat /\ issued' \in Nat /\ highest \in Nat /\ w.cred.token \in Nat /\ opener.relay \in Nat
      /\ w.gen \in Nat
  <2>1. CountsOK'
    BY <1>1, CountsNext
  <2> QED  BY <1>1, <2>1, Numbers, WriterAssumption DEF CountsOK, Tokens
<1>3. ReadyWaits => w.ready.cred.token \in Nat
  BY <1>1, WaitingTuple, WriterAssumption DEF PartsOK, Credential, Tokens
<1>4. ASSUME w'.gen = w.gen, w'.ready = w.ready \/ ~ReadyWaits', highest' = highest,
             w'.cred.token \in {w.cred.token, None},
             persisted \subseteq persisted', opener'.relay <= issued'
      PROVE  WriterTokens'
  BY <1>1, <1>2, <1>3, <1>4 DEF WriterTokens, ReadyWaits, None
<1>5. ASSUME w'.gen = w.gen + 1, w'.ready = NoReady  PROVE ~ReadyWaits'
  BY <1>2, <1>5 DEF ReadyWaits, NoReady
<1>6. CASE BeginRefresh \/ BeginRelay \/ BeginEndpoints \/ BeginRetry
  <2>1. UNCHANGED <<w, opener>> /\ FilesStay
    BY <1>1, <1>6, BeginRefreshOutcome, BeginRelayOutcome, BeginEndpointsOutcome, BeginRetryOutcome
  <2> QED  BY <1>1, <1>4, <2>1 DEF FilesStay, WriterTokens
<1>7. CASE BeginClear
  <2>1. /\ FilesStay
        /\ \/ UNCHANGED <<w, opener>>
           \/ w'.cred.token = None /\ w'.gen = w.gen + 1 /\ w'.ready = NoReady /\ opener'.relay = None
    BY <1>1, <1>7, BeginClearOutcome
  <2>2. CASE UNCHANGED <<w, opener>>
    BY <1>1, <1>4, <2>1, <2>2 DEF FilesStay, WriterTokens
  <2>3. CASE w'.cred.token = None /\ w'.gen = w.gen + 1 /\ w'.ready = NoReady /\ opener'.relay = None
    BY <1>1, <1>2, <1>5, <2>1, <2>3 DEF FilesStay, WriterTokens, None
  <2> QED  BY <2>1, <2>2, <2>3
<1>8. CASE Finish
  <2>1. op # Free /\ issued' = issued /\ persisted \subseteq persisted'
    BY <1>8, FinishFrame
  <2>2. op.to.token \in Nat /\ op.to.token <= issued
    BY <1>1, <2>1, CallNumbers DEF CallTokens
  <2>3. ASSUME WroteDurably, w'.cred = op.to, highest' = Later(op.to.token), opener'.relay <= issued, ~ReadyWaits'
        PROVE  WriterTokens'
    BY <1>1, <1>2, <2>1, <2>2, <2>3 DEF WriterTokens, WroteDurably, Later
  <2>4. CASE FinishRefresh
    <3>1. opener' = opener /\ ((SameWriter /\ UNCHANGED highest) \/ RefreshKept \/ RefreshLost)
      BY <1>1, <2>4, RefreshOutcome
    <3>2. CASE RefreshKept
      BY <1>1, <1>5, <2>3, <3>1, <3>2 DEF RefreshKept, WriterTokens
    <3>3. CASE (SameWriter /\ UNCHANGED highest) \/ RefreshLost
      BY <1>1, <1>4, <2>1, <3>1, <3>3 DEF SameWriter, RefreshLost, WriterTokens
    <3> QED  BY <3>1, <3>2, <3>3
  <2>5. CASE FinishRelay \/ FinishRetryReady
    <3>1. \/ GoesLive \/ (RelayWaits /\ op.kind = "relay" /\ opener' = opener)
          \/ SameWriter /\ UNCHANGED <<opener, highest>>
      BY <1>1, <2>5, RelayOutcome, RetryReadyOutcome
    <3>2. CASE GoesLive
      BY <1>5, <2>2, <2>3, <3>2 DEF GoesLive
    <3>3. CASE SameWriter /\ UNCHANGED <<opener, highest>>
      BY <1>1, <1>4, <2>1, <3>3 DEF SameWriter, WriterTokens
    <3>4. CASE RelayWaits /\ op.kind = "relay" /\ opener' = opener
      <4>1. op.to.token > highest
        BY <1>1, <2>1, <3>4 DEF CallTokens
      <4>2. /\ w'.ready.cred = op.to /\ w'.cred = w.cred /\ highest' = highest
        BY <3>4 DEF RelayWaits
      <4> QED  BY <1>1, <2>1, <2>2, <3>4, <4>1, <4>2 DEF WriterTokens
    <3> QED  BY <3>1, <3>2, <3>3, <3>4
  <2>6. CASE FinishClear \/ FinishRetryClear
    <3>1. opener' = opener /\ highest' = highest /\ w'.gen = w.gen /\ w'.ready = w.ready /\ w'.cred = w.cred
      BY <1>1, <2>6, ClearOutcome
    <3> QED  BY <1>1, <1>4, <2>1, <3>1 DEF WriterTokens
  <2>7. CASE FinishEndpoints
    <3>1. /\ opener' = opener /\ highest' = highest /\ w'.gen = w.gen /\ w'.ready.gen = w.ready.gen
          /\ w'.cred.token = w.cred.token /\ (ReadyWaits => w'.ready.cred.token = w.ready.cred.token)
      BY <1>1, <2>7, EndpointsOutcome
    <3> QED  BY <1>1, <1>3, <2>1, <3>1 DEF WriterTokens, ReadyWaits
  <2> QED  BY <1>8, <2>4, <2>5, <2>6, <2>7 DEF Finish
<1>9. CASE LastLook \/ Rename \/ StartPass \/ Ask \/ Answer \/ LoseLease \/ Expire
  <2>1. UNCHANGED <<w, opener, persisted, highest>>
    BY <1>1, <1>9, LastLookFrame, RenameFrame, PassFrame DEF FilesStay
  <2> QED  BY <1>1, <1>2, <1>4, <2>1 DEF WriterTokens
<1>10. CASE DialStart \/ DialRefreshes \/ DialEnds \/ DialFails
  <2>1. UNCHANGED <<w, persisted, highest>>
    BY <1>1, <1>10, DialFrame
  <2>2. opener' = opener \/ (issued' = issued + 1 /\ opener' = [opener EXCEPT !.relay = issued + 1])
    BY <1>10 DEF DialStart, DialRefreshes, DialEnds, DialFails
  <2>3. opener' = opener \/ opener'.relay = issued'
    BY <1>1, <2>2 DEF PartsOK, Openers
  <2> QED  BY <1>1, <1>2, <1>4, <2>1, <2>3 DEF WriterTokens
<1>11. CASE FenceWriter \/ Retire \/ Drain \/ Replace
  <2>1. /\ w'.gen = w.gen /\ w'.ready = w.ready /\ w'.cred = w.cred /\ opener'.relay = opener.relay
        /\ UNCHANGED <<highest, persisted, issued>>
    BY <1>1, <1>11, OwnerFrame, ReplaceFrame DEF WriterInv
  <2> QED  BY <1>1, <1>4, <2>1 DEF WriterTokens
<1> QED
  BY <1>6, <1>7, <1>8, <1>9, <1>10, <1>11 DEF Next

-----------------------------------------------------------------------------
(* The theorems *)

LEMMA InitWriterInv == Init => WriterInv
<1> SUFFICES ASSUME Init  PROVE WriterInv
  OBVIOUS
<1>1. PICK token \in {None, 1}, eps \in Endpoints :
        LET cred == [pairing |-> "old", token |-> token, eps |-> eps] IN
        /\ disk = cred /\ after = {cred} /\ op = Free /\ pass = Resting /\ dial = NoDial
        /\ w = [cred |-> cred, gen |-> 1, epoch |-> 1, clear |-> 0, ready |-> NoReady,
                unavailable |-> FALSE, failed |-> FALSE, fenced |-> FALSE]
        /\ opener = [relay |-> token, epoch |-> 1, incarnation |-> 1, retired |-> FALSE]
        /\ owner = "running" /\ issued = 1 /\ expired = {} /\ passes = 0 /\ faults = 0
        /\ persisted = {token} /\ highest = token /\ overlooked = FALSE
  BY DEF Init
<1> DEFINE cred == [pairing |-> "old", token |-> token, eps |-> eps]
<1>2. token \in Tokens /\ None \in Tokens /\ 1 \in Tokens /\ token \in Nat /\ token <= 1
  BY WriterAssumption DEF Tokens, None
<1>3. cred \in Credential /\ cred.token = token
  BY <1>2 DEF Credential
<1> HIDE DEF cred
<1>4. /\ disk = cred /\ after = {cred} /\ op = Free
      /\ owner = "running" /\ issued = 1 /\ expired = {} /\ passes = 0 /\ faults = 0
      /\ persisted = {token} /\ highest = token /\ overlooked = FALSE
  BY <1>1 DEF cred
<1>5. /\ w.cred = cred /\ w.gen = 1 /\ w.epoch = 1 /\ w.clear = 0 /\ w.ready = NoReady
      /\ w.unavailable = FALSE /\ w.fenced = FALSE
  BY <1>1 DEF cred
<1>6. /\ opener.relay = token /\ opener.epoch = 1 /\ opener.incarnation = 1 /\ opener.retired = FALSE
      /\ dial.at = "idle" /\ dial.token = None /\ pass.at = "idle" /\ pass.gen = 0 /\ pass.answer = None
  BY <1>1 DEF NoDial, Resting
<1>7. w.ready.gen = 0
  BY <1>5 DEF NoReady
<1>8. PartsOK
  <2>1. WriterOK
    BY <1>1, <1>3 DEF cred, WriterOK, Writers, ReadyPending
  <2>2. FileOK /\ CallOK
    BY <1>2, <1>3, <1>4 DEF FileOK, CallOK
  <2>3. opener \in Openers
    BY <1>1, <1>2 DEF Openers
  <2>4. pass \in Passes /\ dial \in Dials
    BY <1>1, <1>2 DEF Passes, Dials, Resting, NoDial
  <2>5. CountsOK
    <3>1. 0 \in 0..MaxPasses /\ 0 \in 0..MaxFaults
      BY WriterAssumption
    <3> QED  BY <1>2, <1>4, <3>1 DEF CountsOK
  <2> QED  BY <2>1, <2>2, <2>3, <2>4, <2>5 DEF PartsOK
<1>9. Generations
  BY <1>5, <1>7 DEF Generations
<1>10. FencedFirst /\ NoLateCall /\ CarrierIsPersisted /\ CallKnows /\ DialsTheClient /\ ClientFollows
  BY <1>3, <1>4, <1>5, <1>6 DEF FencedFirst, NoLateCall, CarrierIsPersisted, CallKnows, DialsTheClient,
     ClientFollows
<1>11. FilesAreRecorded
  BY <1>4, <1>5 DEF FilesAreRecorded, Recorded
<1>12. ~ReadyWaits /\ ~Telling
  BY <1>5, <1>6, <1>7 DEF ReadyWaits, Telling
<1>13. TokensAreNewer
  <2>1. WriterTokens
    BY <1>2, <1>3, <1>4, <1>5, <1>6, <1>12 DEF WriterTokens
  <2>2. DialTokens /\ PassTokens /\ CallTokens
    BY <1>4, <1>5, <1>6, <1>12 DEF DialTokens, PassTokens, CallTokens, None
  <2> QED  BY <2>1, <2>2 DEF TokensAreNewer
<1>14. WaitsWithEndpoints
  BY <1>12 DEF WaitsWithEndpoints
<1> QED  BY <1>8, <1>9, <1>10, <1>11, <1>13, <1>14, PartsAreTypes DEF WriterInv

LEMMA NextWriterInv == IInv /\ WriterInv /\ [Next]_vars => WriterInv'
<1> SUFFICES ASSUME IInv, WriterInv, [Next]_vars  PROVE WriterInv'
  OBVIOUS
<1>1. CASE Next
  <2>1. PartsOK'
    BY <1>1, TypesOfWriterInv, WriterNext, FileNext, OpenerNext, CallNext, PassNext, DialNext, CountsNext
       DEF PartsOK
  <2>2. TypeOK' /\ w'.gen > 0
    BY <1>1, <2>1, GenerationsNext, PartsAreTypes
  <2>3. FencedFirst' /\ NoLateCall'
    BY NextIInv DEF IInv
  <2>4. TokensAreNewer'
    BY <1>1, WriterTokensNext, DialTokensNext, PassTokensNext, CallTokensNext DEF TokensAreNewer
  <2>5. CarrierIsPersisted' /\ CallKnows' /\ FilesAreRecorded'
    BY <1>1, CarrierNext, CallKnowsNext, FilesNext
  <2>6. DialsTheClient' /\ ClientFollows' /\ WaitsWithEndpoints'
    BY <1>1, DialsNext, FollowsNext, EndpointsWaitNext
  <2> QED  BY <2>2, <2>3, <2>4, <2>5, <2>6 DEF WriterInv
<1>2. CASE UNCHANGED vars
  <2> USE <1>2 DEF vars
  <2>1. TypeOK' /\ w'.gen > 0
    BY DEF WriterInv, TypeOK
  <2>2. FencedFirst' /\ NoLateCall' /\ CarrierIsPersisted'
    BY DEF WriterInv, FencedFirst, NoLateCall, CarrierIsPersisted
  <2>3. CallKnows' /\ FilesAreRecorded'
    BY DEF WriterInv, CallKnows, FilesAreRecorded, Recorded, ReadyWaits, ClearWaits
  <2>4. DialsTheClient' /\ ClientFollows' /\ WaitsWithEndpoints'
    BY DEF WriterInv, DialsTheClient, ClientFollows, WaitsWithEndpoints, Telling, ReadyWaits
  <2>5. TokensAreNewer'
    BY DEF WriterInv, TokensAreNewer, WriterTokens, DialTokens, PassTokens, CallTokens, Telling, ReadyWaits
  <2> QED  BY <2>1, <2>2, <2>3, <2>4, <2>5 DEF WriterInv
<1> QED  BY <1>1, <1>2

LEMMA WriterInvHolds == Spec => [](IInv /\ WriterInv)
<1>1. Init => IInv /\ WriterInv
  BY InitIInv, InitWriterInv
<1>2. IInv /\ WriterInv /\ [Next]_vars => (IInv /\ WriterInv)'
  BY NextIInv, NextWriterInv
<1> QED  BY <1>1, <1>2, PTL DEF Spec

\* The writer, the relay client, a call, a pass and a dial stay what the code can
\* hold, and what waits for a retry is of a generation that has come
\* (OrderedCredentialWriterState in private_link.rs).
THEOREM TypeCorrect == Spec => []TypeOK
<1>1. WriterInv => TypeOK
  BY DEF WriterInv
<1> QED  BY <1>1, WriterInvHolds, PTL

\* While nobody writes, credentials.json differs from the credential in use only
\* where the writer knows of it and will retry, or the relay is out of use, even
\* after a crash (commit_optional_relay_with_attempt, retry_durable_reconciliation).
THEOREM DivergenceRecorded == Spec => []DivergenceIsRecorded
<1>1. WriterInv => DivergenceIsRecorded
  BY DEF WriterInv, FilesAreRecorded, Recorded, DivergenceIsRecorded
<1> QED  BY <1>1, WriterInvHolds, PTL

\* The relay client that is dialled has the writer's token and epoch, and a carrier
\* that is handed out runs on a token that was written for good (commit_dial,
\* replace_relay in private_link.rs).
THEOREM LinkStored == Spec => []LinkIsStored
<1>1. ASSUME WriterInv  PROVE LinkIsStored
  <2>1. ASSUME op = Free, ~w.fenced, ~w.unavailable, dial.at # "hook"
        PROVE  opener.relay = w.cred.token /\ (opener.relay # None => opener.epoch = w.epoch)
    <3>1. ~Telling
      BY <1>1, <2>1 DEF WriterInv, Telling, DialsTheClient
    <3> QED  BY <1>1, <2>1, <3>1 DEF WriterInv, ClientFollows, DialsTheClient
  <2>2. LiveRelayIsCredential
    BY <2>1 DEF LiveRelayIsCredential
  <2> QED  BY <1>1, <2>2 DEF LinkIsStored, WriterInv
<1> QED  BY <1>1, WriterInvHolds, PTL

\* A settling call puts in only a token newer than every one before it.
LEMMA LiveIsNewer ==
  ASSUME WriterInv, Next
  PROVE  TokensMoveForward
<1>1. /\ PartsOK /\ Generations /\ CallKnows /\ CallTokens /\ WriterTokens /\ DialTokens /\ DialsTheClient
  BY TypesOfWriterInv DEF WriterInv, TokensAreNewer
<1> USE DEF TokensMoveForward
<1>2. CASE FinishRefresh
  <2>1. op # Free /\ op.kind = "refresh"
    BY <1>2 DEF FinishRefresh
  <2>2. (w'.cred = w.cred) \/ RefreshKept
    BY <1>1, <1>2, RefreshOutcome DEF SameWriter, RefreshLost
  <2>3. CASE RefreshKept
    <3>1. dial.token > highest
      BY <1>1, <2>1, <2>3 DEF RefreshKept, CallKnows, DialsTheClient, DialTokens, Telling
    <3> QED  BY <1>1, <2>1, <2>3, <3>1 DEF RefreshKept, CallKnows
  <2> QED  BY <2>2, <2>3
<1>3. CASE FinishRelay
  <2>1. op # Free /\ op.kind = "relay" /\ ((w'.cred = w.cred) \/ GoesLive)
    BY <1>1, <1>3, RelayOutcome DEF FinishRelay, SameWriter, RelayWaits
  <2> QED  BY <1>1, <2>1 DEF GoesLive, CallTokens
<1>4. CASE FinishRetryReady
  <2>1. op # Free /\ op.kind = "retry ready" /\ ((w'.cred = w.cred) \/ GoesLive)
    BY <1>1, <1>4, RetryReadyOutcome DEF FinishRetryReady, SameWriter
  <2> QED  BY <1>1, <2>1 DEF GoesLive, CallKnows, WriterTokens
<1>5. CASE FinishClear \/ FinishRetryClear \/ FinishEndpoints
  <2>1. w'.cred.token = w.cred.token
    BY <1>1, <1>5, ClearOutcome, EndpointsOutcome
  <2> QED  BY <2>1
<1>6. CASE BeginClear
  <2>1. w' = w \/ w'.cred.token = None
    BY <1>1, <1>6, BeginClearOutcome
  <2> QED  BY <2>1
<1>7. CASE BeginRefresh \/ BeginRelay \/ BeginEndpoints \/ BeginRetry
  BY <1>1, <1>7, BeginRefreshOutcome, BeginRelayOutcome, BeginEndpointsOutcome, BeginRetryOutcome
<1>8. CASE LastLook \/ Rename \/ StartPass \/ Ask \/ Answer \/ LoseLease \/ Expire
  BY <1>1, <1>8, LastLookFrame, RenameFrame, PassFrame
<1>9. CASE DialStart \/ DialRefreshes \/ DialEnds \/ DialFails
  BY <1>1, <1>9, DialFrame
<1>10. CASE FenceWriter \/ Retire \/ Drain \/ Replace
  <2>1. w'.cred = w.cred
    BY <1>1, <1>10, OwnerFrame, ReplaceFrame DEF WriterInv
  <2> QED  BY <2>1
<1> QED
  BY <1>2, <1>3, <1>4, <1>5, <1>6, <1>7, <1>8, <1>9, <1>10 DEF Next, Finish

\* A retry is settled by itself, and settles with the endpoints of the credential.
LEMMA RetryKeepsThem ==
  ASSUME WriterInv, Next
  PROVE  RetryKeepsEndpoints
<1> SUFFICES ASSUME op # Free, op.kind = "retry ready", op' = Free, ~overlooked
             PROVE  w'.cred.eps = w.cred.eps
  BY DEF RetryKeepsEndpoints
<1>1. PartsOK /\ Generations /\ CallKnows /\ WaitsWithEndpoints
  BY TypesOfWriterInv DEF WriterInv
<1>2. CASE FinishRetryReady
  <2>1. GoesLive \/ SameWriter
    BY <1>1, <1>2, RetryReadyOutcome
  <2>2. ReadyWaits /\ op.to = w.ready.cred
    BY <1>1 DEF CallKnows
  <2>3. GoesLive => op.to.token \notin expired
    BY DEF GoesLive, TokenInTime
  <2>4. CASE GoesLive
    <3>1. w.ready.cred.eps = w.cred.eps
      BY <1>1, <2>2, <2>3, <2>4 DEF WaitsWithEndpoints
    <3> QED  BY <2>2, <2>4, <3>1 DEF GoesLive
  <2>5. CASE SameWriter
    BY <2>5 DEF SameWriter
  <2> QED  BY <2>1, <2>4, <2>5
<1>3. CASE FinishRefresh \/ FinishRelay \/ FinishClear \/ FinishEndpoints \/ FinishRetryClear
  BY <1>3 DEF FinishRefresh, FinishRelay, FinishClear, FinishEndpoints, FinishRetryClear
<1>4. CASE BeginRefresh \/ BeginRelay \/ BeginClear \/ BeginEndpoints \/ BeginRetry
  BY <1>4 DEF BeginRefresh, BeginRelay, BeginClear, BeginEndpoints, BeginRetry
<1>5. CASE LastLook \/ Rename \/ StartPass \/ Ask \/ Answer \/ LoseLease \/ Expire
  BY <1>1, <1>5, LastLookFrame, RenameFrame, PassFrame DEF SameCall
<1>6. CASE DialStart \/ DialRefreshes \/ DialEnds \/ DialFails
  BY <1>1, <1>6, DialFrame DEF SameCall
<1>7. CASE FenceWriter \/ Retire \/ Drain \/ Replace
  BY <1>1, <1>7, OwnerFrame, ReplaceFrame DEF WriterInv, SameCall
<1> QED
  BY <1>2, <1>3, <1>4, <1>5, <1>6, <1>7 DEF Next, Finish

\* The credential takes a token of before only by dropping it, and a tuple that was
\* retried has the endpoints stored since, but where a clear waited too
\* (commit_mandatory_refresh, commit_dial_endpoints_with_attempt, retry_durable_reconciliation).
THEOREM CredentialForward == Spec => CredentialMovesForward
<1>1. WriterInv /\ [Next]_vars => [TokensMoveForward /\ RetryKeepsEndpoints]_vars
  BY LiveIsNewer, RetryKeepsThem
<1> QED  BY <1>1, WriterInvHolds, PTL DEF Spec, CredentialMovesForward
=============================================================================
