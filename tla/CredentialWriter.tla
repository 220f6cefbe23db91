-------------------------- MODULE CredentialWriter --------------------------
(***************************************************************************)
(* The stored credential of a pairing and its only writer while the app    *)
(* runs, OrderedCredentialWriter (private_link.rs), with the opener whose  *)
(* relay client it keeps in step, the lane of OptionalJobs that asks the   *)
(* journal for relay access, a dial that refreshes the device token, and   *)
(* the replacement of the pairing (window_control.rs).                     *)
(*                                                                         *)
(* The mutex on the credential is op: the call that holds it, or Free.  A  *)
(* call checks (Begin...), writes the file through                         *)
(* atomic_write_bytes_guarded, and settles (Finish...); the fence, a       *)
(* deadline, a token's expiry and other threads come between the steps.    *)
(*                                                                         *)
(* A credential is the pairing it is of, its relay tuple as the number of  *)
(* its device token (None: no relay; tokens are numbered as they are       *)
(* issued) and the list of endpoints a dial tries.  A crash is not an      *)
(* action: after is the set of contents the file may have if the computer  *)
(* stops now, a rename being certain only once the directory is synced.    *)
(***************************************************************************)
EXTENDS Integers

CONSTANTS
  Endpoints,   \* lists of endpoints the journal may give
  Free,        \* nobody holds the credential
  MaxTokens,   \* bound: device tokens issued
  MaxPasses,   \* bound: passes of the relay access lane
  MaxFaults    \* bound: writes that fail

None == 0
Tokens == 0..MaxTokens
Credential == [pairing : {"old", "new"}, token : Tokens, eps : Endpoints]
NoReady == [gen |-> 0]
ReadyPending == {NoReady} \cup [gen : Nat, cred : Credential]
Kinds == {"refresh", "relay", "clear", "endpoints", "retry clear", "retry ready"}
Calls == [kind : Kinds, to : Credential, gen : Nat, ready : BOOLEAN,
          leased : BOOLEAN, file : {"temporary", "checked", "renamed"}]

ASSUME WriterAssumption ==
  /\ Endpoints # {} /\ Free \notin Calls
  /\ MaxTokens \in Nat \ {0} /\ MaxPasses \in Nat /\ MaxFaults \in Nat

VARIABLES
  disk, after,   \* credentials.json: what a read gives, what a crash may leave
  w,             \* the writer's fields
  opener,        \* the relay client in use and its incarnation; retired once fenced
  op,            \* the call that holds the credential
  pass,          \* one execute_relay_access_sync, and what it read before asking
  dial,          \* one admitted dial over the relay
  owner,         \* the supervisor's stop and replacement of the owner
  issued,        \* device tokens handed out so far
  expired,       \* tokens past their time
  passes, faults,
  persisted,     \* history: tokens once written for good
  highest,       \* history: the newest token the writer has held
  overlooked     \* history: endpoints were stored while a clear and a tuple both waited

vars == <<disk, after, w, opener, op, pass, dial, owner, issued, expired, passes, faults,
          persisted, highest, overlooked>>

(***************************************************************************)
(* What is checked                                                         *)
(***************************************************************************)
\* The shape of the state; what waits is never of a generation still to come.
TypeOK ==
  /\ disk \in Credential /\ after \subseteq Credential
  /\ w \in [cred : Credential, gen : Nat, epoch : Nat, clear : Nat, ready : ReadyPending,
            unavailable : BOOLEAN, failed : BOOLEAN, fenced : BOOLEAN]
  /\ w.clear <= w.gen /\ w.ready.gen <= w.gen
  /\ opener \in [relay : Tokens, epoch : Nat, incarnation : Nat, retired : BOOLEAN]
  /\ op \in {Free} \cup Calls
  /\ pass \in [at : {"idle", "retry", "ask", "asked", "commit", "endpoints", "writing"},
               gen : Nat, incarnation : Nat, answer : Tokens]
  /\ dial \in [at : {"idle", "dialing", "hook", "writing", "dialed", "proven"},
               token : Tokens, epoch : Nat, incarnation : Nat]
  /\ owner \in {"running", "fenced", "retired", "drained", "blocked", "replaced"}
  /\ issued \in Tokens /\ expired \subseteq Tokens
  /\ passes \in 0..MaxPasses /\ faults \in 0..MaxFaults
  /\ persisted \subseteq Tokens /\ highest \in Tokens /\ overlooked \in BOOLEAN

(***************************************************************************)
(* The writer's fields                                                     *)
(***************************************************************************)
\* durable_clear_pending and durable_ready_pending count while of this generation.
ClearWaits == w.clear = w.gen
ReadyWaits == w.ready.gen = w.gen

\* The three checks of a guarded write and of the look after it.
LeaseHolds == op.kind = "refresh" \/ op.leased
TokenInTime == op.kind \in {"relay", "retry ready"} => op.to.token \notin expired
MayWrite ==
  /\ ~w.fenced
  /\ op.kind = "refresh" => w.epoch = op.gen
  /\ LeaseHolds /\ TokenInTime

Call(kind, to, gen, ready) ==
  [kind |-> kind, to |-> to, gen |-> gen, ready |-> ready,
   leased |-> kind # "refresh", file |-> "temporary"]

\* A new tuple goes live: generation, hook epoch, and the opener's client made
\* with a hook of that epoch (replace_relay_transport).
Activated(v, cred) ==
  [v EXCEPT !.cred = cred, !.gen = @ + 1, !.epoch = @ + 1, !.ready = NoReady, !.unavailable = FALSE]

\* Mutant of ReplaceRelay: the hook is made before the epoch moves on.
ReplaceRelayOldHook(token) ==
  opener' = [opener EXCEPT !.relay = token, !.epoch = w.epoch, !.incarnation = @ + 1]

ReplaceRelay(token) ==
  opener' = [opener EXCEPT !.relay = token, !.epoch = w.epoch + 1, !.incarnation = @ + 1]

Later(token) == IF token > highest THEN token ELSE highest
Holds(cred) == highest' = Later(cred.token)

\* Between its ask and its commit a pass holds what it read; else nothing.
Resting == [at |-> "idle", gen |-> 0, incarnation |-> 0, answer |-> None]
Goto(at) == pass' = [Resting EXCEPT !.at = at]

\* A blocking call that outlived its pass settles without it.
PassGoesTo(at) == IF op.leased THEN Goto(at) ELSE UNCHANGED pass

Unlock == op' = Free
Quiet == UNCHANGED <<issued, expired, passes>>

(***************************************************************************)
(* The guarded write: private_file.rs                                      *)
(***************************************************************************)
\* The temporary file is complete and the caller still current.
LastLook ==
  /\ op # Free /\ op.file = "temporary" /\ MayWrite
  /\ op' = [op EXCEPT !.file = "checked"]
  /\ UNCHANGED <<disk, after, w, opener, pass, dial, owner, faults, persisted, highest, overlooked>> /\ Quiet

Rename ==
  /\ op # Free /\ op.file = "checked"
  /\ disk' = op.to /\ after' = after \cup {op.to}
  /\ op' = [op EXCEPT !.file = "renamed"]
  /\ UNCHANGED <<w, opener, pass, dial, owner, issued, expired, passes, faults, persisted, highest, overlooked>>

\* The directory is synced and only the new content can be found again.
WriteEnds(durable) ==
  /\ op # Free
  /\ UNCHANGED disk
  /\ \/ durable /\ op.file = "renamed" /\ after' = {disk} /\ persisted' = persisted \cup {disk.token}
        /\ UNCHANGED faults
     \/ ~durable /\ faults < MaxFaults /\ faults' = faults + 1 /\ UNCHANGED <<after, persisted>>
     \/ ~durable /\ op.file = "temporary" /\ ~MayWrite /\ UNCHANGED <<after, persisted, faults>>

(***************************************************************************)
(* commit_mandatory_refresh: the hook of a relay client that got a token   *)
(***************************************************************************)
HookIsStale == w.fenced \/ w.epoch # dial.epoch

\* A hook of a fenced writer or of an earlier tuple does nothing.
BeginRefresh ==
  /\ dial.at = "hook" /\ op = Free
  /\ IF HookIsStale
       THEN dial' = [dial EXCEPT !.at = "dialed"] /\ UNCHANGED op
       ELSE /\ op' = Call("refresh", [w.cred EXCEPT !.token = dial.token], dial.epoch, FALSE)
            /\ dial' = [dial EXCEPT !.at = "writing"]
  /\ UNCHANGED <<disk, after, w, opener, pass, owner, faults, persisted, highest, overlooked>> /\ Quiet

FinishRefresh ==
  /\ op # Free /\ op.kind = "refresh"
  /\ \E durable \in BOOLEAN :
       /\ WriteEnds(durable)
       /\ IF w.fenced \/ w.epoch # op.gen THEN UNCHANGED <<w, highest>>
          ELSE IF durable
            THEN /\ w' = [w EXCEPT !.cred = op.to, !.gen = @ + 1, !.clear = 0, !.ready = NoReady]
                 /\ Holds(op.to)
            ELSE w' = [w EXCEPT !.failed = TRUE, !.unavailable = TRUE] /\ UNCHANGED highest
  /\ dial' = [dial EXCEPT !.at = "dialed"]
  /\ Unlock /\ UNCHANGED <<opener, pass, owner, overlooked>> /\ Quiet

(***************************************************************************)
(* commit_optional_relay_with_attempt, commit_optional_clear_with_attempt  *)
(***************************************************************************)
\* Mutant of AnswerIsFresh: only the relay client is looked at.
AnswerIsFreshOnLink ==
  ~w.fenced /\ opener.incarnation = pass.incarnation

\* What the pass read before it asked still holds.
AnswerIsFresh ==
  /\ ~w.fenced
  /\ w.gen = pass.gen /\ opener.incarnation = pass.incarnation

BeginRelay ==
  /\ pass.at = "commit" /\ pass.answer # None /\ op = Free
  /\ IF AnswerIsFresh /\ pass.answer \notin expired
       THEN /\ op' = Call("relay", [w.cred EXCEPT !.token = pass.answer], pass.gen, FALSE)
            /\ Goto("writing")
       ELSE Goto("endpoints") /\ UNCHANGED op
  /\ UNCHANGED <<disk, after, w, opener, dial, owner, faults, persisted, highest, overlooked>> /\ Quiet

\* Mutant of FinishRelay: an error of the write always means the old file.
FinishRelayForgets ==
  /\ op # Free /\ op.kind = "relay"
  /\ \E durable \in BOOLEAN :
       /\ WriteEnds(durable)
       /\ IF durable /\ ~w.fenced /\ LeaseHolds /\ TokenInTime
            THEN /\ w' = [Activated(w, op.to) EXCEPT !.clear = 0]
                 /\ ReplaceRelay(op.to.token) /\ Holds(op.to)
            ELSE /\ w' = IF durable THEN [w EXCEPT !.ready = [gen |-> op.gen, cred |-> op.to]] ELSE w
                 /\ UNCHANGED <<opener, highest>>
  /\ PassGoesTo("endpoints")
  /\ Unlock /\ UNCHANGED <<dial, owner, overlooked>> /\ Quiet

\* The new tuple waits when it may be on disk but must not be used.
FinishRelay ==
  /\ op # Free /\ op.kind = "relay"
  /\ \E durable \in BOOLEAN :
       /\ WriteEnds(durable)
       /\ IF durable /\ ~w.fenced /\ LeaseHolds /\ TokenInTime
            THEN /\ w' = [Activated(w, op.to) EXCEPT !.clear = 0]
                 /\ ReplaceRelay(op.to.token) /\ Holds(op.to)
            ELSE /\ w' = IF durable \/ disk = op.to
                           THEN [w EXCEPT !.ready = [gen |-> op.gen, cred |-> op.to]] ELSE w
                 /\ UNCHANGED <<opener, highest>>
  /\ PassGoesTo("endpoints")
  /\ Unlock /\ UNCHANGED <<dial, owner, overlooked>> /\ Quiet

\* The live relay goes at once, before the file is written.
BeginClear ==
  /\ pass.at = "commit" /\ pass.answer = None /\ op = Free
  /\ IF AnswerIsFresh
       THEN LET cleared == [w.cred EXCEPT !.token = None] IN
            /\ w' = [w EXCEPT !.cred = cleared, !.gen = @ + 1, !.epoch = @ + 1, !.ready = NoReady]
            /\ opener' = [opener EXCEPT !.relay = None, !.incarnation = @ + 1]
            /\ op' = Call("clear", cleared, w.gen + 1, FALSE)
            /\ Goto("writing")
       ELSE Goto("endpoints") /\ UNCHANGED <<w, opener, op>>
  /\ UNCHANGED <<disk, after, dial, owner, faults, persisted, highest, overlooked>> /\ Quiet

\* Mutant of FinishClear: the new generation is counted twice.
FinishClearAhead ==
  /\ op # Free /\ op.kind = "clear"
  /\ \E durable \in BOOLEAN :
       WriteEnds(durable) /\ w' = [w EXCEPT !.clear = IF durable THEN 0 ELSE op.gen + 1]
  /\ PassGoesTo("endpoints")
  /\ Unlock /\ UNCHANGED <<opener, dial, owner, highest, overlooked>> /\ Quiet

FinishClear ==
  /\ op # Free /\ op.kind = "clear"
  /\ \E durable \in BOOLEAN :
       WriteEnds(durable) /\ w' = [w EXCEPT !.clear = IF durable THEN 0 ELSE op.gen]
  /\ PassGoesTo("endpoints")
  /\ Unlock /\ UNCHANGED <<opener, dial, owner, overlooked, highest>> /\ Quiet

(***************************************************************************)
(* commit_dial_endpoints_with_attempt                                      *)
(***************************************************************************)
\* The list is merged into what is on disk: the tuple that waits, unless a clear
\* waits too or its token has passed its time, else the writer's own.
BeginEndpoints ==
  /\ pass.at = "endpoints" /\ op = Free
  /\ \E merged \in Endpoints :
       LET ready == ~ClearWaits /\ ReadyWaits /\ w.ready.cred.token \notin expired
           base  == IF ready THEN w.ready.cred ELSE w.cred IN
       IF w.fenced \/ merged = w.cred.eps THEN Goto("idle") /\ UNCHANGED op
       ELSE op' = Call("endpoints", [base EXCEPT !.eps = merged], w.gen, ready) /\ Goto("writing")
  /\ UNCHANGED <<disk, after, w, opener, dial, owner, faults, persisted, highest, overlooked>> /\ Quiet

\* Mutant of FinishEndpoints: the tuple that waits keeps its endpoints.
FinishEndpointsOnDisk ==
  /\ op # Free /\ op.kind = "endpoints"
  /\ \E durable \in BOOLEAN :
       /\ WriteEnds(durable)
       /\ w' = IF durable THEN [w EXCEPT !.cred.eps = op.to.eps] ELSE w
       /\ overlooked' = (overlooked \/ (durable /\ ~op.ready /\ ClearWaits /\ ReadyWaits))
  /\ PassGoesTo("idle")
  /\ Unlock /\ UNCHANGED <<opener, dial, owner, highest>> /\ Quiet

FinishEndpoints ==
  /\ op # Free /\ op.kind = "endpoints"
  /\ \E durable \in BOOLEAN :
       /\ WriteEnds(durable)
       /\ w' = IF ~durable THEN w
               ELSE [w EXCEPT !.cred.eps = op.to.eps,
                              !.ready = IF op.ready THEN [@ EXCEPT !.cred.eps = op.to.eps] ELSE @]
       /\ overlooked' = (overlooked \/ (durable /\ ~op.ready /\ ClearWaits /\ ReadyWaits))
  /\ PassGoesTo("idle")
  /\ Unlock /\ UNCHANGED <<opener, dial, owner, highest>> /\ Quiet

(***************************************************************************)
(* retry_durable_reconciliation_with_attempt                               *)
(***************************************************************************)
BeginRetry ==
  /\ pass.at = "retry" /\ op = Free
  /\ IF w.fenced \/ (~ClearWaits /\ (~ReadyWaits \/ w.ready.cred.token \in expired))
       THEN Goto("ask") /\ UNCHANGED op
       ELSE /\ op' = IF ClearWaits THEN Call("retry clear", w.cred, w.gen, FALSE)
                                   ELSE Call("retry ready", w.ready.cred, w.gen, TRUE)
            /\ Goto("writing")
  /\ UNCHANGED <<disk, after, w, opener, dial, owner, faults, persisted, highest, overlooked>> /\ Quiet

FinishRetryClear ==
  /\ op # Free /\ op.kind = "retry clear"
  /\ \E durable \in BOOLEAN : WriteEnds(durable) /\ w' = IF durable THEN [w EXCEPT !.clear = 0] ELSE w
  /\ PassGoesTo("ask")
  /\ Unlock /\ UNCHANGED <<opener, dial, owner, overlooked, highest>> /\ Quiet

FinishRetryReady ==
  /\ op # Free /\ op.kind = "retry ready"
  /\ \E durable \in BOOLEAN :
       /\ WriteEnds(durable)
       /\ IF durable /\ ~w.fenced /\ LeaseHolds /\ TokenInTime
            THEN w' = Activated(w, op.to) /\ ReplaceRelay(op.to.token) /\ Holds(op.to)
            ELSE UNCHANGED <<w, opener, highest>>
  /\ PassGoesTo("ask")
  /\ Unlock /\ UNCHANGED <<dial, owner, overlooked>> /\ Quiet

(***************************************************************************)
(* execute_relay_access_sync                                               *)
(***************************************************************************)
Still == UNCHANGED <<disk, after, w, owner, faults, persisted, highest, overlooked>>

\* After the fence every call of a pass returns at once: no pass need begin.
StartPass ==
  /\ pass.at = "idle" /\ passes < MaxPasses /\ owner = "running"
  /\ pass' = [Resting EXCEPT !.at = "retry"] /\ passes' = passes + 1
  /\ Still /\ UNCHANGED <<opener, op, dial, issued, expired>>

Ask ==
  /\ pass.at = "ask"
  /\ pass' = [pass EXCEPT !.at = "asked", !.gen = w.gen, !.incarnation = opener.incarnation]
  /\ Still /\ UNCHANGED <<opener, op, dial>> /\ Quiet

\* Not configured, ready with a token of its own, or no usable answer.
Answer ==
  /\ pass.at = "asked"
  /\ \/ pass' = [pass EXCEPT !.at = "commit", !.answer = None] /\ UNCHANGED issued
     \/ /\ issued < MaxTokens /\ issued' = issued + 1
        /\ pass' = [pass EXCEPT !.at = "commit", !.answer = issued + 1]
     \/ Goto("endpoints") /\ UNCHANGED issued
  /\ Still /\ UNCHANGED <<opener, op, dial, expired, passes>>

\* The deadline, or another owner's trigger: the pass ends where it is and a
\* blocking call it started runs on without its lease.
LoseLease ==
  /\ pass.at # "idle" /\ pass' = Resting
  /\ op' = IF op # Free /\ op.leased THEN [op EXCEPT !.leased = FALSE] ELSE op
  /\ Still /\ UNCHANGED <<opener, dial>> /\ Quiet

Expire ==
  /\ \E t \in (1..issued) \ expired :
       /\ \/ w.ready # NoReady /\ t = w.ready.cred.token
          \/ op # Free /\ t = op.to.token
       /\ expired' = expired \cup {t}
  /\ Still /\ UNCHANGED <<opener, op, pass, dial, issued, passes>>

(***************************************************************************)
(* PrivateLinkOpener: a dial over the relay                                *)
(***************************************************************************)
NoDial == [at |-> "idle", token |-> None, epoch |-> 0, incarnation |-> 0]
StillDial == Still /\ UNCHANGED <<op, pass, expired, passes>>

DialStart ==
  /\ dial.at = "idle" /\ opener.relay # None /\ ~w.unavailable /\ ~opener.retired
  /\ dial' = [at |-> "dialing", token |-> opener.relay, epoch |-> opener.epoch,
              incarnation |-> opener.incarnation]
  /\ StillDial /\ UNCHANGED <<opener, issued>>

\* The relay gives a new token: the client holds it before its hook is called.
DialRefreshes ==
  /\ dial.at = "dialing" /\ issued < MaxTokens /\ issued' = issued + 1
  /\ dial' = [dial EXCEPT !.at = "hook", !.token = issued + 1]
  /\ opener' = IF opener.relay # None /\ opener.incarnation = dial.incarnation
                 THEN [opener EXCEPT !.relay = issued + 1] ELSE opener
  /\ StillDial

\* Mutant of CarrierStands: a refresh that was not kept is no matter.
CarrierStandsByRelay == opener.incarnation = dial.incarnation /\ ~opener.retired

\* A carrier is proven only if nothing changed under the dial.
CarrierStands == ~w.unavailable /\ opener.incarnation = dial.incarnation /\ ~opener.retired

DialEnds ==
  /\ dial.at \in {"dialing", "dialed", "proven"}
  /\ dial' = IF dial.at # "proven" /\ CarrierStands THEN [dial EXCEPT !.at = "proven"] ELSE NoDial
  /\ StillDial /\ UNCHANGED <<opener, issued>>

DialFails ==
  /\ dial.at \in {"dialing", "dialed"} /\ dial' = NoDial
  /\ StillDial /\ UNCHANGED <<opener, issued>>

(***************************************************************************)
(* handle_answer_pairing: the old owner is fenced, shut down and drained   *)
(* before the new pairing's credential is written                          *)
(***************************************************************************)
StillOwner == UNCHANGED <<dial, faults, persisted, highest, overlooked>> /\ Quiet

LeaseGone ==
  /\ pass' = Resting
  /\ op' = IF op # Free THEN [op EXCEPT !.leased = FALSE] ELSE op

FenceWriter ==
  /\ owner = "running" /\ owner' = "fenced"
  /\ w' = [w EXCEPT !.fenced = TRUE, !.epoch = @ + 1] /\ LeaseGone
  /\ UNCHANGED <<disk, after, opener>> /\ StillOwner

\* The owner's shutdown: association lost, writer fenced again, opener fenced.
Retire ==
  /\ owner = "fenced" /\ owner' = "retired"
  /\ w' = [w EXCEPT !.epoch = @ + 1] /\ LeaseGone
  /\ opener' = [opener EXCEPT !.retired = TRUE, !.incarnation = @ + 1]
  /\ UNCHANGED <<disk, after>> /\ StillOwner

\* Mutant of Drain: the fence is taken for the end of the write.
DrainAtOnce ==
  /\ owner = "retired"
  /\ \/ ~w.failed /\ owner' = "drained"
     \/ owner' = "blocked"
  /\ UNCHANGED <<disk, after, w, opener, op, pass>> /\ StillOwner

\* wait_for_writes within two seconds, or activation stays blocked; so it does
\* when a refresh was lost or a bridge request will not end.
Drain ==
  /\ owner = "retired"
  /\ \/ op = Free /\ ~w.failed /\ owner' = "drained"
     \/ owner' = "blocked"
  /\ UNCHANGED <<disk, after, w, opener, op, pass>> /\ StillOwner

\* persist_credential_with_fault for the confirmed pairing.
Replace ==
  /\ owner = "drained" /\ owner' = "replaced"
  /\ \E eps \in Endpoints : disk' = [pairing |-> "new", token |-> None, eps |-> eps]
  /\ after' = {disk'}
  /\ UNCHANGED <<w, opener, op, pass>> /\ StillOwner

(***************************************************************************)
(* The specification                                                       *)
(***************************************************************************)
\* start_private_link_session_inner: a stored credential with or without relay access.
Init ==
  \E token \in {None, 1}, eps \in Endpoints :
    LET cred == [pairing |-> "old", token |-> token, eps |-> eps] IN
    /\ disk = cred /\ after = {cred} /\ op = Free /\ pass = Resting /\ dial = NoDial
    /\ w = [cred |-> cred, gen |-> 1, epoch |-> 1, clear |-> 0, ready |-> NoReady,
            unavailable |-> FALSE, failed |-> FALSE, fenced |-> FALSE]
    /\ opener = [relay |-> token, epoch |-> 1, incarnation |-> 1, retired |-> FALSE]
    /\ owner = "running" /\ issued = 1 /\ expired = {} /\ passes = 0 /\ faults = 0
    /\ persisted = {token} /\ highest = token /\ overlooked = FALSE

Finish ==
  \/ FinishRefresh \/ FinishRelay \/ FinishClear \/ FinishEndpoints
  \/ FinishRetryClear \/ FinishRetryReady

Next ==
  \/ BeginRefresh \/ BeginRelay \/ BeginClear \/ BeginEndpoints \/ BeginRetry
  \/ LastLook \/ Rename \/ Finish
  \/ StartPass \/ Ask \/ Answer \/ LoseLease \/ Expire
  \/ DialStart \/ DialRefreshes \/ DialEnds \/ DialFails
  \/ FenceWriter \/ Retire \/ Drain \/ Replace

Spec == Init /\ [][Next]_vars

(***************************************************************************)
(* Properties                                                              *)
(***************************************************************************)
\* Whatever a crash may leave of the relay tuple that is not what the writer
\* holds, the writer knows of: a clear or a new tuple waits to be written, or the
\* relay is out of use since a refresh could not be kept (private_link.rs 2698-3258).
DivergenceIsRecorded ==
  op = Free /\ ~w.fenced =>
    \A c \in after : c.token = w.cred.token \/ ClearWaits \/ ReadyWaits \/ w.unavailable

\* Between calls the relay client in use is that of the writer's tuple and its hook
\* is heard: a refresh is never dropped as stale while its client is dialed
\* (create_token_hook_with_epoch, replace_relay_transport).
LiveRelayIsCredential ==
  op = Free /\ ~w.fenced /\ ~w.unavailable /\ dial.at # "hook" =>
    /\ opener.relay = w.cred.token
    /\ opener.relay # None => opener.epoch = w.epoch

\* A carrier over the relay is used only once its token is on disk for good, unless
\* the owner was being replaced: admit_dial "keeps a refreshed carrier behind
\* synchronous token persistence" (private_link.rs 1563-1566).
CarrierIsPersisted == dial.at = "proven" => dial.token \in persisted \/ w.fenced

\* What the link runs over is what is stored: the live relay, and every carrier.
LinkIsStored == LiveRelayIsCredential /\ CarrierIsPersisted

\* Once the new pairing is stored no call of the old owner writes over it
\* (wait_for_writes, window_control.rs 556-567).
ReplacementStands ==
  owner = "replaced" => disk.pairing = "new" /\ \A c \in after : c.pairing = "new"

\* The tuple in use never goes back: not through a late answer, a stale hook, or a
\* retry of a tuple that waited while others were written or cleared.
TokensMoveForward ==
  w'.cred.token \in {w.cred.token, None} \/ w'.cred.token > highest

\* A retry of the tuple that waits cannot put the previous endpoints back: a comment
\* at private_link.rs 3061-3063.  It can after one sequence: the endpoints were
\* stored while a clear waited as well, and the clear's own write came first.
RetryKeepsEndpoints ==
  op # Free /\ op.kind = "retry ready" /\ op' = Free /\ ~overlooked
    => w'.cred.eps = w.cred.eps

\* The credential moves forward only, its tokens and its endpoints.
CredentialMovesForward == [][TokensMoveForward /\ RetryKeepsEndpoints]_vars
=============================================================================
