------------------------------ MODULE Candidate ------------------------------
(***************************************************************************)
(* A release candidate in a checkout: candidate create builds a payload    *)
(* and its evidence, candidate prove resumes missing proofs, candidate     *)
(* recover only looks, and the payload may be signed by a command that     *)
(* takes no lock.  The checkout, the local images and the advisory         *)
(* database may change under a command, a subprocess may fail, and the     *)
(* machine may stop.                                                       *)
(*                                                                         *)
(* A payload is the number of the build that made it: equal digests are    *)
(* the same number.  Left out: the bytes of packages and of evidence, and  *)
(* other versions (their evidence has a directory of its own).             *)
(***************************************************************************)
EXTENDS Naturals, FiniteSets

CONSTANTS Commits, ImageSets, Advisories, Platforms, Nil,
          MaxBuilds,   \* bound: payloads built
          MaxDrift     \* bound: changes of the world

VARIABLES world,       \* HEAD, the images that resolve, the advisory database and its age
          payload,     \* dist/rust
          evidence,    \* dist/rust-evidence/<version>
          lock,        \* dist/.rust-release-candidate.lock: "none", "held" or "stale"
          op,          \* the create or prove under way
          signer,      \* the sign-release-manifest under way
          builds, drift,
          half         \* ghost: a stop, a mkdir or a clean-up that failed left one of the two alone
cvars == <<world, payload, evidence, lock, op, signer, builds, drift, half>>

Ledger == [commit: Commits, images: ImageSets, advisory: Advisories, built: 1..MaxBuilds]
NoEvidence == [runner |-> FALSE, ledger |-> Nil, proofs |-> [p \in Platforms |-> Nil], attempts |-> {}]
NotSeen == [commit |-> Nil, images |-> Nil, advisory |-> Nil, built |-> Nil]
NoOp == [kind |-> "none", pc |-> "idle", seen |-> NotSeen, proving |-> Nil, result |-> "none"]

Init ==
  /\ world = [head |-> CHOOSE c \in Commits : TRUE, images |-> CHOOSE i \in ImageSets : TRUE,
              advisory |-> CHOOSE a \in Advisories : TRUE, fresh |-> TRUE]
  /\ payload = Nil /\ evidence = Nil /\ lock = "none" /\ op = NoOp /\ signer = "idle"
  /\ builds = 0 /\ drift = 0 /\ half = FALSE

\* Another commit is checked out, an image is tagged anew, the advisory database is
\* updated or grows older than 24 hours.
Drift ==
  /\ drift < MaxDrift /\ drift' = drift + 1
  /\ \/ \E c \in Commits \ {world.head} : world' = [world EXCEPT !.head = c]
     \/ \E i \in ImageSets \ {world.images} : world' = [world EXCEPT !.images = i]
     \/ \E a \in Advisories \ {world.advisory} : world' = [world EXCEPT !.advisory = a, !.fresh = TRUE]
     \/ world.fresh /\ world' = [world EXCEPT !.fresh = FALSE]
  /\ UNCHANGED <<payload, evidence, lock, op, signer, builds, half>>

Files == <<payload, evidence>>
World == <<world, drift, signer>>
To(pc) == op' = [op EXCEPT !.pc = pc]

\* classify_release: five unsigned or six signed files whose digests agree.
Classified == payload # Nil /\ ~payload.temp
\* validate_ledger: the ledger is of this payload.
LedgerOfPayload == evidence # Nil /\ evidence.ledger # Nil /\ evidence.ledger.built = payload.built
\* validate_proof_file
ProofValid(p) == evidence.proofs[p] = evidence.ledger
\* candidate_status: exactly ledger, runner and the three proofs.
StatusHolds == /\ evidence.runner /\ LedgerOfPayload /\ evidence.attempts = {}
               /\ \A p \in Platforms : ProofValid(p)
\* validate_retained_status_structure: some of the proofs may be missing.
RetainedStructure == /\ evidence.runner /\ LedgerOfPayload /\ evidence.attempts = {}
                     /\ \A p \in Platforms : evidence.proofs[p] # Nil => ProofValid(p)
\* What is rechecked before a payload is promoted, and again before it is called proven.
SourceStands == world.head = op.seen.commit
ImagesStand == world.images = op.seen.images
AdvisoryStands == world.advisory = op.seen.advisory /\ (op.kind = "create" => world.fresh)

-----------------------------------------------------------------------------
\* CandidateLock::acquire creates the file; a stale one is never cleared by a command.
Acquire(kind) == /\ op.pc = "idle" /\ lock = "none" /\ lock' = "held"
                 /\ op' = [NoOp EXCEPT !.kind = kind, !.pc = IF kind = "create" THEN "clear" ELSE "resume"]
CreateStarts == builds < MaxBuilds /\ Acquire("create") /\ UNCHANGED <<Files, World, builds, half>>
ProveStarts == Acquire("prove") /\ UNCHANGED <<Files, World, builds, half>>

\* clear_candidate_paths: nothing there, or a complete and valid candidate, which goes.
ClearFindsNothing == /\ op.pc = "clear" /\ payload = Nil /\ evidence = Nil
                     /\ To("build") /\ UNCHANGED <<Files, World, lock, builds, half>>
ClearRefuses == /\ op.pc = "clear" /\ ~(payload = Nil /\ evidence = Nil)
                /\ ~(payload # Nil /\ evidence # Nil /\ Classified /\ LedgerOfPayload /\ RetainedStructure)
                /\ To("fail") /\ UNCHANGED <<Files, World, lock, builds, half>>
\* CleanupPlan.execute: the payload, then the evidence, each renamed to a quarantine first.
ClearPayload == /\ op.pc = "clear" /\ payload # Nil /\ evidence # Nil
                /\ Classified /\ RetainedStructure
                /\ payload' = Nil /\ To("clear2")
                /\ UNCHANGED <<evidence, World, lock, builds, half>>
ClearEvidence == /\ op.pc = "clear2" /\ evidence' = Nil /\ To("build")
                 /\ UNCHANGED <<payload, World, lock, builds, half>>

\* What is seen is seen at its own time: the commit when the context is exported, ...
ExportContext == /\ op.pc = "build"
                 /\ op' = [op EXCEPT !.pc = "images", !.seen = [NotSeen EXCEPT !.commit = world.head]]
                 /\ UNCHANGED <<Files, World, lock, builds, half>>
\* ... the five pinned images when they resolve, ...
ResolveImages == /\ op.pc = "images"
                 /\ op' = [op EXCEPT !.pc = "cohort", !.seen.images = world.images]
                 /\ UNCHANGED <<Files, World, lock, builds, half>>
\* ... and the advisories when the cohort is run on them: no older than 24 hours.
RunCohort == /\ op.pc = "cohort" /\ world.fresh
             /\ op' = [op EXCEPT !.pc = "runner", !.seen.advisory = world.advisory]
             /\ UNCHANGED <<Files, World, lock, builds, half>>
\* The proof runner is built offline from the exported context.
BuildRunner == /\ op.pc = "runner" /\ To("lanes") /\ UNCHANGED <<Files, World, lock, builds, half>>
\* The two lanes build the packages from the same context and images.
BuildLanes == /\ op.pc = "lanes"
              /\ builds' = builds + 1
              /\ op' = [op EXCEPT !.pc = "audit", !.seen.built = builds + 1]
              /\ UNCHANGED <<Files, World, lock, half>>
\* The lanes agree on one executable, and the packages hold what they must and no more.
ReconcileAndAudit == /\ op.pc = "audit" /\ To("payload") /\ UNCHANGED <<Files, World, lock, builds, half>>
\* The payload is put together in the staging directory and classified there.
StagePayload == /\ op.pc = "payload" /\ To("stage") /\ UNCHANGED <<Files, World, lock, builds, half>>
\* finalize_candidate: the source, images and advisories still stand, then the rename.
Promote == /\ op.pc = "stage" /\ SourceStands /\ ImagesStand /\ AdvisoryStands
           /\ payload' = [built |-> op.seen.built, signed |-> FALSE, temp |-> FALSE]
           /\ To("parent") /\ UNCHANGED <<evidence, World, lock, builds, half>>
\* The mkdir of dist/rust-evidence: its failure is not cleaned up after.
EvidenceParent == /\ op.pc = "parent"
                  /\ \/ To("evidence") /\ half' = half
                     \/ To("fail") /\ half' = TRUE
                  /\ UNCHANGED <<Files, World, lock, builds>>
WriteRunner == /\ op.pc = "evidence" /\ Classified
               /\ evidence' = [NoEvidence EXCEPT !.runner = TRUE]
               /\ To("ledger") /\ UNCHANGED <<payload, World, lock, builds, half>>
WriteLedger == /\ op.pc = "ledger" /\ evidence' = [evidence EXCEPT !.ledger = op.seen]
               /\ To("recheck") /\ UNCHANGED <<payload, World, lock, builds, half>>
FinalizeRechecks == /\ op.pc = "recheck" /\ SourceStands /\ ImagesStand /\ AdvisoryStands
                    /\ To("proofs") /\ UNCHANGED <<Files, World, lock, builds, half>>

\* prove_candidate_locked: ledger, checkout, payload, advisory identity, build images, and
\* every entry of proofs must be a valid one of the three.
Resume == /\ op.pc = "resume" /\ payload # Nil /\ evidence # Nil /\ evidence.ledger # Nil
          /\ Classified /\ RetainedStructure
          /\ evidence.ledger.commit = world.head /\ evidence.ledger.advisory = world.advisory
          /\ evidence.ledger.images = world.images
          /\ op' = [op EXCEPT !.pc = "proofs", !.seen = evidence.ledger]
          /\ UNCHANGED <<Files, World, lock, builds, half>>

\* produce_or_retain_proof: a proof that is there and valid is kept; the others are run
\* in an attempt directory beside them, which goes before the proof is written.
AttemptStarts(p) == /\ op.pc = "proofs" /\ evidence.proofs[p] = Nil
                    /\ evidence' = [evidence EXCEPT !.attempts = @ \cup {p}]
                    /\ op' = [op EXCEPT !.pc = "attempt", !.proving = p]
                    /\ UNCHANGED <<payload, World, lock, builds, half>>
AttemptEnds == /\ op.pc = "attempt" /\ payload # Nil
               /\ evidence' = [evidence EXCEPT !.attempts = @ \ {op.proving}]
               /\ To("publish") /\ UNCHANGED <<payload, World, lock, builds, half>>
PublishProof == /\ op.pc = "publish"
                /\ evidence' = [evidence EXCEPT !.proofs[op.proving] = op.seen]
                /\ To("validate") /\ UNCHANGED <<payload, World, lock, builds, half>>
\* What was written is read and checked once more.
ValidateProof == /\ op.pc = "validate"
                 /\ op' = [op EXCEPT !.pc = "proofs", !.proving = Nil]
                 /\ UNCHANGED <<Files, World, lock, builds, half>>
\* The last rechecks and candidate_status.
Finish == /\ op.pc = "proofs" /\ Classified /\ StatusHolds
          /\ SourceStands /\ ImagesStand /\ AdvisoryStands
          /\ op' = [op EXCEPT !.pc = "unlock", !.result = "proven"]
          /\ UNCHANGED <<Files, World, lock, builds, half>>

Made == {"evidence", "ledger", "recheck", "proofs", "attempt", "publish", "validate"}
Building == {"build", "images", "cohort", "runner", "lanes", "audit", "payload", "stage"}
\* Mutant of Fails: a create leaves what it promoted.
FailsUncleaned == /\ op.pc \in {"clear", "resume"} \cup Building \cup Made
                  /\ To("fail") /\ UNCHANGED <<Files, World, lock, builds, half>>
\* Mutant of Fails: a prove cleans up like a create.
FailsAlike == /\ op.pc \in {"clear", "resume"} \cup Building \cup Made
              /\ To(IF op.pc \in Made THEN "undo" ELSE "fail")
              /\ UNCHANGED <<Files, World, lock, builds, half>>
\* finish_proof_attempt_cleanup: this command's attempt goes, or the proof it has written.
AttemptCleaned == CASE op.pc = "attempt" -> [evidence EXCEPT !.attempts = @ \ {op.proving}]
                    [] op.pc = "validate" -> [evidence EXCEPT !.proofs[op.proving] = Nil]
                    [] OTHER -> evidence
\* A check or a subprocess fails, and so may the clean-up of the attempt; a create then
\* removes all it promoted, a prove nothing more.
Fails == /\ op.pc \in {"clear", "resume"} \cup Building \cup Made
         /\ evidence' \in {evidence, AttemptCleaned}
         /\ To(IF op.kind = "create" /\ op.pc \in Made THEN "undo" ELSE "fail")
         /\ UNCHANGED <<payload, World, lock, builds, half>>
\* finish_created_candidate
UndoPayload == /\ op.pc = "undo" /\ payload' = Nil /\ To("undo2")
               /\ UNCHANGED <<evidence, World, lock, builds, half>>
UndoEvidence == /\ op.pc = "undo2" /\ evidence' = Nil /\ To("fail")
                /\ UNCHANGED <<payload, World, lock, builds, half>>
\* CleanupPlan stops at the first path it cannot remove: the second of the two stays, or both.
CleanupFails == /\ op.pc \in {"clear2", "undo", "undo2"} /\ To("fail")
                /\ half' = (half \/ (payload = Nil) # (evidence = Nil))
                /\ UNCHANGED <<Files, World, lock, builds>>
\* finish_candidate_staging_owned and finish_candidate_lock
Unlock == /\ op.pc \in {"unlock", "fail"} /\ lock' = "none"
          /\ op' = [NoOp EXCEPT !.result = op.result]
          /\ UNCHANGED <<Files, World, builds, half>>

\* The machine stops: the lock file stays and nothing is cleaned.
Crash == /\ op.pc # "idle"
         /\ lock' = "stale" /\ op' = NoOp
         /\ half' = (half \/ (payload = Nil) # (evidence = Nil))
         /\ UNCHANGED <<Files, World, builds>>
\* The operator removes a stale lock, or the paths a refusal names.
RemoveLock == /\ lock = "stale" /\ op.pc = "idle" /\ lock' = "none"
              /\ UNCHANGED <<Files, World, op, builds, half>>
RemovePaths == /\ op.pc = "idle" /\ lock = "none" /\ ~(Classified /\ LedgerOfPayload)
               /\ payload' = Nil /\ evidence' = Nil /\ half' = FALSE
               /\ UNCHANGED <<World, lock, op, builds>>

\* sign_release_manifest: a temporary beside the manifest, the sidecar, the temporary again.
SignStarts == /\ signer = "idle" /\ Classified /\ ~payload.signed
              /\ payload' = [payload EXCEPT !.temp = TRUE] /\ signer' = "temp"
              /\ UNCHANGED <<world, drift, evidence, lock, op, builds, half>>
SignWrites == /\ signer = "temp"
              /\ payload' = IF payload = Nil THEN Nil ELSE [payload EXCEPT !.signed = TRUE]
              /\ signer' = "done" /\ UNCHANGED <<world, drift, evidence, lock, op, builds, half>>
SignEnds == /\ signer = "done" /\ signer' = "idle"
            /\ payload' = IF payload = Nil THEN Nil ELSE [payload EXCEPT !.temp = FALSE]
            /\ UNCHANGED <<world, drift, evidence, lock, op, builds, half>>
SignStops == /\ signer # "idle" /\ signer' = "idle"
             /\ UNCHANGED <<world, drift, Files, lock, op, builds, half>>

Next == \/ Drift \/ CreateStarts \/ ProveStarts
        \/ ClearFindsNothing \/ ClearRefuses \/ ClearPayload \/ ClearEvidence
        \/ ExportContext \/ ResolveImages \/ RunCohort \/ BuildRunner \/ BuildLanes \/ ReconcileAndAudit \/ StagePayload
        \/ Promote \/ EvidenceParent \/ WriteRunner \/ WriteLedger \/ FinalizeRechecks
        \/ Resume \/ (\E p \in Platforms : AttemptStarts(p)) \/ AttemptEnds \/ PublishProof \/ ValidateProof
        \/ Finish \/ Fails \/ CleanupFails \/ UndoPayload \/ UndoEvidence \/ Unlock \/ Crash \/ RemoveLock \/ RemovePaths
        \/ SignStarts \/ SignWrites \/ SignEnds \/ SignStops
Spec == Init /\ [][Next]_cvars

-----------------------------------------------------------------------------
Payloads == [built : 1..MaxBuilds, signed : BOOLEAN, temp : BOOLEAN]
Evidences == [runner : BOOLEAN, ledger : Ledger \cup {Nil}, proofs : [Platforms -> Ledger \cup {Nil}],
              attempts : SUBSET Platforms]

TypeOK ==
  /\ payload \in Payloads \cup {Nil} /\ evidence \in Evidences \cup {Nil}
  /\ lock \in {"none", "held", "stale"} /\ (op.pc # "idle" => lock = "held")
  /\ op.result \in {"none", "proven"} /\ builds \in 0..MaxBuilds

\* A command that fails leaves a whole candidate or none: one of payload and evidence
\* without the other is met only after a stop, a clean-up that could not finish, or a
\* failed mkdir of the evidence's parent (finalize_candidate returns before the clean-up
\* is armed).
NoHalfCandidate == op.pc = "idle" /\ ~half => (payload = Nil) = (evidence = Nil)

\* "Resume missing proofs without rebuilding or changing valid retained evidence"
\* (RELEASING.md:104): a prove, whatever becomes of it, leaves the payload's build, the
\* ledger and every proof that was there, but for one this prove wrote and could not read back.
ResumeKeeps ==
  op.kind = "prove" =>
    /\ (payload = Nil) = (payload' = Nil) /\ (payload # Nil => payload'.built = payload.built)
    /\ evidence # Nil =>
         /\ evidence' # Nil /\ evidence'.ledger = evidence.ledger
         /\ \A p \in Platforms \ {op.proving} : evidence.proofs[p] # Nil => evidence'.proofs[p] = evidence.proofs[p]
=============================================================================
