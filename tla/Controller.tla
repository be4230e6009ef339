----------------------------- MODULE Controller -----------------------------
(***************************************************************************)
(* AutomationController of src/automation/controller.ts: one run, and the  *)
(* methods that move it.                                                   *)
(*                                                                         *)
(* Every method reads the run, decides, and commits one audit entry; a     *)
(* call that throws changes nothing, so only the calls that commit are     *)
(* actions.  The check of #commit against the lifecycle is not a guard     *)
(* here: LifecycleSpec says that it never refuses what a method built.     *)
(* Only its refusal of a clock that went backwards is (OnTime).            *)
(*                                                                         *)
(* GitHub is outside: each read of the reality port returns any well       *)
(* formed observation, and two reads of one call may differ.               *)
(*                                                                         *)
(* Two calls commit twice (a rejection that exhausts the failure budget,   *)
(* and a reconciliation that first clears the recheck flag).  Between the  *)
(* two writes the process may crash, and another process on the same       *)
(* store may write; the second write is built on the run as it is read     *)
(* after the first, and there the lifecycle check can refuse.              *)
(*                                                                         *)
(* A human grant is presented inside its window where the only use of the  *)
(* window is that one check (resumeHuman); promotion grants, checked       *)
(* twice, keep theirs.                                                     *)
(***************************************************************************)
EXTENDS Lifecycle

CONSTANTS
  Instants,          \* readings of the clock
  StopIds            \* stop occurrences a resume grant may name

ASSUME ControllerAssumption == Instants \subseteq Nat /\ StopIds \subseteq Nat

(* An absent field is none of the values the field may have. *)
ASSUME AbsentAssumption ==
  /\ None \notin Shas /\ None \notin Packets /\ None \notin Nat /\ None \notin Entry
  /\ None \notin Decision /\ None \notin Correction
  /\ None \notin PromotionGrant /\ None \notin Preflight /\ None \notin ResumeGrant

VARIABLE pending     \* what a call that made its first write still has to write

vars == <<run, pending>>

-----------------------------------------------------------------------------
(* #commit *)

OnTime(at) == run.audit.length > 0 => run.audit.last.at <= at

Commit(r, next, role, action, at, sha, grant) ==
  [r EXCEPT !.state = next,
            !.stopId = IF next \in Stops THEN r.audit.length + 1 ELSE 0,
            !.audit = Recorded(@, [action |-> action, role |-> role, at |-> at,
                                   packet |-> r.packet, sha |-> sha, grant |-> grant])]

(* #halt: a stop records the state it interrupted. *)
Halt(r, role, kind, at) ==
  Commit([r EXCEPT !.interruptedState = r.state], kind, role, "STOP", at, None, None)

Write(r) == run' = r /\ UNCHANGED pending

Stopped(kind, at) == OnTime(at) /\ Write(Halt(run, "CONTROLLER", kind, at))

(* Two commits in one call: `first` is written now, `second` is owed. *)
WriteThen(first, second) == run' = first /\ pending' = second

WorkCurrent(work) == work = run.remoteSha

-----------------------------------------------------------------------------
(* Architecture and packets *)

EnterArchitecture(at) ==
  /\ run.state = "IDLE"
  /\ OnTime(at)
  /\ Write(Commit(run, "ARCHITECTURE", "GPT_ARCHITECT", "ENTER_ARCHITECTURE", at, None, None))

EnterArchitectureForActivation(intent, at) ==
  /\ run.state = "IDLE"
  /\ run.audit.length = 0
  /\ OnTime(at)
  /\ Write(Commit([run EXCEPT !.binding = intent], "ARCHITECTURE", "GPT_ARCHITECT",
                  "ENTER_ARCHITECTURE", at, None, None))

IssuePacket(packet, at) ==
  /\ run.state = "ARCHITECTURE"
  /\ run.packet # None => packet.id # run.packet.id /\ packet.version > run.packet.version
  /\ run.audit.length = 1 /\ run.binding # None => packet = run.binding
  /\ OnTime(at)
  /\ Write(Commit([run EXCEPT !.packet = packet, !.correction = None, !.remoteSha = None,
                              !.acceptance = None, !.authorization = None, !.preflight = None,
                              !.promotedMain = None],
                  "PACKET_READY", "GPT_ARCHITECT", "ISSUE_PACKET", at, None, None))

-----------------------------------------------------------------------------
(* Implementation *)

(* Mutant of MayImplement: the pending recheck is forgotten. *)
MayImplementUnchecked ==
  /\ run.state \in {"PACKET_READY", "CORRECTION_REQUIRED"}
  /\ run.packet # None

MayImplement ==
  /\ run.state \in {"PACKET_READY", "CORRECTION_REQUIRED"}
  /\ run.packet # None
  /\ ~run.recheck

IterationsExhausted(at) ==
  /\ MayImplement
  /\ run.iterations >= run.packet.maxIterations
  /\ Stopped("HUMAN_STOP", at)

BeginImplementation(at) ==
  /\ MayImplement
  /\ run.iterations < run.packet.maxIterations
  /\ run.state = "CORRECTION_REQUIRED" => HoldsCurrentCorrection(run)
  /\ OnTime(at)
  /\ Write(Commit([run EXCEPT !.iterations = @ + 1, !.startedAt = at, !.remoteSha = None,
                              !.acceptance = None],
                  "IMPLEMENTING", "CODEX_IMPLEMENTER", "BEGIN_IMPLEMENTATION", at, None, None))

CompleteImplementation(at) ==
  /\ run.state = "IMPLEMENTING"
  /\ OnTime(at)
  /\ Write(IF RuntimeExceeded(run, at)
           THEN Halt(run, "CONTROLLER", "HUMAN_STOP", at)
           ELSE Commit(run, "IMPLEMENTATION_COMPLETE", "CODEX_IMPLEMENTER",
                       "REPORT_IMPLEMENTATION_COMPLETE", at, None, None))

RecordRemoteSha(work, at) ==
  /\ run.state = "IMPLEMENTATION_COMPLETE"
  /\ ~run.recheck
  /\ OnTime(at)
  /\ Write(Commit([run EXCEPT !.remoteSha = work], "REMOTE_SHA_READY", "CODEX_IMPLEMENTER",
                  "RECORD_REMOTE_SHA", at, work, None))

-----------------------------------------------------------------------------
(* Acceptance and correction *)

BeginAcceptanceReview(work, at) ==
  /\ run.state = "REMOTE_SHA_READY"
  /\ ~run.recheck
  /\ OnTime(at)
  /\ Write(IF WorkCurrent(work)
           THEN Commit(run, "ACCEPTANCE_REVIEW", "GPT_ARCHITECT", "BEGIN_REMOTE_ACCEPTANCE", at,
                       None, None)
           ELSE Halt(run, "CONTROLLER", "ARCHITECTURE_STOP", at))

(* Mutant of Reviewing: a rejection may be judged again. *)
ReviewingAgain == run.state \in {"ACCEPTANCE_REVIEW", "CORRECTION_REQUIRED"} /\ ~run.recheck

Reviewing == run.state = "ACCEPTANCE_REVIEW" /\ ~run.recheck

ReviewedWorkMoved(work, at) ==
  /\ Reviewing
  /\ ~WorkCurrent(work)
  /\ Stopped("ARCHITECTURE_STOP", at)

(* Only a decision on the active packet and the recorded SHA is taken. *)
Decided(kind) == [decision |-> kind, packet |-> run.packet, sha |-> run.remoteSha]

Accept(work, at) ==
  /\ Reviewing
  /\ WorkCurrent(work)
  /\ OnTime(at)
  /\ Write(Commit([run EXCEPT !.acceptance = Decided("ACCEPT")], "ACCEPTED", "GPT_ARCHITECT",
                  "ACCEPT_EXACT_SHA", at, run.remoteSha, None))

Reject(work, at) ==
  /\ Reviewing
  /\ WorkCurrent(work)
  /\ OnTime(at)
  /\ LET rejected == Commit([run EXCEPT !.acceptance = Decided("REJECT"), !.failures = @ + 1],
                            "CORRECTION_REQUIRED", "GPT_ARCHITECT", "REJECT_EXACT_SHA", at,
                            run.remoteSha, None)
     IN IF rejected.failures >= run.packet.maxFailures
        THEN WriteThen(rejected, [then |-> "HALT_EXHAUSTED", at |-> at])
        ELSE Write(rejected)

(* validateCorrection also wants the correction's iteration inside the packet's limit. *)
IssueCorrection(at) ==
  /\ run.state = "CORRECTION_REQUIRED"
  /\ ~run.recheck
  /\ ~HoldsCurrentCorrection(run)
  /\ run.acceptance # None /\ run.acceptance.decision = "REJECT" /\ run.remoteSha # None
  /\ run.iterations + 1 <= run.packet.maxIterations
  /\ OnTime(at)
  /\ Write(Commit([run EXCEPT !.correction = [packet |-> run.packet, rejectedSha |-> run.remoteSha,
                                              iteration |-> run.iterations + 1]],
                  "CORRECTION_REQUIRED", "GPT_ARCHITECT", "ISSUE_CORRECTION_PACKET", at, None, None))

-----------------------------------------------------------------------------
(* Promotion *)

(* readPreflight: main's SHA, and whether every other fact is in order. *)
ReadPreflight(main, clean) ==
  [expected |-> run.packet.base, observed |-> main, accepted |-> run.acceptance.sha,
   clean |-> clean]

PreflightHolds(work, main, clean) ==
  WorkCurrent(work) /\ PreflightPasses(ReadPreflight(main, clean), run)

(* Mutant of RequestPromotion: a grant older than the acceptance is taken. *)
RequestPromotionEarly(grant, work, main, clean, at) ==
  /\ run.state = "ACCEPTED"
  /\ ~run.recheck
  /\ GrantCurrent(grant, run, at)
  /\ grant.id \notin run.audit.grants
  /\ OnTime(at)
  /\ PreflightHolds(work, main, clean)
  /\ Write(Commit([run EXCEPT !.authorization = grant, !.preflight = ReadPreflight(main, clean)],
                  "PROMOTION_READY", "HUMAN", "AUTHORIZE_PROMOTION", at, run.acceptance.sha, grant.id))

RequestPromotion(grant, work, main, clean, at) ==
  /\ run.state = "ACCEPTED"
  /\ ~run.recheck
  /\ GrantCurrent(grant, run, at)
  /\ grant.id \notin run.audit.grants
  /\ AcceptedBy(run, grant.issuedAt)
  /\ OnTime(at)
  /\ Write(IF PreflightHolds(work, main, clean)
           THEN Commit([run EXCEPT !.authorization = grant,
                                   !.preflight = ReadPreflight(main, clean)],
                       "PROMOTION_READY", "HUMAN", "AUTHORIZE_PROMOTION", at,
                       run.acceptance.sha, grant.id)
           ELSE Halt(run, "CONTROLLER", "ARCHITECTURE_STOP", at))

BeginPromotion(work, main, clean, at) ==
  /\ run.state = "PROMOTION_READY"
  /\ ~run.recheck
  /\ run.authorization # None
  /\ GrantCurrent(run.authorization, run, at)
  /\ OnTime(at)
  /\ Write(IF PreflightHolds(work, main, clean)
           THEN Commit(run, "PROMOTING", "CONTROLLER", "MARK_PROMOTING", at, None, None)
           ELSE Halt(run, "CONTROLLER", "ARCHITECTURE_STOP", at))

PromotedMain(r, action, main, at) ==
  Commit([r EXCEPT !.promotedMain = main], "CANONICAL_CI", "CONTROLLER", action, at, main, None)

RecordPromotedMain(work, main, at) ==
  /\ run.state = "PROMOTING"
  /\ ~run.recheck
  /\ OnTime(at)
  /\ \/ ~WorkCurrent(work) /\ Write(Halt(run, "CONTROLLER", "ARCHITECTURE_STOP", at))
     \/ /\ WorkCurrent(work)
        /\ main = run.acceptance.sha
        /\ Write(PromotedMain(run, "RECORD_PROMOTED_MAIN", main, at))

(* readPostPromotion: the workflow and the required check, and whether main  *)
(* is still protected by exactly that check.                                 *)
CiStatuses == {"PENDING", "SUCCESS", "FAILURE"}
CanonicalHolds(main, ci, protected) ==
  main = run.acceptance.sha /\ protected /\ ci # "FAILURE"

CiOutcome(r, action, ci, sha, at) ==
  IF ci = "PENDING"
  THEN Commit(r, "CANONICAL_CI", "CONTROLLER", "RECONCILE_PENDING", at, None, None)
  ELSE Commit(r, "CLOSED", "CONTROLLER", action, at, sha, None)

Close(work, main, ci, protected, at) ==
  /\ run.state = "CANONICAL_CI"
  /\ ~run.recheck
  /\ OnTime(at)
  /\ Write(IF WorkCurrent(work) /\ CanonicalHolds(main, ci, protected)
           THEN CiOutcome(run, "CLOSE_VERIFIED_RUN", ci, run.acceptance.sha, at)
           ELSE Halt(run, "CONTROLLER", "ARCHITECTURE_STOP", at))

-----------------------------------------------------------------------------
(* reconcile: read-only recovery after a restart *)

ClearRecheck(at) ==
  Commit([run EXCEPT !.recheck = FALSE], run.state, "CONTROLLER", "RECHECK_EXTERNAL_REALITY", at,
         None, None)

(* The second commit of a call, on the run it reads then. *)
SecondWrite(r, second) ==
  CASE second.then = "HALT_EXHAUSTED" -> Halt(r, "CONTROLLER", "HUMAN_STOP", second.at)
    [] second.then = "RECOVER_PROMOTED_MAIN" -> PromotedMain(r, second.then, second.main, second.at)
    [] second.then = "RECOVER_CLOSE" -> CiOutcome(r, second.then, second.ci, second.sha, second.at)

(* Mutant of Reconciled: the outcome is recorded without the recheck. *)
ReconciledUnchecked(outcome) == Write(SecondWrite(run, outcome))

(* A reconciliation that owes a recheck records it before its outcome. *)
Reconciled(outcome) ==
  IF run.recheck THEN WriteThen(ClearRecheck(outcome.at), outcome)
                 ELSE Write(SecondWrite(run, outcome))

StoredWorkCurrent(work) == run.remoteSha = None \/ WorkCurrent(work)

ReconcileMovedWork(work, at) ==
  /\ run.state \in Active
  /\ ~StoredWorkCurrent(work)
  /\ Stopped("ARCHITECTURE_STOP", at)

(* The promotion itself is never retried: main still at base is for a human. *)
ReconcilePromoting(work, main, at) ==
  /\ run.state = "PROMOTING"
  /\ StoredWorkCurrent(work)
  /\ OnTime(at)
  /\ IF main = run.packet.base THEN Stopped("HUMAN_STOP", at)
     ELSE IF main # run.acceptance.sha THEN Stopped("ARCHITECTURE_STOP", at)
     ELSE Reconciled([then |-> "RECOVER_PROMOTED_MAIN", main |-> main, at |-> at])

ReconcileCanonical(work, main, ci, protected, at) ==
  /\ run.state = "CANONICAL_CI"
  /\ StoredWorkCurrent(work)
  /\ OnTime(at)
  /\ IF CanonicalHolds(main, ci, protected)
     THEN Reconciled([then |-> "RECOVER_CLOSE", ci |-> ci, sha |-> run.acceptance.sha, at |-> at])
     ELSE Stopped("ARCHITECTURE_STOP", at)

BeforePromoting == run.state \in Active \ {"PROMOTING", "CANONICAL_CI"}

PreflightStillHolds(main, clean) ==
  run.state = "PROMOTION_READY" => PreflightPasses(ReadPreflight(main, clean), run)

ReconcileRecheck(work, main, clean, at) ==
  /\ BeforePromoting
  /\ StoredWorkCurrent(work)
  /\ run.recheck
  /\ OnTime(at)
  /\ Write(IF (run.packet # None => main = run.packet.base) /\ PreflightStillHolds(main, clean)
           THEN ClearRecheck(at)
           ELSE Halt(run, "CONTROLLER", "ARCHITECTURE_STOP", at))

ReconcilePromotionReady(work, main, clean, at) ==
  /\ run.state = "PROMOTION_READY"
  /\ StoredWorkCurrent(work)
  /\ ~run.recheck
  /\ ~PreflightStillHolds(main, clean)
  /\ Stopped("ARCHITECTURE_STOP", at)

-----------------------------------------------------------------------------
(* Stops and resumes *)

Stop(role, kind, at) ==
  /\ run.state \in Active
  /\ OnTime(at)
  /\ Write(Halt(run, role, kind, at))

SoftResumeRefused(at) ==
  \/ run.packet = None
  \/ run.interruptedState = "IMPLEMENTING" /\ RuntimeExceeded(run, at)
  \/ run.interruptedState = "PACKET_READY" /\ run.iterations >= run.packet.maxIterations

ResumeSoft(at) ==
  /\ run.state = "SOFT_STOP"
  /\ OnTime(at)
  /\ Write(IF SoftResumeRefused(at)
           THEN Commit(run, "HUMAN_STOP", "CONTROLLER", "BUDGET_EXHAUSTED", at, None, None)
           ELSE Commit([run EXCEPT !.interruptedState = None], run.interruptedState, "CONTROLLER",
                       "RESUME_SOFT_WITH_REPAIR", at, None, None))

ResumeArchitecture(at) ==
  /\ run.state = "ARCHITECTURE_STOP"
  /\ OnTime(at)
  /\ Write(Commit([run EXCEPT !.interruptedState = None], "ARCHITECTURE", "GPT_ARCHITECT",
                  "RETURN_TO_ARCHITECTURE", at, None, None))

(* Mutant of ResumeHuman: a grant already used. *)
ResumeHumanReplayed(grant, at) ==
  /\ run.state = "HUMAN_STOP"
  /\ grant.target = run.stopId
  /\ OnTime(at)
  /\ Write(Commit([run EXCEPT !.interruptedState = None, !.recheck = TRUE, !.resumeGrant = grant],
                  run.interruptedState, "HUMAN", "RESUME_HUMAN_STOP", at, None, grant.id))

ResumeHuman(grant, at) ==
  /\ run.state = "HUMAN_STOP"
  /\ grant.target = run.stopId
  /\ grant.id \notin run.audit.grants
  /\ OnTime(at)
  /\ Write(Commit([run EXCEPT !.interruptedState = None, !.recheck = TRUE, !.resumeGrant = grant],
                  run.interruptedState, "HUMAN", "RESUME_HUMAN_STOP", at, None, grant.id))

FailClosed(at) ==
  /\ run.state \notin Terminal
  /\ OnTime(at)
  /\ Write(Commit(run, "FAILED_CLOSED", "CONTROLLER", "FAIL_CLOSED", at, None, None))

-----------------------------------------------------------------------------
(* The second write of a call, and the crash that loses it *)

(* Read before another process wrote, the run is stale and the write is     *)
(* refused; read after, the call goes on with what that process left.  The *)
(* failure budget is compared on that read too.                            *)
SecondWanted ==
  pending.then = "HALT_EXHAUSTED" => run.failures >= run.packet.maxFailures

FinishCall ==
  /\ pending # None
  /\ pending' = None
  /\ SecondWanted
  /\ Transition(run, SecondWrite(run, pending))
  /\ run' = SecondWrite(run, pending)

(* The call ends without its second write: it crashed, or the write was refused. *)
Crash ==
  /\ pending # None
  /\ pending' = None
  /\ UNCHANGED run

-----------------------------------------------------------------------------

Init == LifecycleInit /\ pending = None

(* A grant is any authorization data a caller presents. *)
PromotionGrants == [id: GrantIds, packet: PacketIds, issuedAt: Instants, expiresAt: Instants]
StopGrants == [id: GrantIds, target: StopIds]

Method(at) ==
  \/ EnterArchitecture(at)
  \/ \E p \in Packets : EnterArchitectureForActivation(p, at) \/ IssuePacket(p, at)
  \/ IterationsExhausted(at)
  \/ BeginImplementation(at)
  \/ CompleteImplementation(at)
  \/ IssueCorrection(at)
  \/ \E role \in {"HUMAN", "GPT_ARCHITECT", "CONTROLLER"}, kind \in Stops : Stop(role, kind, at)
  \/ ResumeSoft(at)
  \/ ResumeArchitecture(at)
  \/ \E grant \in StopGrants : ResumeHuman(grant, at)
  \/ FailClosed(at)

WorkMethod(work, at) ==
  \/ RecordRemoteSha(work, at)
  \/ BeginAcceptanceReview(work, at)
  \/ ReviewedWorkMoved(work, at)
  \/ Accept(work, at)
  \/ Reject(work, at)
  \/ ReconcileMovedWork(work, at)

PromotionMethod(work, main, at) ==
  \/ RecordPromotedMain(work, main, at)
  \/ ReconcilePromoting(work, main, at)
  \/ \E clean \in BOOLEAN :
       \/ \E grant \in PromotionGrants : RequestPromotion(grant, work, main, clean, at)
       \/ BeginPromotion(work, main, clean, at)
       \/ ReconcileRecheck(work, main, clean, at)
       \/ ReconcilePromotionReady(work, main, clean, at)
  \/ \E ci \in CiStatuses, protected \in BOOLEAN :
       \/ Close(work, main, ci, protected, at)
       \/ ReconcileCanonical(work, main, ci, protected, at)

Next ==
  \/ \E at \in Instants :
       \/ Method(at)
       \/ \E work \in Shas : WorkMethod(work, at) \/ \E main \in Shas : PromotionMethod(work, main, at)
  \/ FinishCall
  \/ Crash

Spec == Init /\ [][Next]_vars

-----------------------------------------------------------------------------

(* "Exhaustion yields HUMAN_STOP" (AUTOMATION_GOVERNANCE_CONTRACT.md, on    *)
(* the iteration and acceptance-failure budgets): a run implements past its *)
(* packet's acceptance-failure limit only after a human resumed it.         *)
ExhaustedFailuresNeedAHuman ==
  run.state = "IMPLEMENTING" /\ run.failures >= run.packet.maxFailures => run.resumeGrant # None

=============================================================================
