------------------------------ MODULE Lifecycle ------------------------------
(***************************************************************************)
(* The legal controller transitions of src/automation/lifecycle.ts.        *)
(*                                                                         *)
(* A stored run advances only by assertTransition: the controller checks   *)
(* it before every commit and every ControllerStore checks it again on     *)
(* replace.  This module is that relation, one operator per audit action,  *)
(* and the invariants assertRunInvariants puts on each stored run.  Its    *)
(* Next is every write a store accepts, whoever the writer is.             *)
(*                                                                         *)
(* Abstractions.  A packet stands for its canonical content, so packet     *)
(* equality is equality of packetHash.  Of the audit trail the run keeps   *)
(* what the code ever reads back from it.  Text (reasons, findings, ids)   *)
(* and the repository and branch names of a run, which never differ, are   *)
(* left out.  Instants are natural numbers.                                *)
(***************************************************************************)
EXTENDS Integers, FiniteSets

CONSTANTS
  Packets,    \* implementation packets: [id, version, base, maxIterations, maxFailures, maxRuntime]
  Shas,       \* commit SHAs
  GrantIds,   \* authorizationIds of human grants
  None        \* an absent optional field

ASSUME PacketAssumption ==
  \A p \in Packets : /\ p.version \in Nat \ {0}
                     /\ p.base \in Shas
                     /\ p.maxIterations \in Nat \ {0}
                     /\ p.maxFailures \in Nat \ {0}
                     /\ p.maxRuntime \in Nat \ {0}

(* An absent authorization reference is none of the references. *)
ASSUME NoneAssumption == None \notin GrantIds

VARIABLE run  \* the stored ControllerRun

-----------------------------------------------------------------------------
(* States and roles *)

Stops == {"SOFT_STOP", "ARCHITECTURE_STOP", "HUMAN_STOP"}
Terminal == {"CLOSED", "FAILED_CLOSED"}
WithPromotedMain == {"CANONICAL_CI", "CLOSED"}
WithPromotion == {"PROMOTION_READY", "PROMOTING"} \cup WithPromotedMain
WithAcceptance == {"ACCEPTED"} \cup WithPromotion
WithRemote == {"REMOTE_SHA_READY", "ACCEPTANCE_REVIEW", "CORRECTION_REQUIRED"} \cup WithAcceptance
WithIteration == {"IMPLEMENTING", "IMPLEMENTATION_COMPLETE"}
WithPacket == {"PACKET_READY"} \cup WithIteration \cup WithRemote
Active == ({"IDLE", "ARCHITECTURE"} \cup WithPacket) \ Terminal
States == Active \cup Stops \cup Terminal

Roles == {"HUMAN", "GPT_ARCHITECT", "CODEX_IMPLEMENTER", "CONTROLLER", "GITHUB"}

(* Actions a pending external recheck blocks (the end of assertTransition). *)
AwaitsRecheck == {"BEGIN_IMPLEMENTATION", "RECORD_REMOTE_SHA", "BEGIN_REMOTE_ACCEPTANCE",
  "ACCEPT_EXACT_SHA", "REJECT_EXACT_SHA", "ISSUE_CORRECTION_PACKET", "AUTHORIZE_PROMOTION",
  "MARK_PROMOTING", "RECORD_PROMOTED_MAIN", "RECOVER_PROMOTED_MAIN", "CLOSE_VERIFIED_RUN",
  "RECOVER_CLOSE"}
TakesGrant == {"AUTHORIZE_PROMOTION", "RESUME_HUMAN_STOP"}
Actions == AwaitsRecheck \cup TakesGrant \cup {"ENTER_ARCHITECTURE", "ISSUE_PACKET",
  "REPORT_IMPLEMENTATION_COMPLETE", "RECONCILE_PENDING", "RECHECK_EXTERNAL_REALITY", "STOP",
  "BUDGET_EXHAUSTED", "RESUME_SOFT_WITH_REPAIR", "RETURN_TO_ARCHITECTURE", "FAIL_CLOSED"}

-----------------------------------------------------------------------------
(* Evidence, audit trail and run *)

PacketIds == {p.id : p \in Packets}
Maybe(S) == S \cup {None}

Decision == [decision: {"ACCEPT", "REJECT"}, packet: Packets, sha: Shas]
Correction == [packet: Packets, rejectedSha: Shas, iteration: Nat]
PromotionGrant == [id: GrantIds, packet: PacketIds, issuedAt: Nat, expiresAt: Nat]
ResumeGrant == [id: GrantIds, target: Nat]
Preflight == [expected: Shas, observed: Shas, accepted: Shas, clean: BOOLEAN]

Entry == [action: Actions, role: Roles, at: Nat, packet: Maybe(Packets), sha: Maybe(Shas),
          grant: Maybe(GrantIds)]

(* What is read back from the audit array: its length and last entry, the  *)
(* action of entry 1 and the packet entry 2 issued, the number of          *)
(* BEGIN_IMPLEMENTATION and REJECT_EXACT_SHA entries, the grants consumed   *)
(* and by how many entries, and the last ACCEPT_EXACT_SHA; for the          *)
(* properties also how many acceptances it holds and the last rejection.   *)
Audit == [length: Nat, last: Maybe(Entry), first: Maybe(Actions), activated: Maybe(Packets),
          begins: Nat, rejects: Nat, accepts: Nat, grants: SUBSET GrantIds, spent: Nat,
          accepted: Maybe([sha: Maybe(Shas), at: Nat]),
          rejected: Maybe([packet: Maybe(Packets), sha: Maybe(Shas), iteration: Nat])]

Fields == [interruptedState: Maybe(Active), stopId: Nat, packet: Maybe(Packets),
           binding: Maybe(Packets), correction: Maybe(Correction), remoteSha: Maybe(Shas),
           acceptance: Maybe(Decision), authorization: Maybe(PromotionGrant),
           preflight: Maybe(Preflight), promotedMain: Maybe(Shas), iterations: Nat,
           startedAt: Maybe(Nat), failures: Nat, recheck: BOOLEAN,
           resumeGrant: Maybe(ResumeGrant), state: States, audit: Audit]

(* stopId n stands for `stop-n`, and 0 for none. *)
Framed == {"interruptedState", "stopId", "packet", "binding", "correction", "remoteSha",
  "acceptance", "authorization", "preflight", "promotedMain", "iterations", "startedAt",
  "failures", "recheck", "resumeGrant"}

Recorded(audit, entry) ==
  [audit EXCEPT
    !.length = @ + 1,
    !.last = entry,
    !.first = IF audit.length = 0 THEN entry.action ELSE @,
    !.activated = IF audit.length = 1 /\ entry.action = "ISSUE_PACKET" THEN entry.packet ELSE @,
    !.begins = IF entry.action = "BEGIN_IMPLEMENTATION" THEN @ + 1 ELSE @,
    !.rejects = IF entry.action = "REJECT_EXACT_SHA" THEN @ + 1 ELSE @,
    !.accepts = IF entry.action = "ACCEPT_EXACT_SHA" THEN @ + 1 ELSE @,
    !.grants = IF entry.grant # None THEN @ \cup {entry.grant} ELSE @,
    !.spent = IF entry.action \in TakesGrant THEN @ + 1 ELSE @,
    !.accepted = IF entry.action = "ACCEPT_EXACT_SHA"
                 THEN [sha |-> entry.sha, at |-> entry.at] ELSE @,
    !.rejected = IF entry.action = "REJECT_EXACT_SHA"
                 THEN [packet |-> entry.packet, sha |-> entry.sha, iteration |-> audit.begins]
                 ELSE @]

EmptyAudit == [length |-> 0, last |-> None, first |-> None, activated |-> None, begins |-> 0,
               rejects |-> 0, accepts |-> 0, grants |-> {}, spent |-> 0, accepted |-> None,
               rejected |-> None]

(* The only shape a run is created in. *)
FreshRun == [state |-> "IDLE", audit |-> EmptyAudit, interruptedState |-> None, stopId |-> 0,
             packet |-> None, binding |-> None, correction |-> None, remoteSha |-> None,
             acceptance |-> None, authorization |-> None, preflight |-> None,
             promotedMain |-> None, iterations |-> 0, startedAt |-> None, failures |-> 0,
             recheck |-> FALSE, resumeGrant |-> None]

-----------------------------------------------------------------------------
(* Shared predicates on a run *)

(* A stopped run keeps the evidence of the state it interrupted. *)
Evidenced(r) == IF r.state \in Stops THEN r.interruptedState ELSE r.state

(* Mutant of HoldsCurrentCorrection: a rejection is identified by its SHA alone. *)
HoldsCorrectionOfSha(r) ==
  /\ r.correction # None
  /\ r.remoteSha # None
  /\ r.correction.rejectedSha = r.remoteSha
  /\ r.correction.packet = r.packet

(* The rejection of iteration N is answered only by the correction for iteration N + 1. *)
HoldsCurrentCorrection(r) ==
  /\ r.correction # None
  /\ r.remoteSha # None
  /\ r.correction.rejectedSha = r.remoteSha
  /\ r.correction.iteration = r.iterations + 1
  /\ r.correction.packet = r.packet

PreflightPasses(facts, r) ==
  /\ facts.expected = r.packet.base
  /\ facts.observed = facts.expected
  /\ facts.accepted = r.acceptance.sha
  /\ facts.accepted = r.remoteSha
  /\ facts.clean

RuntimeExceeded(r, at) ==
  \/ r.packet = None
  \/ r.startedAt = None
  \/ at - r.startedAt > r.packet.maxRuntime

(* matchAuthorization for FAST_FORWARD_MAIN: binding and window, both ends included. *)
GrantCurrent(grant, r, at) ==
  /\ grant.packet = r.packet.id
  /\ grant.issuedAt <= at
  /\ at <= grant.expiresAt

(* The acceptance in force was recorded, and not after `at`. *)
AcceptedBy(r, at) ==
  /\ r.audit.accepted # None
  /\ r.audit.accepted.sha = r.acceptance.sha
  /\ r.audit.accepted.at <= at

DecisionBinds(r, kind) ==
  /\ r.acceptance # None
  /\ r.acceptance.decision = kind
  /\ r.acceptance.packet = r.packet
  /\ r.acceptance.sha = r.remoteSha

-----------------------------------------------------------------------------
(* assertRunInvariants: what every stored run satisfies *)

CountersAgree(r) == r.iterations = r.audit.begins /\ r.failures = r.audit.rejects

BindingHolds(r) ==
  r.binding # None =>
    /\ r.audit.first = "ENTER_ARCHITECTURE"
    /\ r.audit.activated \in {None, r.binding}

CorrectionFits(r) ==
  r.correction # None =>
    /\ r.packet # None
    /\ r.correction.packet = r.packet
    /\ r.correction.iteration <= r.packet.maxIterations

StopOccurrence(r) ==
  IF r.state \in Stops
  THEN r.interruptedState \in Active /\ r.stopId = r.audit.length
  ELSE r.stopId = 0 /\ (r.state \in Active => r.interruptedState = None)

PromotionEvidence(r) ==
  /\ r.authorization # None
  /\ r.authorization.packet = r.packet.id
  /\ r.preflight # None
  /\ PreflightPasses(r.preflight, r)

StateEvidence(r) ==
  LET s == Evidenced(r)
  IN /\ s \in WithPacket => r.packet # None
     /\ r.state \in WithIteration => r.startedAt # None /\ r.iterations >= 1
     /\ s \in WithRemote => r.remoteSha # None
     /\ s = "CORRECTION_REQUIRED" => DecisionBinds(r, "REJECT")
     /\ s \in WithAcceptance => DecisionBinds(r, "ACCEPT")
     /\ s \in WithPromotion => PromotionEvidence(r)
     /\ s \in WithPromotedMain => r.promotedMain = r.acceptance.sha

RunInvariants(r) ==
  /\ r \in Fields
  /\ CountersAgree(r)
  /\ BindingHolds(r)
  /\ CorrectionFits(r)
  /\ StopOccurrence(r)
  /\ StateEvidence(r)

-----------------------------------------------------------------------------
(* assertTransition: one audit entry, within the action's rule *)

Step(before, after, action, roles, moves, changes) ==
  LET entry == after.audit.last
  IN /\ entry # None
     /\ entry.action = action
     /\ entry.role \in roles
     /\ <<before.state, after.state>> \in moves
     /\ ~(before.recheck /\ action \in AwaitsRecheck)
     /\ \A f \in Framed \ changes : after[f] = before[f]
     /\ entry.packet = after.packet
     /\ before.audit.length > 0 => before.audit.last.at <= entry.at
     /\ entry.grant # None => action \in TakesGrant /\ entry.grant \notin before.audit.grants
     /\ after.audit = Recorded(before.audit, entry)
     /\ RunInvariants(after)

StopFields == {"interruptedState", "stopId"}
Gpt == {"GPT_ARCHITECT"}
Implementer == {"CODEX_IMPLEMENTER"}
Controller == {"CONTROLLER"}

(* The one move that may bind an activation intent. *)
ENTER_ARCHITECTURE(before, after) ==
  Step(before, after, "ENTER_ARCHITECTURE", Gpt, {<<"IDLE", "ARCHITECTURE">>}, {"binding"})

ISSUE_PACKET(before, after) ==
  /\ Step(before, after, "ISSUE_PACKET", Gpt, {<<"ARCHITECTURE", "PACKET_READY">>},
          {"packet", "correction", "remoteSha", "acceptance", "authorization", "preflight",
           "promotedMain"})
  /\ before.packet # None => /\ after.packet.id # before.packet.id
                             /\ after.packet.version > before.packet.version
  /\ \A f \in {"correction", "remoteSha", "acceptance", "authorization", "preflight",
               "promotedMain"} : after[f] = None

BEGIN_IMPLEMENTATION(before, after) ==
  /\ Step(before, after, "BEGIN_IMPLEMENTATION", Implementer,
          {"PACKET_READY", "CORRECTION_REQUIRED"} \X {"IMPLEMENTING"},
          {"iterations", "startedAt", "remoteSha", "acceptance"})
  /\ after.remoteSha = None
  /\ after.acceptance = None
  /\ after.startedAt = after.audit.last.at
  /\ after.iterations <= after.packet.maxIterations
  /\ before.state = "CORRECTION_REQUIRED" => HoldsCurrentCorrection(before)

REPORT_IMPLEMENTATION_COMPLETE(before, after) ==
  /\ Step(before, after, "REPORT_IMPLEMENTATION_COMPLETE", Implementer,
          {<<"IMPLEMENTING", "IMPLEMENTATION_COMPLETE">>}, {})
  /\ ~RuntimeExceeded(after, after.audit.last.at)

RECORD_REMOTE_SHA(before, after) ==
  /\ Step(before, after, "RECORD_REMOTE_SHA", Implementer,
          {<<"IMPLEMENTATION_COMPLETE", "REMOTE_SHA_READY">>}, {"remoteSha"})
  /\ after.audit.last.sha = after.remoteSha

BEGIN_REMOTE_ACCEPTANCE(before, after) ==
  Step(before, after, "BEGIN_REMOTE_ACCEPTANCE", Gpt,
       {<<"REMOTE_SHA_READY", "ACCEPTANCE_REVIEW">>}, {})

ACCEPT_EXACT_SHA(before, after) ==
  /\ Step(before, after, "ACCEPT_EXACT_SHA", Gpt, {<<"ACCEPTANCE_REVIEW", "ACCEPTED">>},
          {"acceptance"})
  /\ after.audit.last.sha = after.acceptance.sha

REJECT_EXACT_SHA(before, after) ==
  /\ Step(before, after, "REJECT_EXACT_SHA", Gpt,
          {<<"ACCEPTANCE_REVIEW", "CORRECTION_REQUIRED">>}, {"acceptance", "failures"})
  /\ after.audit.last.sha = after.acceptance.sha

ISSUE_CORRECTION_PACKET(before, after) ==
  /\ Step(before, after, "ISSUE_CORRECTION_PACKET", Gpt,
          {<<"CORRECTION_REQUIRED", "CORRECTION_REQUIRED">>}, {"correction"})
  /\ ~HoldsCurrentCorrection(before)
  /\ after.correction = [packet |-> after.packet, rejectedSha |-> after.remoteSha,
                         iteration |-> after.iterations + 1]

AUTHORIZE_PROMOTION(before, after) ==
  /\ Step(before, after, "AUTHORIZE_PROMOTION", {"HUMAN"}, {<<"ACCEPTED", "PROMOTION_READY">>},
          {"authorization", "preflight"})
  /\ GrantCurrent(after.authorization, after, after.audit.last.at)
  /\ after.audit.last.grant = after.authorization.id
  /\ after.audit.last.sha = after.acceptance.sha
  /\ AcceptedBy(after, after.authorization.issuedAt)

(* The grant must still be inside its window when promotion actually begins. *)
MARK_PROMOTING(before, after) ==
  /\ Step(before, after, "MARK_PROMOTING", Controller, {<<"PROMOTION_READY", "PROMOTING">>}, {})
  /\ GrantCurrent(after.authorization, after, after.audit.last.at)

RECORD_PROMOTED_MAIN(before, after) ==
  /\ Step(before, after, "RECORD_PROMOTED_MAIN", Controller, {<<"PROMOTING", "CANONICAL_CI">>},
          {"promotedMain"})
  /\ after.audit.last.sha = after.promotedMain

RECOVER_PROMOTED_MAIN(before, after) ==
  /\ Step(before, after, "RECOVER_PROMOTED_MAIN", Controller, {<<"PROMOTING", "CANONICAL_CI">>},
          {"promotedMain"})
  /\ after.audit.last.sha = after.promotedMain

CLOSE_VERIFIED_RUN(before, after) ==
  Step(before, after, "CLOSE_VERIFIED_RUN", Controller, {<<"CANONICAL_CI", "CLOSED">>}, {})

RECOVER_CLOSE(before, after) ==
  Step(before, after, "RECOVER_CLOSE", Controller, {<<"CANONICAL_CI", "CLOSED">>}, {})

RECONCILE_PENDING(before, after) ==
  Step(before, after, "RECONCILE_PENDING", Controller, {<<"CANONICAL_CI", "CANONICAL_CI">>}, {})

RECHECK_EXTERNAL_REALITY(before, after) ==
  /\ Step(before, after, "RECHECK_EXTERNAL_REALITY", Controller, {<<s, s>> : s \in Active},
          {"recheck"})
  /\ before.recheck
  /\ ~after.recheck

STOP(before, after) ==
  /\ Step(before, after, "STOP", {"HUMAN", "GPT_ARCHITECT", "CONTROLLER"}, Active \X Stops,
          StopFields)
  /\ after.interruptedState = before.state

BUDGET_EXHAUSTED(before, after) ==
  Step(before, after, "BUDGET_EXHAUSTED", Controller, {<<"SOFT_STOP", "HUMAN_STOP">>}, {"stopId"})

RESUME_SOFT_WITH_REPAIR(before, after) ==
  /\ Step(before, after, "RESUME_SOFT_WITH_REPAIR", Controller, {"SOFT_STOP"} \X Active, StopFields)
  /\ after.state = before.interruptedState
  /\ after.state = "IMPLEMENTING" => ~RuntimeExceeded(after, after.audit.last.at)
  /\ after.state = "PACKET_READY" => after.iterations < after.packet.maxIterations

RETURN_TO_ARCHITECTURE(before, after) ==
  Step(before, after, "RETURN_TO_ARCHITECTURE", Gpt, {<<"ARCHITECTURE_STOP", "ARCHITECTURE">>},
       StopFields)

(* The grant names this stop occurrence, not merely the run. *)
RESUME_HUMAN_STOP(before, after) ==
  /\ Step(before, after, "RESUME_HUMAN_STOP", {"HUMAN"}, {"HUMAN_STOP"} \X Active,
          StopFields \cup {"recheck", "resumeGrant"})
  /\ after.state = before.interruptedState
  /\ after.recheck
  /\ after.resumeGrant # None
  /\ after.resumeGrant.target = before.stopId
  /\ after.audit.last.grant = after.resumeGrant.id

FAIL_CLOSED(before, after) ==
  Step(before, after, "FAIL_CLOSED", Controller, (States \ Terminal) \X {"FAILED_CLOSED"},
       {"stopId"})

Transition(before, after) ==
  \/ ENTER_ARCHITECTURE(before, after)
  \/ ISSUE_PACKET(before, after)
  \/ BEGIN_IMPLEMENTATION(before, after)
  \/ REPORT_IMPLEMENTATION_COMPLETE(before, after)
  \/ RECORD_REMOTE_SHA(before, after)
  \/ BEGIN_REMOTE_ACCEPTANCE(before, after)
  \/ ACCEPT_EXACT_SHA(before, after)
  \/ REJECT_EXACT_SHA(before, after)
  \/ ISSUE_CORRECTION_PACKET(before, after)
  \/ AUTHORIZE_PROMOTION(before, after)
  \/ MARK_PROMOTING(before, after)
  \/ RECORD_PROMOTED_MAIN(before, after)
  \/ RECOVER_PROMOTED_MAIN(before, after)
  \/ CLOSE_VERIFIED_RUN(before, after)
  \/ RECOVER_CLOSE(before, after)
  \/ RECONCILE_PENDING(before, after)
  \/ RECHECK_EXTERNAL_REALITY(before, after)
  \/ STOP(before, after)
  \/ BUDGET_EXHAUSTED(before, after)
  \/ RESUME_SOFT_WITH_REPAIR(before, after)
  \/ RETURN_TO_ARCHITECTURE(before, after)
  \/ RESUME_HUMAN_STOP(before, after)
  \/ FAIL_CLOSED(before, after)

LifecycleInit == run = FreshRun
LifecycleNext == Transition(run, run')
LifecycleSpec == LifecycleInit /\ [][LifecycleNext]_run

-----------------------------------------------------------------------------
(* Properties *)

(* One verdict per iteration: acceptances and rejections never outnumber    *)
(* the implementation iterations, and while an iteration is still being     *)
(* implemented or reviewed it has none yet (lifecycle.ts: only a new        *)
(* BEGIN_IMPLEMENTATION leads to another review).                           *)
Unjudged == WithIteration \cup {"REMOTE_SHA_READY", "ACCEPTANCE_REVIEW"}
OneVerdictPerIteration ==
  LET verdicts == run.audit.accepts + run.audit.rejects
  IN /\ verdicts <= run.iterations
     /\ Evidenced(run) \in Unjudged => verdicts < run.iterations

(* From the start of an iteration to the close of the run, stops included,  *)
(* the run has begun at most as many iterations as its packet allows, even  *)
(* though a new packet may lower the limit and counters never reset.        *)
IterationsWithinBudget ==
  Evidenced(run) \in WithPacket \ {"PACKET_READY"} => run.iterations <= run.packet.maxIterations

(* Work done after a rejection of this packet was begun on the correction   *)
(* for exactly that rejection: its SHA and the iteration after it.  An      *)
(* earlier correction never answers a later rejection.                      *)
CorrectionAnswersLastRejection ==
  LET rejected == run.audit.rejected
  IN rejected # None /\ run.packet # None /\ rejected.packet = run.packet =>
       /\ Evidenced(run) = "CORRECTION_REQUIRED" =>
            rejected.iteration = run.iterations /\ rejected.sha = run.remoteSha
       /\ Evidenced(run) \in Unjudged \cup WithAcceptance =>
            run.correction = [packet |-> run.packet, rejectedSha |-> rejected.sha,
                              iteration |-> rejected.iteration + 1]

(* What may be promoted was accepted first: the human grant in force was    *)
(* consumed by this run, names its packet, and was issued no earlier than   *)
(* the acceptance of the very SHA recorded from the remote.                 *)
PromotionGrantFollowsAcceptance ==
  Evidenced(run) \in WithPromotion =>
    /\ run.authorization.id \in run.audit.grants
    /\ run.authorization.packet = run.packet.id
    /\ AcceptedBy(run, run.authorization.issuedAt)
    /\ run.audit.accepted.sha = run.remoteSha

(* A human grant is spent once: promotions authorized and human stops       *)
(* resumed are exactly as many as the grants consumed.                      *)
GrantsSpentOnce == run.audit.spent = Cardinality(run.audit.grants)

(* A grant resumes one stop occurrence: none that resumed an earlier stop   *)
(* names the stop the run is in.                                            *)
ResumeGrantNamesOneStop ==
  run.state \in Stops /\ run.resumeGrant # None => run.resumeGrant.target # run.stopId

(* Until external reality is rechecked after a human resume, a run gains    *)
(* no evidence: no iteration, SHA, verdict, correction, grant or promotion. *)
Evidence(r) == <<r.iterations, r.remoteSha, r.acceptance, r.failures, r.correction,
                 r.authorization, r.promotedMain>>
RecheckPrecedesEvidence ==
  [][run.recheck => \/ Evidence(run') = Evidence(run)
                    \/ run'.state = "PACKET_READY" /\ run'.acceptance = None]_run

=============================================================================
