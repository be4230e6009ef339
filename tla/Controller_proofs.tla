-------------------------- MODULE Controller_proofs --------------------------
(***************************************************************************)
(* Proof that AutomationController only builds legal transitions: whatever *)
(* methods are called, in any order and on any observations of GitHub,     *)
(* what #commit hands to the store passes assertTransition.  The theorems  *)
(* of the lifecycle then hold of every run the controller moves.           *)
(*                                                                         *)
(* Every method commits a copy of the run with some fields changed; Legal  *)
(* says once what such a commit must satisfy to be a step of the           *)
(* lifecycle, and there is one lemma per method for the rest.              *)
(***************************************************************************)
EXTENDS Controller, Lifecycle_proofs

-----------------------------------------------------------------------------
(* What the controller may rely on of the run it reads *)

(* A stop in the middle of an iteration keeps its start.                   *)
Begun == Evidenced(run) \in WithIteration => run.startedAt # None /\ run.iterations >= 1

(* A run no one has written is as it was created.                          *)
Untouched == run.audit.length = 0 => run = FreshRun

Readable == Inductive /\ Begun /\ Untouched

LEMMA ReadableStep == Readable /\ [LifecycleNext]_run => Readable'
<1>1. ASSUME Readable, LifecycleNext
      PROVE  Readable'
  <2>1. Inductive' /\ Owned /\ Moved /\ RunInvariants(run')
    BY <1>1, StepInductive, StepMoves, StepAppends DEF Readable, Inductive
  <2>2. Untouched'
    BY <1>1, StepRecords DEF Readable, Inductive, Untouched, Audit
  <2>3. Begun'
    <3>1. CASE run'.state \in WithIteration
      BY <2>1, <3>1 DEF RunInvariants, StateEvidence, Begun
    <3>2. CASE run'.state \notin WithIteration /\ Evidenced(run') \in WithIteration
      <4>1. run'.state \in Stops
        BY <3>2 DEF Evidenced
      <4>2. Act # "BEGIN_IMPLEMENTATION"
        <5>1. BEGIN_IMPLEMENTATION(run, run') => run'.state = "IMPLEMENTING"
          BY DEF BEGIN_IMPLEMENTATION, Step
        <5> QED
          BY <1>1, <3>2, <5>1, StepNamed DEF WithIteration
      <4>3. Evidenced(run) \in WithIteration
        BY <2>1, <3>2, <4>2 DEF Moved, Progress, WithIteration
      <4> QED
        BY <1>1, <2>1, <4>2, <4>3 DEF Readable, Begun, Owned
    <3> QED
      BY <3>1, <3>2 DEF Begun
  <2> QED
    BY <2>1, <2>2, <2>3 DEF Readable
<1>2. ASSUME Readable, UNCHANGED run
      PROVE  Readable'
  BY <1>2, StepInductive DEF Readable, Begun, Untouched
<1> QED
  BY <1>1, <1>2

LEMMA ReadableStarts == LifecycleInit => Readable
<1>1. LifecycleInit => Evidenced(run) = "IDLE"
  BY DEF LifecycleInit, FreshRun, Evidenced, Stops
<1> QED
  BY <1>1, InitInductive DEF LifecycleInit, Readable, Begun, Untouched, WithIteration

-----------------------------------------------------------------------------
(* What a commit makes of the copy it is given *)

SameEvidence(r, s) ==
  /\ s.packet = r.packet /\ s.correction = r.correction
  /\ s.remoteSha = r.remoteSha /\ s.acceptance = r.acceptance
  /\ s.authorization = r.authorization /\ s.preflight = r.preflight
  /\ s.promotedMain = r.promotedMain /\ s.iterations = r.iterations
  /\ s.startedAt = r.startedAt /\ s.failures = r.failures

SameRest(r, s) ==
  /\ s.binding = r.binding /\ s.interruptedState = r.interruptedState
  /\ s.recheck = r.recheck /\ s.resumeGrant = r.resumeGrant

Committed(r, after, next, e) ==
  /\ after \in Fields /\ e \in Entry /\ e.packet = r.packet
  /\ after.state = next
  /\ after.stopId = IF next \in Stops THEN r.audit.length + 1 ELSE 0
  /\ after.audit = Recorded(r.audit, e)
  /\ SameEvidence(r, after) /\ SameRest(r, after)

LEMMA RecordedAudit ==
  ASSUME NEW audit \in Audit, NEW e \in Entry
  PROVE  /\ Recorded(audit, e) \in Audit
         /\ Recorded(audit, e).first = IF audit.length = 0 THEN e.action ELSE audit.first
         /\ Recorded(audit, e).activated = IF audit.length = 1 /\ e.action = "ISSUE_PACKET"
                                           THEN e.packet ELSE audit.activated
         /\ Recorded(audit, e).length = audit.length + 1
         /\ Recorded(audit, e).begins = IF e.action = "BEGIN_IMPLEMENTATION" THEN audit.begins + 1
                                        ELSE audit.begins
         /\ Recorded(audit, e).rejects = IF e.action = "REJECT_EXACT_SHA" THEN audit.rejects + 1
                                         ELSE audit.rejects
<1> DEFINE first == IF audit.length = 0 THEN e.action ELSE audit.first
           activated == IF audit.length = 1 /\ e.action = "ISSUE_PACKET" THEN e.packet
                        ELSE audit.activated
           begins == IF e.action = "BEGIN_IMPLEMENTATION" THEN audit.begins + 1 ELSE audit.begins
           rejects == IF e.action = "REJECT_EXACT_SHA" THEN audit.rejects + 1 ELSE audit.rejects
           accepts == IF e.action = "ACCEPT_EXACT_SHA" THEN audit.accepts + 1 ELSE audit.accepts
           grants == IF e.grant # None THEN audit.grants \cup {e.grant} ELSE audit.grants
           spent == IF e.action \in TakesGrant THEN audit.spent + 1 ELSE audit.spent
           accepted == IF e.action = "ACCEPT_EXACT_SHA" THEN [sha |-> e.sha, at |-> e.at]
                       ELSE audit.accepted
           rejected == IF e.action = "REJECT_EXACT_SHA"
                       THEN [packet |-> e.packet, sha |-> e.sha, iteration |-> audit.begins]
                       ELSE audit.rejected
<1>1. /\ first \in Maybe(Actions) /\ activated \in Maybe(Packets)
      /\ audit.length + 1 \in Nat /\ begins \in Nat /\ rejects \in Nat /\ accepts \in Nat
      /\ spent \in Nat
  BY DEF Audit, Entry, Maybe
<1>2. grants \in SUBSET GrantIds
  BY DEF Audit, Entry, Maybe
<1>3. /\ accepted \in Maybe([sha: Maybe(Shas), at: Nat])
      /\ rejected \in Maybe([packet: Maybe(Packets), sha: Maybe(Shas), iteration: Nat])
  BY DEF Audit, Entry, Maybe
<1>4. Recorded(audit, e)
        = [audit EXCEPT !.length = audit.length + 1, !.last = e, !.first = first,
                        !.activated = activated, !.begins = begins, !.rejects = rejects,
                        !.accepts = accepts, !.grants = grants, !.spent = spent,
                        !.accepted = accepted, !.rejected = rejected]
  BY DEF Recorded, Audit
<1> HIDE DEF first, activated, begins, rejects, accepts, grants, spent, accepted, rejected
<1>5. Recorded(audit, e) \in Audit
  BY <1>1, <1>2, <1>3, <1>4 DEF Audit, Maybe
<1>6. /\ Recorded(audit, e).first = first /\ Recorded(audit, e).activated = activated
      /\ Recorded(audit, e).length = audit.length + 1
      /\ Recorded(audit, e).begins = begins /\ Recorded(audit, e).rejects = rejects
  BY <1>4 DEF Audit
<1> QED
  BY <1>5, <1>6 DEF first, activated, begins, rejects

LEMMA CommitMakes ==
  ASSUME NEW r \in Fields, NEW next \in States, NEW role \in Roles, NEW action \in Actions,
         NEW at \in Nat, NEW sha \in Maybe(Shas), NEW grant \in Maybe(GrantIds)
  PROVE  Committed(r, Commit(r, next, role, action, at, sha, grant), next,
                   [action |-> action, role |-> role, at |-> at, packet |-> r.packet, sha |-> sha,
                    grant |-> grant])
<1> DEFINE e == [action |-> action, role |-> role, at |-> at, packet |-> r.packet, sha |-> sha,
                 grant |-> grant]
<1>1. e \in Entry /\ e.packet = r.packet /\ r.audit \in Audit /\ r.audit.length \in Nat
  BY DEF Entry, Fields, Maybe, Audit
<1>2. Recorded(r.audit, e) \in Audit
  BY <1>1, RecordedAudit
<1> HIDE DEF e
<1>3. Commit(r, next, role, action, at, sha, grant)
        = [r EXCEPT !.state = next, !.stopId = IF next \in Stops THEN r.audit.length + 1 ELSE 0,
                    !.audit = Recorded(r.audit, e)]
  BY DEF Commit, e
<1>0. PICK n \in Nat : n = IF next \in Stops THEN r.audit.length + 1 ELSE 0
  BY <1>1
<1>4. Commit(r, next, role, action, at, sha, grant) \in Fields
  <2>1. Commit(r, next, role, action, at, sha, grant)
          = [r EXCEPT !.state = next, !.stopId = n, !.audit = Recorded(r.audit, e)]
    BY <1>0, <1>3
  <2> QED
    BY <1>2, <2>1 DEF Fields
<1>5. PICK after : after = Commit(r, next, role, action, at, sha, grant)
  OBVIOUS
<1>6. /\ after.state = next
      /\ after.stopId = IF next \in Stops THEN r.audit.length + 1 ELSE 0
      /\ after.audit = Recorded(r.audit, e)
  BY <1>3, <1>5 DEF Fields
<1>7. SameEvidence(r, after)
  BY <1>3, <1>5 DEF SameEvidence, Fields
<1>8. SameRest(r, after)
  BY <1>3, <1>5 DEF SameRest, Fields
<1>9. Committed(r, after, next, e)
  BY <1>1, <1>4, <1>5, <1>6, <1>7, <1>8 DEF Committed
<1> QED
  BY <1>5, <1>9 DEF e

-----------------------------------------------------------------------------
(* What makes a commit legal *)

Bound(r, e) ==
  \/ e.action = "ENTER_ARCHITECTURE" /\ run.audit.length = 0
  \/ /\ r.binding = run.binding
     /\ e.action = "ISSUE_PACKET" /\ run.audit.length = 1 /\ run.binding # None =>
          r.packet = run.binding

Counted(r, action) ==
  /\ r.iterations = IF action = "BEGIN_IMPLEMENTATION" THEN run.iterations + 1
                    ELSE run.iterations
  /\ r.failures = IF action = "REJECT_EXACT_SHA" THEN run.failures + 1 ELSE run.failures

Interrupted(r, next) ==
  IF next \in Stops THEN r.interruptedState \in Active
  ELSE next \in Active => r.interruptedState = None

Framing(r, next, changes) ==
  /\ r.audit = run.audit
  /\ \A f \in (Framed \ {"stopId"}) \ changes : r[f] = run[f]
  /\ "stopId" \in changes \/ (next \notin Stops /\ run.state \notin Stops)

Allowed(e, next, roles, moves) ==
  /\ e.role \in roles /\ <<run.state, next>> \in moves
  /\ ~(run.recheck /\ e.action \in AwaitsRecheck)
  /\ OnTime(e.at)
  /\ e.grant # None => e.action \in TakesGrant /\ e.grant \notin run.audit.grants

LEMMA CommitBinds ==
  ASSUME Readable, NEW r, NEW after, NEW next, NEW e, Committed(r, after, next, e),
         r.audit = run.audit, Bound(r, e)
  PROVE  BindingHolds(after)
<1>1. /\ after.binding = r.binding /\ after.audit = Recorded(run.audit, e)
      /\ run.audit \in Audit /\ e \in Entry /\ e.packet = r.packet
  BY DEF Committed, SameRest, Readable, Inductive, RunInvariants, Fields
<1>2. /\ after.audit.first = IF run.audit.length = 0 THEN e.action ELSE run.audit.first
      /\ after.audit.activated = IF run.audit.length = 1 /\ e.action = "ISSUE_PACKET"
                                 THEN e.packet ELSE run.audit.activated
  BY <1>1, RecordedAudit
<1>3. CASE run.audit.length = 0
  <2>1. run.binding = None /\ run.audit.activated = None
    BY <1>3 DEF Readable, Untouched, FreshRun, EmptyAudit
  <2> QED
    BY <1>1, <1>2, <1>3, <2>1 DEF BindingHolds, Bound
<1>4. CASE run.audit.length # 0
  BY <1>1, <1>2, <1>4 DEF BindingHolds, Bound, Readable, Inductive, RunInvariants
<1> QED
  BY <1>3, <1>4

LEMMA CommitInvariants ==
  ASSUME Readable, NEW r, NEW after, NEW next, NEW e, Committed(r, after, next, e),
         r.audit = run.audit, Bound(r, e), Counted(r, e.action), Interrupted(r, next),
         CorrectionFits(r), StateEvidence(after)
  PROVE  RunInvariants(after)
<1>1. /\ after \in Fields /\ run.audit \in Audit /\ e \in Entry
      /\ after.audit = Recorded(run.audit, e)
  BY DEF Committed, Readable, Inductive, RunInvariants, Fields
<1>2. CountersAgree(after)
  <2>1. /\ after.iterations = r.iterations /\ after.failures = r.failures
        /\ run.iterations = run.audit.begins /\ run.failures = run.audit.rejects
    BY DEF Committed, SameEvidence, Readable, Inductive, RunInvariants, CountersAgree
  <2>2. /\ after.audit.begins = IF e.action = "BEGIN_IMPLEMENTATION" THEN run.audit.begins + 1
                                ELSE run.audit.begins
        /\ after.audit.rejects = IF e.action = "REJECT_EXACT_SHA" THEN run.audit.rejects + 1
                                 ELSE run.audit.rejects
    BY <1>1, RecordedAudit
  <2> QED
    BY <2>1, <2>2 DEF CountersAgree, Counted
<1>3. CorrectionFits(after)
  BY DEF CorrectionFits, Committed, SameEvidence
<1>4. StopOccurrence(after)
  <2>1. after.audit.length = run.audit.length + 1
    BY <1>1, RecordedAudit
  <2> QED
    BY <2>1 DEF StopOccurrence, Interrupted, Committed, SameRest
<1> QED
  BY <1>1, <1>2, <1>3, <1>4, CommitBinds DEF RunInvariants

LEMMA Legal ==
  ASSUME Readable, NEW r, NEW after, NEW next, NEW e, NEW roles, NEW moves, NEW changes,
         Committed(r, after, next, e), Framing(r, next, changes), Allowed(e, next, roles, moves),
         Bound(r, e), Counted(r, e.action), Interrupted(r, next), CorrectionFits(r), StateEvidence(after)
  PROVE  /\ Step(run, after, e.action, roles, moves, changes)
         /\ after.audit.last = e
<1>1. RunInvariants(after)
  BY CommitInvariants DEF Framing
<1>2. /\ run.audit \in Audit /\ e \in Entry /\ after.audit = Recorded(run.audit, e)
      /\ e.packet = after.packet /\ after.state = next
  BY DEF Committed, SameEvidence, Framing, Readable, Inductive, RunInvariants, Fields
<1>3. after.audit.last = e
  BY <1>2, RecordedFields
<1>4. e # None
  BY <1>2, AbsentAssumption
<1>5. ASSUME NEW f \in Framed \ changes
      PROVE  after[f] = run[f]
  <2>1. CASE f = "stopId"
    <3>1. next \notin Stops /\ run.stopId = 0
      BY <1>5, <2>1 DEF Framing, Readable, Inductive, RunInvariants, StopOccurrence
    <3> QED
      BY <2>1, <3>1 DEF Committed
  <2>2. CASE f # "stopId"
    <3>1. r[f] = run[f]
      BY <1>5, <2>2 DEF Framing
    <3>2. after[f] = r[f]
      BY <1>5, <2>2 DEF Framed, Committed, SameEvidence, SameRest
    <3> QED
      BY <3>1, <3>2
  <2> QED
    BY <2>1, <2>2
<1> QED
  BY <1>1, <1>2, <1>3, <1>4, <1>5 DEF Step, Allowed, OnTime

-----------------------------------------------------------------------------
(* The states, spelt out *)

LEMMA StateNames ==
  /\ Stops = {"SOFT_STOP", "ARCHITECTURE_STOP", "HUMAN_STOP"}
  /\ WithPromotedMain = {"CANONICAL_CI", "CLOSED"}
  /\ WithPromotion = {"PROMOTION_READY", "PROMOTING", "CANONICAL_CI", "CLOSED"}
  /\ WithAcceptance = {"ACCEPTED", "PROMOTION_READY", "PROMOTING", "CANONICAL_CI", "CLOSED"}
  /\ WithRemote = {"REMOTE_SHA_READY", "ACCEPTANCE_REVIEW", "CORRECTION_REQUIRED", "ACCEPTED",
                   "PROMOTION_READY", "PROMOTING", "CANONICAL_CI", "CLOSED"}
  /\ WithIteration = {"IMPLEMENTING", "IMPLEMENTATION_COMPLETE"}
  /\ WithPacket = {"PACKET_READY", "IMPLEMENTING", "IMPLEMENTATION_COMPLETE", "REMOTE_SHA_READY",
                   "ACCEPTANCE_REVIEW", "CORRECTION_REQUIRED", "ACCEPTED", "PROMOTION_READY",
                   "PROMOTING", "CANONICAL_CI", "CLOSED"}
  /\ Active = {"IDLE", "ARCHITECTURE", "PACKET_READY", "IMPLEMENTING", "IMPLEMENTATION_COMPLETE",
               "REMOTE_SHA_READY", "ACCEPTANCE_REVIEW", "CORRECTION_REQUIRED", "ACCEPTED",
               "PROMOTION_READY", "PROMOTING", "CANONICAL_CI"}
  /\ States = Active \cup Stops \cup {"CLOSED", "FAILED_CLOSED"}
<1> USE DEF Stops, Terminal, WithPromotedMain, WithPromotion, WithAcceptance, WithRemote,
        WithIteration, WithPacket
<1>1. WithPromotion = {"PROMOTION_READY", "PROMOTING", "CANONICAL_CI", "CLOSED"}
  OBVIOUS
<1>2. WithAcceptance = {"ACCEPTED", "PROMOTION_READY", "PROMOTING", "CANONICAL_CI", "CLOSED"}
  OBVIOUS
<1>3. WithRemote = {"REMOTE_SHA_READY", "ACCEPTANCE_REVIEW", "CORRECTION_REQUIRED", "ACCEPTED",
                    "PROMOTION_READY", "PROMOTING", "CANONICAL_CI", "CLOSED"}
  OBVIOUS
<1>4. WithPacket = {"PACKET_READY", "IMPLEMENTING", "IMPLEMENTATION_COMPLETE", "REMOTE_SHA_READY",
                    "ACCEPTANCE_REVIEW", "CORRECTION_REQUIRED", "ACCEPTED", "PROMOTION_READY",
                    "PROMOTING", "CANONICAL_CI", "CLOSED"}
  OBVIOUS
<1>5. Active = {"IDLE", "ARCHITECTURE", "PACKET_READY", "IMPLEMENTING", "IMPLEMENTATION_COMPLETE",
                "REMOTE_SHA_READY", "ACCEPTANCE_REVIEW", "CORRECTION_REQUIRED", "ACCEPTED",
                "PROMOTION_READY", "PROMOTING", "CANONICAL_CI"}
  BY DEF Active
<1> QED
  BY <1>1, <1>2, <1>3, <1>4, <1>5 DEF States

(* The run a method reads. *)
LEMMA RunRead ==
  ASSUME Readable
  PROVE  /\ run \in Fields /\ run.state \in States /\ run.audit \in Audit
         /\ run.packet \in Packets \cup {None} /\ run.remoteSha \in Shas \cup {None}
         /\ run.iterations \in Nat /\ run.failures \in Nat
         /\ CountersAgree(run) /\ BindingHolds(run) /\ CorrectionFits(run)
         /\ StopOccurrence(run) /\ StateEvidence(run)
  BY DEF Readable, Inductive, RunInvariants, Fields, Maybe

(* Moving on without new evidence keeps what the new state asks for.       *)
LEMMA EvidenceKept ==
  ASSUME Readable, NEW after, SameEvidence(run, after),
         \A S \in {WithPacket, WithIteration, WithRemote, {"CORRECTION_REQUIRED"}, WithAcceptance,
                   WithPromotion, WithPromotedMain} :
           Evidenced(after) \in S => Evidenced(run) \in S
  PROVE  StateEvidence(after)
<1>1. StateEvidence(run) /\ Begun /\ SameEvidence(run, after)
  BY RunRead DEF Readable
<1>2. /\ Evidenced(after) \in WithPacket => Evidenced(run) \in WithPacket
      /\ Evidenced(after) \in WithIteration => Evidenced(run) \in WithIteration
      /\ Evidenced(after) \in WithRemote => Evidenced(run) \in WithRemote
      /\ Evidenced(after) = "CORRECTION_REQUIRED" => Evidenced(run) = "CORRECTION_REQUIRED"
      /\ Evidenced(after) \in WithAcceptance => Evidenced(run) \in WithAcceptance
      /\ Evidenced(after) \in WithPromotion => Evidenced(run) \in WithPromotion
      /\ Evidenced(after) \in WithPromotedMain => Evidenced(run) \in WithPromotedMain
  OBVIOUS
<1>3. after.state \in WithIteration => Evidenced(after) = after.state
  BY StateNames DEF Evidenced
<1>4. \A kind : DecisionBinds(run, kind) => DecisionBinds(after, kind)
  BY <1>1 DEF DecisionBinds, SameEvidence
<1>5. PromotionEvidence(run) => PromotionEvidence(after)
  BY <1>1 DEF PromotionEvidence, PreflightPasses, SameEvidence
<1> QED
  BY <1>1, <1>2, <1>3, <1>4, <1>5 DEF StateEvidence, Begun, SameEvidence

(* A commit that brings no evidence moves where what the run has suffices.  *)
Suffices(r, next) ==
  LET evidenced == IF next \in Stops THEN r.interruptedState ELSE next
  IN \A S \in {WithPacket, WithIteration, WithRemote, {"CORRECTION_REQUIRED"}, WithAcceptance,
               WithPromotion, WithPromotedMain} :
       evidenced \in S => Evidenced(run) \in S

LEMMA MoveLegal ==
  ASSUME Readable, NEW r \in Fields, SameEvidence(run, r), NEW next \in States, NEW role \in Roles,
         NEW action \in Actions \ {"ISSUE_PACKET", "BEGIN_IMPLEMENTATION", "REJECT_EXACT_SHA"},
         NEW at \in Nat, NEW sha \in Maybe(Shas), NEW grant \in Maybe(GrantIds),
         NEW roles, NEW moves, NEW changes, NEW after,
         after = Commit(r, next, role, action, at, sha, grant),
         Framing(r, next, changes),
         r.binding = run.binding \/ (action = "ENTER_ARCHITECTURE" /\ run.audit.length = 0),
         Interrupted(r, next), Suffices(r, next),
         role \in roles, <<run.state, next>> \in moves, OnTime(at),
         ~(run.recheck /\ action \in AwaitsRecheck),
         grant # None => action \in TakesGrant /\ grant \notin run.audit.grants
  PROVE  /\ Step(run, after, action, roles, moves, changes)
         /\ after.state = next /\ SameEvidence(run, after) /\ SameRest(r, after)
         /\ after.audit.last.at = at /\ after.audit.last.sha = sha
         /\ after.audit.last.grant = grant
<1> DEFINE e == [action |-> action, role |-> role, at |-> at, packet |-> r.packet, sha |-> sha,
                 grant |-> grant]
<1>1. Committed(r, after, next, e)
  BY CommitMakes
<1>2. SameEvidence(run, after) /\ SameRest(r, after) /\ after.state = next
  BY <1>1 DEF Committed, SameEvidence
<1>3. StateEvidence(after)
  <2>1. Evidenced(after) = IF next \in Stops THEN r.interruptedState ELSE next
    BY <1>2 DEF Evidenced, SameRest
  <2> QED
    BY <1>2, <2>1, EvidenceKept DEF Suffices
<1>4. Allowed(e, next, roles, moves)
  BY DEF Allowed
<1>5. Bound(r, e) /\ Counted(r, e.action) /\ CorrectionFits(r)
  BY RunRead DEF Bound, Counted, SameEvidence, CorrectionFits
<1>6. Step(run, after, e.action, roles, moves, changes) /\ after.audit.last = e
  BY <1>1, <1>3, <1>4, <1>5, Legal
<1> QED
  BY <1>2, <1>6

(* The run itself, as the copy a method commits.                           *)
LEMMA ItselfCopied ==
  ASSUME Readable
  PROVE  /\ run \in Fields /\ SameEvidence(run, run)
         /\ \A next, changes : next \notin Stops /\ run.state \notin Stops =>
              Framing(run, next, changes)
         /\ \A next : Framing(run, next, {"stopId"})
         /\ run.state \in Active => run.interruptedState = None
         /\ run.state \in Active => run.state \notin Stops /\ Evidenced(run) = run.state
  BY RunRead, StateNames DEF SameEvidence, Framing, StopOccurrence, Evidenced

(* What the entries of the methods are labelled with.                      *)
Quiet == {"STOP", "FAIL_CLOSED", "BUDGET_EXHAUSTED", "RESUME_SOFT_WITH_REPAIR",
  "RETURN_TO_ARCHITECTURE", "RESUME_HUMAN_STOP", "RECONCILE_PENDING", "RECHECK_EXTERNAL_REALITY",
  "ENTER_ARCHITECTURE", "REPORT_IMPLEMENTATION_COMPLETE"}

LEMMA Labels ==
  /\ None \in Maybe(Shas) /\ None \in Maybe(GrantIds)
  /\ \A role \in {"HUMAN", "GPT_ARCHITECT", "CONTROLLER", "CODEX_IMPLEMENTER"} : role \in Roles
  /\ \A action \in Quiet :
       /\ action \in Actions \ {"ISSUE_PACKET", "BEGIN_IMPLEMENTATION", "REJECT_EXACT_SHA"}
       /\ action \notin AwaitsRecheck
  BY DEF Maybe, Roles, Quiet, Actions, AwaitsRecheck, TakesGrant

LEMMA QuietMove ==
  ASSUME Readable, NEW r \in Fields, SameEvidence(run, r), NEW next \in States,
         NEW role \in {"HUMAN", "GPT_ARCHITECT", "CONTROLLER", "CODEX_IMPLEMENTER"},
         NEW action \in Quiet, NEW at \in Nat, NEW roles, NEW moves, NEW changes, NEW after,
         after = Commit(r, next, role, action, at, None, None),
         Framing(r, next, changes),
         r.binding = run.binding \/ (action = "ENTER_ARCHITECTURE" /\ run.audit.length = 0),
         Interrupted(r, next), Suffices(r, next),
         role \in roles, <<run.state, next>> \in moves, OnTime(at)
  PROVE  /\ Step(run, after, action, roles, moves, changes)
         /\ after.state = next /\ SameEvidence(run, after) /\ SameRest(r, after)
         /\ after.audit.last.at = at
<1>1. /\ action \in Actions \ {"ISSUE_PACKET", "BEGIN_IMPLEMENTATION", "REJECT_EXACT_SHA"}
      /\ action \notin AwaitsRecheck /\ None \in Maybe(Shas) /\ None \in Maybe(GrantIds)
      /\ role \in Roles
  BY Labels
<1> QED
  BY <1>1, MoveLegal

-----------------------------------------------------------------------------
(* Stops *)

LEMMA HaltLegal ==
  ASSUME Readable, NEW role \in {"HUMAN", "GPT_ARCHITECT", "CONTROLLER"}, NEW kind \in Stops,
         NEW at \in Nat, run.state \in Active, OnTime(at)
  PROVE  Transition(run, Halt(run, role, kind, at))
<1> DEFINE r == [run EXCEPT !.interruptedState = run.state]
<1>1. PICK after : after = Halt(run, role, kind, at)
  OBVIOUS
<1>2. /\ r \in Fields /\ r.interruptedState = run.state /\ r.audit = run.audit
      /\ r.binding = run.binding /\ \A f \in Framed \ {"interruptedState"} : r[f] = run[f]
  BY RunRead DEF Fields, Maybe, Framed
<1>3. SameEvidence(run, r)
  BY RunRead DEF SameEvidence, Fields
<1>4. kind \in States
  BY StateNames
<1>5. after = Commit(r, kind, role, "STOP", at, None, None)
  BY <1>1 DEF Halt
<1> HIDE DEF r
<1>6. Framing(r, kind, StopFields) /\ Interrupted(r, kind) /\ Suffices(r, kind)
  BY <1>2, ItselfCopied DEF Framing, StopFields, Interrupted, Suffices
<1>7. /\ Step(run, after, "STOP", {"HUMAN", "GPT_ARCHITECT", "CONTROLLER"}, Active \X Stops,
               StopFields)
      /\ SameRest(r, after)
  <2>1. "STOP" \in Quiet /\ <<run.state, kind>> \in Active \X Stops
    BY DEF Quiet
  <2> QED
    BY <1>2, <1>3, <1>4, <1>5, <1>6, <2>1, QuietMove
<1> QED
  BY <1>1, <1>2, <1>7 DEF Transition, STOP, SameRest

LEMMA FailClosedLegal ==
  ASSUME Readable, NEW at \in Nat, FailClosed(at)
  PROVE  Transition(run, run')
<1>1. /\ run' = Commit(run, "FAILED_CLOSED", "CONTROLLER", "FAIL_CLOSED", at, None, None)
      /\ run.state \in States \ Terminal /\ OnTime(at)
  BY RunRead DEF FailClosed, Write
<1>2. Interrupted(run, "FAILED_CLOSED") /\ Suffices(run, "FAILED_CLOSED")
  BY StateNames DEF Interrupted, Suffices
<1>3. Step(run, run', "FAIL_CLOSED", {"CONTROLLER"}, (States \ Terminal) \X {"FAILED_CLOSED"},
           {"stopId"})
  <2>1. /\ "FAIL_CLOSED" \in Quiet /\ "FAILED_CLOSED" \in States
        /\ <<run.state, "FAILED_CLOSED">> \in (States \ Terminal) \X {"FAILED_CLOSED"}
    BY <1>1, StateNames DEF Quiet
  <2>2. run \in Fields /\ SameEvidence(run, run) /\ Framing(run, "FAILED_CLOSED", {"stopId"})
    BY ItselfCopied
  <2> QED
    BY <1>1, <1>2, <2>1, <2>2, QuietMove
<1> QED
  BY <1>3 DEF Transition, FAIL_CLOSED, Controller

(* A resume gives the run back the state its stop interrupted.             *)
LEMMA ResumeCopy ==
  ASSUME Readable, run.state \in Stops, NEW r,
         \/ r = [run EXCEPT !.interruptedState = None]
         \/ \E grant \in ResumeGrant :
              r = [run EXCEPT !.interruptedState = None, !.recheck = TRUE, !.resumeGrant = grant]
  PROVE  /\ r \in Fields /\ SameEvidence(run, r) /\ r.binding = run.binding /\ r.audit = run.audit
         /\ \A f \in Framed \ {"interruptedState", "recheck", "resumeGrant"} : r[f] = run[f]
         /\ run.interruptedState \in Active /\ run.interruptedState \in States
         /\ run.interruptedState \notin Stops
         /\ Interrupted(r, run.interruptedState) /\ Suffices(r, run.interruptedState)
<1>4. /\ run.interruptedState \in Active /\ run.interruptedState \in States
      /\ run.interruptedState \notin Stops /\ Evidenced(run) = run.interruptedState
  BY RunRead, StateNames DEF StopOccurrence, Evidenced
<1>1. CASE r = [run EXCEPT !.interruptedState = None]
  <2>1. /\ r \in Fields /\ r.interruptedState = None /\ r.audit = run.audit
        /\ r.binding = run.binding
    BY <1>1, RunRead DEF Fields, Maybe
  <2>2. SameEvidence(run, r)
    BY <1>1, RunRead DEF SameEvidence, Fields
  <2>3. \A f \in Framed \ {"interruptedState", "recheck", "resumeGrant"} : r[f] = run[f]
    BY <1>1, RunRead DEF Framed, Fields
  <2> QED
    BY <2>1, <2>2, <2>3, <1>4 DEF Interrupted, Suffices
<1>2. ASSUME NEW grant \in ResumeGrant,
             r = [run EXCEPT !.interruptedState = None, !.recheck = TRUE, !.resumeGrant = grant]
      PROVE  /\ r \in Fields /\ SameEvidence(run, r) /\ r.binding = run.binding
             /\ r.audit = run.audit /\ r.interruptedState = None
             /\ \A f \in Framed \ {"interruptedState", "recheck", "resumeGrant"} : r[f] = run[f]
  <2>1. /\ r \in Fields /\ r.interruptedState = None /\ r.audit = run.audit
        /\ r.binding = run.binding
    BY <1>2, RunRead DEF Fields, Maybe
  <2>2. SameEvidence(run, r)
    BY <1>2, RunRead DEF SameEvidence, Fields
  <2>3. \A f \in Framed \ {"interruptedState", "recheck", "resumeGrant"} : r[f] = run[f]
    BY <1>2, RunRead DEF Framed, Fields
  <2> QED
    BY <2>1, <2>2, <2>3
<1> QED
  BY <1>1, <1>2, <1>4 DEF Interrupted, Suffices

LEMMA ResumeSoftLegal ==
  ASSUME Readable, NEW at \in Nat, ResumeSoft(at)
  PROVE  Transition(run, run')
<1>0. run.state = "SOFT_STOP" /\ run.state \in Stops /\ OnTime(at)
  BY StateNames DEF ResumeSoft
<1>1. CASE SoftResumeRefused(at)
  <2>1. run' = Commit(run, "HUMAN_STOP", "CONTROLLER", "BUDGET_EXHAUSTED", at, None, None)
    BY <1>1 DEF ResumeSoft, Write
  <2>2. Interrupted(run, "HUMAN_STOP") /\ Suffices(run, "HUMAN_STOP")
    BY <1>0, RunRead, StateNames DEF Interrupted, Suffices, StopOccurrence, Evidenced
  <2>3. Step(run, run', "BUDGET_EXHAUSTED", {"CONTROLLER"}, {<<"SOFT_STOP", "HUMAN_STOP">>},
             {"stopId"})
    <3>1. PICK moves : moves = {<<"SOFT_STOP", "HUMAN_STOP">>}
      OBVIOUS
    <3>2. /\ "BUDGET_EXHAUSTED" \in Quiet /\ "HUMAN_STOP" \in States
          /\ <<run.state, "HUMAN_STOP">> \in moves
      BY <1>0, <3>1, StateNames DEF Quiet
    <3>3. run \in Fields /\ SameEvidence(run, run) /\ Framing(run, "HUMAN_STOP", {"stopId"})
      BY ItselfCopied
    <3>4. Step(run, run', "BUDGET_EXHAUSTED", {"CONTROLLER"}, moves, {"stopId"})
      BY <1>0, <2>1, <2>2, <3>2, <3>3, QuietMove
    <3> QED
      BY <3>1, <3>4
  <2> QED
    BY <2>3 DEF Transition, BUDGET_EXHAUSTED, Controller
<1>2. CASE ~SoftResumeRefused(at)
  <2> DEFINE r == [run EXCEPT !.interruptedState = None]
             next == run.interruptedState
  <2>1. run' = Commit(r, next, "CONTROLLER", "RESUME_SOFT_WITH_REPAIR", at, None, None)
    BY <1>2 DEF ResumeSoft, Write
  <2>2. \A f \in Framed \ StopFields : r[f] = run[f]
    BY RunRead DEF Framed, Fields, StopFields
  <2>3. /\ r \in Fields /\ SameEvidence(run, r) /\ r.binding = run.binding /\ r.audit = run.audit
        /\ next \in Active /\ next \in States /\ next \notin Stops
        /\ Interrupted(r, next) /\ Suffices(r, next)
    BY <1>0, ResumeCopy
  <2> HIDE DEF r, next
  <2>4. Framing(r, next, StopFields)
    BY <2>2, <2>3 DEF Framing, StopFields
  <2>5. /\ Step(run, run', "RESUME_SOFT_WITH_REPAIR", {"CONTROLLER"}, {"SOFT_STOP"} \X Active,
                 StopFields)
        /\ run'.state = next /\ SameEvidence(run, run') /\ run'.audit.last.at = at
    <3>1. /\ "RESUME_SOFT_WITH_REPAIR" \in Quiet
          /\ <<run.state, next>> \in {"SOFT_STOP"} \X Active
      BY <1>0, <2>3 DEF Quiet
    <3> QED
      BY <1>0, <2>1, <2>3, <2>4, <3>1, QuietMove
  <2>6. next = run.interruptedState
    BY DEF next
  <2>7. run'.state = "IMPLEMENTING" => ~RuntimeExceeded(run', run'.audit.last.at)
    BY <1>2, <2>5, <2>6 DEF SoftResumeRefused, RuntimeExceeded, SameEvidence
  <2>8. run'.state = "PACKET_READY" => run'.iterations < run'.packet.maxIterations
    <3>1. CASE run'.state = "PACKET_READY"
      <4>1. run.packet # None /\ ~(run.iterations >= run.packet.maxIterations)
        BY <1>2, <2>5, <2>6, <3>1 DEF SoftResumeRefused
      <4>2. run.iterations \in Nat /\ run.packet.maxIterations \in Nat
        BY <4>1, RunRead, PacketAssumption
      <4> QED
        BY <2>5, <4>1, <4>2 DEF SameEvidence
    <3> QED
      BY <3>1
  <2> QED
    BY <2>5, <2>6, <2>7, <2>8 DEF Transition, RESUME_SOFT_WITH_REPAIR, Controller
<1> QED
  BY <1>1, <1>2

LEMMA ResumeArchitectureLegal ==
  ASSUME Readable, NEW at \in Nat, ResumeArchitecture(at)
  PROVE  Transition(run, run')
<1> DEFINE r == [run EXCEPT !.interruptedState = None]
<1>1. /\ run' = Commit(r, "ARCHITECTURE", "GPT_ARCHITECT", "RETURN_TO_ARCHITECTURE", at, None, None)
      /\ run.state = "ARCHITECTURE_STOP" /\ run.state \in Stops /\ OnTime(at)
  BY StateNames DEF ResumeArchitecture, Write
<1>2. \A f \in Framed \ StopFields : r[f] = run[f]
  BY RunRead DEF Framed, Fields, StopFields
<1>3. r.interruptedState = None
  BY RunRead DEF Fields
<1>4. r \in Fields /\ SameEvidence(run, r) /\ r.binding = run.binding /\ r.audit = run.audit
  BY <1>1, ResumeCopy
<1> HIDE DEF r
<1>5. /\ Framing(r, "ARCHITECTURE", StopFields) /\ Interrupted(r, "ARCHITECTURE")
      /\ Suffices(r, "ARCHITECTURE")
  BY <1>2, <1>3, <1>4, StateNames DEF Framing, StopFields, Interrupted, Suffices
<1>6. Step(run, run', "RETURN_TO_ARCHITECTURE", {"GPT_ARCHITECT"},
           {<<"ARCHITECTURE_STOP", "ARCHITECTURE">>}, StopFields)
  <2>1. PICK moves : moves = {<<"ARCHITECTURE_STOP", "ARCHITECTURE">>}
    OBVIOUS
  <2>2. /\ "RETURN_TO_ARCHITECTURE" \in Quiet /\ "ARCHITECTURE" \in States
        /\ <<run.state, "ARCHITECTURE">> \in moves
    BY <1>1, <2>1, StateNames DEF Quiet
  <2>3. Step(run, run', "RETURN_TO_ARCHITECTURE", {"GPT_ARCHITECT"}, moves, StopFields)
    BY <1>1, <1>4, <1>5, <2>2, QuietMove
  <2> QED
    BY <2>1, <2>3
<1> QED
  BY <1>6 DEF Transition, RETURN_TO_ARCHITECTURE, Gpt

LEMMA ResumeHumanLegal ==
  ASSUME Readable, NEW at \in Nat, NEW grant \in ResumeGrant, ResumeHuman(grant, at)
  PROVE  Transition(run, run')
<1> DEFINE r == [run EXCEPT !.interruptedState = None, !.recheck = TRUE, !.resumeGrant = grant]
           next == run.interruptedState
<1>1. /\ run' = Commit(r, next, "HUMAN", "RESUME_HUMAN_STOP", at, None, grant.id)
      /\ run.state = "HUMAN_STOP" /\ run.state \in Stops /\ OnTime(at)
      /\ grant.target = run.stopId /\ grant.id \notin run.audit.grants
  BY StateNames DEF ResumeHuman, Write
<1>2. \A f \in Framed \ (StopFields \cup {"recheck", "resumeGrant"}) : r[f] = run[f]
  BY RunRead DEF Framed, Fields, StopFields
<1>3. r.recheck = TRUE /\ r.resumeGrant = grant
  BY RunRead DEF Fields
<1>4. /\ r \in Fields /\ SameEvidence(run, r) /\ r.binding = run.binding /\ r.audit = run.audit
      /\ next \in Active /\ next \in States /\ next \notin Stops
      /\ Interrupted(r, next) /\ Suffices(r, next)
  BY <1>1, ResumeCopy
<1>5. grant.id \in GrantIds /\ grant # None
  BY AbsentAssumption DEF ResumeGrant
<1>6. next = run.interruptedState
  OBVIOUS
<1> HIDE DEF r, next
<1>7. Framing(r, next, StopFields \cup {"recheck", "resumeGrant"})
  BY <1>2, <1>4 DEF Framing, StopFields
<1>8. /\ Step(run, run', "RESUME_HUMAN_STOP", {"HUMAN"}, {"HUMAN_STOP"} \X Active,
               StopFields \cup {"recheck", "resumeGrant"})
      /\ run'.state = next /\ SameRest(r, run') /\ run'.audit.last.grant = grant.id
  <2>1. /\ "RESUME_HUMAN_STOP"
             \in Actions \ {"ISSUE_PACKET", "BEGIN_IMPLEMENTATION", "REJECT_EXACT_SHA"}
        /\ "RESUME_HUMAN_STOP" \notin AwaitsRecheck /\ "RESUME_HUMAN_STOP" \in TakesGrant
        /\ <<run.state, next>> \in {"HUMAN_STOP"} \X Active
        /\ None \in Maybe(Shas) /\ grant.id \in Maybe(GrantIds) /\ "HUMAN" \in Roles
    BY <1>1, <1>4, <1>5, Labels DEF Quiet, TakesGrant, Maybe
  <2> QED
    BY <1>1, <1>4, <1>7, <2>1, MoveLegal
<1> QED
  BY <1>1, <1>3, <1>5, <1>6, <1>8 DEF Transition, RESUME_HUMAN_STOP, SameRest

-----------------------------------------------------------------------------
(* Methods that bring no evidence *)

(* Out of an active state the run itself is committed in another state.    *)
LEMMA ActiveMove ==
  ASSUME Readable, run.state \in Active, NEW next \in States, next \notin Stops,
         NEW role \in {"HUMAN", "GPT_ARCHITECT", "CONTROLLER", "CODEX_IMPLEMENTER"},
         NEW action \in Actions \ {"ISSUE_PACKET", "BEGIN_IMPLEMENTATION", "REJECT_EXACT_SHA"},
         NEW at \in Nat, NEW sha \in Maybe(Shas), NEW roles, role \in roles, NEW moves,
         <<run.state, next>> \in moves, OnTime(at), ~(run.recheck /\ action \in AwaitsRecheck),
         Suffices(run, next), NEW after,
         after = Commit(run, next, role, action, at, sha, None)
  PROVE  /\ Step(run, after, action, roles, moves, {})
         /\ after.state = next /\ SameEvidence(run, after) /\ after.audit.last.at = at
<1>1. /\ run \in Fields /\ SameEvidence(run, run) /\ Framing(run, next, {})
      /\ Interrupted(run, next)
  BY ItselfCopied DEF Interrupted
<1>2. role \in Roles /\ None \in Maybe(GrantIds)
  BY Labels
<1> QED
  BY <1>1, <1>2, MoveLegal

LEMMA EnterArchitectureLegal ==
  ASSUME Readable, NEW at \in Nat,
         EnterArchitecture(at) \/ \E p \in Packets : EnterArchitectureForActivation(p, at)
  PROVE  Transition(run, run')
<1>1. PICK r \in Fields :
        /\ run' = Commit(r, "ARCHITECTURE", "GPT_ARCHITECT", "ENTER_ARCHITECTURE", at, None, None)
        /\ r.binding = run.binding \/ run.audit.length = 0
        /\ SameEvidence(run, r) /\ r.audit = run.audit /\ r.interruptedState = run.interruptedState
        /\ \A f \in Framed \ {"binding"} : r[f] = run[f]
  <2>1. CASE EnterArchitecture(at)
    BY <2>1, RunRead DEF EnterArchitecture, Write, SameEvidence
  <2>2. ASSUME NEW p \in Packets, EnterArchitectureForActivation(p, at)
        PROVE  \E r \in Fields :
                 /\ run' = Commit(r, "ARCHITECTURE", "GPT_ARCHITECT", "ENTER_ARCHITECTURE", at, None,
                                  None)
                 /\ r.binding = run.binding \/ run.audit.length = 0
                 /\ SameEvidence(run, r) /\ r.audit = run.audit
                 /\ r.interruptedState = run.interruptedState
                 /\ \A f \in Framed \ {"binding"} : r[f] = run[f]
    <3>1. PICK r : r = [run EXCEPT !.binding = p]
      OBVIOUS
    <3>2. r \in Fields /\ r.audit = run.audit /\ r.interruptedState = run.interruptedState
      BY <3>1, RunRead DEF Fields, Maybe
    <3>3. SameEvidence(run, r)
      BY <3>1, RunRead DEF SameEvidence, Fields
    <3>4. \A f \in Framed \ {"binding"} : r[f] = run[f]
      BY <3>1, RunRead DEF Framed, Fields
    <3>5. /\ run' = Commit(r, "ARCHITECTURE", "GPT_ARCHITECT", "ENTER_ARCHITECTURE", at, None, None)
          /\ run.audit.length = 0
      BY <2>2, <3>1 DEF EnterArchitectureForActivation, Write
    <3> QED
      BY <3>2, <3>3, <3>4, <3>5
  <2> QED
    BY <2>1, <2>2
<1>2. run.state = "IDLE" /\ OnTime(at)
  BY DEF EnterArchitecture, EnterArchitectureForActivation
<1>3. PICK moves : moves = {<<"IDLE", "ARCHITECTURE">>}
  OBVIOUS
<1>4. /\ "ENTER_ARCHITECTURE" \in Quiet /\ "ARCHITECTURE" \in States
      /\ <<run.state, "ARCHITECTURE">> \in moves
      /\ run.state \in Active /\ run.state \notin Stops /\ "ARCHITECTURE" \notin Stops
  BY <1>2, <1>3, StateNames DEF Quiet
<1>5. /\ Framing(r, "ARCHITECTURE", {"binding"}) /\ Interrupted(r, "ARCHITECTURE")
      /\ Suffices(r, "ARCHITECTURE")
  BY <1>1, <1>4, ItselfCopied, StateNames DEF Framing, Interrupted, Suffices
<1>6. Step(run, run', "ENTER_ARCHITECTURE", {"GPT_ARCHITECT"}, moves, {"binding"})
  BY <1>1, <1>2, <1>4, <1>5, QuietMove
<1> QED
  BY <1>3, <1>6 DEF Transition, ENTER_ARCHITECTURE, Gpt

LEMMA CompleteImplementationLegal ==
  ASSUME Readable, NEW at \in Nat, CompleteImplementation(at)
  PROVE  Transition(run, run')
<1>1. run.state = "IMPLEMENTING" /\ run.state \in Active /\ OnTime(at)
  BY StateNames DEF CompleteImplementation
<1>2. CASE RuntimeExceeded(run, at)
  <2>1. run' = Halt(run, "CONTROLLER", "HUMAN_STOP", at) /\ "HUMAN_STOP" \in Stops
    BY <1>2, StateNames DEF CompleteImplementation, Write
  <2> QED
    BY <1>1, <2>1, HaltLegal
<1>3. CASE ~RuntimeExceeded(run, at)
  <2>1. run' = Commit(run, "IMPLEMENTATION_COMPLETE", "CODEX_IMPLEMENTER",
                      "REPORT_IMPLEMENTATION_COMPLETE", at, None, None)
    BY <1>3 DEF CompleteImplementation, Write
  <2>2. PICK moves : moves = {<<"IMPLEMENTING", "IMPLEMENTATION_COMPLETE">>}
    OBVIOUS
  <2>3. /\ "IMPLEMENTATION_COMPLETE" \in States \ Stops
        /\ "REPORT_IMPLEMENTATION_COMPLETE"
             \in Actions \ {"ISSUE_PACKET", "BEGIN_IMPLEMENTATION", "REJECT_EXACT_SHA"}
        /\ "REPORT_IMPLEMENTATION_COMPLETE" \notin AwaitsRecheck /\ None \in Maybe(Shas)
        /\ <<run.state, "IMPLEMENTATION_COMPLETE">> \in moves
    BY <1>1, <2>2, Labels, StateNames DEF Quiet
  <2>4. Suffices(run, "IMPLEMENTATION_COMPLETE")
    BY <1>1, ItselfCopied, StateNames DEF Suffices
  <2>5. /\ Step(run, run', "REPORT_IMPLEMENTATION_COMPLETE", {"CODEX_IMPLEMENTER"}, moves, {})
        /\ SameEvidence(run, run') /\ run'.audit.last.at = at
    BY <1>1, <2>1, <2>3, <2>4, ActiveMove
  <2>6. ~RuntimeExceeded(run', run'.audit.last.at)
    BY <1>3, <2>5 DEF RuntimeExceeded, SameEvidence
  <2> QED
    BY <2>2, <2>5, <2>6 DEF Transition, REPORT_IMPLEMENTATION_COMPLETE, Implementer
<1> QED
  BY <1>2, <1>3

LEMMA BeginAcceptanceReviewLegal ==
  ASSUME Readable, NEW at \in Nat, NEW work, BeginAcceptanceReview(work, at)
  PROVE  Transition(run, run')
<1>1. run.state = "REMOTE_SHA_READY" /\ run.state \in Active /\ OnTime(at) /\ ~run.recheck
  BY StateNames DEF BeginAcceptanceReview
<1>2. CASE ~WorkCurrent(work)
  <2>1. run' = Halt(run, "CONTROLLER", "ARCHITECTURE_STOP", at) /\ "ARCHITECTURE_STOP" \in Stops
    BY <1>2, StateNames DEF BeginAcceptanceReview, Write
  <2> QED
    BY <1>1, <2>1, HaltLegal
<1>3. CASE WorkCurrent(work)
  <2>1. run' = Commit(run, "ACCEPTANCE_REVIEW", "GPT_ARCHITECT", "BEGIN_REMOTE_ACCEPTANCE", at,
                      None, None)
    BY <1>3 DEF BeginAcceptanceReview, Write
  <2>2. PICK moves : moves = {<<"REMOTE_SHA_READY", "ACCEPTANCE_REVIEW">>}
    OBVIOUS
  <2>3. /\ "ACCEPTANCE_REVIEW" \in States \ Stops /\ None \in Maybe(Shas)
        /\ "BEGIN_REMOTE_ACCEPTANCE"
             \in Actions \ {"ISSUE_PACKET", "BEGIN_IMPLEMENTATION", "REJECT_EXACT_SHA"}
        /\ <<run.state, "ACCEPTANCE_REVIEW">> \in moves
    BY <1>1, <2>2, Labels, StateNames DEF Actions, AwaitsRecheck
  <2>4. Suffices(run, "ACCEPTANCE_REVIEW")
    BY <1>1, ItselfCopied, StateNames DEF Suffices
  <2>5. Step(run, run', "BEGIN_REMOTE_ACCEPTANCE", {"GPT_ARCHITECT"}, moves, {})
    BY <1>1, <2>1, <2>3, <2>4, ActiveMove
  <2> QED
    BY <2>2, <2>5 DEF Transition, BEGIN_REMOTE_ACCEPTANCE, Gpt
<1> QED
  BY <1>2, <1>3

-----------------------------------------------------------------------------
(* Methods that bring evidence *)

(* What a run must show to be in an active state, or closed.               *)
Supports(r, next) ==
  /\ next \in WithPacket => r.packet # None
  /\ next \in WithIteration => r.startedAt # None /\ r.iterations >= 1
  /\ next \in WithRemote => r.remoteSha # None
  /\ next = "CORRECTION_REQUIRED" => DecisionBinds(r, "REJECT")
  /\ next \in WithAcceptance => DecisionBinds(r, "ACCEPT")
  /\ next \in WithPromotion => PromotionEvidence(r)
  /\ next \in WithPromotedMain => r.promotedMain = r.acceptance.sha

LEMMA Supported ==
  ASSUME NEW r, NEW after, SameEvidence(r, after), after.state \notin Stops,
         Supports(r, after.state)
  PROVE  StateEvidence(after)
<1>1. Evidenced(after) = after.state
  BY DEF Evidenced
<1>2. \A kind : DecisionBinds(r, kind) => DecisionBinds(after, kind)
  BY DEF DecisionBinds, SameEvidence
<1>3. PromotionEvidence(r) => PromotionEvidence(after)
  BY DEF PromotionEvidence, PreflightPasses, SameEvidence
<1> QED
  BY <1>1, <1>2, <1>3 DEF StateEvidence, Supports, SameEvidence

(* What a run shows in the active state it is in.                          *)
LEMMA Shown ==
  ASSUME Readable, run.state \in Active
  PROVE  Supports(run, run.state) /\ run.interruptedState = None /\ run.state \notin Stops
<1>1. run.state \notin Stops /\ Evidenced(run) = run.state /\ run.interruptedState = None
  BY ItselfCopied
<1> QED
  BY <1>1, RunRead DEF StateEvidence, Supports

LEMMA GainLegal ==
  ASSUME Readable, run.state \in Active, NEW r \in Fields, NEW next \in States \ Stops,
         NEW role \in {"HUMAN", "GPT_ARCHITECT", "CONTROLLER", "CODEX_IMPLEMENTER"},
         NEW action \in Actions, NEW at \in Nat, NEW sha \in Maybe(Shas),
         NEW grant \in Maybe(GrantIds), NEW roles, NEW moves, NEW changes, NEW after,
         after = Commit(r, next, role, action, at, sha, grant),
         r.audit = run.audit, \A f \in Framed \ changes : r[f] = run[f],
         "interruptedState" \notin changes, "binding" \notin changes,
         action = "ISSUE_PACKET" /\ run.audit.length = 1 /\ run.binding # None =>
           r.packet = run.binding,
         Counted(r, action),
         CorrectionFits(r), Supports(r, next),
         role \in roles, <<run.state, next>> \in moves, OnTime(at),
         ~(run.recheck /\ action \in AwaitsRecheck),
         grant # None => action \in TakesGrant /\ grant \notin run.audit.grants
  PROVE  /\ Step(run, after, action, roles, moves, changes)
         /\ after.state = next /\ SameEvidence(r, after) /\ SameRest(r, after)
         /\ after.audit.last.at = at /\ after.audit.last.sha = sha
         /\ after.audit.last.grant = grant
<1> DEFINE e == [action |-> action, role |-> role, at |-> at, packet |-> r.packet, sha |-> sha,
                 grant |-> grant]
<1>1. Committed(r, after, next, e)
  BY CommitMakes, Labels
<1>2. SameEvidence(r, after) /\ SameRest(r, after) /\ after.state = next
  BY <1>1 DEF Committed
<1>3. StateEvidence(after)
  BY <1>2, Supported
<1>4. r.binding = run.binding /\ r.interruptedState = run.interruptedState
  BY DEF Framed
<1>5. run.interruptedState = None /\ run.state \notin Stops
  BY Shown
<1>6. Framing(r, next, changes) /\ Interrupted(r, next)
  BY <1>4, <1>5 DEF Framing, Interrupted
<1>7. Allowed(e, next, roles, moves)
  BY DEF Allowed
<1>8. Bound(r, e) /\ Counted(r, e.action)
  BY <1>4 DEF Bound, Counted
<1>9. Step(run, after, e.action, roles, moves, changes) /\ after.audit.last = e
  BY <1>1, <1>3, <1>6, <1>7, <1>8, Legal
<1> QED
  BY <1>2, <1>9

LEMMA IssuePacketLegal ==
  ASSUME Readable, NEW at \in Nat, NEW packet \in Packets, IssuePacket(packet, at)
  PROVE  Transition(run, run')
<1> DEFINE changes == {"packet", "correction", "remoteSha", "acceptance", "authorization",
                       "preflight", "promotedMain"}
<1>1. PICK r : r = [run EXCEPT !.packet = packet, !.correction = None, !.remoteSha = None,
                               !.acceptance = None, !.authorization = None, !.preflight = None,
                               !.promotedMain = None]
  OBVIOUS
<1>2. /\ r \in Fields /\ r.audit = run.audit /\ r.packet = packet /\ r.correction = None
      /\ r.remoteSha = None /\ r.acceptance = None /\ r.authorization = None
      /\ r.preflight = None /\ r.promotedMain = None
      /\ r.iterations = run.iterations /\ r.failures = run.failures
  BY <1>1, RunRead DEF Fields, Maybe
<1>3. \A f \in Framed \ changes : r[f] = run[f]
  BY <1>1, RunRead DEF Framed, Fields
<1>4. /\ run' = Commit(r, "PACKET_READY", "GPT_ARCHITECT", "ISSUE_PACKET", at, None, None)
      /\ run.state = "ARCHITECTURE" /\ run.state \in Active /\ OnTime(at)
      /\ run.packet # None => packet.id # run.packet.id /\ packet.version > run.packet.version
      /\ run.audit.length = 1 /\ run.binding # None => packet = run.binding
  BY <1>1, StateNames DEF IssuePacket, Write
<1>5. PICK moves : moves = {<<"ARCHITECTURE", "PACKET_READY">>}
  OBVIOUS
<1>6. /\ "ISSUE_PACKET" \in Actions \ AwaitsRecheck /\ "PACKET_READY" \in States \ Stops
      /\ <<run.state, "PACKET_READY">> \in moves
      /\ None \in Maybe(Shas) /\ None \in Maybe(GrantIds)
  BY <1>4, <1>5, Labels, StateNames DEF Actions, AwaitsRecheck, TakesGrant
<1>7. CorrectionFits(r) /\ Supports(r, "PACKET_READY") /\ Counted(r, "ISSUE_PACKET")
  BY <1>2, StateNames, AbsentAssumption DEF CorrectionFits, Supports, Counted
<1>8. "interruptedState" \notin changes /\ "binding" \notin changes
  OBVIOUS
<1> HIDE DEF changes
<1>9. /\ Step(run, run', "ISSUE_PACKET", {"GPT_ARCHITECT"}, moves, changes)
      /\ SameEvidence(r, run')
  BY <1>2, <1>3, <1>4, <1>6, <1>7, <1>8, GainLegal
<1>10. ISSUE_PACKET(run, run')
  <2>1. run'.packet = packet
    BY <1>2, <1>9 DEF SameEvidence
  <2>2. \A f \in {"correction", "remoteSha", "acceptance", "authorization", "preflight",
                  "promotedMain"} : run'[f] = None
    BY <1>2, <1>9 DEF SameEvidence
  <2> QED
    BY <1>4, <1>5, <1>9, <2>1, <2>2 DEF ISSUE_PACKET, Gpt, changes
<1> QED
  BY <1>10 DEF Transition

LEMMA BeginImplementationLegal ==
  ASSUME Readable, NEW at \in Nat, BeginImplementation(at)
  PROVE  Transition(run, run')
<1> DEFINE changes == {"iterations", "startedAt", "remoteSha", "acceptance"}
<1>1. PICK r : r = [run EXCEPT !.iterations = run.iterations + 1, !.startedAt = at,
                               !.remoteSha = None, !.acceptance = None]
  OBVIOUS
<1>0. PICK n \in Nat : n = run.iterations + 1 /\ run.iterations \in Nat
  BY RunRead
<1>2. /\ r \in Fields /\ r.audit = run.audit /\ r.packet = run.packet
      /\ r.correction = run.correction /\ r.remoteSha = None /\ r.acceptance = None
      /\ r.startedAt = at /\ r.iterations = run.iterations + 1 /\ r.failures = run.failures
      /\ run.iterations \in Nat
  <2>1. r = [run EXCEPT !.iterations = n, !.startedAt = at, !.remoteSha = None, !.acceptance = None]
    BY <1>0, <1>1
  <2>2. at \in Maybe(Nat) /\ None \in Maybe(Shas) /\ None \in Maybe(Decision)
    BY DEF Maybe
  <2>3. r \in Fields
    BY <2>1, <2>2, RunRead DEF Fields
  <2>4. /\ r.audit = run.audit /\ r.packet = run.packet
        /\ r.correction = run.correction /\ r.remoteSha = None /\ r.acceptance = None
        /\ r.startedAt = at /\ r.iterations = n /\ r.failures = run.failures
    BY <2>1, RunRead DEF Fields
  <2> QED
    BY <1>0, <2>3, <2>4
<1>3. \A f \in Framed \ changes : r[f] = run[f]
  BY <1>1, RunRead DEF Framed, Fields
<1>4. /\ run' = Commit(r, "IMPLEMENTING", "CODEX_IMPLEMENTER", "BEGIN_IMPLEMENTATION", at, None, None)
      /\ run.state \in {"PACKET_READY", "CORRECTION_REQUIRED"} /\ OnTime(at) /\ ~run.recheck
      /\ run.packet # None /\ run.iterations < run.packet.maxIterations
      /\ run.state = "CORRECTION_REQUIRED" => HoldsCurrentCorrection(run)
  BY <1>1, RunRead DEF BeginImplementation, Write, MayImplement, Fields
<1>40. PICK moves : moves = {"PACKET_READY", "CORRECTION_REQUIRED"} \X {"IMPLEMENTING"}
  OBVIOUS
<1>5. /\ "BEGIN_IMPLEMENTATION" \in Actions /\ "IMPLEMENTING" \in States \ Stops
      /\ <<run.state, "IMPLEMENTING">> \in moves
      /\ None \in Maybe(Shas) /\ None \in Maybe(GrantIds) /\ run.state \in Active
  BY <1>4, <1>40, Labels, StateNames DEF Actions, AwaitsRecheck
<1>6. run.packet.maxIterations \in Nat
  BY <1>4, RunRead, PacketAssumption
<1>7. CorrectionFits(r)
  BY <1>2, RunRead DEF CorrectionFits
<1>8. Supports(r, "IMPLEMENTING")
  BY <1>2, <1>4, StateNames, AbsentAssumption DEF Supports
<1>9. "interruptedState" \notin changes /\ "binding" \notin changes
  OBVIOUS
<1> HIDE DEF changes
<1>90. /\ OnTime(at) /\ ~(run.recheck /\ "BEGIN_IMPLEMENTATION" \in AwaitsRecheck)
       /\ run' = Commit(r, "IMPLEMENTING", "CODEX_IMPLEMENTER", "BEGIN_IMPLEMENTATION", at, None,
                        None)
       /\ Counted(r, "BEGIN_IMPLEMENTATION")
       /\ r \in Fields /\ r.audit = run.audit
  BY <1>2, <1>4 DEF Counted
<1>10. /\ Step(run, run', "BEGIN_IMPLEMENTATION", {"CODEX_IMPLEMENTER"}, moves, changes)
       /\ SameEvidence(r, run') /\ run'.audit.last.at = at
  <2>1. PICK action \in Actions : action = "BEGIN_IMPLEMENTATION"
    BY <1>5
  <2>2. PICK roles : roles = {"CODEX_IMPLEMENTER"}
    OBVIOUS
  <2>3. PICK next \in States \ Stops : next = "IMPLEMENTING"
    BY <1>5
  <2>4. /\ run' = Commit(r, next, "CODEX_IMPLEMENTER", action, at, None, None)
        /\ Counted(r, action) /\ Supports(r, next) /\ <<run.state, next>> \in moves
        /\ ~(run.recheck /\ action \in AwaitsRecheck) /\ action # "ISSUE_PACKET"
        /\ "CODEX_IMPLEMENTER" \in roles
    BY <1>5, <1>8, <1>90, <2>1, <2>2, <2>3
  <2>5. /\ Step(run, run', action, roles, moves, changes)
        /\ SameEvidence(r, run') /\ run'.audit.last.at = at
    BY <1>3, <1>5, <1>7, <1>9, <1>90, <2>4, GainLegal
  <2> QED
    BY <2>1, <2>2, <2>5
<1>11. /\ run'.remoteSha = None /\ run'.acceptance = None /\ run'.startedAt = at
       /\ run'.iterations <= run'.packet.maxIterations
  BY <1>2, <1>4, <1>6, <1>10 DEF SameEvidence
<1> QED
  BY <1>4, <1>40, <1>10, <1>11 DEF Transition, BEGIN_IMPLEMENTATION, Implementer, changes

LEMMA RecordRemoteShaLegal ==
  ASSUME Readable, NEW at \in Nat, NEW work \in Shas, RecordRemoteSha(work, at)
  PROVE  Transition(run, run')
<1>1. PICK r : r = [run EXCEPT !.remoteSha = work]
  OBVIOUS
<1>2. /\ r \in Fields /\ r.audit = run.audit /\ r.packet = run.packet
      /\ r.correction = run.correction /\ r.remoteSha = work
      /\ r.iterations = run.iterations /\ r.failures = run.failures
  BY <1>1, RunRead DEF Fields, Maybe
<1>3. \A f \in Framed \ {"remoteSha"} : r[f] = run[f]
  BY <1>1, RunRead DEF Framed, Fields
<1>4. /\ run' = Commit(r, "REMOTE_SHA_READY", "CODEX_IMPLEMENTER", "RECORD_REMOTE_SHA", at, work, None)
      /\ run.state = "IMPLEMENTATION_COMPLETE" /\ run.state \in Active /\ OnTime(at) /\ ~run.recheck
  BY <1>1, StateNames DEF RecordRemoteSha, Write
<1>5. PICK moves : moves = {<<"IMPLEMENTATION_COMPLETE", "REMOTE_SHA_READY">>}
  OBVIOUS
<1>6. /\ "RECORD_REMOTE_SHA" \in Actions /\ "REMOTE_SHA_READY" \in States \ Stops
      /\ <<run.state, "REMOTE_SHA_READY">> \in moves
      /\ work \in Maybe(Shas) /\ None \in Maybe(GrantIds)
  BY <1>4, <1>5, StateNames, Labels DEF Actions, AwaitsRecheck, Maybe
<1>7. CorrectionFits(r) /\ Counted(r, "RECORD_REMOTE_SHA")
  BY <1>2, RunRead DEF CorrectionFits, Counted
<1>8. Supports(r, "REMOTE_SHA_READY")
  BY <1>2, <1>4, Shown, StateNames, AbsentAssumption DEF Supports
<1>9. /\ Step(run, run', "RECORD_REMOTE_SHA", {"CODEX_IMPLEMENTER"}, moves, {"remoteSha"})
      /\ SameEvidence(r, run') /\ run'.audit.last.sha = work
  BY <1>2, <1>3, <1>4, <1>6, <1>7, <1>8, GainLegal
<1> QED
  BY <1>2, <1>5, <1>9 DEF Transition, RECORD_REMOTE_SHA, Implementer, SameEvidence

(* The work under review: a packet, and the SHA recorded for it.           *)
LEMMA UnderReview ==
  ASSUME Readable, Reviewing
  PROVE  /\ run.state \in Active /\ run.packet \in Packets /\ run.remoteSha \in Shas
         /\ run.packet # None /\ run.remoteSha # None
         /\ \A kind \in {"ACCEPT", "REJECT"} : Decided(kind) \in Decision /\ Decided(kind) # None
<1>1. run.state = "ACCEPTANCE_REVIEW" /\ run.state \in Active
  BY StateNames DEF Reviewing
<1>2. run.packet # None /\ run.remoteSha # None
  BY <1>1, Shown, StateNames DEF Supports
<1>3. run.packet \in Packets /\ run.remoteSha \in Shas
  BY <1>2, RunRead
<1>4. \A kind \in {"ACCEPT", "REJECT"} : Decided(kind) \in Decision
  BY <1>3 DEF Decided, Decision
<1> QED
  BY <1>1, <1>2, <1>3, <1>4, AbsentAssumption

LEMMA AcceptLegal ==
  ASSUME Readable, NEW at \in Nat, NEW work, Accept(work, at)
  PROVE  Transition(run, run')
<1>1. Reviewing /\ OnTime(at) /\ run.state = "ACCEPTANCE_REVIEW" /\ ~run.recheck
  BY DEF Accept, Reviewing
<1>2. PICK decision : decision = Decided("ACCEPT")
  OBVIOUS
<1>3. /\ decision \in Decision /\ decision # None /\ decision.decision = "ACCEPT"
      /\ decision.packet = run.packet /\ decision.sha = run.remoteSha
      /\ run.remoteSha \in Shas /\ run.packet # None /\ run.remoteSha # None
      /\ run.state \in Active
  BY <1>1, <1>2, UnderReview DEF Decided
<1>4. PICK r : r = [run EXCEPT !.acceptance = decision]
  OBVIOUS
<1>5. /\ r \in Fields /\ r.audit = run.audit /\ r.packet = run.packet
      /\ r.correction = run.correction /\ r.remoteSha = run.remoteSha
      /\ r.acceptance = decision
      /\ r.iterations = run.iterations /\ r.failures = run.failures
  BY <1>3, <1>4, RunRead DEF Fields, Maybe
<1>6. \A f \in Framed \ {"acceptance"} : r[f] = run[f]
  BY <1>4, RunRead DEF Framed, Fields
<1>7. run' = Commit(r, "ACCEPTED", "GPT_ARCHITECT", "ACCEPT_EXACT_SHA", at, run.remoteSha, None)
  BY <1>2, <1>4 DEF Accept, Write
<1>8. PICK moves : moves = {<<"ACCEPTANCE_REVIEW", "ACCEPTED">>}
  OBVIOUS
<1>9. /\ "ACCEPT_EXACT_SHA" \in Actions /\ "ACCEPTED" \in States \ Stops
      /\ <<run.state, "ACCEPTED">> \in moves
      /\ run.remoteSha \in Maybe(Shas) /\ None \in Maybe(GrantIds)
  BY <1>1, <1>3, <1>8, StateNames, Labels DEF Actions, AwaitsRecheck, Maybe
<1>10. CorrectionFits(r) /\ Counted(r, "ACCEPT_EXACT_SHA")
  BY <1>5, RunRead DEF CorrectionFits, Counted
<1>11. Supports(r, "ACCEPTED")
  BY <1>3, <1>5, StateNames DEF Supports, DecisionBinds
<1>12. /\ Step(run, run', "ACCEPT_EXACT_SHA", {"GPT_ARCHITECT"}, moves, {"acceptance"})
       /\ SameEvidence(r, run') /\ run'.audit.last.sha = run.remoteSha
  <2>1. PICK sha \in Maybe(Shas) : sha = run.remoteSha
    BY <1>9
  <2>2. PICK action \in Actions : action = "ACCEPT_EXACT_SHA"
    BY <1>9
  <2>3. /\ run' = Commit(r, "ACCEPTED", "GPT_ARCHITECT", action, at, sha, None)
        /\ Counted(r, action) /\ action # "ISSUE_PACKET"
        /\ ~(run.recheck /\ action \in AwaitsRecheck)
        /\ r \in Fields /\ r.audit = run.audit /\ run.state \in Active
        /\ "ACCEPTED" \in States \ Stops /\ <<run.state, "ACCEPTED">> \in moves
        /\ None \in Maybe(GrantIds) /\ CorrectionFits(r) /\ OnTime(at)
    BY <1>1, <1>3, <1>5, <1>7, <1>9, <1>10, <2>1, <2>2
  <2>5. "interruptedState" \notin {"acceptance"} /\ "binding" \notin {"acceptance"}
    OBVIOUS
  <2>6. PICK changes : changes = {"acceptance"}
    OBVIOUS
  <2>4. /\ Step(run, run', action, {"GPT_ARCHITECT"}, moves, changes)
        /\ SameEvidence(r, run') /\ run'.audit.last.sha = sha
    <3>1. /\ "interruptedState" \notin changes /\ "binding" \notin changes
          /\ \A f \in Framed \ changes : r[f] = run[f]
      BY <1>6, <2>5, <2>6
    <3> QED
      BY <1>11, <2>3, <3>1, GainLegal
  <2> QED
    BY <2>1, <2>2, <2>4, <2>6
<1> QED
  BY <1>3, <1>5, <1>8, <1>12 DEF Transition, ACCEPT_EXACT_SHA, Gpt, SameEvidence

(* The rejection itself; what the call may still owe is its second write.  *)
LEMMA RejectLegal ==
  ASSUME Readable, NEW at \in Nat, NEW work, Reject(work, at)
  PROVE  Transition(run, run')
<1>1. Reviewing /\ OnTime(at) /\ run.state = "ACCEPTANCE_REVIEW" /\ ~run.recheck
  BY DEF Reject, Reviewing
<1>2. PICK decision : decision = Decided("REJECT")
  OBVIOUS
<1>3. /\ decision \in Decision /\ decision # None /\ decision.decision = "REJECT"
      /\ decision.packet = run.packet /\ decision.sha = run.remoteSha
      /\ run.remoteSha \in Shas /\ run.packet # None /\ run.remoteSha # None
      /\ run.state \in Active
  BY <1>1, <1>2, UnderReview DEF Decided
<1>30. PICK n \in Nat : n = run.failures + 1
  BY RunRead
<1>4. PICK r : r = [run EXCEPT !.acceptance = decision, !.failures = n]
  OBVIOUS
<1>50. decision \in Maybe(Decision)
  BY <1>3 DEF Maybe
<1>51. r \in Fields
  BY <1>50, <1>4, RunRead DEF Fields
<1>5. /\ r \in Fields /\ r.audit = run.audit /\ r.packet = run.packet
      /\ r.correction = run.correction /\ r.remoteSha = run.remoteSha
      /\ r.acceptance = decision
      /\ r.iterations = run.iterations /\ r.failures = n
  BY <1>51, <1>4, RunRead DEF Fields
<1> DEFINE changes == {"acceptance", "failures"}
<1>6. /\ \A f \in Framed \ changes : r[f] = run[f]
      /\ "interruptedState" \notin changes /\ "binding" \notin changes
  BY <1>4, RunRead DEF Framed, Fields
<1> HIDE DEF changes
<1>7. run' = Commit(r, "CORRECTION_REQUIRED", "GPT_ARCHITECT", "REJECT_EXACT_SHA", at,
                    run.remoteSha, None)
  <2>1. r = [run EXCEPT !.acceptance = Decided("REJECT"), !.failures = @ + 1]
    BY <1>2, <1>30, <1>4
  <2> QED
    BY <2>1 DEF Reject, Write, WriteThen
<1>8. PICK moves : moves = {<<"ACCEPTANCE_REVIEW", "CORRECTION_REQUIRED">>}
  OBVIOUS
<1>9. PICK action \in Actions : action = "REJECT_EXACT_SHA"
  BY DEF Actions, AwaitsRecheck
<1>10. /\ "CORRECTION_REQUIRED" \in States \ Stops
       /\ <<run.state, "CORRECTION_REQUIRED">> \in moves
       /\ run.remoteSha \in Maybe(Shas) /\ None \in Maybe(GrantIds)
       /\ action # "ISSUE_PACKET" /\ ~(run.recheck /\ action \in AwaitsRecheck)
       /\ run' = Commit(r, "CORRECTION_REQUIRED", "GPT_ARCHITECT", action, at, run.remoteSha, None)
  BY <1>1, <1>3, <1>7, <1>8, <1>9, StateNames, Labels DEF Maybe
<1>11. CorrectionFits(r)
  BY <1>5, RunRead DEF CorrectionFits
<1>12. Counted(r, action)
  BY <1>5, <1>9, <1>30 DEF Counted
<1>13. Supports(r, "CORRECTION_REQUIRED")
  BY <1>3, <1>5, StateNames DEF Supports, DecisionBinds
<1>14. /\ Step(run, run', action, {"GPT_ARCHITECT"}, moves, changes)
       /\ SameEvidence(r, run') /\ run'.audit.last.sha = run.remoteSha
  <2>1. PICK sha \in Maybe(Shas) : sha = run.remoteSha
    BY <1>10
  <2>2. /\ run' = Commit(r, "CORRECTION_REQUIRED", "GPT_ARCHITECT", action, at, sha, None)
        /\ r \in Fields /\ r.audit = run.audit /\ run.state \in Active
    BY <1>3, <1>5, <1>10, <2>1
  <2>3. /\ Step(run, run', action, {"GPT_ARCHITECT"}, moves, changes)
        /\ SameEvidence(r, run') /\ run'.audit.last.sha = sha
    BY <1>1, <1>6, <1>10, <1>11, <1>12, <1>13, <2>2, GainLegal
  <2> QED
    BY <2>1, <2>3
<1> QED
  BY <1>3, <1>5, <1>8, <1>9, <1>14
     DEF Transition, REJECT_EXACT_SHA, Gpt, SameEvidence, changes

LEMMA IssueCorrectionLegal ==
  ASSUME Readable, NEW at \in Nat, IssueCorrection(at)
  PROVE  Transition(run, run')
<1>1. /\ run.state = "CORRECTION_REQUIRED" /\ run.state \in Active /\ OnTime(at) /\ ~run.recheck
      /\ ~HoldsCurrentCorrection(run) /\ run.remoteSha # None
      /\ run.iterations + 1 <= run.packet.maxIterations
  BY StateNames DEF IssueCorrection
<1>2. /\ run.packet \in Packets /\ run.packet # None /\ run.remoteSha \in Shas
      /\ run.iterations \in Nat /\ DecisionBinds(run, "REJECT")
  BY <1>1, Shown, RunRead, StateNames DEF Supports
<1>3. PICK n \in Nat : n = run.iterations + 1
  BY <1>2
<1>4. PICK correction : correction = [packet |-> run.packet, rejectedSha |-> run.remoteSha,
                                      iteration |-> n]
  OBVIOUS
<1>5. /\ correction \in Correction /\ correction.packet = run.packet /\ correction.iteration = n
  BY <1>2, <1>4 DEF Correction
<1>6. PICK r : r = [run EXCEPT !.correction = correction]
  OBVIOUS
<1>7. /\ r \in Fields /\ r.audit = run.audit /\ r.packet = run.packet
      /\ r.correction = correction /\ r.remoteSha = run.remoteSha
      /\ r.acceptance = run.acceptance
      /\ r.iterations = run.iterations /\ r.failures = run.failures
  BY <1>5, <1>6, RunRead DEF Fields, Maybe
<1>8. \A f \in Framed \ {"correction"} : r[f] = run[f]
  BY <1>6, RunRead DEF Framed, Fields
<1>9. run' = Commit(r, "CORRECTION_REQUIRED", "GPT_ARCHITECT", "ISSUE_CORRECTION_PACKET", at,
                    None, None)
  BY <1>3, <1>4, <1>6 DEF IssueCorrection, Write
<1>10. PICK moves : moves = {<<"CORRECTION_REQUIRED", "CORRECTION_REQUIRED">>}
  OBVIOUS
<1>11. /\ "ISSUE_CORRECTION_PACKET" \in Actions /\ "CORRECTION_REQUIRED" \in States \ Stops
       /\ <<run.state, "CORRECTION_REQUIRED">> \in moves
       /\ None \in Maybe(Shas) /\ None \in Maybe(GrantIds)
  BY <1>1, <1>10, StateNames, Labels DEF Actions, AwaitsRecheck
<1>12. CorrectionFits(r)
  BY <1>1, <1>2, <1>3, <1>5, <1>7 DEF CorrectionFits
<1>13. Counted(r, "ISSUE_CORRECTION_PACKET")
  BY <1>7 DEF Counted
<1>14. Supports(r, "CORRECTION_REQUIRED")
  BY <1>1, <1>2, <1>7, StateNames DEF Supports, DecisionBinds
<1>15. /\ Step(run, run', "ISSUE_CORRECTION_PACKET", {"GPT_ARCHITECT"}, moves, {"correction"})
       /\ SameEvidence(r, run')
  BY <1>1, <1>7, <1>8, <1>9, <1>11, <1>12, <1>13, <1>14, GainLegal
<1>16. run'.correction = [packet |-> run'.packet, rejectedSha |-> run'.remoteSha,
                          iteration |-> run'.iterations + 1]
  BY <1>3, <1>4, <1>7, <1>15 DEF SameEvidence
<1> QED
  BY <1>1, <1>10, <1>15, <1>16 DEF Transition, ISSUE_CORRECTION_PACKET, Gpt

-----------------------------------------------------------------------------
(* Promotion and closing *)

(* The accepted work a promotion is about. *)
LEMMA AcceptedWork ==
  ASSUME Readable, run.state \in Active, run.state \in WithAcceptance
  PROVE  /\ run.packet \in Packets /\ run.packet.base \in Shas
         /\ run.packet # None /\ run.remoteSha # None /\ DecisionBinds(run, "ACCEPT")
         /\ run.acceptance.sha \in Shas
<1>1. /\ run.packet # None /\ run.remoteSha # None /\ DecisionBinds(run, "ACCEPT")
  BY Shown, StateNames DEF Supports
<1>2. run.packet \in Packets /\ run.remoteSha \in Shas
  BY <1>1, RunRead
<1> QED
  BY <1>1, <1>2, PacketAssumption DEF DecisionBinds

LEMMA RequestPromotionLegal ==
  ASSUME Readable, NEW at \in Nat, NEW grant \in PromotionGrant, NEW work, NEW main \in Shas,
         NEW clean \in BOOLEAN, RequestPromotion(grant, work, main, clean, at)
  PROVE  Transition(run, run')
<1>1. /\ run.state = "ACCEPTED" /\ run.state \in Active /\ run.state \in WithAcceptance
      /\ OnTime(at) /\ ~run.recheck
      /\ GrantCurrent(grant, run, at) /\ grant.id \notin run.audit.grants
      /\ AcceptedBy(run, grant.issuedAt)
  BY StateNames DEF RequestPromotion
<1>2. CASE ~PreflightHolds(work, main, clean)
  <2>1. run' = Halt(run, "CONTROLLER", "ARCHITECTURE_STOP", at) /\ "ARCHITECTURE_STOP" \in Stops
    BY <1>2, StateNames DEF RequestPromotion, Write
  <2> QED
    BY <1>1, <2>1, HaltLegal
<1>3. CASE PreflightHolds(work, main, clean)
  <2>1. PICK facts : facts = ReadPreflight(main, clean)
    OBVIOUS
  <2>2. /\ facts \in Preflight /\ facts # None /\ PreflightPasses(facts, run)
        /\ facts \in Maybe(Preflight) /\ grant \in Maybe(PromotionGrant) /\ grant # None
        /\ grant.id \in GrantIds /\ grant.id \in Maybe(GrantIds)
    <3>1. facts \in Preflight
      BY <1>1, <2>1, AcceptedWork DEF ReadPreflight, Preflight
    <3> QED
      BY <1>3, <2>1, <3>1, AbsentAssumption DEF PreflightHolds, Maybe, PromotionGrant
  <2>3. PICK r : r = [run EXCEPT !.authorization = grant, !.preflight = facts]
    OBVIOUS
  <2>4. r \in Fields
    BY <2>2, <2>3, RunRead DEF Fields
  <2>5. /\ r.audit = run.audit /\ r.packet = run.packet
        /\ r.correction = run.correction /\ r.remoteSha = run.remoteSha
        /\ r.acceptance = run.acceptance /\ r.authorization = grant /\ r.preflight = facts
        /\ r.iterations = run.iterations /\ r.failures = run.failures
    BY <2>3, RunRead DEF Fields
  <2>6. PICK changes : changes = {"authorization", "preflight"}
    OBVIOUS
  <2>7. /\ \A f \in Framed \ changes : r[f] = run[f]
        /\ "interruptedState" \notin changes /\ "binding" \notin changes
    BY <2>3, <2>6, RunRead DEF Framed, Fields
  <2>8. PICK moves : moves = {<<"ACCEPTED", "PROMOTION_READY">>}
    OBVIOUS
  <2>9. PICK action \in Actions : action = "AUTHORIZE_PROMOTION"
    BY DEF Actions, AwaitsRecheck
  <2>10. PICK sha \in Maybe(Shas) : sha = run.acceptance.sha
    BY <1>1, AcceptedWork DEF Maybe
  <2>11. PICK id \in Maybe(GrantIds) : id = grant.id
    BY <2>2
  <2>12. /\ run' = Commit(r, "PROMOTION_READY", "HUMAN", action, at, sha, id)
         /\ action \in TakesGrant /\ id \notin run.audit.grants
    <3>1. run' = Commit([run EXCEPT !.authorization = grant,
                                    !.preflight = ReadPreflight(main, clean)],
                        "PROMOTION_READY", "HUMAN", "AUTHORIZE_PROMOTION", at, run.acceptance.sha,
                        grant.id)
      BY <1>3 DEF RequestPromotion, Write
    <3> QED
      BY <1>1, <2>1, <2>3, <2>9, <2>10, <2>11, <3>1 DEF TakesGrant
  <2>13. /\ "PROMOTION_READY" \in States \ Stops /\ <<run.state, "PROMOTION_READY">> \in moves
         /\ ~(run.recheck /\ action \in AwaitsRecheck) /\ action # "ISSUE_PACKET"
    BY <1>1, <2>8, <2>9, StateNames
  <2>14. CorrectionFits(r) /\ Counted(r, action)
    BY <2>5, <2>9, RunRead DEF CorrectionFits, Counted
  <2>15. Supports(r, "PROMOTION_READY")
    <3>1. DecisionBinds(r, "ACCEPT") /\ r.packet # None /\ r.remoteSha # None
      BY <1>1, <2>5, AcceptedWork DEF DecisionBinds
    <3>2. PromotionEvidence(r)
      BY <1>1, <2>2, <2>5 DEF PromotionEvidence, PreflightPasses, GrantCurrent
    <3> QED
      BY <3>1, <3>2, StateNames DEF Supports
  <2>16. /\ Step(run, run', action, {"HUMAN"}, moves, changes)
         /\ SameEvidence(r, run') /\ run'.audit.last.at = at /\ run'.audit.last.sha = sha
         /\ run'.audit.last.grant = id
    <3>1. PICK roles : roles = {"HUMAN"}
      OBVIOUS
    <3>2. /\ "HUMAN" \in roles /\ run.state \in Active /\ OnTime(at) /\ r.audit = run.audit
          /\ id # None => action \in TakesGrant /\ id \notin run.audit.grants
          /\ action = "ISSUE_PACKET" /\ run.audit.length = 1 /\ run.binding # None =>
               r.packet = run.binding
      BY <1>1, <2>5, <2>12, <2>13, <3>1
    <3>3. /\ Step(run, run', action, roles, moves, changes)
          /\ SameEvidence(r, run') /\ run'.audit.last.at = at /\ run'.audit.last.sha = sha
          /\ run'.audit.last.grant = id
      BY <2>4, <2>7, <2>12, <2>13, <2>14, <2>15, <3>2, GainLegal
    <3> QED
      BY <3>1, <3>3
  <2>17. run'.authorization = grant /\ GrantCurrent(run'.authorization, run', run'.audit.last.at)
    BY <1>1, <2>5, <2>16 DEF SameEvidence, GrantCurrent
  <2>18. AcceptedBy(run', run'.authorization.issuedAt)
    <3>1. run'.audit = Recorded(run.audit, run'.audit.last) /\ run'.audit.last.action = action
      BY <2>16 DEF Step
    <3>2. run'.audit.accepted = run.audit.accepted
      <4>1. run'.audit.accepted = IF run'.audit.last.action = "ACCEPT_EXACT_SHA"
                                  THEN [sha |-> run'.audit.last.sha, at |-> run'.audit.last.at]
                                  ELSE run.audit.accepted
        BY <3>1, RunRead DEF Recorded, Audit
      <4> QED
        BY <2>9, <3>1, <4>1
    <3> QED
      BY <1>1, <2>5, <2>16, <2>17, <3>2 DEF AcceptedBy, SameEvidence
  <2> QED
    BY <2>5, <2>6, <2>8, <2>9, <2>10, <2>11, <2>16, <2>17, <2>18
       DEF Transition, AUTHORIZE_PROMOTION, SameEvidence
<1> QED
  BY <1>2, <1>3

LEMMA BeginPromotionLegal ==
  ASSUME Readable, NEW at \in Nat, NEW work, NEW main, NEW clean,
         BeginPromotion(work, main, clean, at)
  PROVE  Transition(run, run')
<1>1. /\ run.state = "PROMOTION_READY" /\ run.state \in Active /\ OnTime(at) /\ ~run.recheck
      /\ GrantCurrent(run.authorization, run, at)
  BY StateNames DEF BeginPromotion
<1>2. CASE ~PreflightHolds(work, main, clean)
  <2>1. run' = Halt(run, "CONTROLLER", "ARCHITECTURE_STOP", at) /\ "ARCHITECTURE_STOP" \in Stops
    BY <1>2, StateNames DEF BeginPromotion, Write
  <2> QED
    BY <1>1, <2>1, HaltLegal
<1>3. CASE PreflightHolds(work, main, clean)
  <2>1. run' = Commit(run, "PROMOTING", "CONTROLLER", "MARK_PROMOTING", at, None, None)
    BY <1>3 DEF BeginPromotion, Write
  <2>2. PICK moves : moves = {<<"PROMOTION_READY", "PROMOTING">>}
    OBVIOUS
  <2>3. /\ "PROMOTING" \in States \ Stops /\ None \in Maybe(Shas)
        /\ "MARK_PROMOTING" \in Actions \ {"ISSUE_PACKET", "BEGIN_IMPLEMENTATION", "REJECT_EXACT_SHA"}
        /\ <<run.state, "PROMOTING">> \in moves
    BY <1>1, <2>2, Labels, StateNames DEF Actions, AwaitsRecheck
  <2>4. Suffices(run, "PROMOTING")
    BY <1>1, ItselfCopied, StateNames DEF Suffices
  <2>5. /\ Step(run, run', "MARK_PROMOTING", {"CONTROLLER"}, moves, {})
        /\ SameEvidence(run, run') /\ run'.audit.last.at = at
    BY <1>1, <2>1, <2>3, <2>4, ActiveMove
  <2>6. GrantCurrent(run'.authorization, run', run'.audit.last.at)
    BY <1>1, <2>5 DEF GrantCurrent, SameEvidence
  <2> QED
    BY <2>2, <2>5, <2>6 DEF Transition, MARK_PROMOTING, Controller
<1> QED
  BY <1>2, <1>3

(* Main moved to the accepted SHA, recorded by the promotion or recovered. *)
LEMMA PromotedMainLegal ==
  ASSUME Readable, NEW at \in Nat, NEW action \in {"RECORD_PROMOTED_MAIN", "RECOVER_PROMOTED_MAIN"},
         run.state = "PROMOTING", ~run.recheck, OnTime(at)
  PROVE  Transition(run, PromotedMain(run, action, run.acceptance.sha, at))
<1>1. run.state \in Active /\ run.state \in WithAcceptance
  BY StateNames
<1>2. PICK main \in Shas : main = run.acceptance.sha /\ main \in Maybe(Shas)
  BY <1>1, AcceptedWork DEF Maybe
<1>3. PICK after : after = PromotedMain(run, action, run.acceptance.sha, at)
  OBVIOUS
<1>4. PICK r : r = [run EXCEPT !.promotedMain = main]
  OBVIOUS
<1>5. r \in Fields
  BY <1>2, <1>4, RunRead DEF Fields
<1>6. /\ r.audit = run.audit /\ r.packet = run.packet
      /\ r.correction = run.correction /\ r.remoteSha = run.remoteSha
      /\ r.acceptance = run.acceptance /\ r.authorization = run.authorization
      /\ r.preflight = run.preflight /\ r.promotedMain = main
      /\ r.iterations = run.iterations /\ r.failures = run.failures
  BY <1>4, RunRead DEF Fields
<1>7. PICK changes : changes = {"promotedMain"}
  OBVIOUS
<1>8. /\ \A f \in Framed \ changes : r[f] = run[f]
      /\ "interruptedState" \notin changes /\ "binding" \notin changes
  BY <1>4, <1>7, RunRead DEF Framed, Fields
<1>9. PICK moves : moves = {<<"PROMOTING", "CANONICAL_CI">>}
  OBVIOUS
<1>10. /\ "CANONICAL_CI" \in States \ Stops /\ <<run.state, "CANONICAL_CI">> \in moves
       /\ ~(run.recheck /\ action \in AwaitsRecheck) /\ action # "ISSUE_PACKET"
       /\ action \in Actions /\ None \in Maybe(GrantIds)
  BY <1>9, StateNames, Labels DEF Actions, AwaitsRecheck
<1>11. CorrectionFits(r) /\ Counted(r, action)
  BY <1>6, RunRead DEF CorrectionFits, Counted
<1>12. Supports(r, "CANONICAL_CI")
  <2>1. /\ DecisionBinds(run, "ACCEPT") /\ PromotionEvidence(run)
        /\ run.packet # None /\ run.remoteSha # None
    BY <1>1, Shown, StateNames DEF Supports
  <2>2. DecisionBinds(r, "ACCEPT") /\ PromotionEvidence(r)
    BY <1>6, <2>1 DEF DecisionBinds, PromotionEvidence, PreflightPasses
  <2> QED
    BY <1>2, <1>6, <2>1, <2>2, StateNames DEF Supports
<1>13. after = Commit(r, "CANONICAL_CI", "CONTROLLER", action, at, main, None)
  BY <1>2, <1>3, <1>4 DEF PromotedMain
<1>14. /\ Step(run, after, action, {"CONTROLLER"}, moves, changes)
       /\ SameEvidence(r, after) /\ after.audit.last.sha = main
  BY <1>1, <1>2, <1>5, <1>6, <1>8, <1>10, <1>11, <1>12, <1>13, GainLegal
<1>15. after.audit.last.sha = after.promotedMain
  BY <1>6, <1>14 DEF SameEvidence
<1>16. RECORD_PROMOTED_MAIN(run, after) \/ RECOVER_PROMOTED_MAIN(run, after)
  <2>1. CASE action = "RECORD_PROMOTED_MAIN"
    BY <1>7, <1>9, <1>14, <1>15, <2>1 DEF RECORD_PROMOTED_MAIN, Controller
  <2>2. CASE action = "RECOVER_PROMOTED_MAIN"
    BY <1>7, <1>9, <1>14, <1>15, <2>2 DEF RECOVER_PROMOTED_MAIN, Controller
  <2> QED
    BY <2>1, <2>2
<1> QED
  BY <1>3, <1>16 DEF Transition

(* The verdict of the checks on main: still pending, or the run is closed. *)
LEMMA CiOutcomeLegal ==
  ASSUME Readable, NEW at \in Nat, NEW action \in {"CLOSE_VERIFIED_RUN", "RECOVER_CLOSE"},
         NEW ci, run.state = "CANONICAL_CI", ~run.recheck, OnTime(at)
  PROVE  Transition(run, CiOutcome(run, action, ci, run.acceptance.sha, at))
<1>1. run.state \in Active /\ run.state \in WithAcceptance
  BY StateNames
<1>2. PICK sha \in Maybe(Shas) : sha = run.acceptance.sha
  BY <1>1, AcceptedWork DEF Maybe
<1>3. PICK after : after = CiOutcome(run, action, ci, run.acceptance.sha, at)
  OBVIOUS
<1>4. CASE ci = "PENDING"
  <2>1. after = Commit(run, "CANONICAL_CI", "CONTROLLER", "RECONCILE_PENDING", at, None, None)
    BY <1>3, <1>4 DEF CiOutcome
  <2>2. PICK moves : moves = {<<"CANONICAL_CI", "CANONICAL_CI">>}
    OBVIOUS
  <2>3. /\ "CANONICAL_CI" \in States \ Stops /\ None \in Maybe(Shas)
        /\ "RECONCILE_PENDING"
             \in Actions \ {"ISSUE_PACKET", "BEGIN_IMPLEMENTATION", "REJECT_EXACT_SHA"}
        /\ <<run.state, "CANONICAL_CI">> \in moves
    BY <2>2, Labels, StateNames DEF Actions
  <2>4. Suffices(run, "CANONICAL_CI")
    BY <1>1, ItselfCopied, StateNames DEF Suffices
  <2>5. Step(run, after, "RECONCILE_PENDING", {"CONTROLLER"}, moves, {})
    BY <1>1, <2>1, <2>3, <2>4, ActiveMove
  <2> QED
    BY <1>3, <2>2, <2>5 DEF Transition, RECONCILE_PENDING, Controller
<1>5. CASE ci # "PENDING"
  <2>1. after = Commit(run, "CLOSED", "CONTROLLER", action, at, sha, None)
    BY <1>2, <1>3, <1>5 DEF CiOutcome
  <2>2. PICK moves : moves = {<<"CANONICAL_CI", "CLOSED">>}
    OBVIOUS
  <2>3. /\ "CLOSED" \in States \ Stops
        /\ action \in Actions \ {"ISSUE_PACKET", "BEGIN_IMPLEMENTATION", "REJECT_EXACT_SHA"}
        /\ <<run.state, "CLOSED">> \in moves
    BY <2>2, Labels, StateNames DEF Actions, AwaitsRecheck
  <2>4. Suffices(run, "CLOSED")
    BY <1>1, ItselfCopied, StateNames DEF Suffices
  <2>5. Step(run, after, action, {"CONTROLLER"}, moves, {})
    BY <1>1, <2>1, <2>3, <2>4, ActiveMove
  <2>6. CLOSE_VERIFIED_RUN(run, after) \/ RECOVER_CLOSE(run, after)
    <3>1. CASE action = "CLOSE_VERIFIED_RUN"
      BY <2>2, <2>5, <3>1 DEF CLOSE_VERIFIED_RUN, Controller
    <3>2. CASE action = "RECOVER_CLOSE"
      BY <2>2, <2>5, <3>2 DEF RECOVER_CLOSE, Controller
    <3> QED
      BY <3>1, <3>2
  <2> QED
    BY <1>3, <2>6 DEF Transition
<1> QED
  BY <1>4, <1>5

LEMMA ClearRecheckLegal ==
  ASSUME Readable, NEW at \in Nat, run.state \in Active, run.recheck, OnTime(at)
  PROVE  Transition(run, ClearRecheck(at))
<1>1. PICK after : after = ClearRecheck(at)
  OBVIOUS
<1>2. PICK r : r = [run EXCEPT !.recheck = FALSE]
  OBVIOUS
<1>3. PICK next : next = run.state
  OBVIOUS
<1>4. /\ r \in Fields /\ r.audit = run.audit /\ r.recheck = FALSE
      /\ r.interruptedState = run.interruptedState /\ r.binding = run.binding
  BY <1>2, RunRead DEF Fields
<1>5. SameEvidence(run, r)
  BY <1>2, RunRead DEF SameEvidence, Fields
<1>6. \A f \in Framed \ {"recheck"} : r[f] = run[f]
  BY <1>2, RunRead DEF Framed, Fields
<1>7. /\ next \in States /\ next \notin Stops /\ run.state \notin Stops
      /\ Evidenced(run) = next /\ run.interruptedState = None
  BY <1>3, RunRead, ItselfCopied
<1>8. /\ Framing(r, next, {"recheck"}) /\ Interrupted(r, next) /\ Suffices(r, next)
  BY <1>4, <1>6, <1>7 DEF Framing, Interrupted, Suffices
<1>9. PICK moves : moves = {<<s, s>> : s \in Active}
  OBVIOUS
<1>10. /\ "RECHECK_EXTERNAL_REALITY" \in Quiet /\ <<run.state, next>> \in moves
  BY <1>3, <1>9 DEF Quiet
<1>11. after = Commit(r, next, "CONTROLLER", "RECHECK_EXTERNAL_REALITY", at, None, None)
  BY <1>1, <1>2, <1>3 DEF ClearRecheck
<1>12. /\ Step(run, after, "RECHECK_EXTERNAL_REALITY", {"CONTROLLER"}, moves, {"recheck"})
       /\ SameRest(r, after)
  BY <1>4, <1>5, <1>7, <1>8, <1>10, <1>11, QuietMove
<1> QED
  BY <1>1, <1>4, <1>9, <1>12
     DEF Transition, RECHECK_EXTERNAL_REALITY, Controller, SameRest

-----------------------------------------------------------------------------
(* Every action of the controller is a transition of the run, or none *)

(* The second write of a reconciliation that owed no recheck. *)
LEMMA OutcomeLegal ==
  ASSUME Readable, NEW at \in Nat, NEW outcome, run.state \in Active, OnTime(at),
         outcome.at = at,
         \/ /\ run.state = "PROMOTING" /\ outcome.then = "RECOVER_PROMOTED_MAIN"
            /\ outcome.main = run.acceptance.sha
         \/ /\ run.state = "CANONICAL_CI" /\ outcome.then = "RECOVER_CLOSE"
            /\ outcome.sha = run.acceptance.sha,
         Reconciled(outcome)
  PROVE  Transition(run, run')
<1>1. CASE run.recheck
  <2>1. run' = ClearRecheck(at)
    BY <1>1 DEF Reconciled, WriteThen
  <2> QED
    BY <1>1, <2>1, ClearRecheckLegal
<1>2. CASE ~run.recheck
  <2>1. run' = SecondWrite(run, outcome)
    BY <1>2 DEF Reconciled, Write
  <2>2. CASE run.state = "PROMOTING" /\ outcome.then = "RECOVER_PROMOTED_MAIN"
             /\ outcome.main = run.acceptance.sha
    <3>1. run' = PromotedMain(run, "RECOVER_PROMOTED_MAIN", run.acceptance.sha, at)
      BY <2>1, <2>2 DEF SecondWrite
    <3> QED
      BY <1>2, <2>2, <3>1, PromotedMainLegal
  <2>3. CASE run.state = "CANONICAL_CI" /\ outcome.then = "RECOVER_CLOSE"
             /\ outcome.sha = run.acceptance.sha
    <3>1. run' = CiOutcome(run, "RECOVER_CLOSE", outcome.ci, run.acceptance.sha, at)
      BY <2>1, <2>3 DEF SecondWrite
    <3> QED
      BY <1>2, <2>3, <3>1, CiOutcomeLegal
  <2> QED
    BY <2>2, <2>3
<1> QED
  BY <1>1, <1>2

LEMMA StoppedLegal ==
  ASSUME Readable, NEW at \in Nat, NEW kind \in Stops, run.state \in Active, Stopped(kind, at)
  PROVE  Transition(run, run')
<1>1. run' = Halt(run, "CONTROLLER", kind, at) /\ OnTime(at)
  BY DEF Stopped, Write
<1> QED
  BY <1>1, HaltLegal

LEMMA MethodLegal ==
  ASSUME Readable, NEW at \in Nat, Method(at)
  PROVE  Transition(run, run')
<1>1. CASE EnterArchitecture(at)
  BY <1>1, EnterArchitectureLegal
<1>2. ASSUME NEW p \in Packets, EnterArchitectureForActivation(p, at) \/ IssuePacket(p, at)
      PROVE  Transition(run, run')
  <2>1. CASE EnterArchitectureForActivation(p, at)
    BY <2>1, EnterArchitectureLegal
  <2>2. CASE IssuePacket(p, at)
    BY <2>2, IssuePacketLegal
  <2> QED
    BY <1>2, <2>1, <2>2
<1>3. CASE IterationsExhausted(at)
  <2>1. run.state \in Active /\ Stopped("HUMAN_STOP", at) /\ "HUMAN_STOP" \in Stops
    BY <1>3, StateNames DEF IterationsExhausted, MayImplement
  <2> QED
    BY <2>1, StoppedLegal
<1>4. CASE BeginImplementation(at)
  BY <1>4, BeginImplementationLegal
<1>5. CASE CompleteImplementation(at)
  BY <1>5, CompleteImplementationLegal
<1>6. CASE IssueCorrection(at)
  BY <1>6, IssueCorrectionLegal
<1>7. ASSUME NEW role \in {"HUMAN", "GPT_ARCHITECT", "CONTROLLER"}, NEW kind \in Stops,
             Stop(role, kind, at)
      PROVE  Transition(run, run')
  <2>1. run.state \in Active /\ OnTime(at) /\ run' = Halt(run, role, kind, at)
    BY <1>7 DEF Stop, Write
  <2> QED
    BY <2>1, HaltLegal
<1>8. CASE ResumeSoft(at)
  BY <1>8, ResumeSoftLegal
<1>9. CASE ResumeArchitecture(at)
  BY <1>9, ResumeArchitectureLegal
<1>10. ASSUME NEW grant \in StopGrants, ResumeHuman(grant, at)
       PROVE  Transition(run, run')
  <2>1. grant \in ResumeGrant
    BY ControllerAssumption DEF StopGrants, ResumeGrant
  <2> QED
    BY <1>10, <2>1, ResumeHumanLegal
<1>11. CASE FailClosed(at)
  BY <1>11, FailClosedLegal
<1> QED
  BY <1>1, <1>2, <1>3, <1>4, <1>5, <1>6, <1>7, <1>8, <1>9, <1>10, <1>11 DEF Method

LEMMA WorkMethodLegal ==
  ASSUME Readable, NEW at \in Nat, NEW work \in Shas, WorkMethod(work, at)
  PROVE  Transition(run, run')
<1>1. CASE RecordRemoteSha(work, at)
  BY <1>1, RecordRemoteShaLegal
<1>2. CASE BeginAcceptanceReview(work, at)
  BY <1>2, BeginAcceptanceReviewLegal
<1>3. CASE ReviewedWorkMoved(work, at)
  <2>1. run.state \in Active /\ Stopped("ARCHITECTURE_STOP", at) /\ "ARCHITECTURE_STOP" \in Stops
    BY <1>3, StateNames DEF ReviewedWorkMoved, Reviewing
  <2> QED
    BY <2>1, StoppedLegal
<1>4. CASE Accept(work, at)
  BY <1>4, AcceptLegal
<1>5. CASE Reject(work, at)
  BY <1>5, RejectLegal
<1>6. CASE ReconcileMovedWork(work, at)
  <2>1. run.state \in Active /\ Stopped("ARCHITECTURE_STOP", at) /\ "ARCHITECTURE_STOP" \in Stops
    BY <1>6, StateNames DEF ReconcileMovedWork
  <2> QED
    BY <2>1, StoppedLegal
<1> QED
  BY <1>1, <1>2, <1>3, <1>4, <1>5, <1>6 DEF WorkMethod

LEMMA RecordPromotedMainLegal ==
  ASSUME Readable, NEW at \in Nat, NEW work, NEW main, RecordPromotedMain(work, main, at)
  PROVE  Transition(run, run')
<1>1. run.state = "PROMOTING" /\ run.state \in Active /\ ~run.recheck /\ OnTime(at)
  BY StateNames DEF RecordPromotedMain
<1>2. CASE run' = Halt(run, "CONTROLLER", "ARCHITECTURE_STOP", at)
  BY <1>1, <1>2, HaltLegal, StateNames
<1>3. CASE run' = PromotedMain(run, "RECORD_PROMOTED_MAIN", run.acceptance.sha, at)
  BY <1>1, <1>3, PromotedMainLegal
<1> QED
  BY <1>2, <1>3 DEF RecordPromotedMain, Write

LEMMA ReconcileLegal ==
  ASSUME Readable, NEW at \in Nat, NEW work, NEW main, NEW ci, NEW protected, NEW clean,
         \/ ReconcilePromoting(work, main, at)
         \/ ReconcileCanonical(work, main, ci, protected, at)
         \/ ReconcileRecheck(work, main, clean, at)
         \/ ReconcilePromotionReady(work, main, clean, at)
  PROVE  Transition(run, run')
<1>0. "HUMAN_STOP" \in Stops /\ "ARCHITECTURE_STOP" \in Stops
  BY StateNames
<1>1. CASE ReconcilePromoting(work, main, at)
  <2>1. run.state = "PROMOTING" /\ run.state \in Active /\ OnTime(at)
    BY <1>1, StateNames DEF ReconcilePromoting
  <2>2. CASE Stopped("HUMAN_STOP", at) \/ Stopped("ARCHITECTURE_STOP", at)
    BY <1>0, <2>1, <2>2, StoppedLegal
  <2>3. CASE main = run.acceptance.sha
             /\ Reconciled([then |-> "RECOVER_PROMOTED_MAIN", main |-> main, at |-> at])
    <3>1. PICK outcome : outcome = [then |-> "RECOVER_PROMOTED_MAIN", main |-> main, at |-> at]
      OBVIOUS
    <3>2. /\ outcome.at = at /\ outcome.then = "RECOVER_PROMOTED_MAIN"
          /\ outcome.main = run.acceptance.sha /\ Reconciled(outcome)
      BY <2>3, <3>1
    <3> QED
      BY <2>1, <3>2, OutcomeLegal
  <2> QED
    BY <1>1, <2>2, <2>3 DEF ReconcilePromoting
<1>2. CASE ReconcileCanonical(work, main, ci, protected, at)
  <2>1. run.state = "CANONICAL_CI" /\ run.state \in Active /\ OnTime(at)
    BY <1>2, StateNames DEF ReconcileCanonical
  <2>2. CASE Stopped("ARCHITECTURE_STOP", at)
    BY <1>0, <2>1, <2>2, StoppedLegal
  <2>3. CASE Reconciled([then |-> "RECOVER_CLOSE", ci |-> ci, sha |-> run.acceptance.sha,
                         at |-> at])
    <3>1. PICK outcome : outcome = [then |-> "RECOVER_CLOSE", ci |-> ci,
                                    sha |-> run.acceptance.sha, at |-> at]
      OBVIOUS
    <3>2. /\ outcome.at = at /\ outcome.then = "RECOVER_CLOSE"
          /\ outcome.sha = run.acceptance.sha /\ Reconciled(outcome)
      BY <2>3, <3>1
    <3> QED
      BY <2>1, <3>2, OutcomeLegal
  <2> QED
    BY <1>2, <2>2, <2>3 DEF ReconcileCanonical
<1>3. CASE ReconcileRecheck(work, main, clean, at)
  <2>1. run.state \in Active /\ run.recheck /\ OnTime(at)
    BY <1>3 DEF ReconcileRecheck, BeforePromoting
  <2>2. \/ run' = ClearRecheck(at)
        \/ run' = Halt(run, "CONTROLLER", "ARCHITECTURE_STOP", at)
    BY <1>3 DEF ReconcileRecheck, Write
  <2> QED
    BY <1>0, <2>1, <2>2, ClearRecheckLegal, HaltLegal
<1>4. CASE ReconcilePromotionReady(work, main, clean, at)
  <2>1. run.state \in Active /\ Stopped("ARCHITECTURE_STOP", at)
    BY <1>4, StateNames DEF ReconcilePromotionReady
  <2> QED
    BY <1>0, <2>1, StoppedLegal
<1> QED
  BY <1>1, <1>2, <1>3, <1>4

LEMMA CloseLegal ==
  ASSUME Readable, NEW at \in Nat, NEW work, NEW main, NEW ci, NEW protected,
         Close(work, main, ci, protected, at)
  PROVE  Transition(run, run')
<1>1. run.state = "CANONICAL_CI" /\ run.state \in Active /\ ~run.recheck /\ OnTime(at)
  BY StateNames DEF Close
<1>2. CASE run' = Halt(run, "CONTROLLER", "ARCHITECTURE_STOP", at)
  BY <1>1, <1>2, HaltLegal, StateNames
<1>3. CASE run' = CiOutcome(run, "CLOSE_VERIFIED_RUN", ci, run.acceptance.sha, at)
  BY <1>1, <1>3, CiOutcomeLegal
<1> QED
  BY <1>2, <1>3 DEF Close, Write

LEMMA PromotionMethodLegal ==
  ASSUME Readable, NEW at \in Nat, NEW work \in Shas, NEW main \in Shas,
         PromotionMethod(work, main, at)
  PROVE  Transition(run, run')
<1>1. CASE RecordPromotedMain(work, main, at)
  BY <1>1, RecordPromotedMainLegal
<1>2. CASE ReconcilePromoting(work, main, at)
  BY <1>2, ReconcileLegal
<1>3. ASSUME NEW clean \in BOOLEAN,
             \/ \E grant \in PromotionGrants : RequestPromotion(grant, work, main, clean, at)
             \/ BeginPromotion(work, main, clean, at)
             \/ ReconcileRecheck(work, main, clean, at)
             \/ ReconcilePromotionReady(work, main, clean, at)
      PROVE  Transition(run, run')
  <2>1. ASSUME NEW grant \in PromotionGrants, RequestPromotion(grant, work, main, clean, at)
        PROVE  Transition(run, run')
    <3>1. grant \in PromotionGrant
      BY ControllerAssumption DEF PromotionGrants, PromotionGrant
    <3> QED
      BY <2>1, <3>1, RequestPromotionLegal
  <2>2. CASE BeginPromotion(work, main, clean, at)
    BY <2>2, BeginPromotionLegal
  <2>3. CASE ReconcileRecheck(work, main, clean, at)
    BY <2>3, ReconcileLegal
  <2>4. CASE ReconcilePromotionReady(work, main, clean, at)
    BY <2>4, ReconcileLegal
  <2> QED
    BY <1>3, <2>1, <2>2, <2>3, <2>4
<1>4. ASSUME NEW ci \in CiStatuses, NEW protected \in BOOLEAN,
             \/ Close(work, main, ci, protected, at)
             \/ ReconcileCanonical(work, main, ci, protected, at)
      PROVE  Transition(run, run')
  <2>1. CASE Close(work, main, ci, protected, at)
    BY <2>1, CloseLegal
  <2>2. CASE ReconcileCanonical(work, main, ci, protected, at)
    BY <2>2, ReconcileLegal
  <2> QED
    BY <1>4, <2>1, <2>2
<1> QED
  BY <1>1, <1>2, <1>3, <1>4 DEF PromotionMethod

LEMMA NextLegal == Readable /\ [Next]_vars => [LifecycleNext]_run
<1> SUFFICES ASSUME Readable, [Next]_vars
             PROVE  LifecycleNext \/ UNCHANGED run
  OBVIOUS
<1>1. ASSUME NEW at \in Instants, Method(at)
      PROVE  LifecycleNext
  BY <1>1, MethodLegal, ControllerAssumption DEF LifecycleNext
<1>2. ASSUME NEW at \in Instants, NEW work \in Shas, WorkMethod(work, at)
      PROVE  LifecycleNext
  BY <1>2, WorkMethodLegal, ControllerAssumption DEF LifecycleNext
<1>3. ASSUME NEW at \in Instants, NEW work \in Shas, NEW main \in Shas,
             PromotionMethod(work, main, at)
      PROVE  LifecycleNext
  BY <1>3, PromotionMethodLegal, ControllerAssumption DEF LifecycleNext
<1>4. CASE FinishCall
  BY <1>4 DEF FinishCall, LifecycleNext
<1>5. CASE Crash
  BY <1>5 DEF Crash
<1>6. CASE UNCHANGED vars
  BY <1>6 DEF vars
<1> QED
  BY <1>1, <1>2, <1>3, <1>4, <1>5, <1>6 DEF Next

-----------------------------------------------------------------------------
(* The second write of a call *)

(* What the second write of a call needs of the run it is made on. *)
SecondFits(second) ==
  /\ run.state \in Active /\ second.at \in Nat /\ OnTime(second.at)
  /\ \/ second.then = "HALT_EXHAUSTED"
     \/ /\ second.then = "RECOVER_PROMOTED_MAIN" /\ run.state = "PROMOTING" /\ ~run.recheck
        /\ second.main = run.acceptance.sha
     \/ /\ second.then = "RECOVER_CLOSE" /\ run.state = "CANONICAL_CI" /\ ~run.recheck
        /\ second.sha = run.acceptance.sha

LEMMA SecondLegal ==
  Readable /\ SecondFits(pending) => Transition(run, SecondWrite(run, pending))
<1> SUFFICES ASSUME Readable, SecondFits(pending)
             PROVE  Transition(run, SecondWrite(run, pending))
  OBVIOUS
<1>1. run.state \in Active /\ pending.at \in Nat /\ OnTime(pending.at)
  BY DEF SecondFits
<1>2. CASE pending.then = "HALT_EXHAUSTED"
  <2>1. SecondWrite(run, pending) = Halt(run, "CONTROLLER", "HUMAN_STOP", pending.at)
    BY <1>2 DEF SecondWrite
  <2> QED
    BY <1>1, <2>1, HaltLegal, StateNames
<1>3. CASE /\ pending.then = "RECOVER_PROMOTED_MAIN" /\ run.state = "PROMOTING" /\ ~run.recheck
           /\ pending.main = run.acceptance.sha
  <2>1. SecondWrite(run, pending)
          = PromotedMain(run, "RECOVER_PROMOTED_MAIN", run.acceptance.sha, pending.at)
    BY <1>3 DEF SecondWrite
  <2> QED
    BY <1>1, <1>3, <2>1, PromotedMainLegal
<1>4. CASE /\ pending.then = "RECOVER_CLOSE" /\ run.state = "CANONICAL_CI" /\ ~run.recheck
           /\ pending.sha = run.acceptance.sha
  <2>1. SecondWrite(run, pending)
          = CiOutcome(run, "RECOVER_CLOSE", pending.ci, run.acceptance.sha, pending.at)
    BY <1>4 DEF SecondWrite
  <2> QED
    BY <1>1, <1>4, <2>1, CiOutcomeLegal
<1> QED
  BY <1>2, <1>3, <1>4 DEF SecondFits

(* The calls that owe a second write are these. *)
LEMMA Owing ==
  ASSUME Next, pending' # None, pending' # pending
  PROVE  \E at \in Instants :
           \/ \E work \in Shas : Reject(work, at)
           \/ \E main \in Shas, work \in Shas : ReconcilePromoting(work, main, at)
           \/ \E main \in Shas, work \in Shas, ci \in CiStatuses, protected \in BOOLEAN :
                ReconcileCanonical(work, main, ci, protected, at)
<1> USE DEF Write, Stopped
<1>1. \A at : ~Method(at)
  BY DEF Method, EnterArchitecture, EnterArchitectureForActivation, IssuePacket,
         IterationsExhausted, BeginImplementation, CompleteImplementation, IssueCorrection, Stop,
         ResumeSoft, ResumeArchitecture, ResumeHuman, FailClosed
<1>2. \A at, work : WorkMethod(work, at) => Reject(work, at)
  BY DEF WorkMethod, RecordRemoteSha, BeginAcceptanceReview, ReviewedWorkMoved, Accept,
         ReconcileMovedWork
<1>3. \A at, work, main : PromotionMethod(work, main, at) =>
        \/ ReconcilePromoting(work, main, at)
        \/ \E ci \in CiStatuses, protected \in BOOLEAN :
             ReconcileCanonical(work, main, ci, protected, at)
  <2>1. \A at, work, main : ~RecordPromotedMain(work, main, at)
    BY DEF RecordPromotedMain
  <2>2. \A at, work, main, clean, grant : ~RequestPromotion(grant, work, main, clean, at)
    BY DEF RequestPromotion
  <2>3. \A at, work, main, clean : /\ ~BeginPromotion(work, main, clean, at)
                                   /\ ~ReconcileRecheck(work, main, clean, at)
                                   /\ ~ReconcilePromotionReady(work, main, clean, at)
    BY DEF BeginPromotion, ReconcileRecheck, ReconcilePromotionReady
  <2>4. \A at, work, main, ci, protected : ~Close(work, main, ci, protected, at)
    BY DEF Close
  <2> QED
    BY <2>1, <2>2, <2>3, <2>4 DEF PromotionMethod
<1>4. ~FinishCall /\ ~Crash
  BY DEF FinishCall, Crash
<1> QED
  BY <1>1, <1>2, <1>3, <1>4 DEF Next

(* A commit leaves its copy in the new state, at its instant. *)
LEMMA CommitLeaves ==
  ASSUME Readable, NEW r \in Fields, r.audit = run.audit, NEW next, NEW role, NEW action,
         NEW at \in Nat, NEW sha, NEW grant, run' = Commit(r, next, role, action, at, sha, grant)
  PROVE  /\ run'.state = next /\ (OnTime(at))'
         /\ run'.recheck = r.recheck /\ run'.acceptance = r.acceptance
<1>1. PICK e : e = [action |-> action, role |-> role, at |-> at, packet |-> r.packet, sha |-> sha,
                    grant |-> grant]
  OBVIOUS
<1>2. Recorded(run.audit, e).last = e
  BY RunRead DEF Recorded, Audit
<1>3. /\ run'.state = next /\ run'.audit = Recorded(run.audit, e)
      /\ run'.recheck = r.recheck /\ run'.acceptance = r.acceptance
  BY <1>1 DEF Commit, Fields
<1>4. run'.audit.last.at = at
  BY <1>1, <1>2, <1>3
<1> QED
  BY <1>3, <1>4 DEF OnTime

LEMMA Owes == Readable /\ Next /\ pending' # None /\ pending' # pending => SecondFits(pending)'
<1> SUFFICES ASSUME Readable, Next, pending' # None, pending' # pending
             PROVE  SecondFits(pending)'
  OBVIOUS
<1>1. ASSUME NEW at \in Nat, NEW work, Reject(work, at)
      PROVE  SecondFits(pending)'
  <2>1. PICK r : r = [run EXCEPT !.acceptance = Decided("REJECT"), !.failures = @ + 1]
    OBVIOUS
  <2>2. /\ run' = Commit(r, "CORRECTION_REQUIRED", "GPT_ARCHITECT", "REJECT_EXACT_SHA", at,
                         run.remoteSha, None)
        /\ pending' = [then |-> "HALT_EXHAUSTED", at |-> at]
    BY <1>1, <2>1 DEF Reject, Write, WriteThen
  <2>3. r \in Fields /\ r.audit = run.audit
    <3>1. PICK n \in Nat : n = run.failures + 1
      BY RunRead
    <3>2. PICK decision \in Maybe(Decision) : decision = Decided("REJECT")
      BY <1>1, UnderReview DEF Reject, Maybe
    <3>3. r = [run EXCEPT !.acceptance = decision, !.failures = n]
      BY <2>1, <3>1, <3>2
    <3> QED
      BY <3>3, RunRead DEF Fields
  <2>4. run'.state = "CORRECTION_REQUIRED" /\ (OnTime(at))'
    BY <2>2, <2>3, CommitLeaves
  <2> QED
    BY <2>2, <2>4, StateNames DEF SecondFits, OnTime
<1>2. ASSUME NEW at \in Nat, NEW outcome, run.state \in Active, outcome.at = at,
             Reconciled(outcome),
             \/ /\ run.state = "PROMOTING" /\ outcome.then = "RECOVER_PROMOTED_MAIN"
                /\ outcome.main = run.acceptance.sha
             \/ /\ run.state = "CANONICAL_CI" /\ outcome.then = "RECOVER_CLOSE"
                /\ outcome.sha = run.acceptance.sha
      PROVE  SecondFits(pending)'
  <2>1. run' = ClearRecheck(at) /\ pending' = outcome
    BY <1>2 DEF Reconciled, Write, WriteThen
  <2>2. PICK r : r = [run EXCEPT !.recheck = FALSE]
    OBVIOUS
  <2>3. /\ r \in Fields /\ r.audit = run.audit /\ r.recheck = FALSE
        /\ r.acceptance = run.acceptance
    BY <2>2, RunRead DEF Fields
  <2>4. PICK next : next = run.state
    OBVIOUS
  <2>5. run' = Commit(r, next, "CONTROLLER", "RECHECK_EXTERNAL_REALITY", at, None, None)
    BY <2>1, <2>2, <2>4 DEF ClearRecheck
  <2>6. /\ run'.state = next /\ (OnTime(at))' /\ run'.recheck = FALSE
        /\ run'.acceptance = run.acceptance
    BY <2>3, <2>5, CommitLeaves
  <2> QED
    BY <1>2, <2>1, <2>4, <2>6 DEF SecondFits, OnTime
<1>3. ASSUME NEW at \in Nat, NEW work, NEW main, ReconcilePromoting(work, main, at)
      PROVE  SecondFits(pending)'
  <2>1. PICK outcome : outcome = [then |-> "RECOVER_PROMOTED_MAIN", main |-> main, at |-> at]
    OBVIOUS
  <2>2. /\ run.state = "PROMOTING" /\ run.state \in Active /\ main = run.acceptance.sha
        /\ Reconciled(outcome)
    BY <1>3, <2>1, StateNames DEF ReconcilePromoting, Stopped, Write
  <2> QED
    BY <1>2, <2>1, <2>2
<1>4. ASSUME NEW at \in Nat, NEW work, NEW main, NEW ci, NEW protected,
             ReconcileCanonical(work, main, ci, protected, at)
      PROVE  SecondFits(pending)'
  <2>1. PICK outcome : outcome = [then |-> "RECOVER_CLOSE", ci |-> ci,
                                  sha |-> run.acceptance.sha, at |-> at]
    OBVIOUS
  <2>2. run.state = "CANONICAL_CI" /\ run.state \in Active /\ Reconciled(outcome)
    BY <1>4, <2>1, StateNames DEF ReconcileCanonical, Stopped, Write
  <2> QED
    BY <1>2, <2>1, <2>2
<1> QED
  BY <1>1, <1>3, <1>4, Owing, ControllerAssumption

-----------------------------------------------------------------------------
(* Theorems *)

(* Every commit AutomationController makes is a legal lifecycle transition: *)
(* no call builds a run that assertTransition would refuse, whatever the    *)
(* observations of GitHub and whoever else writes between two commits.      *)
THEOREM ControllerImplementsLifecycle == Spec => LifecycleSpec
<1>1. Init => LifecycleInit
  BY DEF Init
<1>2. LifecycleInit => Readable
  BY ReadableStarts
<1>3. Readable /\ [Next]_vars => [LifecycleNext]_run
  BY NextLegal
<1>4. Readable /\ [LifecycleNext]_run => Readable'
  BY ReadableStep
<1> QED
  BY <1>1, <1>2, <1>3, <1>4, PTL DEF Spec, LifecycleSpec

LEMMA ReadableHolds == Spec => []Readable
<1>1. Init => Readable
  BY ReadableStarts DEF Init
<1>2. Readable /\ [Next]_vars => Readable'
  BY NextLegal, ReadableStep
<1> QED
  BY <1>1, <1>2, PTL DEF Spec

(* Of the two commits of one call the first never spoils the second: after  *)
(* a rejection that exhausts the failure budget, and after a recheck that a *)
(* reconciliation owed, the commit still owed is legal at once, so only     *)
(* another writer between the two can make the store refuse it.             *)
THEOREM SecondWriteIsLegalAtOnce ==
  Spec => [][pending' # None /\ pending' # pending =>
               Transition(run', SecondWrite(run', pending'))]_vars
<1>1. Readable' /\ SecondFits(pending)' => Transition(run', SecondWrite(run', pending'))
  <2>1. (Readable /\ SecondFits(pending) => Transition(run, SecondWrite(run, pending)))'
    BY SecondLegal, PTL
  <2> QED
    BY <2>1
<1>2. Readable /\ Readable' /\ [Next]_vars =>
        [pending' # None /\ pending' # pending =>
           Transition(run', SecondWrite(run', pending'))]_vars
  BY <1>1, Owes DEF vars
<1> QED
  BY <1>2, ReadableHolds, PTL DEF Spec

(* What holds of every run a store accepts holds of the run the controller  *)
(* moves: one verdict per iteration, corrections that answer the last       *)
(* rejection, promotion only on a grant issued after the acceptance, grants *)
(* and iterations never spent beyond what was given, and no evidence before *)
(* external reality was rechecked.                                          *)
THEOREM ControllerKeepsTheLifecycle ==
  Spec => /\ []OneVerdictPerIteration
          /\ []CorrectionAnswersLastRejection
          /\ []PromotionGrantFollowsAcceptance
          /\ []GrantsSpentOnce
          /\ []IterationsWithinBudget
          /\ []ResumeGrantNamesOneStop
          /\ RecheckPrecedesEvidence
  BY ControllerImplementsLifecycle, VerdictsCorrect, CorrectionCorrect, PromotionCorrect,
     GrantsCorrect, BudgetCorrect, ResumeCorrect, RecheckCorrect, PTL

=============================================================================
