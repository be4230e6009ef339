-------------------------- MODULE Lifecycle_proofs --------------------------
(***************************************************************************)
(* Proofs about Lifecycle: what holds of every run a store can hold,       *)
(* whoever writes it, for all packets, SHAs and grants.                    *)
(***************************************************************************)
EXTENDS Lifecycle, FiniteSetTheorems, TLAPS

(* The action and the entry of a step. *)
LastEntry == run'.audit.last
Act == LastEntry.action

(* What one audit entry adds to the digest of the trail. *)
LEMMA RecordedFields ==
  ASSUME NEW audit \in Audit, NEW entry \in Entry
  PROVE  LET new == Recorded(audit, entry)
         IN /\ new.length = audit.length + 1
            /\ new.last = entry
            /\ new.begins = IF entry.action = "BEGIN_IMPLEMENTATION" THEN audit.begins + 1 ELSE audit.begins
            /\ new.rejects = IF entry.action = "REJECT_EXACT_SHA" THEN audit.rejects + 1 ELSE audit.rejects
            /\ new.accepts = IF entry.action = "ACCEPT_EXACT_SHA" THEN audit.accepts + 1 ELSE audit.accepts
            /\ new.grants = IF entry.grant # None THEN audit.grants \cup {entry.grant} ELSE audit.grants
            /\ new.spent = IF entry.action \in TakesGrant THEN audit.spent + 1 ELSE audit.spent
            /\ new.accepted = IF entry.action = "ACCEPT_EXACT_SHA"
                              THEN [sha |-> entry.sha, at |-> entry.at] ELSE audit.accepted
            /\ new.rejected = IF entry.action = "REJECT_EXACT_SHA"
                              THEN [packet |-> entry.packet, sha |-> entry.sha, iteration |-> audit.begins]
                              ELSE audit.rejected
  BY DEF Recorded, Audit

(* Every legal step is well formed and appends its entry. *)
LEMMA StepAppends ==
  ASSUME LifecycleNext
  PROVE  /\ RunInvariants(run')
         /\ run' \in Fields
         /\ LastEntry # None
         /\ run'.audit = Recorded(run.audit, LastEntry)
         /\ LastEntry.packet = run'.packet
         /\ LastEntry.grant # None => Act \in TakesGrant /\ LastEntry.grant \notin run.audit.grants
         /\ ~(run.recheck /\ Act \in AwaitsRecheck)
<1>1. RunInvariants(run') => run' \in Fields
  BY DEF RunInvariants
<1>2. ASSUME NEW action, NEW roles, NEW moves, NEW changes, Step(run, run', action, roles, moves, changes)
      PROVE  /\ RunInvariants(run')
             /\ LastEntry # None
             /\ run'.audit = Recorded(run.audit, LastEntry)
             /\ LastEntry.packet = run'.packet
             /\ LastEntry.grant # None => Act \in TakesGrant /\ LastEntry.grant \notin run.audit.grants
             /\ ~(run.recheck /\ Act \in AwaitsRecheck)
  BY <1>2 DEF Step, LastEntry, Act
<1>3. \E action, roles, moves, changes : Step(run, run', action, roles, moves, changes)
  BY Zenon DEF LifecycleNext, Transition, ENTER_ARCHITECTURE, ISSUE_PACKET, BEGIN_IMPLEMENTATION,
     REPORT_IMPLEMENTATION_COMPLETE, RECORD_REMOTE_SHA, BEGIN_REMOTE_ACCEPTANCE, ACCEPT_EXACT_SHA,
     REJECT_EXACT_SHA, ISSUE_CORRECTION_PACKET, AUTHORIZE_PROMOTION, MARK_PROMOTING,
     RECORD_PROMOTED_MAIN, RECOVER_PROMOTED_MAIN, CLOSE_VERIFIED_RUN, RECOVER_CLOSE,
     RECONCILE_PENDING, RECHECK_EXTERNAL_REALITY, STOP, BUDGET_EXHAUSTED,
     RESUME_SOFT_WITH_REPAIR, RETURN_TO_ARCHITECTURE, RESUME_HUMAN_STOP, FAIL_CLOSED
<1> QED
  BY <1>1, <1>2, <1>3

(* The fields of a run change only in the actions that own them. *)
Owned ==
  /\ Act # "ISSUE_PACKET" => run'.packet = run.packet
  /\ Act \notin {"ISSUE_PACKET", "ISSUE_CORRECTION_PACKET"} => run'.correction = run.correction
  /\ Act \notin {"ISSUE_PACKET", "BEGIN_IMPLEMENTATION", "RECORD_REMOTE_SHA"} =>
       run'.remoteSha = run.remoteSha
  /\ Act \notin {"ISSUE_PACKET", "BEGIN_IMPLEMENTATION", "ACCEPT_EXACT_SHA", "REJECT_EXACT_SHA"} =>
       run'.acceptance = run.acceptance
  /\ Act \notin {"ISSUE_PACKET", "AUTHORIZE_PROMOTION"} => run'.authorization = run.authorization
  /\ Act \notin {"ISSUE_PACKET", "RECORD_PROMOTED_MAIN", "RECOVER_PROMOTED_MAIN"} =>
       run'.promotedMain = run.promotedMain
  /\ Act # "BEGIN_IMPLEMENTATION" => /\ run'.iterations = run.iterations
                                     /\ run'.startedAt = run.startedAt
  /\ Act # "REJECT_EXACT_SHA" => run'.failures = run.failures
  /\ Act # "RESUME_HUMAN_STOP" => run'.resumeGrant = run.resumeGrant

(* The moves that give a run the evidence of a new state; every other      *)
(* action keeps the evidenced state, returns to the architect, or ends it. *)
Progress == {
  <<"ISSUE_PACKET", "ARCHITECTURE", "PACKET_READY">>,
  <<"BEGIN_IMPLEMENTATION", "PACKET_READY", "IMPLEMENTING">>,
  <<"BEGIN_IMPLEMENTATION", "CORRECTION_REQUIRED", "IMPLEMENTING">>,
  <<"REPORT_IMPLEMENTATION_COMPLETE", "IMPLEMENTING", "IMPLEMENTATION_COMPLETE">>,
  <<"RECORD_REMOTE_SHA", "IMPLEMENTATION_COMPLETE", "REMOTE_SHA_READY">>,
  <<"BEGIN_REMOTE_ACCEPTANCE", "REMOTE_SHA_READY", "ACCEPTANCE_REVIEW">>,
  <<"ACCEPT_EXACT_SHA", "ACCEPTANCE_REVIEW", "ACCEPTED">>,
  <<"REJECT_EXACT_SHA", "ACCEPTANCE_REVIEW", "CORRECTION_REQUIRED">>,
  <<"AUTHORIZE_PROMOTION", "ACCEPTED", "PROMOTION_READY">>,
  <<"MARK_PROMOTING", "PROMOTION_READY", "PROMOTING">>,
  <<"RECORD_PROMOTED_MAIN", "PROMOTING", "CANONICAL_CI">>,
  <<"RECOVER_PROMOTED_MAIN", "PROMOTING", "CANONICAL_CI">>,
  <<"CLOSE_VERIFIED_RUN", "CANONICAL_CI", "CLOSED">>,
  <<"RECOVER_CLOSE", "CANONICAL_CI", "CLOSED">>}
Progressing == {"ISSUE_PACKET", "BEGIN_IMPLEMENTATION", "REPORT_IMPLEMENTATION_COMPLETE",
  "RECORD_REMOTE_SHA", "BEGIN_REMOTE_ACCEPTANCE", "ACCEPT_EXACT_SHA", "REJECT_EXACT_SHA",
  "AUTHORIZE_PROMOTION", "MARK_PROMOTING", "RECORD_PROMOTED_MAIN", "RECOVER_PROMOTED_MAIN",
  "CLOSE_VERIFIED_RUN", "RECOVER_CLOSE"}
Moved ==
  \/ <<Act, Evidenced(run), Evidenced(run')>> \in Progress
  \/ /\ Act \notin Progressing
     /\ Evidenced(run') \in {Evidenced(run), "ARCHITECTURE", "FAILED_CLOSED"}

(* Each action changes the fields it owns and makes its move. *)
LEMMA StepMoves ==
  ASSUME RunInvariants(run), LifecycleNext
  PROVE  Owned /\ Moved
<1> USE DEF Owned, Moved, Progress, Progressing, Evidenced, Act, LastEntry, Framed, Stops, Step
<1>1. CASE ENTER_ARCHITECTURE(run, run')
  BY <1>1 DEF ENTER_ARCHITECTURE
<1>2. CASE ISSUE_PACKET(run, run')
  BY <1>2 DEF ISSUE_PACKET
<1>3. CASE BEGIN_IMPLEMENTATION(run, run')
  BY <1>3 DEF BEGIN_IMPLEMENTATION
<1>4. CASE REPORT_IMPLEMENTATION_COMPLETE(run, run')
  BY <1>4 DEF REPORT_IMPLEMENTATION_COMPLETE
<1>5. CASE RECORD_REMOTE_SHA(run, run')
  BY <1>5 DEF RECORD_REMOTE_SHA
<1>6. CASE BEGIN_REMOTE_ACCEPTANCE(run, run')
  BY <1>6 DEF BEGIN_REMOTE_ACCEPTANCE
<1>7. CASE ACCEPT_EXACT_SHA(run, run')
  BY <1>7 DEF ACCEPT_EXACT_SHA
<1>8. CASE REJECT_EXACT_SHA(run, run')
  BY <1>8 DEF REJECT_EXACT_SHA
<1>9. CASE ISSUE_CORRECTION_PACKET(run, run')
  BY <1>9 DEF ISSUE_CORRECTION_PACKET
<1>10. CASE AUTHORIZE_PROMOTION(run, run')
  BY <1>10 DEF AUTHORIZE_PROMOTION
<1>11. CASE MARK_PROMOTING(run, run')
  BY <1>11 DEF MARK_PROMOTING
<1>12. CASE RECORD_PROMOTED_MAIN(run, run')
  BY <1>12 DEF RECORD_PROMOTED_MAIN
<1>13. CASE RECOVER_PROMOTED_MAIN(run, run')
  BY <1>13 DEF RECOVER_PROMOTED_MAIN
<1>14. CASE CLOSE_VERIFIED_RUN(run, run')
  BY <1>14 DEF CLOSE_VERIFIED_RUN
<1>15. CASE RECOVER_CLOSE(run, run')
  BY <1>15 DEF RECOVER_CLOSE
<1>16. CASE RECONCILE_PENDING(run, run')
  BY <1>16 DEF RECONCILE_PENDING
<1>17. CASE RECHECK_EXTERNAL_REALITY(run, run')
  BY <1>17 DEF RECHECK_EXTERNAL_REALITY
<1>18. CASE STOP(run, run')
  BY <1>18 DEF STOP, Active, WithPacket, WithIteration, WithRemote, WithAcceptance, WithPromotion, WithPromotedMain, Terminal, StopFields
<1>19. CASE BUDGET_EXHAUSTED(run, run')
  BY <1>19 DEF BUDGET_EXHAUSTED
<1>20. CASE RESUME_SOFT_WITH_REPAIR(run, run')
  BY <1>20 DEF RESUME_SOFT_WITH_REPAIR, Active, WithPacket, WithIteration, WithRemote, WithAcceptance, WithPromotion, WithPromotedMain, Terminal, StopFields
<1>21. CASE RETURN_TO_ARCHITECTURE(run, run')
  BY <1>21 DEF RETURN_TO_ARCHITECTURE, Active, WithPacket, WithIteration, WithRemote, WithAcceptance, WithPromotion, WithPromotedMain, Terminal, StopFields
<1>22. CASE RESUME_HUMAN_STOP(run, run')
  BY <1>22 DEF RESUME_HUMAN_STOP, Active, WithPacket, WithIteration, WithRemote, WithAcceptance, WithPromotion, WithPromotedMain, Terminal, StopFields
<1>23. CASE FAIL_CLOSED(run, run')
  BY <1>23 DEF FAIL_CLOSED
<1> QED
  BY <1>1, <1>2, <1>3, <1>4, <1>5, <1>6, <1>7, <1>8, <1>9, <1>10, <1>11, <1>12, <1>13, <1>14, <1>15, <1>16, <1>17, <1>18, <1>19, <1>20, <1>21, <1>22, <1>23 DEF LifecycleNext, Transition

(* The action of the entry says which of the transitions a step is. *)
LEMMA StepNamed ==
  ASSUME LifecycleNext
  PROVE  /\ Act = "ISSUE_PACKET" => ISSUE_PACKET(run, run')
         /\ Act = "BEGIN_IMPLEMENTATION" => BEGIN_IMPLEMENTATION(run, run')
         /\ Act = "ACCEPT_EXACT_SHA" => ACCEPT_EXACT_SHA(run, run')
         /\ Act = "REJECT_EXACT_SHA" => REJECT_EXACT_SHA(run, run')
         /\ Act = "AUTHORIZE_PROMOTION" => AUTHORIZE_PROMOTION(run, run')
         /\ Act = "RESUME_HUMAN_STOP" => RESUME_HUMAN_STOP(run, run')
         /\ Act = "ISSUE_CORRECTION_PACKET" => ISSUE_CORRECTION_PACKET(run, run')
<1>1. ENTER_ARCHITECTURE(run, run') => Act = "ENTER_ARCHITECTURE"
  BY DEF ENTER_ARCHITECTURE, Step, Act, LastEntry
<1>2. ISSUE_PACKET(run, run') => Act = "ISSUE_PACKET"
  BY DEF ISSUE_PACKET, Step, Act, LastEntry
<1>3. BEGIN_IMPLEMENTATION(run, run') => Act = "BEGIN_IMPLEMENTATION"
  BY DEF BEGIN_IMPLEMENTATION, Step, Act, LastEntry
<1>4. REPORT_IMPLEMENTATION_COMPLETE(run, run') => Act = "REPORT_IMPLEMENTATION_COMPLETE"
  BY DEF REPORT_IMPLEMENTATION_COMPLETE, Step, Act, LastEntry
<1>5. RECORD_REMOTE_SHA(run, run') => Act = "RECORD_REMOTE_SHA"
  BY DEF RECORD_REMOTE_SHA, Step, Act, LastEntry
<1>6. BEGIN_REMOTE_ACCEPTANCE(run, run') => Act = "BEGIN_REMOTE_ACCEPTANCE"
  BY DEF BEGIN_REMOTE_ACCEPTANCE, Step, Act, LastEntry
<1>7. ACCEPT_EXACT_SHA(run, run') => Act = "ACCEPT_EXACT_SHA"
  BY DEF ACCEPT_EXACT_SHA, Step, Act, LastEntry
<1>8. REJECT_EXACT_SHA(run, run') => Act = "REJECT_EXACT_SHA"
  BY DEF REJECT_EXACT_SHA, Step, Act, LastEntry
<1>9. ISSUE_CORRECTION_PACKET(run, run') => Act = "ISSUE_CORRECTION_PACKET"
  BY DEF ISSUE_CORRECTION_PACKET, Step, Act, LastEntry
<1>10. AUTHORIZE_PROMOTION(run, run') => Act = "AUTHORIZE_PROMOTION"
  BY DEF AUTHORIZE_PROMOTION, Step, Act, LastEntry
<1>11. MARK_PROMOTING(run, run') => Act = "MARK_PROMOTING"
  BY DEF MARK_PROMOTING, Step, Act, LastEntry
<1>12. RECORD_PROMOTED_MAIN(run, run') => Act = "RECORD_PROMOTED_MAIN"
  BY DEF RECORD_PROMOTED_MAIN, Step, Act, LastEntry
<1>13. RECOVER_PROMOTED_MAIN(run, run') => Act = "RECOVER_PROMOTED_MAIN"
  BY DEF RECOVER_PROMOTED_MAIN, Step, Act, LastEntry
<1>14. CLOSE_VERIFIED_RUN(run, run') => Act = "CLOSE_VERIFIED_RUN"
  BY DEF CLOSE_VERIFIED_RUN, Step, Act, LastEntry
<1>15. RECOVER_CLOSE(run, run') => Act = "RECOVER_CLOSE"
  BY DEF RECOVER_CLOSE, Step, Act, LastEntry
<1>16. RECONCILE_PENDING(run, run') => Act = "RECONCILE_PENDING"
  BY DEF RECONCILE_PENDING, Step, Act, LastEntry
<1>17. RECHECK_EXTERNAL_REALITY(run, run') => Act = "RECHECK_EXTERNAL_REALITY"
  BY DEF RECHECK_EXTERNAL_REALITY, Step, Act, LastEntry
<1>18. STOP(run, run') => Act = "STOP"
  BY DEF STOP, Step, Act, LastEntry
<1>19. BUDGET_EXHAUSTED(run, run') => Act = "BUDGET_EXHAUSTED"
  BY DEF BUDGET_EXHAUSTED, Step, Act, LastEntry
<1>20. RESUME_SOFT_WITH_REPAIR(run, run') => Act = "RESUME_SOFT_WITH_REPAIR"
  BY DEF RESUME_SOFT_WITH_REPAIR, Step, Act, LastEntry
<1>21. RETURN_TO_ARCHITECTURE(run, run') => Act = "RETURN_TO_ARCHITECTURE"
  BY DEF RETURN_TO_ARCHITECTURE, Step, Act, LastEntry
<1>22. RESUME_HUMAN_STOP(run, run') => Act = "RESUME_HUMAN_STOP"
  BY DEF RESUME_HUMAN_STOP, Step, Act, LastEntry
<1>23. FAIL_CLOSED(run, run') => Act = "FAIL_CLOSED"
  BY DEF FAIL_CLOSED, Step, Act, LastEntry
<1> QED
  BY <1>1, <1>2, <1>3, <1>4, <1>5, <1>6, <1>7, <1>8, <1>9, <1>10, <1>11, <1>12, <1>13, <1>14, <1>15, <1>16, <1>17, <1>18, <1>19, <1>20, <1>21, <1>22, <1>23 DEF LifecycleNext, Transition

(* What a step does to the trail, in terms of its action. *)
LEMMA StepRecords ==
  ASSUME RunInvariants(run), LifecycleNext
  PROVE  /\ run.audit \in Audit /\ run'.audit \in Audit /\ LastEntry \in Entry
         /\ run'.audit.length = run.audit.length + 1
         /\ run'.audit.begins = IF Act = "BEGIN_IMPLEMENTATION" THEN run.audit.begins + 1 ELSE run.audit.begins
         /\ run'.audit.rejects = IF Act = "REJECT_EXACT_SHA" THEN run.audit.rejects + 1 ELSE run.audit.rejects
         /\ run'.audit.accepts = IF Act = "ACCEPT_EXACT_SHA" THEN run.audit.accepts + 1 ELSE run.audit.accepts
         /\ run'.audit.grants = IF LastEntry.grant # None THEN run.audit.grants \cup {LastEntry.grant}
                                ELSE run.audit.grants
         /\ run'.audit.spent = IF Act \in TakesGrant THEN run.audit.spent + 1 ELSE run.audit.spent
         /\ run'.audit.accepted = IF Act = "ACCEPT_EXACT_SHA"
                                  THEN [sha |-> LastEntry.sha, at |-> LastEntry.at] ELSE run.audit.accepted
         /\ run'.audit.rejected = IF Act = "REJECT_EXACT_SHA"
                                  THEN [packet |-> run'.packet, sha |-> LastEntry.sha,
                                        iteration |-> run.audit.begins]
                                  ELSE run.audit.rejected
<1>1. run \in Fields /\ run' \in Fields /\ LastEntry # None
  BY StepAppends DEF RunInvariants
<1>2. run.audit \in Audit /\ run'.audit \in Audit
  BY <1>1 DEF Fields
<1>3. LastEntry \in Entry
  BY <1>1, <1>2 DEF Audit, LastEntry, Maybe
<1>4. run'.audit = Recorded(run.audit, LastEntry) /\ LastEntry.packet = run'.packet
  BY StepAppends
<1> QED
  BY <1>2, <1>3, <1>4, RecordedFields DEF Act

-----------------------------------------------------------------------------
(* The inductive invariant: what every store checks on every run, and, for  *)
(* each property, the history that the check does not see.                 *)

VerdictsCounted ==
  LET verdicts == run.audit.accepts + run.audit.rejects
  IN /\ verdicts <= run.audit.begins
     /\ Evidenced(run) \in Unjudged => verdicts < run.audit.begins

(* A new packet has a higher version, so no packet rejected before it is it. *)
RejectedEarlier ==
  LET rejected == run.audit.rejected
  IN rejected # None =>
       /\ run.packet # None
       /\ rejected.packet # None
       /\ rejected.packet.version <= run.packet.version
       /\ Evidenced(run) = "PACKET_READY" => rejected.packet.version < run.packet.version

GrantsCounted == IsFiniteSet(run.audit.grants) /\ GrantsSpentOnce

ResumedEarlier ==
  run.resumeGrant # None => run.resumeGrant.target < run.audit.length

Inductive ==
  /\ RunInvariants(run)
  /\ VerdictsCounted
  /\ IterationsWithinBudget
  /\ RejectedEarlier
  /\ CorrectionAnswersLastRejection
  /\ PromotionGrantFollowsAcceptance
  /\ GrantsCounted
  /\ ResumedEarlier

LEMMA InitInductive == LifecycleInit => Inductive
<1> SUFFICES ASSUME LifecycleInit PROVE Inductive
  OBVIOUS
<1> USE DEF LifecycleInit, FreshRun, EmptyAudit
<1>1. run \in Fields
  BY DEF Fields, Audit, States, Active, Maybe
<1>2. Evidenced(run) = "IDLE" /\ run.state \notin Stops /\ run.state = "IDLE"
  BY DEF Evidenced, Stops
<1>3. Evidenced(run) \notin WithPacket /\ Evidenced(run) \notin Unjudged
  BY <1>2 DEF Unjudged, WithPacket, WithIteration, WithRemote, WithAcceptance, WithPromotion, WithPromotedMain
<1>4. RunInvariants(run)
  BY <1>1, <1>2 DEF RunInvariants, CountersAgree, BindingHolds, CorrectionFits, StopOccurrence,
     StateEvidence, WithPacket, WithIteration, WithRemote, WithAcceptance, WithPromotion, WithPromotedMain
<1>5. VerdictsCounted
  BY <1>3 DEF VerdictsCounted
<1>6. IterationsWithinBudget
  BY <1>3 DEF IterationsWithinBudget
<1>7. RejectedEarlier /\ CorrectionAnswersLastRejection
  BY DEF RejectedEarlier, CorrectionAnswersLastRejection
<1>8. PromotionGrantFollowsAcceptance
  BY <1>2 DEF PromotionGrantFollowsAcceptance, WithPromotion, WithPromotedMain
<1>9. GrantsCounted
  BY FS_EmptySet DEF GrantsCounted, GrantsSpentOnce
<1>10. ResumedEarlier
  BY DEF ResumedEarlier
<1> QED
  BY <1>4, <1>5, <1>6, <1>7, <1>8, <1>9, <1>10 DEF Inductive

(* Only BEGIN_IMPLEMENTATION makes an iteration, and each verdict ends one. *)
LEMMA StepVerdicts ==
  ASSUME RunInvariants(run), VerdictsCounted, LifecycleNext
  PROVE  VerdictsCounted'
<1>1. Moved
  BY StepMoves
<1>2. /\ run'.audit.begins = IF Act = "BEGIN_IMPLEMENTATION" THEN run.audit.begins + 1 ELSE run.audit.begins
      /\ run'.audit.rejects = IF Act = "REJECT_EXACT_SHA" THEN run.audit.rejects + 1 ELSE run.audit.rejects
      /\ run'.audit.accepts = IF Act = "ACCEPT_EXACT_SHA" THEN run.audit.accepts + 1 ELSE run.audit.accepts
      /\ run.audit.begins \in Nat /\ run.audit.rejects \in Nat /\ run.audit.accepts \in Nat
  BY StepRecords DEF Audit
<1>3. Evidenced(run') \in Unjudged =>
        \/ Act = "BEGIN_IMPLEMENTATION"
        \/ Act \notin {"ACCEPT_EXACT_SHA", "REJECT_EXACT_SHA"} /\ Evidenced(run) \in Unjudged
  BY <1>1 DEF Moved, Progress, Progressing, Unjudged, WithIteration
<1>4. Act \in {"ACCEPT_EXACT_SHA", "REJECT_EXACT_SHA"} => Evidenced(run) \in Unjudged
  BY <1>1 DEF Moved, Progress, Progressing, Unjudged
<1> QED
  BY <1>2, <1>3, <1>4 DEF VerdictsCounted

(* The limit is checked where an iteration begins, and the packet is fixed *)
(* from there until the architect issues the next one.                     *)
LEMMA StepBudget ==
  ASSUME RunInvariants(run), IterationsWithinBudget, LifecycleNext
  PROVE  IterationsWithinBudget'
<1>1. Moved /\ Owned
  BY StepMoves
<1>2. Act = "BEGIN_IMPLEMENTATION" => run'.iterations <= run'.packet.maxIterations
  BY StepNamed DEF BEGIN_IMPLEMENTATION
<1>3. ASSUME Act # "BEGIN_IMPLEMENTATION", Evidenced(run') \in WithPacket \ {"PACKET_READY"}
      PROVE  Act # "ISSUE_PACKET" /\ Evidenced(run) \in WithPacket \ {"PACKET_READY"}
  BY <1>1, <1>3 DEF Moved, Progress, Progressing, WithPacket, WithIteration, WithRemote, WithAcceptance,
     WithPromotion, WithPromotedMain
<1> QED
  BY <1>1, <1>2, <1>3 DEF Owned, IterationsWithinBudget

(* A grant names the occurrence it resumes, which is the length of the     *)
(* trail at that stop; every later stop is later in the trail.             *)
LEMMA StepResumed ==
  ASSUME RunInvariants(run), ResumedEarlier, LifecycleNext
  PROVE  ResumedEarlier'
<1>1. Owned /\ run'.audit.length = run.audit.length + 1 /\ run.audit.length \in Nat
  BY StepMoves, StepRecords DEF Audit
<1>2. CASE Act = "RESUME_HUMAN_STOP"
  <2>1. run'.resumeGrant.target = run.stopId /\ run.state \in Stops
    BY <1>2, StepNamed DEF RESUME_HUMAN_STOP, Step, Stops
  <2>2. run.stopId = run.audit.length
    BY <2>1 DEF RunInvariants, StopOccurrence
  <2> QED
    BY <1>1, <2>1, <2>2 DEF ResumedEarlier
<1>3. CASE Act # "RESUME_HUMAN_STOP"
  <2>1. run'.resumeGrant = run.resumeGrant
    BY <1>1, <1>3 DEF Owned
  <2>2. run.resumeGrant # None => run.resumeGrant.target \in Nat
    BY DEF RunInvariants, Fields, Maybe, ResumeGrant
  <2> QED
    BY <1>1, <2>1, <2>2 DEF ResumedEarlier
<1> QED
  BY <1>2, <1>3

(* A promotion or a resume consumes its grant, which was not consumed before. *)
LEMMA StepGrants ==
  ASSUME RunInvariants(run), GrantsCounted, LifecycleNext
  PROVE  GrantsCounted'
<1>1. /\ run'.audit.grants = IF LastEntry.grant # None THEN run.audit.grants \cup {LastEntry.grant}
                             ELSE run.audit.grants
      /\ run'.audit.spent = IF Act \in TakesGrant THEN run.audit.spent + 1 ELSE run.audit.spent
      /\ run.audit.spent \in Nat
  BY StepRecords DEF Audit
<1>2. LastEntry.grant # None => Act \in TakesGrant /\ LastEntry.grant \notin run.audit.grants
  BY StepAppends
<1>3. Act \in TakesGrant => LastEntry.grant # None
  <2>1. run' \in Fields /\ RunInvariants(run')
    BY StepAppends
  <2>2. ASSUME Act = "AUTHORIZE_PROMOTION" PROVE LastEntry.grant # None
    <3>1. /\ LastEntry.grant = run'.authorization.id
          /\ Evidenced(run') \in WithPromotion
      BY <2>2, StepNamed DEF AUTHORIZE_PROMOTION, Step, LastEntry, Evidenced, Stops, WithPromotion
    <3>2. run'.authorization # None
      BY <2>1, <3>1 DEF RunInvariants, StateEvidence, PromotionEvidence
    <3>3. run'.authorization.id \in GrantIds
      BY <2>1, <3>2 DEF Fields, Maybe, PromotionGrant
    <3> QED
      BY <3>1, <3>3, NoneAssumption
  <2>3. ASSUME Act = "RESUME_HUMAN_STOP" PROVE LastEntry.grant # None
    <3>1. LastEntry.grant = run'.resumeGrant.id /\ run'.resumeGrant # None
      BY <2>3, StepNamed DEF RESUME_HUMAN_STOP, LastEntry
    <3>2. run'.resumeGrant.id \in GrantIds
      BY <2>1, <3>1 DEF Fields, Maybe, ResumeGrant
    <3> QED
      BY <3>1, <3>2, NoneAssumption
  <2> QED
    BY <2>2, <2>3 DEF TakesGrant
<1>4. IsFiniteSet(run.audit.grants) /\ run.audit.spent = Cardinality(run.audit.grants)
  BY DEF GrantsCounted, GrantsSpentOnce
<1>5. CASE LastEntry.grant = None
  BY <1>1, <1>3, <1>4, <1>5 DEF GrantsCounted, GrantsSpentOnce
<1>6. CASE LastEntry.grant # None
  <2>1. /\ IsFiniteSet(run.audit.grants \cup {LastEntry.grant})
        /\ Cardinality(run.audit.grants \cup {LastEntry.grant}) = Cardinality(run.audit.grants) + 1
    BY <1>2, <1>4, <1>6, FS_AddElement
  <2> QED
    BY <1>1, <1>2, <1>4, <1>6, <2>1 DEF GrantsCounted, GrantsSpentOnce
<1> QED
  BY <1>5, <1>6

(* The grant is checked against the acceptance where it is consumed; from  *)
(* there neither changes before the next packet.                           *)
LEMMA StepPromotion ==
  ASSUME RunInvariants(run), PromotionGrantFollowsAcceptance, LifecycleNext
  PROVE  PromotionGrantFollowsAcceptance'
<1>1. Moved /\ Owned
  BY StepMoves
<1>2. /\ run'.audit.accepted = IF Act = "ACCEPT_EXACT_SHA"
                               THEN [sha |-> LastEntry.sha, at |-> LastEntry.at] ELSE run.audit.accepted
      /\ run.audit.grants \subseteq run'.audit.grants
      /\ LastEntry.grant # None => LastEntry.grant \in run'.audit.grants
  BY StepRecords
<1>3. CASE Act = "AUTHORIZE_PROMOTION"
  <2>1. /\ LastEntry.grant = run'.authorization.id
        /\ AcceptedBy(run', run'.authorization.issuedAt)
        /\ run'.state = "PROMOTION_READY"
    BY <1>3, StepNamed DEF AUTHORIZE_PROMOTION, Step, LastEntry
  <2>2. RunInvariants(run') /\ run' \in Fields
    BY StepAppends
  <2>3. Evidenced(run') \in WithPromotion /\ Evidenced(run') \in WithAcceptance
    BY <2>1 DEF Evidenced, Stops, WithAcceptance, WithPromotion
  <2>4. DecisionBinds(run', "ACCEPT") /\ PromotionEvidence(run')
    BY <2>2, <2>3 DEF RunInvariants, StateEvidence
  <2>5. run'.authorization.id \in GrantIds
    BY <2>2, <2>4 DEF PromotionEvidence, Fields, Maybe, PromotionGrant
  <2>6. run'.authorization.id \in run'.audit.grants
    BY <1>2, <2>1, <2>5, NoneAssumption
  <2> QED
    BY <2>1, <2>4, <2>6 DEF PromotionGrantFollowsAcceptance, PromotionEvidence, DecisionBinds, AcceptedBy
<1>4. ASSUME Act # "AUTHORIZE_PROMOTION", Evidenced(run') \in WithPromotion
      PROVE  /\ Evidenced(run) \in WithPromotion
             /\ Act \notin {"ISSUE_PACKET", "BEGIN_IMPLEMENTATION", "RECORD_REMOTE_SHA",
                            "ACCEPT_EXACT_SHA", "REJECT_EXACT_SHA"}
  BY <1>1, <1>4 DEF Moved, Progress, Progressing, WithPromotion, WithPromotedMain
<1>5. ASSUME Act # "AUTHORIZE_PROMOTION", Evidenced(run') \in WithPromotion
      PROVE  /\ run'.authorization = run.authorization
             /\ run'.packet = run.packet
             /\ run'.remoteSha = run.remoteSha
             /\ run'.acceptance = run.acceptance
             /\ run'.audit.accepted = run.audit.accepted
  BY <1>1, <1>2, <1>4, <1>5 DEF Owned
<1> QED
  BY <1>2, <1>3, <1>4, <1>5 DEF PromotionGrantFollowsAcceptance, AcceptedBy

(* Versions only grow, and a packet is rejected only while it is active. *)
LEMMA StepRejectedEarlier ==
  ASSUME RunInvariants(run), RejectedEarlier, LifecycleNext
  PROVE  RejectedEarlier'
<1>1. Moved /\ Owned
  BY StepMoves
<1>2. run'.audit.rejected = IF Act = "REJECT_EXACT_SHA"
                            THEN [packet |-> run'.packet, sha |-> LastEntry.sha, iteration |-> run.audit.begins]
                            ELSE run.audit.rejected
  BY StepRecords
<1>3. RunInvariants(run') /\ run' \in Fields
  BY StepAppends
<1>4. run.packet # None => run.packet.version \in Nat
  BY PacketAssumption DEF RunInvariants, Fields, Maybe
<1>5. run'.packet # None => run'.packet.version \in Nat
  BY <1>3, PacketAssumption DEF Fields, Maybe
<1>6. CASE Act = "REJECT_EXACT_SHA"
  <2>1. Evidenced(run') = "CORRECTION_REQUIRED"
    BY <1>1, <1>6 DEF Moved, Progress, Progressing
  <2>2. run'.packet # None
    BY <1>3, <2>1 DEF RunInvariants, StateEvidence, WithPacket, WithRemote
  <2> QED
    BY <1>2, <1>5, <1>6, <2>1, <2>2 DEF RejectedEarlier
<1>7. CASE Act = "ISSUE_PACKET"
  <2>1. /\ run'.state = "PACKET_READY"
        /\ run.packet # None => run'.packet.version > run.packet.version
    BY <1>7, StepNamed DEF ISSUE_PACKET, Step
  <2>2. run'.packet # None
    BY <1>3, <2>1 DEF RunInvariants, StateEvidence, Evidenced, Stops, WithPacket
  <2>3. run'.audit.rejected = run.audit.rejected
    BY <1>2, <1>7
  <2>4. ASSUME run.audit.rejected # None
        PROVE  run.audit.rejected.packet # None /\ run.audit.rejected.packet.version < run'.packet.version
    <3>1. /\ run.packet # None
          /\ run.audit.rejected.packet # None
          /\ run.audit.rejected.packet.version <= run.packet.version
      BY <2>4 DEF RejectedEarlier
    <3>2. run.audit.rejected.packet.version \in Nat
      BY <2>4, <3>1, PacketAssumption DEF RunInvariants, Fields, Audit, Maybe
    <3> QED
      BY <1>4, <1>5, <2>1, <2>2, <3>1, <3>2
  <2>5. run.audit.rejected # None => run.audit.rejected.packet.version \in Nat
    BY <2>4, PacketAssumption DEF RunInvariants, Fields, Audit, Maybe
  <2> QED
    BY <1>5, <2>2, <2>3, <2>4, <2>5 DEF RejectedEarlier
<1>8. CASE Act \notin {"REJECT_EXACT_SHA", "ISSUE_PACKET"}
  <2>1. Evidenced(run') = "PACKET_READY" => Evidenced(run) = "PACKET_READY"
    BY <1>1, <1>8 DEF Moved, Progress
  <2> QED
    BY <1>1, <1>2, <1>8, <2>1 DEF Owned, RejectedEarlier
<1> QED
  BY <1>6, <1>7, <1>8

(* An iteration that answers a rejection begins on the correction for it. *)
LEMMA StepCorrection ==
  ASSUME RunInvariants(run), RejectedEarlier, CorrectionAnswersLastRejection, LifecycleNext
  PROVE  CorrectionAnswersLastRejection'
<1> DEFINE last == run.audit.rejected
<1> DEFINE last1 == run'.audit.rejected
<1>1. Moved /\ Owned
  BY StepMoves
<1>2. /\ last1 = IF Act = "REJECT_EXACT_SHA"
                 THEN [packet |-> run'.packet, sha |-> LastEntry.sha, iteration |-> run.audit.begins]
                 ELSE last
      /\ run.audit.begins = run.iterations
  BY StepRecords DEF RunInvariants, CountersAgree
<1>3. RunInvariants(run') /\ run' \in Fields
  BY StepAppends
<1>4. CASE Act = "REJECT_EXACT_SHA"
  <2>1. Evidenced(run') = "CORRECTION_REQUIRED"
    BY <1>1, <1>4 DEF Moved, Progress, Progressing
  <2>2. LastEntry.sha = run'.acceptance.sha
    BY <1>4, StepNamed DEF REJECT_EXACT_SHA, LastEntry
  <2>3. run'.acceptance.sha = run'.remoteSha
    BY <1>3, <2>1 DEF RunInvariants, StateEvidence, DecisionBinds
  <2>4. run'.iterations = run.iterations
    BY <1>1, <1>4 DEF Owned
  <2> QED
    BY <1>2, <1>4, <2>1, <2>2, <2>3, <2>4 DEF CorrectionAnswersLastRejection, Unjudged, WithIteration,
       WithAcceptance, WithPromotion, WithPromotedMain
<1>5. CASE Act = "ISSUE_PACKET"
  <2>1. Evidenced(run') = "PACKET_READY"
    BY <1>1, <1>5 DEF Moved, Progress, Progressing
  <2> QED
    BY <2>1 DEF CorrectionAnswersLastRejection, Unjudged, WithIteration,
       WithAcceptance, WithPromotion, WithPromotedMain
<1>6. CASE Act = "BEGIN_IMPLEMENTATION"
  <2>1. SUFFICES ASSUME last # None, run.packet # None, last.packet = run.packet
                 PROVE  run.correction = [packet |-> run.packet, rejectedSha |-> last.sha,
                                          iteration |-> last.iteration + 1]
    BY <1>1, <1>2, <1>6 DEF Owned, CorrectionAnswersLastRejection, Moved, Progress, Progressing, Unjudged,
       WithIteration
  <2>2. run.packet.version \in Nat
    BY <2>1, PacketAssumption DEF RunInvariants, Fields, Maybe
  <2>3. Evidenced(run) # "PACKET_READY"
    BY <2>1, <2>2 DEF RejectedEarlier
  <2>4. run.state = "CORRECTION_REQUIRED" /\ Evidenced(run) = "CORRECTION_REQUIRED"
    BY <1>6, <2>3, StepNamed DEF BEGIN_IMPLEMENTATION, Step, Evidenced, Stops
  <2>5. HoldsCurrentCorrection(run)
    BY <1>6, <2>4, StepNamed DEF BEGIN_IMPLEMENTATION
  <2>6. last.iteration = run.iterations /\ last.sha = run.remoteSha
    BY <2>1, <2>4 DEF CorrectionAnswersLastRejection, Unjudged, WithIteration, WithAcceptance, WithPromotion,
       WithPromotedMain
  <2>7. run.correction \in Correction
    BY <2>5 DEF HoldsCurrentCorrection, RunInvariants, Fields, Maybe
  <2> QED
    BY <2>5, <2>6, <2>7 DEF HoldsCurrentCorrection, Correction
<1>7. CASE Act \notin {"REJECT_EXACT_SHA", "ISSUE_PACKET", "BEGIN_IMPLEMENTATION"}
  <2>1. /\ run'.packet = run.packet
        /\ run'.iterations = run.iterations
        /\ last1 = last
    BY <1>1, <1>2, <1>7 DEF Owned
  <2>2. CASE Evidenced(run') \in Unjudged \cup WithAcceptance
    <3>1. Evidenced(run) \in Unjudged \cup WithAcceptance
      BY <1>1, <1>7, <2>2 DEF Moved, Progress, Progressing, Unjudged, WithIteration, WithAcceptance,
         WithPromotion, WithPromotedMain
    <3>2. Act # "ISSUE_CORRECTION_PACKET"
      BY <3>1, StepNamed DEF ISSUE_CORRECTION_PACKET, Step, Evidenced, Stops, Unjudged, WithIteration,
         WithAcceptance, WithPromotion, WithPromotedMain
    <3>3. run'.correction = run.correction
      BY <1>1, <1>7, <3>2 DEF Owned
    <3>4. ASSUME last # None, run.packet # None, last.packet = run.packet
          PROVE  run.correction = [packet |-> run.packet, rejectedSha |-> last.sha,
                                   iteration |-> last.iteration + 1]
      BY <3>1, <3>4 DEF CorrectionAnswersLastRejection
    <3> QED
      BY <2>1, <2>2, <3>3, <3>4 DEF CorrectionAnswersLastRejection, Unjudged, WithIteration,
         WithAcceptance, WithPromotion, WithPromotedMain
  <2>3. CASE Evidenced(run') = "CORRECTION_REQUIRED"
    <3>1. Evidenced(run) = "CORRECTION_REQUIRED"
      BY <1>1, <1>7, <2>3 DEF Moved, Progress, Progressing
    <3>2. run'.remoteSha = run.remoteSha
      BY <1>1, <1>7, <3>1 DEF Moved, Progress, Progressing, Owned
    <3> QED
      BY <2>1, <2>3, <3>1, <3>2 DEF CorrectionAnswersLastRejection, Unjudged, WithIteration,
         WithAcceptance, WithPromotion, WithPromotedMain
  <2> QED
    BY <2>2, <2>3 DEF CorrectionAnswersLastRejection
<1> QED
  BY <1>4, <1>5, <1>6, <1>7

-----------------------------------------------------------------------------
(* The theorems *)

LEMMA StepInductive == Inductive /\ [LifecycleNext]_run => Inductive'
<1>1. ASSUME Inductive, LifecycleNext PROVE Inductive'
  BY <1>1, StepAppends, StepVerdicts, StepBudget, StepRejectedEarlier, StepCorrection, StepPromotion,
     StepGrants, StepResumed DEF Inductive
<1>2. ASSUME Inductive, UNCHANGED run PROVE Inductive'
  BY <1>2 DEF Inductive, VerdictsCounted, IterationsWithinBudget, RejectedEarlier,
     CorrectionAnswersLastRejection, PromotionGrantFollowsAcceptance, GrantsCounted, GrantsSpentOnce,
     ResumedEarlier
<1> QED
  BY <1>1, <1>2

LEMMA InductiveHolds == LifecycleSpec => []Inductive
  BY InitInductive, StepInductive, PTL DEF LifecycleSpec

(* No iteration is judged twice, nor before it was reviewed. *)
THEOREM VerdictsCorrect == LifecycleSpec => []OneVerdictPerIteration
<1>1. Inductive => OneVerdictPerIteration
  BY DEF Inductive, RunInvariants, CountersAgree, VerdictsCounted, OneVerdictPerIteration
<1> QED
  BY <1>1, InductiveHolds, PTL

(* No packet is implemented more often than it allows. *)
THEOREM BudgetCorrect == LifecycleSpec => []IterationsWithinBudget
<1>1. Inductive => IterationsWithinBudget
  BY DEF Inductive
<1> QED
  BY <1>1, InductiveHolds, PTL

(* No correction of an earlier rejection answers a later one. *)
THEOREM CorrectionCorrect == LifecycleSpec => []CorrectionAnswersLastRejection
<1>1. Inductive => CorrectionAnswersLastRejection
  BY DEF Inductive
<1> QED
  BY <1>1, InductiveHolds, PTL

(* Only what a human authorized after its acceptance is promoted. *)
THEOREM PromotionCorrect == LifecycleSpec => []PromotionGrantFollowsAcceptance
<1>1. Inductive => PromotionGrantFollowsAcceptance
  BY DEF Inductive
<1> QED
  BY <1>1, InductiveHolds, PTL

(* No grant authorizes twice. *)
THEOREM GrantsCorrect == LifecycleSpec => []GrantsSpentOnce
<1>1. Inductive => GrantsSpentOnce
  BY DEF Inductive, GrantsCounted
<1> QED
  BY <1>1, InductiveHolds, PTL

(* A grant that resumed one stop cannot resume a later one. *)
THEOREM ResumeCorrect == LifecycleSpec => []ResumeGrantNamesOneStop
<1>1. Inductive => ResumeGrantNamesOneStop
  <2>1. ASSUME RunInvariants(run)
        PROVE  run.audit.length \in Nat /\ (run.resumeGrant # None => run.resumeGrant.target \in Nat)
    BY <2>1 DEF RunInvariants, Fields, Audit, Maybe, ResumeGrant
  <2> QED
    BY <2>1 DEF Inductive, RunInvariants, StopOccurrence, ResumedEarlier, ResumeGrantNamesOneStop
<1> QED
  BY <1>1, InductiveHolds, PTL

(* Nothing is recorded on unchecked external reality after a human resume. *)
THEOREM RecheckCorrect == LifecycleSpec => RecheckPrecedesEvidence
<1>1. ASSUME Inductive, [LifecycleNext]_run
      PROVE  [run.recheck => \/ Evidence(run') = Evidence(run)
                             \/ run'.state = "PACKET_READY" /\ run'.acceptance = None]_run
  <2>1. CASE UNCHANGED run
    BY <2>1
  <2>2. CASE LifecycleNext
    <3>1. Owned /\ ~(run.recheck /\ Act \in AwaitsRecheck)
      BY <1>1, <2>2, StepMoves, StepAppends DEF Inductive
    <3>2. Act = "ISSUE_PACKET" => run'.state = "PACKET_READY" /\ run'.acceptance = None
      BY <2>2, StepNamed DEF ISSUE_PACKET, Step
    <3> QED
      BY <3>1, <3>2 DEF Owned, AwaitsRecheck, Evidence
  <2> QED
    BY <1>1, <2>1, <2>2
<1> QED
  BY <1>1, InductiveHolds, PTL DEF LifecycleSpec, RecheckPrecedesEvidence

=============================================================================
