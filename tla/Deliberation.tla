----------------------------- MODULE Deliberation -----------------------------
(***************************************************************************)
(* The deliberation ledger of src/stress-test/deliberation.ts: questions   *)
(* left open by a review, the routes decided for them, and what became of  *)
(* each.  A question is worked on in cycles                                *)
(*     decision -> attempt -> outcome -> disposition                       *)
(* of which it has at most one at a time; a terminal disposition closes    *)
(* the question, and SUPERSEDED_RECLASSIFIED replaces it by a new one.     *)
(*                                                                         *)
(* Every operation of the code takes a DeliberationState and returns the   *)
(* next one, or throws and leaves it: one action each.  A decision is      *)
(* attempted at most once, an attempt has at most one outcome, an outcome  *)
(* at most one disposition, so all four are named by the decision's id.    *)
(* Of a question's references the model keeps how many are distinct, and   *)
(* of an outcome's payload what a later guard reads.  The integrity        *)
(* assertions the code runs before every read are the invariants           *)
(* OneActiveCycle and LineageSound: they never refuse a reachable state.   *)
(***************************************************************************)
EXTENDS Integers, FiniteSets

CONSTANTS
  Questions,       \* ids of unresolved questions
  Decisions,       \* ids of route decisions
  QuestionInputs,  \* <<rootCause, distinct references>> a caller may ask about
  Reviewers,       \* reviewerRunIds
  Latencies,       \* latencyConsumed values
  Ceilings,        \* the budgets a deliberation may be created with
  None

RootCauses == {"CONTEXT_GAP", "EVIDENCE_GAP", "STABILITY_QUESTION", "COVERAGE_GAP",
               "DECISION_SENSITIVE_CONFLICT"}

ASSUME DeliberationAssumption ==
  /\ Decisions \subseteq Nat /\ IsFiniteSet(Decisions)
  /\ QuestionInputs \subseteq RootCauses \X {1, 2}
  /\ Latencies \subseteq Nat
  /\ Ceilings \subseteq [cost: Nat, latency: Nat]
  /\ Reviewers \cap {"SUPPLIED", "DECLINED", "NO_RESPONSE", "RESULT"} = {}

VARIABLES
  questions,     \* id -> the registered question, or None
  planned,       \* decision id -> the question it was planned for, or None
  history,       \* the decisions recorded
  attempts,      \* the decisions whose attempt was started
  requests,      \* the attempts with a ContextRequest
  outcomes,      \* attempt -> its outcome, or None
  dispositions,  \* attempt -> the disposition of its outcome, or None
  lineages,      \* the SUPPLIED outcomes that opened a child session
  subjects,      \* the questions with an EvidenceSubject
  ceiling,       \* costBudget.ceiling and latencyBudget.ceiling
  cost, latency, \* what was spent of each budget
  stopped        \* stopReason is set

ledger == <<questions, planned, history, attempts, requests, outcomes, dispositions,
            lineages, subjects, ceiling, cost, latency, stopped>>

-----------------------------------------------------------------------------
(* What the ledger records *)

RouteOf(cause) ==
  CASE cause = "CONTEXT_GAP"                 -> "ADD_CONTEXT"
    [] cause = "EVIDENCE_GAP"                -> "SEEK_EVIDENCE"
    [] cause = "STABILITY_QUESTION"          -> "REPLICATE"
    [] cause = "COVERAGE_GAP"                -> "ADD_REVIEWER"
    [] cause = "DECISION_SENSITIVE_CONFLICT" -> "TARGETED_PEER_CHALLENGE"

Question == [cause: RootCauses, refs: {1, 2}, from: Questions \cup {None}]

Payloads == Reviewers \cup {"SUPPLIED", "DECLINED", "NO_RESPONSE", "RESULT", None}
Outcome == [status: {"SUCCEEDED", "INCONCLUSIVE", "FAILED"}, payload: Payloads,
            latency: Latencies \cup {0}]

Dispositions == {"STILL_OPEN", "RESOLVED", "SUPERSEDED_RECLASSIFIED", "CROSS_SESSION"}
Terminal == Dispositions \ {"STILL_OPEN"}

(* None is none of the values it stands for the absence of. *)
ASSUME NoneAssumption ==
  /\ None \notin Questions /\ None \notin Reviewers /\ None \notin Dispositions
  /\ None \notin Question /\ None \notin Outcome

Registered == {q \in Questions : questions[q] # None}
Route(d) == RouteOf(questions[planned[d]].cause)

-----------------------------------------------------------------------------
(* What is derived from it on every read *)

IsCurrent(q) == \A d \in history : planned[d] = q => dispositions[d] \notin Terminal

(* A decision is active from its recording to its outcome's disposition. *)
Active(q) == {d \in history : planned[d] = q /\ dispositions[d] = None}

Owns(d) == IsCurrent(planned[d]) /\ Active(planned[d]) = {d}

(* assertTargetedPeerChallengeInputRefs: both sides of a conflict are named. *)
TwoSided(cause, refs) == cause = "DECISION_SENSITIVE_CONFLICT" => refs >= 2

Ready(q) ==
  /\ questions[q].cause = "EVIDENCE_GAP" => q \in subjects
  /\ TwoSided(questions[q].cause, questions[q].refs)

(* Mutant of Routable: an open cycle of the question does not count. *)
RoutableAgain(q) == q \in Registered /\ IsCurrent(q) /\ Ready(q)

Routable(q) == q \in Registered /\ IsCurrent(q) /\ Active(q) = {} /\ Ready(q)

-----------------------------------------------------------------------------
(* Questions and what they need before they can be routed *)

LedgerInit ==
  /\ questions = [q \in Questions |-> None]
  /\ planned = [d \in Decisions |-> None]
  /\ history = {} /\ attempts = {} /\ requests = {} /\ lineages = {} /\ subjects = {}
  /\ outcomes = [d \in Decisions |-> None]
  /\ dispositions = [d \in Decisions |-> None]
  /\ ceiling \in Ceilings /\ cost = 0 /\ latency = 0
  /\ stopped = FALSE

RegisterQuestion(q, cause, refs) ==
  /\ ~stopped
  /\ q \notin Registered
  /\ TwoSided(cause, refs)
  /\ questions' = [questions EXCEPT ![q] = [cause |-> cause, refs |-> refs, from |-> None]]
  /\ UNCHANGED <<planned, history, attempts, requests, outcomes, dispositions, lineages,
                 subjects, ceiling, cost, latency, stopped>>

RegisterEvidenceSubject(q) ==
  /\ ~stopped
  /\ q \in Registered /\ questions[q].cause = "EVIDENCE_GAP"
  /\ IsCurrent(q)
  /\ q \notin subjects
  /\ subjects' = subjects \cup {q}
  /\ UNCHANGED <<questions, planned, history, attempts, requests, outcomes, dispositions,
                 lineages, ceiling, cost, latency, stopped>>

-----------------------------------------------------------------------------
(* Decisions.  Planning writes nothing: the caller holds the decision, and  *)
(* may present it after the ledger has moved on.                            *)

PlanRoute(d, q) ==
  /\ ~stopped
  /\ planned[d] = None
  /\ Routable(q)
  /\ planned' = [planned EXCEPT ![d] = q]
  /\ UNCHANGED <<questions, history, attempts, requests, outcomes, dispositions, lineages,
                 subjects, ceiling, cost, latency, stopped>>

RecordRouteDecision(d) ==
  /\ ~stopped
  /\ planned[d] # None /\ d \notin history
  /\ Routable(planned[d])
  /\ history' = history \cup {d}
  /\ UNCHANGED <<questions, planned, attempts, requests, outcomes, dispositions, lineages,
                 subjects, ceiling, cost, latency, stopped>>

RecordStop ==
  /\ ~stopped
  /\ stopped' = TRUE
  /\ UNCHANGED <<questions, planned, history, attempts, requests, outcomes, dispositions,
                 lineages, subjects, ceiling, cost, latency>>

-----------------------------------------------------------------------------
(* Attempts and outcomes *)

LogicalCost(d) == IF Route(d) = "ADD_CONTEXT" THEN 0 ELSE 1

Affordable(d) == cost + LogicalCost(d) <= ceiling.cost

RecordRouteAttemptStart(d) ==
  /\ ~stopped
  /\ d \in history \ attempts
  /\ Owns(d)
  /\ Ready(planned[d])
  /\ Affordable(d)
  /\ attempts' = attempts \cup {d}
  /\ cost' = cost + LogicalCost(d)
  /\ UNCHANGED <<questions, planned, history, requests, outcomes, dispositions, lineages,
                 subjects, ceiling, latency, stopped>>

CreateContextRequest(d) ==
  /\ ~stopped
  /\ d \in attempts \ requests
  /\ Route(d) = "ADD_CONTEXT"
  /\ Owns(d)
  /\ requests' = requests \cup {d}
  /\ UNCHANGED <<questions, planned, history, attempts, outcomes, dispositions, lineages,
                 subjects, ceiling, cost, latency, stopped>>

(* A reviewer run counts for one successful outcome. *)
ReviewersUsed == {outcomes[d].payload : d \in {e \in attempts : /\ outcomes[e] # None
                                                               /\ outcomes[e].payload \in Reviewers}}

(* Mutant of Succeeds: a reviewer run may be claimed again. *)
SucceedsAgain(d, payload) ==
  CASE Route(d) = "ADD_REVIEWER" -> payload \in Reviewers
    [] Route(d) = "ADD_CONTEXT"  -> payload \in {"SUPPLIED", "DECLINED"} /\ d \in requests
    [] OTHER                     -> payload = "RESULT" /\ Ready(planned[d])

Succeeds(d, payload) ==
  CASE Route(d) = "ADD_REVIEWER" -> payload \in Reviewers \ ReviewersUsed
    [] Route(d) = "ADD_CONTEXT"  -> payload \in {"SUPPLIED", "DECLINED"} /\ d \in requests
    [] OTHER                     -> payload = "RESULT" /\ Ready(planned[d])

(* The results recordRouteOutcome takes for the attempt's route. *)
Recordable(d, o) ==
  \/ o.status = "FAILED" /\ o.payload = None
  \/ /\ o.status = "INCONCLUSIVE" /\ o.payload = None
     /\ Route(d) = "SEEK_EVIDENCE" /\ Ready(planned[d])
  \/ o.status = "SUCCEEDED" /\ Succeeds(d, o.payload)

(* Mutant of Fits: the spending is checked after the fact. *)
FitsSoFar(spent) == latency <= ceiling.latency

Fits(spent) == latency + spent <= ceiling.latency

Terminalizes(d, o) ==
  /\ ~stopped
  /\ d \in attempts /\ outcomes[d] = None
  /\ Owns(d)
  /\ Fits(o.latency)
  /\ outcomes' = [outcomes EXCEPT ![d] = o]
  /\ latency' = latency + o.latency
  /\ UNCHANGED <<questions, planned, history, attempts, requests, dispositions, lineages,
                 subjects, ceiling, cost, stopped>>

RecordRouteOutcome(d, o) == Terminalizes(d, o) /\ Recordable(d, o)

NoResponse(spent) == [status |-> "SUCCEEDED", payload |-> "NO_RESPONSE", latency |-> spent]

CloseContextRequestWithoutResponse(d, spent) ==
  /\ d \in requests
  /\ Terminalizes(d, NoResponse(spent))

-----------------------------------------------------------------------------
(* Dispositions *)

Disposes(d, kind) ==
  /\ ~stopped
  /\ d \in attempts /\ outcomes[d] # None /\ dispositions[d] = None
  /\ Owns(d)
  /\ dispositions' = [dispositions EXCEPT ![d] = kind]
  /\ UNCHANGED <<planned, history, attempts, requests, outcomes, subjects, ceiling, cost, latency,
                 stopped>>

RecordQuestionDisposition(d, kind) ==
  /\ kind \in {"STILL_OPEN", "RESOLVED"}
  /\ Disposes(d, kind)
  /\ UNCHANGED <<questions, lineages>>

(* Mutant of Supersede: the replacement does not say what it replaces. *)
SupersedeUnlinked(d, r, cause, refs) ==
  /\ Disposes(d, "SUPERSEDED_RECLASSIFIED")
  /\ r \notin Registered
  /\ questions' = [questions EXCEPT ![r] = [cause |-> cause, refs |-> refs, from |-> None]]
  /\ UNCHANGED lineages

(* The replacement is registered in the same write.  Its references are     *)
(* checked to be there, not to be two.                                      *)
Supersede(d, r, cause, refs) ==
  /\ Disposes(d, "SUPERSEDED_RECLASSIFIED")
  /\ r \notin Registered
  /\ \A q \in Registered : questions[q].from # planned[d]
  /\ questions' = [questions EXCEPT ![r] = [cause |-> cause, refs |-> refs,
                                            from |-> planned[d]]]
  /\ UNCHANGED lineages

CreateCrossSessionTransition(d) ==
  /\ outcomes[d] # None /\ outcomes[d].payload = "SUPPLIED"
  /\ d \in requests \ lineages
  /\ Disposes(d, "CROSS_SESSION")
  /\ lineages' = lineages \cup {d}
  /\ UNCHANGED questions

-----------------------------------------------------------------------------
(* The operations that spend no latency, and the whole ledger *)

Ask ==
  \E q \in Questions, input \in QuestionInputs :
    \/ RegisterQuestion(q, input[1], input[2])
    \/ \E d \in Decisions : Supersede(d, q, input[1], input[2])

Deliberate ==
  \/ Ask
  \/ \E q \in Questions : RegisterEvidenceSubject(q) \/ \E d \in Decisions : PlanRoute(d, q)
  \/ \E d \in Decisions :
       \/ RecordRouteDecision(d) \/ RecordRouteAttemptStart(d)
       \/ CreateContextRequest(d) \/ CreateCrossSessionTransition(d)
       \/ \E kind \in {"STILL_OPEN", "RESOLVED"} : RecordQuestionDisposition(d, kind)
  \/ RecordStop

SpendLatency(d) ==
  \/ \E o \in Outcome : RecordRouteOutcome(d, o)
  \/ \E spent \in Latencies : CloseContextRequestWithoutResponse(d, spent)

LedgerNext == Deliberate \/ \E d \in Decisions : SpendLatency(d)
LedgerSpec == LedgerInit /\ [][LedgerNext]_ledger

-----------------------------------------------------------------------------
(* Properties *)

(* The ledger has its shape, and neither budget is overdrawn.               *)
LedgerTypeOK ==
  /\ questions \in [Questions -> Question \cup {None}]
  /\ planned \in [Decisions -> Questions \cup {None}]
  /\ history \subseteq Decisions /\ attempts \subseteq history /\ requests \subseteq attempts
  /\ outcomes \in [Decisions -> Outcome \cup {None}]
  /\ dispositions \in [Decisions -> Dispositions \cup {None}]
  /\ lineages \subseteq requests
  /\ subjects \subseteq Registered
  /\ ceiling \in Ceilings
  /\ cost \in 0 .. ceiling.cost /\ latency \in 0 .. ceiling.latency
  /\ stopped \in BOOLEAN

(* A question is worked on by one decision at a time, and by none once it   *)
(* is closed, however late a planned decision is presented: what every      *)
(* operation checks of its own question holds of all of them                *)
(* (getActiveRouteDecisionsForQuestion finds no inconsistent state).        *)
OneActiveCycle ==
  \A q \in Questions :
    /\ \A d, e \in Active(q) : d = e
    /\ Active(q) # {} => IsCurrent(q)
    /\ \A d, e \in history : /\ planned[d] = q /\ dispositions[d] \in Terminal
                            /\ planned[e] = q /\ dispositions[e] \in Terminal
                            => d = e

(* The readers' lineage assertions accept every ledger the writers leave:   *)
(* a question derives from one that was superseded and no other does, every *)
(* superseded question has its replacement, no question is its own          *)
(* ancestor, and a question left to another session is left by the one      *)
(* answer that opened it (assertDerivedQuestionLineageIntegrity,            *)
(* assertCrossSessionLineageIntegrity).                                     *)
LineageSound ==
  /\ \A q \in Registered : questions[q].from # None =>
       /\ questions[q].from \in Registered
       /\ \E d \in history : /\ planned[d] = questions[q].from
                            /\ dispositions[d] = "SUPERSEDED_RECLASSIFIED"
       /\ \A r \in Registered : questions[r].from = questions[q].from => r = q
  /\ \A d \in history : dispositions[d] = "SUPERSEDED_RECLASSIFIED" =>
       \E r \in Registered : questions[r].from = planned[d]
  /\ \A family \in (SUBSET Registered) \ {{}} :
       \E q \in family : questions[q].from \notin family
  /\ \A d \in Decisions :
       /\ dispositions[d] = "CROSS_SESSION" <=> d \in lineages
       /\ d \in lineages => outcomes[d].payload = "SUPPLIED"

(* One reviewer run is the success of one ADD_REVIEWER attempt, although    *)
(* two calls may be in flight when it answers                               *)
(* (assertAddReviewerOutcomePayloadIntegrity).                              *)
ReviewersCountedOnce ==
  \A d, e \in attempts : /\ outcomes[d] # None /\ outcomes[d].payload \in Reviewers
                         /\ outcomes[e] # None /\ outcomes[e].payload = outcomes[d].payload
                         => d = e

(* A registered question about a conflict names two distinct sides          *)
(* (invariant 30 of the lifecycle contract, formalised at registration).    *)
ConflictsAreTwoSided ==
  \A q \in Registered : TwoSided(questions[q].cause, questions[q].refs)
=============================================================================
