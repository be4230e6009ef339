------------------------ MODULE RouteExecution_proofs ------------------------
(***************************************************************************)
(* Proofs about Deliberation and RouteExecution: what holds of every       *)
(* ledger and its checkpoints, for any questions, decisions, reviewers,    *)
(* budgets and latencies.  What the attempts add up to is MapThenSumSet of *)
(* the community modules, a recursive function; the lemmas on sums say     *)
(* what it adds up, by induction over sets (well-founded sets of naturals, *)
(* so that no theorem with an operator for parameter is needed).           *)
(***************************************************************************)
EXTENDS RouteExecution, FiniteSetTheorems, WellFoundedInduction, TLAPS

(* The ledger is filled in the order of a cycle. *)
CycleOrder ==
  /\ \A d \in Decisions : planned[d] # None => planned[d] \in Registered
  /\ \A d \in history : planned[d] # None
  /\ \A d \in Decisions : outcomes[d] # None => d \in attempts
  /\ \A d \in Decisions : dispositions[d] # None => outcomes[d] # None

LedgerInv == LedgerTypeOK /\ CycleOrder /\ OneActiveCycle /\ LineageSound /\ ReviewersCountedOnce

(* What an operation that writes an outcome does, whichever it is. *)
OutcomeWritten(d, o) ==
  /\ Terminalizes(d, o)
  /\ o \in Outcome
  /\ o.payload \in Reviewers => o.payload \notin ReviewersUsed

Disposed(d, kind) ==
  /\ Disposes(d, kind) /\ kind \in Dispositions \ {"SUPERSEDED_RECLASSIFIED"}
  /\ UNCHANGED questions
  /\ IF kind = "CROSS_SESSION"
     THEN outcomes[d].payload = "SUPPLIED" /\ lineages' = lineages \cup {d} /\ d \in requests \ lineages
     ELSE lineages' = lineages

(* Every step of the ledger is one of these. *)
LEMMA LedgerSteps ==
  ASSUME LedgerNext
  PROVE  \/ \E q \in Questions, cause \in RootCauses, refs \in {1, 2} : RegisterQuestion(q, cause, refs)
         \/ \E q \in Questions : RegisterEvidenceSubject(q)
         \/ \E q \in Questions, d \in Decisions : PlanRoute(d, q)
         \/ \E d \in Decisions : RecordRouteDecision(d)
         \/ \E d \in Decisions : RecordRouteAttemptStart(d)
         \/ \E d \in Decisions : CreateContextRequest(d)
         \/ \E d \in Decisions, o \in Outcome : OutcomeWritten(d, o)
         \/ \E d \in Decisions, kind \in Dispositions : Disposed(d, kind)
         \/ \E d \in Decisions, q \in Questions, cause \in RootCauses, refs \in {1, 2} :
              Supersede(d, q, cause, refs)
         \/ RecordStop
<1>1. CASE Ask
  <2>1. PICK q \in Questions, input \in QuestionInputs :
          \/ RegisterQuestion(q, input[1], input[2])
          \/ \E d \in Decisions : Supersede(d, q, input[1], input[2])
    BY <1>1 DEF Ask
  <2>2. input[1] \in RootCauses /\ input[2] \in {1, 2}
    BY DeliberationAssumption
  <2> QED
    BY <2>1, <2>2
<1>2. ASSUME NEW d \in Decisions, NEW o \in Outcome, RecordRouteOutcome(d, o)
      PROVE  OutcomeWritten(d, o)
  BY <1>2, DeliberationAssumption, NoneAssumption DEF RecordRouteOutcome, Recordable, Succeeds, OutcomeWritten
<1>3. ASSUME NEW d \in Decisions, NEW spent \in Latencies, CloseContextRequestWithoutResponse(d, spent)
      PROVE  NoResponse(spent) \in Outcome /\ OutcomeWritten(d, NoResponse(spent))
  BY <1>3, DeliberationAssumption
     DEF CloseContextRequestWithoutResponse, OutcomeWritten, NoResponse, Outcome, Payloads
<1>4. ASSUME NEW d \in Decisions, NEW kind \in {"STILL_OPEN", "RESOLVED"}, RecordQuestionDisposition(d, kind)
      PROVE  Disposed(d, kind)
  BY <1>4 DEF RecordQuestionDisposition, Disposed, Dispositions
<1>5. ASSUME NEW d \in Decisions, CreateCrossSessionTransition(d)
      PROVE  Disposed(d, "CROSS_SESSION")
  BY <1>5 DEF CreateCrossSessionTransition, Disposed, Dispositions
<1>6. {"STILL_OPEN", "RESOLVED", "CROSS_SESSION"} \subseteq Dispositions
  BY DEF Dispositions
<1> QED
  BY <1>1, <1>2, <1>3, <1>4, <1>5, <1>6 DEF LedgerNext, Deliberate, SpendLatency

(* What every question and decision is. *)
LEMMA LedgerTypeStep ==
  ASSUME LedgerInv, LedgerNext
  PROVE  LedgerTypeOK'
<1> USE DEF LedgerInv, LedgerTypeOK
<1>1. ASSUME NEW q \in Questions, NEW cause \in RootCauses, NEW refs \in {1, 2},
             RegisterQuestion(q, cause, refs)
      PROVE  LedgerTypeOK'
  BY <1>1 DEF RegisterQuestion, Question, Registered
<1>2. ASSUME NEW q \in Questions, RegisterEvidenceSubject(q)
      PROVE  LedgerTypeOK'
  BY <1>2 DEF RegisterEvidenceSubject, Registered
<1>3. ASSUME NEW q \in Questions, NEW d \in Decisions, PlanRoute(d, q)
      PROVE  LedgerTypeOK'
  BY <1>3 DEF PlanRoute, Registered
<1>4. ASSUME NEW d \in Decisions, RecordRouteDecision(d)
      PROVE  LedgerTypeOK'
  BY <1>4 DEF RecordRouteDecision, Registered
<1>5. ASSUME NEW d \in Decisions, RecordRouteAttemptStart(d)
      PROVE  LedgerTypeOK'
  BY <1>5, DeliberationAssumption DEF RecordRouteAttemptStart, Registered, Affordable, LogicalCost
<1>6. ASSUME NEW d \in Decisions, CreateContextRequest(d)
      PROVE  LedgerTypeOK'
  BY <1>6 DEF CreateContextRequest, Registered
<1>7. ASSUME NEW d \in Decisions, NEW o \in Outcome, OutcomeWritten(d, o)
      PROVE  LedgerTypeOK'
  <2>1. o.latency \in Nat /\ ceiling.latency \in Nat
    <3>1. o.latency \in Latencies \cup {0}
      BY DEF Outcome
    <3>2. ceiling \in [cost: Nat, latency: Nat]
      BY DeliberationAssumption
    <3>3. Latencies \subseteq Nat
      BY DeliberationAssumption
    <3> HIDE DEF LedgerInv, LedgerTypeOK
    <3>4. o.latency \in Nat
      <4>1. 0 \in Nat
        OBVIOUS
      <4> QED
        BY Zenon, <3>1, <3>3, <4>1
    <3>5. ceiling.latency \in Nat
      BY <3>2
    <3> QED
      BY <3>4, <3>5
  <2>2. latency + o.latency \in 0 .. ceiling.latency
    BY <1>7, <2>1 DEF OutcomeWritten, Terminalizes, Fits
  <2> QED
    BY <1>7, <2>2 DEF OutcomeWritten, Terminalizes, Registered
<1>8. ASSUME NEW d \in Decisions, NEW kind \in Dispositions, Disposed(d, kind)
      PROVE  LedgerTypeOK'
  BY <1>8 DEF Disposed, Disposes, Registered
<1>9. ASSUME NEW d \in Decisions, NEW q \in Questions, NEW cause \in RootCauses, NEW refs \in {1, 2},
             Supersede(d, q, cause, refs)
      PROVE  LedgerTypeOK'
  <2>1. "SUPERSEDED_RECLASSIFIED" \in Dispositions
    BY DEF Dispositions
  <2> QED
    BY <1>9, <2>1 DEF Supersede, Disposes, Question, Registered
<1>10. CASE RecordStop
  BY <1>10 DEF RecordStop, Registered
<1> QED
  BY <1>1, <1>2, <1>3, <1>4, <1>5, <1>6, <1>7, <1>8, <1>9, <1>10, LedgerSteps

LEMMA CycleOrderStep ==
  ASSUME LedgerInv, LedgerNext
  PROVE  CycleOrder'
<1> USE DEF LedgerInv, LedgerTypeOK, CycleOrder, Registered
<1>1. ASSUME NEW q \in Questions, NEW cause \in RootCauses, NEW refs \in {1, 2},
             RegisterQuestion(q, cause, refs)
      PROVE  CycleOrder'
  BY <1>1 DEF RegisterQuestion
<1>2. ASSUME NEW q \in Questions, RegisterEvidenceSubject(q)
      PROVE  CycleOrder'
  BY <1>2 DEF RegisterEvidenceSubject
<1>3. ASSUME NEW q \in Questions, NEW d \in Decisions, PlanRoute(d, q)
      PROVE  CycleOrder'
  BY <1>3 DEF PlanRoute, Routable
<1>4. ASSUME NEW d \in Decisions, RecordRouteDecision(d)
      PROVE  CycleOrder'
  BY <1>4 DEF RecordRouteDecision
<1>5. ASSUME NEW d \in Decisions, RecordRouteAttemptStart(d)
      PROVE  CycleOrder'
  BY <1>5 DEF RecordRouteAttemptStart
<1>6. ASSUME NEW d \in Decisions, CreateContextRequest(d)
      PROVE  CycleOrder'
  BY <1>6 DEF CreateContextRequest
<1>7. ASSUME NEW d \in Decisions, NEW o \in Outcome, OutcomeWritten(d, o)
      PROVE  CycleOrder'
  BY <1>7 DEF OutcomeWritten, Terminalizes
<1>8. ASSUME NEW d \in Decisions, NEW kind \in Dispositions, Disposed(d, kind)
      PROVE  CycleOrder'
  BY <1>8 DEF Disposed, Disposes
<1>9. ASSUME NEW d \in Decisions, NEW q \in Questions, NEW cause \in RootCauses, NEW refs \in {1, 2},
             Supersede(d, q, cause, refs)
      PROVE  CycleOrder'
  BY <1>9 DEF Supersede, Disposes
<1>10. CASE RecordStop
  BY <1>10 DEF RecordStop
<1> QED
  BY <1>1, <1>2, <1>3, <1>4, <1>5, <1>6, <1>7, <1>8, <1>9, <1>10, LedgerSteps

(* An operation that leaves the cycles alone keeps OneActiveCycle. *)
LEMMA CyclesUntouched ==
  ASSUME OneActiveCycle, CycleOrder, history' = history, dispositions' = dispositions,
         \A d \in history : planned'[d] = planned[d]
  PROVE  OneActiveCycle'
  BY DEF OneActiveCycle, Active, IsCurrent

LEMMA CycleClosed ==
  ASSUME LedgerInv, NEW d \in Decisions, NEW kind \in Dispositions, Disposes(d, kind)
  PROVE  OneActiveCycle'
<1>1. /\ dispositions' = [dispositions EXCEPT ![d] = kind] /\ dispositions \in [Decisions -> Dispositions \cup {None}]
      /\ history' = history /\ planned' = planned /\ kind # None
      /\ d \in history /\ history \subseteq Decisions /\ dispositions[d] = None
  <2>1. kind # None /\ d \in history
    BY NoneAssumption DEF Disposes, LedgerInv, LedgerTypeOK
  <2> QED
    BY <2>1 DEF Disposes, LedgerInv, LedgerTypeOK
<1>2. IsCurrent(planned[d]) /\ Active(planned[d]) = {d}
  BY DEF Disposes, Owns
<1>3. ASSUME NEW q \in Questions
      PROVE  Active(q)' = Active(q) \ {d}
  BY <1>1 DEF Active
<1>4. planned[d] \in Questions
  BY <1>1 DEF LedgerInv, CycleOrder, Registered
<1>5. ASSUME NEW q \in Questions, q # planned[d]
      PROVE  /\ IsCurrent(q)' <=> IsCurrent(q)
             /\ \A e \in history : planned[e] = q => dispositions'[e] = dispositions[e]
  BY <1>1, <1>5 DEF IsCurrent
<1>6. \A e \in history : planned[e] = planned[d] => dispositions[e] \notin Terminal
  BY <1>2 DEF IsCurrent
<1>7. Active(planned[d])' = {}
  BY <1>1, <1>2, <1>3, <1>4
<1>8. \A e \in history : planned[e] = planned[d] /\ dispositions'[e] \in Terminal => e = d
  BY <1>1, <1>6
<1> QED
  BY <1>1, <1>3, <1>5, <1>7, <1>8 DEF OneActiveCycle, LedgerInv

LEMMA OneActiveCycleStep ==
  ASSUME LedgerInv, LedgerNext
  PROVE  OneActiveCycle'
<1>0. OneActiveCycle /\ CycleOrder
  BY DEF LedgerInv
<1>1. ASSUME NEW q \in Questions, NEW cause \in RootCauses, NEW refs \in {1, 2},
             RegisterQuestion(q, cause, refs)
      PROVE  OneActiveCycle'
  BY <1>0, <1>1, CyclesUntouched DEF RegisterQuestion
<1>2. ASSUME NEW q \in Questions, RegisterEvidenceSubject(q)
      PROVE  OneActiveCycle'
  BY <1>0, <1>2, CyclesUntouched DEF RegisterEvidenceSubject
<1>3. ASSUME NEW q \in Questions, NEW d \in Decisions, PlanRoute(d, q)
      PROVE  OneActiveCycle'
  <2>1. \A e \in history : planned'[e] = planned[e]
    BY <1>0, <1>3 DEF PlanRoute, CycleOrder, LedgerInv, LedgerTypeOK
  <2> QED
    BY <1>0, <1>3, <2>1, CyclesUntouched DEF PlanRoute
<1>4. ASSUME NEW d \in Decisions, RecordRouteDecision(d)
      PROVE  OneActiveCycle'
  <2>1. /\ history' = history \cup {d} /\ planned' = planned /\ dispositions' = dispositions
        /\ IsCurrent(planned[d]) /\ Active(planned[d]) = {}
    BY <1>4 DEF RecordRouteDecision, Routable
  <2>2. dispositions[d] = None /\ None \notin Terminal
    BY <1>4, NoneAssumption DEF LedgerInv, CycleOrder, LedgerTypeOK, RecordRouteDecision, Terminal
  <2> QED
    BY <1>0, <2>1, <2>2 DEF OneActiveCycle, Active, IsCurrent
<1>5. ASSUME NEW d \in Decisions, RecordRouteAttemptStart(d)
      PROVE  OneActiveCycle'
  BY <1>0, <1>5, CyclesUntouched DEF RecordRouteAttemptStart
<1>6. ASSUME NEW d \in Decisions, CreateContextRequest(d)
      PROVE  OneActiveCycle'
  BY <1>0, <1>6, CyclesUntouched DEF CreateContextRequest
<1>7. ASSUME NEW d \in Decisions, NEW o \in Outcome, OutcomeWritten(d, o)
      PROVE  OneActiveCycle'
  BY <1>0, <1>7, CyclesUntouched DEF OutcomeWritten, Terminalizes
<1>8. ASSUME NEW d \in Decisions, NEW kind \in Dispositions, Disposed(d, kind)
      PROVE  OneActiveCycle'
  BY <1>8, CycleClosed DEF Disposed
<1>9. ASSUME NEW d \in Decisions, NEW q \in Questions, NEW cause \in RootCauses, NEW refs \in {1, 2},
             Supersede(d, q, cause, refs)
      PROVE  OneActiveCycle'
  BY <1>9, CycleClosed DEF Supersede, Dispositions
<1>10. CASE RecordStop
  BY <1>0, <1>10, CyclesUntouched DEF RecordStop
<1> QED
  BY <1>1, <1>2, <1>3, <1>4, <1>5, <1>6, <1>7, <1>8, <1>9, <1>10, LedgerSteps

(* An operation that disposes of nothing, and registers nothing, keeps the  *)
(* lineage.                                                                 *)
LEMMA LineageUntouched ==
  ASSUME LedgerInv, questions' = questions, dispositions' = dispositions, lineages' = lineages,
         history \subseteq history',
         \A d \in history : planned'[d] = planned[d],
         \A d \in history' \ history : dispositions[d] = None,
         \A d \in lineages : outcomes'[d] = outcomes[d]
  PROVE  LineageSound'
<1>1. Registered' = Registered
  BY DEF Registered
<1>2. LineageSound /\ None # "SUPERSEDED_RECLASSIFIED"
  BY NoneAssumption DEF LedgerInv, Dispositions
<1> QED
  BY <1>1, <1>2 DEF LineageSound

(* A new question, derived from an earlier one or from none, is nobody's    *)
(* ancestor.                                                                *)
LEMMA FamiliesGrounded ==
  ASSUME LedgerInv, NEW r \in Questions \ Registered, NEW from \in Registered \cup {None},
         NEW cause, NEW refs,
         questions' = [questions EXCEPT ![r] = [cause |-> cause, refs |-> refs, from |-> from]],
         Registered' = Registered \cup {r}
  PROVE  \A family \in (SUBSET Registered') \ {{}} : \E q \in family : questions'[q].from \notin family
<1> SUFFICES ASSUME NEW family \in (SUBSET Registered') \ {{}}
             PROVE  \E q \in family : questions'[q].from \notin family
  OBVIOUS
<1>0. questions \in [Questions -> Question \cup {None}] /\ LineageSound /\ None \notin Questions
  BY NoneAssumption DEF LedgerInv, LedgerTypeOK
<1>1. /\ questions'[r].from = from
      /\ \A q \in Registered : questions'[q] = questions[q]
  BY <1>0 DEF Registered
<1>2. \A q \in Registered : questions[q].from # None => questions[q].from \in Registered
  BY <1>0 DEF LineageSound
<1>3. from # r /\ None # r /\ r \notin Registered
  BY <1>0
<1>4. CASE family \subseteq {r}
  BY <1>1, <1>3, <1>4
<1>5. CASE ~(family \subseteq {r})
  <2> DEFINE earlier == family \ {r}
  <2>1. earlier \in (SUBSET Registered) \ {{}}
    BY <1>5
  <2>2. PICK q \in earlier : questions[q].from \notin earlier
    BY <1>0, <2>1 DEF LineageSound
  <2>3. questions'[q].from \notin family
    BY <1>1, <1>2, <1>3, <2>1, <2>2
  <2> QED
    BY <2>3
<1> QED
  BY <1>4, <1>5

LEMMA LineageStep ==
  ASSUME LedgerInv, LedgerNext
  PROVE  LineageSound'
<1>0. LedgerTypeOK /\ CycleOrder /\ LineageSound /\ None # "SUPERSEDED_RECLASSIFIED"
  BY NoneAssumption DEF LedgerInv, Dispositions
<1>1. ASSUME NEW q \in Questions, NEW cause \in RootCauses, NEW refs \in {1, 2},
             RegisterQuestion(q, cause, refs)
      PROVE  LineageSound'
  <2>1. /\ questions' = [questions EXCEPT ![q] = [cause |-> cause, refs |-> refs, from |-> None]]
        /\ planned' = planned /\ history' = history /\ outcomes' = outcomes
        /\ dispositions' = dispositions /\ lineages' = lineages /\ q \notin Registered
    BY <1>1 DEF RegisterQuestion
  <2>2. Registered' = Registered \cup {q}
    <3>1. [cause |-> cause, refs |-> refs, from |-> None] \in Question
      BY DEF Question
    <3> QED
      BY <1>0, <2>1, <3>1, NoneAssumption DEF Registered, LedgerTypeOK
  <2>3. \A family \in (SUBSET Registered') \ {{}} : \E p \in family : questions'[p].from \notin family
    BY <2>1, <2>2, FamiliesGrounded
  <2>4. /\ questions'[q].from = None
        /\ \A p \in Registered : questions'[p] = questions[p]
    BY <1>0, <2>1 DEF LedgerTypeOK, Registered
  <2> QED
    BY <1>0, <2>1, <2>2, <2>3, <2>4 DEF LineageSound
<1>2. ASSUME NEW q \in Questions, RegisterEvidenceSubject(q)
      PROVE  LineageSound'
  BY <1>2, LineageUntouched DEF RegisterEvidenceSubject
<1>3. ASSUME NEW q \in Questions, NEW d \in Decisions, PlanRoute(d, q)
      PROVE  LineageSound'
  <2>1. \A e \in history : planned'[e] = planned[e]
    BY <1>0, <1>3 DEF PlanRoute, CycleOrder, LedgerTypeOK
  <2> QED
    BY <1>3, <2>1, LineageUntouched DEF PlanRoute
<1>4. ASSUME NEW d \in Decisions, RecordRouteDecision(d)
      PROVE  LineageSound'
  <2>1. dispositions[d] = None
    BY <1>0, <1>4 DEF RecordRouteDecision, CycleOrder, LedgerTypeOK
  <2> QED
    BY <1>4, <2>1, LineageUntouched DEF RecordRouteDecision
<1>5. ASSUME NEW d \in Decisions, RecordRouteAttemptStart(d)
      PROVE  LineageSound'
  BY <1>5, LineageUntouched DEF RecordRouteAttemptStart
<1>6. ASSUME NEW d \in Decisions, CreateContextRequest(d)
      PROVE  LineageSound'
  BY <1>6, LineageUntouched DEF CreateContextRequest
<1>7. ASSUME NEW d \in Decisions, NEW o \in Outcome, OutcomeWritten(d, o)
      PROVE  LineageSound'
  <2>1. \A e \in lineages : outcomes[e] # None
    BY <1>0, NoneAssumption DEF LineageSound, CycleOrder, LedgerTypeOK, Dispositions
  <2>2. \A e \in lineages : outcomes'[e] = outcomes[e]
    BY <1>0, <1>7, <2>1 DEF OutcomeWritten, Terminalizes, LedgerTypeOK
  <2> QED
    BY <1>7, <2>2, LineageUntouched DEF OutcomeWritten, Terminalizes
<1>8. ASSUME NEW d \in Decisions, NEW kind \in Dispositions, Disposed(d, kind)
      PROVE  LineageSound'
  <2>1. /\ dispositions' = [dispositions EXCEPT ![d] = kind] /\ kind # "SUPERSEDED_RECLASSIFIED"
        /\ questions' = questions /\ planned' = planned /\ history' = history /\ outcomes' = outcomes
        /\ dispositions[d] = None
    BY <1>8 DEF Disposed, Disposes
  <2>2. Registered' = Registered
    BY <2>1 DEF Registered
  <2>3. \A e \in Decisions : dispositions'[e] = IF e = d THEN kind ELSE dispositions[e]
    BY <1>0, <2>1 DEF LedgerTypeOK
  <2>4. \A e \in history : dispositions'[e] = "SUPERSEDED_RECLASSIFIED"
                             <=> dispositions[e] = "SUPERSEDED_RECLASSIFIED"
    BY <1>0, <2>1, <2>3 DEF LedgerTypeOK
  <2>5. \A e \in Decisions : /\ dispositions'[e] = "CROSS_SESSION" <=> e \in lineages'
                             /\ e \in lineages' => outcomes'[e].payload = "SUPPLIED"
    <3>1. d \notin lineages
      BY <1>0, <2>1, NoneAssumption DEF LineageSound, Dispositions
    <3> QED
      BY <1>0, <1>8, <2>1, <2>3, <3>1 DEF LineageSound, Disposed
  <2> QED
    BY <1>0, <2>1, <2>2, <2>4, <2>5 DEF LineageSound
<1>9. ASSUME NEW d \in Decisions, NEW q \in Questions, NEW cause \in RootCauses, NEW refs \in {1, 2},
             Supersede(d, q, cause, refs)
      PROVE  LineageSound'
  <2>1. /\ dispositions' = [dispositions EXCEPT ![d] = "SUPERSEDED_RECLASSIFIED"]
        /\ questions' = [questions EXCEPT ![q] = [cause |-> cause, refs |-> refs, from |-> planned[d]]]
        /\ planned' = planned /\ history' = history /\ outcomes' = outcomes /\ lineages' = lineages
        /\ q \notin Registered /\ dispositions[d] = None /\ d \in history
        /\ \A p \in Registered : questions[p].from # planned[d]
    BY <1>0, <1>9 DEF Supersede, Disposes, LedgerTypeOK
  <2>2. Registered' = Registered \cup {q} /\ planned[d] \in Registered /\ planned[d] # None
    <3>1. planned[d] \in Registered /\ planned[d] # None /\ planned[d] \in Questions
      BY <1>0, <2>1 DEF LedgerTypeOK, CycleOrder, Registered
    <3>2. [cause |-> cause, refs |-> refs, from |-> planned[d]] \in Question
      BY <3>1 DEF Question
    <3> QED
      BY <1>0, <2>1, <3>1, <3>2, NoneAssumption DEF Registered, LedgerTypeOK
  <2>3. \A family \in (SUBSET Registered') \ {{}} : \E p \in family : questions'[p].from \notin family
    BY <2>1, <2>2, FamiliesGrounded
  <2>4. /\ questions'[q].from = planned[d]
        /\ \A p \in Registered : questions'[p] = questions[p]
        /\ dispositions'[d] = "SUPERSEDED_RECLASSIFIED"
        /\ \A e \in Decisions \ {d} : dispositions'[e] = dispositions[e]
    BY <1>0, <2>1 DEF LedgerTypeOK, Registered
  <2>5. \A p \in Registered' : questions'[p].from # None =>
          /\ questions'[p].from \in Registered'
          /\ \E e \in history' : /\ planned'[e] = questions'[p].from
                                /\ dispositions'[e] = "SUPERSEDED_RECLASSIFIED"
          /\ \A r \in Registered' : questions'[r].from = questions'[p].from => r = p
    BY <1>0, <2>1, <2>2, <2>4 DEF LineageSound, LedgerTypeOK
  <2>6. \A e \in history' : dispositions'[e] = "SUPERSEDED_RECLASSIFIED" =>
          \E r \in Registered' : questions'[r].from = planned'[e]
    BY <1>0, <2>1, <2>2, <2>4 DEF LineageSound, LedgerTypeOK
  <2>7. \A e \in Decisions : /\ dispositions'[e] = "CROSS_SESSION" <=> e \in lineages'
                             /\ e \in lineages' => outcomes'[e].payload = "SUPPLIED"
    BY <1>0, <2>1, <2>4, NoneAssumption DEF LineageSound, Dispositions
  <2> QED
    BY <2>3, <2>5, <2>6, <2>7 DEF LineageSound
<1>10. CASE RecordStop
  BY <1>10, LineageUntouched DEF RecordStop
<1> QED
  BY <1>1, <1>2, <1>3, <1>4, <1>5, <1>6, <1>7, <1>8, <1>9, <1>10, LedgerSteps

LEMMA ReviewersStep ==
  ASSUME LedgerInv, LedgerNext
  PROVE  ReviewersCountedOnce'
<1>0. ReviewersCountedOnce /\ LedgerTypeOK /\ CycleOrder
  BY DEF LedgerInv
<1>1. ASSUME NEW d \in Decisions, NEW o \in Outcome, OutcomeWritten(d, o)
      PROVE  ReviewersCountedOnce'
  <2>1. /\ outcomes' = [outcomes EXCEPT ![d] = o] /\ attempts' = attempts /\ attempts \subseteq Decisions
        /\ o.payload \in Reviewers => \A e \in attempts : outcomes[e] # None => outcomes[e].payload # o.payload
    BY <1>0, <1>1 DEF OutcomeWritten, Terminalizes, LedgerTypeOK, ReviewersUsed
  <2>2. outcomes'[d] = o /\ \A e \in attempts \ {d} : outcomes'[e] = outcomes[e]
    BY <1>0, <2>1 DEF LedgerTypeOK
  <2> QED
    BY <1>0, <2>1, <2>2 DEF ReviewersCountedOnce
<1>2. ASSUME NEW d \in Decisions, RecordRouteAttemptStart(d)
      PROVE  ReviewersCountedOnce'
  <2>1. attempts' = attempts \cup {d} /\ outcomes' = outcomes /\ outcomes[d] = None
    BY <1>0, <1>2 DEF RecordRouteAttemptStart, CycleOrder
  <2> QED
    BY <1>0, <2>1 DEF ReviewersCountedOnce
<1>3. ASSUME UNCHANGED <<attempts, outcomes>>
      PROVE  ReviewersCountedOnce'
  BY <1>0, <1>3 DEF ReviewersCountedOnce
<1> QED
  BY <1>1, <1>2, <1>3, LedgerSteps
     DEF RegisterQuestion, RegisterEvidenceSubject, PlanRoute, RecordRouteDecision,
         CreateContextRequest, Disposed, Disposes, Supersede, RecordStop

(* The ledger keeps its invariant, whoever writes it.                       *)
LEMMA LedgerStep ==
  ASSUME LedgerInv, [LedgerNext]_ledger
  PROVE  LedgerInv'
<1>1. CASE UNCHANGED ledger
  BY <1>1 DEF LedgerInv, ledger, LedgerTypeOK, CycleOrder, OneActiveCycle, LineageSound,
     ReviewersCountedOnce, Registered, Active, IsCurrent
<1>2. CASE LedgerNext
  BY <1>2, LedgerTypeStep, CycleOrderStep, OneActiveCycleStep, LineageStep, ReviewersStep
     DEF LedgerInv
<1> QED
  BY <1>1, <1>2

LEMMA LedgerStarts ==
  ASSUME LedgerInit
  PROVE  LedgerInv
<1> USE DEF LedgerInit
<1>1. LedgerTypeOK
  <2>1. ceiling.cost \in Nat /\ ceiling.latency \in Nat
    BY DeliberationAssumption
  <2>2. cost \in 0 .. ceiling.cost /\ latency \in 0 .. ceiling.latency
    BY <2>1
  <2> HIDE DEF LedgerInit
  <2>3. questions \in [Questions -> Question \cup {None}] /\ planned \in [Decisions -> Questions \cup {None}]
    BY DEF LedgerInit
  <2>4. /\ outcomes \in [Decisions -> Outcome \cup {None}]
        /\ dispositions \in [Decisions -> Dispositions \cup {None}]
    BY DEF LedgerInit
  <2>5. /\ history = {} /\ attempts = {} /\ requests = {} /\ lineages = {} /\ subjects = {}
        /\ ceiling \in Ceilings /\ stopped \in BOOLEAN
    BY DEF LedgerInit
  <2> QED
    BY <2>2, <2>3, <2>4, <2>5 DEF LedgerTypeOK
<1>2. CycleOrder /\ ReviewersCountedOnce
  BY DEF CycleOrder, ReviewersCountedOnce
<1>3. OneActiveCycle
  BY DEF OneActiveCycle, Active
<1>4. LineageSound
  BY NoneAssumption DEF LineageSound, Registered, Dispositions
<1> QED
  BY <1>1, <1>2, <1>3, <1>4 DEF LedgerInv

(* An attempt under way stays the open cycle of its current question, and   *)
(* the question ready for it.                                               *)
AttemptsOpen == \A d \in attempts : outcomes[d] = None => Owns(d) /\ Ready(planned[d])

LEMMA AttemptStaysOpen ==
  ASSUME LedgerInv, NEW d \in attempts, Owns(d), Ready(planned[d]),
         \A q \in Registered : questions'[q] = questions[q],
         planned'[d] = planned[d], subjects \subseteq subjects',
         Active(planned[d])' = Active(planned[d]), IsCurrent(planned[d])' = IsCurrent(planned[d])
  PROVE  Owns(d)' /\ Ready(planned[d])'
<1>1. planned[d] \in Registered
  BY DEF LedgerInv, LedgerTypeOK, CycleOrder
<1> QED
  BY <1>1 DEF Owns, Ready

(* Closing one cycle leaves those of the other questions. *)
LEMMA OthersStayOpen ==
  ASSUME LedgerInv, AttemptsOpen, NEW e \in Decisions, NEW kind \in Dispositions, Disposes(e, kind),
         \A q \in Registered : questions'[q] = questions[q]
  PROVE  AttemptsOpen'
<1> SUFFICES ASSUME NEW d \in attempts, outcomes[d] = None
             PROVE  Owns(d)' /\ Ready(planned[d])'
  BY DEF AttemptsOpen, Disposes
<1>1. /\ dispositions' = [dispositions EXCEPT ![e] = kind] /\ dispositions \in [Decisions -> Dispositions \cup {None}]
      /\ history' = history /\ planned' = planned /\ subjects' = subjects
      /\ history \subseteq Decisions /\ d \in history /\ outcomes[e] # None
      /\ Active(planned[e]) = {e} /\ Active(planned[d]) = {d}
      /\ Owns(d) /\ Ready(planned[d])
  BY DEF Disposes, Owns, LedgerInv, LedgerTypeOK, AttemptsOpen
<1>2. planned[d] # planned[e]
  BY <1>1
<1>3. \A f \in history : planned[f] = planned[d] => dispositions'[f] = dispositions[f]
  BY <1>1, <1>2
<1>4. Active(planned[d])' = Active(planned[d]) /\ IsCurrent(planned[d])' = IsCurrent(planned[d])
  BY <1>1, <1>3 DEF Active, IsCurrent
<1> QED
  BY <1>1, <1>4, AttemptStaysOpen

LEMMA AttemptsOpenStep ==
  ASSUME LedgerInv, AttemptsOpen, [LedgerNext]_ledger
  PROVE  AttemptsOpen'
<1>0. LedgerTypeOK /\ CycleOrder
  BY DEF LedgerInv
(* A step that disposes of nothing and decides nothing. *)
<1>1. ASSUME history' = history, dispositions' = dispositions, subjects \subseteq subjects',
             \A q \in Registered : questions'[q] = questions[q],
             \A d \in history : planned'[d] = planned[d],
             NEW d \in attempts, Owns(d), Ready(planned[d])
      PROVE  Owns(d)' /\ Ready(planned[d])'
  <2>1. d \in history
    BY <1>0 DEF LedgerTypeOK
  <2>2. Active(planned[d])' = Active(planned[d]) /\ IsCurrent(planned[d])' = IsCurrent(planned[d])
    BY <1>1, <2>1 DEF Active, IsCurrent
  <2> QED
    BY <1>1, <2>1, <2>2, AttemptStaysOpen
<1>2. ASSUME NEW q \in Questions, NEW cause \in RootCauses, NEW refs \in {1, 2},
             RegisterQuestion(q, cause, refs)
      PROVE  AttemptsOpen'
  <2>1. \A r \in Registered : questions'[r] = questions[r]
    BY <1>0, <1>2 DEF RegisterQuestion, Registered, LedgerTypeOK
  <2> QED
    BY <1>1, <1>2, <2>1 DEF RegisterQuestion, AttemptsOpen
<1>3. ASSUME NEW q \in Questions, RegisterEvidenceSubject(q)
      PROVE  AttemptsOpen'
  BY <1>1, <1>3 DEF RegisterEvidenceSubject, AttemptsOpen
<1>4. ASSUME NEW q \in Questions, NEW d \in Decisions, PlanRoute(d, q)
      PROVE  AttemptsOpen'
  <2>1. \A e \in history : planned'[e] = planned[e]
    BY <1>0, <1>4 DEF PlanRoute, CycleOrder, LedgerTypeOK
  <2> QED
    BY <1>1, <1>4, <2>1 DEF PlanRoute, AttemptsOpen
<1>5. ASSUME NEW e \in Decisions, RecordRouteDecision(e)
      PROVE  AttemptsOpen'
  <2> SUFFICES ASSUME NEW d \in attempts, outcomes[d] = None
               PROVE  Owns(d)' /\ Ready(planned[d])'
    BY <1>5 DEF AttemptsOpen, RecordRouteDecision
  <2>1. /\ history' = history \cup {e} /\ planned' = planned /\ dispositions' = dispositions
        /\ subjects' = subjects /\ questions' = questions
        /\ Active(planned[e]) = {} /\ Active(planned[d]) = {d} /\ Owns(d) /\ Ready(planned[d])
    BY <1>5 DEF RecordRouteDecision, Routable, AttemptsOpen, Owns
  <2>2. planned[d] # planned[e]
    BY <2>1
  <2>3. Active(planned[d])' = Active(planned[d]) /\ IsCurrent(planned[d])' = IsCurrent(planned[d])
    BY <2>1, <2>2 DEF Active, IsCurrent
  <2> QED
    BY <2>1, <2>3, AttemptStaysOpen
<1>6. ASSUME NEW e \in Decisions, RecordRouteAttemptStart(e)
      PROVE  AttemptsOpen'
  <2>1. /\ attempts' = attempts \cup {e} /\ outcomes' = outcomes
        /\ UNCHANGED <<questions, planned, history, dispositions, subjects>>
        /\ Owns(e) /\ Ready(planned[e])
    BY <1>6 DEF RecordRouteAttemptStart
  <2>2. \A d \in attempts' : outcomes'[d] = None => Owns(d) /\ Ready(planned[d])
    BY <2>1 DEF AttemptsOpen
  <2> QED
    BY <2>1, <2>2 DEF AttemptsOpen, Owns, Ready, Active, IsCurrent
<1>7. ASSUME NEW d \in Decisions, CreateContextRequest(d)
      PROVE  AttemptsOpen'
  BY <1>1, <1>7 DEF CreateContextRequest, AttemptsOpen
<1>8. ASSUME NEW e \in Decisions, NEW o \in Outcome, OutcomeWritten(e, o)
      PROVE  AttemptsOpen'
  <2>1. \A d \in attempts : outcomes'[d] = None => outcomes[d] = None
    BY <1>0, <1>8, NoneAssumption DEF OutcomeWritten, Terminalizes, LedgerTypeOK
  <2> QED
    BY <1>1, <1>8, <2>1 DEF OutcomeWritten, Terminalizes, AttemptsOpen
<1>9. ASSUME NEW d \in Decisions, NEW kind \in Dispositions, Disposed(d, kind)
      PROVE  AttemptsOpen'
  BY <1>9, OthersStayOpen DEF Disposed
<1>10. ASSUME NEW d \in Decisions, NEW q \in Questions, NEW cause \in RootCauses, NEW refs \in {1, 2},
             Supersede(d, q, cause, refs)
      PROVE  AttemptsOpen'
  <2>1. \A r \in Registered : questions'[r] = questions[r]
    BY <1>0, <1>10 DEF Supersede, Registered, LedgerTypeOK
  <2> QED
    BY <1>10, <2>1, OthersStayOpen DEF Supersede, Dispositions
<1>11. CASE RecordStop
  BY <1>1, <1>11 DEF RecordStop, AttemptsOpen
<1>12. CASE UNCHANGED ledger
  BY <1>1, <1>12 DEF ledger, AttemptsOpen
<1> QED
  BY <1>2, <1>3, <1>4, <1>5, <1>6, <1>7, <1>8, <1>9, <1>10, <1>11, <1>12, LedgerSteps

-----------------------------------------------------------------------------
(* Induction over the naturals, for a set of them *)

Below == {pair \in Nat \X Nat : pair[1] < pair[2]}

LEMMA BelowWellFounded == IsWellFoundedOn(Below, Nat)
BY NatLessThanWellFounded DEF OpToRel, Below

(* A set of naturals with 0 and the successor of each member has them all. *)
LEMMA AllNaturals ==
  ASSUME NEW T \in SUBSET Nat, 0 \in T, \A n \in T : n + 1 \in T
  PROVE  T = Nat
<1> SUFFICES ASSUME Nat \ T # {} PROVE FALSE
  OBVIOUS
<1>1. PICK n \in Nat \ T : \A m \in Nat \ T : <<m, n>> \notin Below
  <2>1. Nat \ T \subseteq Nat
    OBVIOUS
  <2> QED
    BY <2>1, BelowWellFounded, WFMin
<1>2. n # 0 /\ n - 1 \in Nat
  BY <1>1
<1>3. PICK m \in Nat : m + 1 = n
  BY <1>1, <1>2
<1>4. <<m, n>> \in Below
  BY <1>1, <1>3 DEF Below
<1> QED
  BY <1>1, <1>3, <1>4

-----------------------------------------------------------------------------
(* What MapThenSumSet adds up *)

Pick(s) == CHOOSE x \in s : TRUE

(* The sums of f over the subsets in D, in the order Pick takes them. *)
SumsOn(D, f, g) ==
  g = [s \in D |-> IF s = {} THEN 0 ELSE f[Pick(s)] + g[s \ {Pick(s)}]]

Sums(S, f) == CHOOSE g : SumsOn(SUBSET S, f, g)

UpTo(S, n) == {s \in SUBSET S : Cardinality(s) <= n}

LEMMA PickSmaller ==
  ASSUME NEW S, IsFiniteSet(S), NEW s \in SUBSET S, s # {}
  PROVE  /\ Pick(s) \in s
         /\ s \ {Pick(s)} \in SUBSET S
         /\ Cardinality(s) \in Nat \ {0}
         /\ Cardinality(s \ {Pick(s)}) = Cardinality(s) - 1
<1>1. IsFiniteSet(s) /\ Pick(s) \in s
  BY FS_Subset DEF Pick
<1>2. Cardinality(s \ {Pick(s)}) = Cardinality(s) - 1
  BY <1>1, FS_RemoveElement
<1>3. Cardinality(s) \in Nat /\ Cardinality(s) # 0
  BY <1>1, FS_CardinalityType, FS_EmptySet
<1> QED
  BY <1>1, <1>2, <1>3

(* There are such sums, of whole numbers. *)
LEMMA SumsExist ==
  ASSUME NEW S, IsFiniteSet(S), NEW f \in [S -> Int]
  PROVE  \E g \in [SUBSET S -> Int] : SumsOn(SUBSET S, f, g)
<1> DEFINE T == {n \in Nat : \E g \in [UpTo(S, n) -> Int] : SumsOn(UpTo(S, n), f, g)}
<1>0. \A s \in SUBSET S : IsFiniteSet(s) /\ Cardinality(s) \in Nat
                          /\ (Cardinality(s) = 0 <=> s = {})
  BY FS_Subset, FS_CardinalityType, FS_EmptySet
<1>1. 0 \in T
  <2>1. UpTo(S, 0) = {{}}
    BY <1>0, FS_EmptySet DEF UpTo
  <2>2. PICK g : g = [s \in UpTo(S, 0) |-> 0]
    OBVIOUS
  <2>3. g \in [UpTo(S, 0) -> Int] /\ SumsOn(UpTo(S, 0), f, g)
    BY <2>1, <2>2 DEF SumsOn
  <2> QED
    BY <2>3
<1>2. ASSUME NEW n \in T
      PROVE  n + 1 \in T
  <2>1. PICK g \in [UpTo(S, n) -> Int] : SumsOn(UpTo(S, n), f, g)
    OBVIOUS
  <2>2. n \in Nat /\ UpTo(S, n) \subseteq UpTo(S, n + 1)
    BY <1>0 DEF UpTo
  <2>3. \A s \in UpTo(S, n + 1) : s # {} => s \ {Pick(s)} \in UpTo(S, n) /\ Pick(s) \in S
    BY <1>0, <2>2, PickSmaller DEF UpTo
  <2>4. PICK h : h = [s \in UpTo(S, n + 1) |-> IF s = {} THEN 0 ELSE f[Pick(s)] + g[s \ {Pick(s)}]]
    OBVIOUS
  <2>5. \A s \in UpTo(S, n) : h[s] = g[s]
    BY <2>1, <2>2, <2>4 DEF SumsOn
  <2>6. h \in [UpTo(S, n + 1) -> Int]
    <3>1. ASSUME NEW s \in UpTo(S, n + 1)
          PROVE  (IF s = {} THEN 0 ELSE f[Pick(s)] + g[s \ {Pick(s)}]) \in Int
      BY <2>1, <2>3
    <3> QED
      BY <2>4, <3>1
  <2>7. SumsOn(UpTo(S, n + 1), f, h)
    BY <2>3, <2>4, <2>5 DEF SumsOn
  <2>8. \E k \in [UpTo(S, n + 1) -> Int] : SumsOn(UpTo(S, n + 1), f, k)
    BY <2>6, <2>7
  <2> QED
    BY <2>2, <2>8
<1>3. T = Nat
  <2> HIDE DEF T
  <2>1. T \in SUBSET Nat
    BY DEF T
  <2> QED
    BY <1>1, <1>2, <2>1, AllNaturals
<1>4. Cardinality(S) \in T
  BY <1>3, FS_CardinalityType
<1>5. UpTo(S, Cardinality(S)) = SUBSET S
  BY FS_Subset, FS_CardinalityType DEF UpTo
<1> QED
  BY <1>4, <1>5

(* A property of {} that each set inherits from itself less its first      *)
(* element holds of every subset of S.                                     *)
LEMMA AllSubsets ==
  ASSUME NEW S, IsFiniteSet(S), NEW W \in SUBSET (SUBSET S), {} \in W,
         \A s \in SUBSET S : s # {} /\ s \ {Pick(s)} \in W => s \in W
  PROVE  W = SUBSET S
<1> DEFINE T == {n \in Nat : UpTo(S, n) \subseteq W}
<1>0. \A s \in SUBSET S : /\ IsFiniteSet(s) /\ Cardinality(s) \in Nat
                          /\ (Cardinality(s) = 0 <=> s = {})
  BY FS_Subset, FS_CardinalityType, FS_EmptySet
<1>1. 0 \in T
  <2>1. \A s \in UpTo(S, 0) : s = {}
    BY <1>0 DEF UpTo
  <2> QED
    BY <2>1
<1>2. ASSUME NEW n \in T
      PROVE  n + 1 \in T
  <2>1. ASSUME NEW s \in UpTo(S, n + 1)
        PROVE  s \in W
    <3>1. CASE s = {}
      BY <3>1
    <3>2. CASE s # {}
      <4>1. s \ {Pick(s)} \in UpTo(S, n)
        BY <1>0, <2>1, <3>2, PickSmaller DEF UpTo
      <4> QED
        BY <2>1, <3>2, <4>1 DEF UpTo
    <3> QED
      BY <3>1, <3>2
  <2> QED
    BY <2>1
<1>3. T = Nat
  <2> HIDE DEF T
  <2>1. T \in SUBSET Nat
    BY DEF T
  <2> QED
    BY <1>1, <1>2, <2>1, AllNaturals
<1>4. ASSUME NEW s \in SUBSET S
      PROVE  s \in W
  <2>1. s \in UpTo(S, Cardinality(s)) /\ Cardinality(s) \in T
    BY <1>0, <1>3 DEF UpTo
  <2> QED
    BY <2>1
<1> QED
  BY <1>4

(* And only one. *)
LEMMA SumsUnique ==
  ASSUME NEW S, IsFiniteSet(S), NEW f, NEW g, NEW h,
         SumsOn(SUBSET S, f, g), SumsOn(SUBSET S, f, h)
  PROVE  g = h
<1> DEFINE W == {s \in SUBSET S : g[s] = h[s]}
<1>1. \A s \in SUBSET S :
        /\ g[s] = (IF s = {} THEN 0 ELSE f[Pick(s)] + g[s \ {Pick(s)}])
        /\ h[s] = (IF s = {} THEN 0 ELSE f[Pick(s)] + h[s \ {Pick(s)}])
  BY DEF SumsOn
<1>2. {} \in W
  BY <1>1
<1>3. \A s \in SUBSET S : s # {} /\ s \ {Pick(s)} \in W => s \in W
  BY <1>1
<1>4. W = SUBSET S
  <2> HIDE DEF W
  <2>1. W \in SUBSET (SUBSET S)
    BY DEF W
  <2> QED
    BY <1>2, <1>3, <2>1, AllSubsets
<1> QED
  BY <1>4 DEF SumsOn

AreSums(S, f, g) ==
  /\ g \in [SUBSET S -> Int]
  /\ g[{}] = 0
  /\ \A s \in SUBSET S : s # {} => g[s] = f[Pick(s)] + g[s \ {Pick(s)}]

LEMMA SumsKnown ==
  ASSUME NEW S, IsFiniteSet(S), NEW f \in [S -> Int]
  PROVE  AreSums(S, f, Sums(S, f))
<1>1. PICK g \in [SUBSET S -> Int] : SumsOn(SUBSET S, f, g)
  BY SumsExist
<1>2. SumsOn(SUBSET S, f, Sums(S, f))
  BY <1>1 DEF Sums
<1>3. Sums(S, f) = g
  BY <1>1, <1>2, SumsUnique
<1>4. {} \in SUBSET S
  OBVIOUS
<1>5. \A s \in SUBSET S : g[s] = IF s = {} THEN 0 ELSE f[Pick(s)] + g[s \ {Pick(s)}]
  BY <1>1 DEF SumsOn
<1> QED
  BY <1>3, <1>4, <1>5 DEF AreSums

(* Changing one value changes the sum by as much. *)
LEMMA SumChanges ==
  ASSUME NEW S, IsFiniteSet(S), NEW f \in [S -> Int], NEW h \in [S -> Int], NEW d \in S,
         \A x \in S \ {d} : h[x] = f[x]
  PROVE  Sums(S, h)[S] = Sums(S, f)[S] + h[d] - f[d]
<1>1. PICK F : F = Sums(S, f) /\ AreSums(S, f, F)
  BY SumsKnown
<1>2. PICK H : H = Sums(S, h) /\ AreSums(S, h, H)
  BY SumsKnown
<1> DEFINE W == {s \in SUBSET S : H[s] = F[s] + (IF d \in s THEN h[d] - f[d] ELSE 0)}
<1>3. {} \in W
  BY <1>1, <1>2 DEF AreSums
<1>4. ASSUME NEW s \in SUBSET S, s # {}, s \ {Pick(s)} \in W
      PROVE  s \in W
  <2>1. PICK x \in S : x = Pick(s) /\ x \in s
    BY <1>4, PickSmaller
  <2>2. PICK r \in W : r = s \ {x}
    BY <1>4, <2>1
  <2>3. /\ H[r] = F[r] + (IF d \in r THEN h[d] - f[d] ELSE 0)
        /\ H[s] = h[x] + H[r] /\ F[s] = f[x] + F[r]
        /\ F[r] \in Int /\ H[r] \in Int /\ f[x] \in Int /\ h[x] \in Int
        /\ f[d] \in Int /\ h[d] \in Int
    BY <1>1, <1>2, <1>4, <2>1, <2>2 DEF AreSums
  <2>4. d \in r <=> d \in s /\ x # d
    BY <2>1, <2>2
  <2>5. H[s] = F[s] + (IF d \in s THEN h[d] - f[d] ELSE 0)
    <3> HIDE DEF W
    <3>1. CASE x = d
      BY <2>1, <2>3, <2>4, <3>1
    <3>2. CASE x # d
      BY <2>1, <2>3, <2>4, <3>2
    <3> QED
      BY <3>1, <3>2
  <2> QED
    BY <2>5
<1>5. W = SUBSET S
  <2> HIDE DEF W
  <2>1. W \in SUBSET (SUBSET S)
    BY DEF W
  <2> QED
    BY <1>3, <1>4, <2>1, AllSubsets
<1>6. H[S] = F[S] + (h[d] - f[d])
  BY <1>5
<1>7. F[S] \in Int /\ h[d] \in Int /\ f[d] \in Int
  BY <1>1 DEF AreSums
<1> QED
  BY <1>1, <1>2, <1>6, <1>7

(* Naturals add up to a natural, and nothings to nothing. *)
LEMMA SumNatural ==
  ASSUME NEW S, IsFiniteSet(S), NEW f \in [S -> Nat]
  PROVE  /\ Sums(S, f)[S] \in Nat
         /\ (\A d \in S : f[d] = 0) => Sums(S, f)[S] = 0
<1>0. f \in [S -> Int]
  OBVIOUS
<1>1. PICK F : F = Sums(S, f) /\ AreSums(S, f, F)
  BY <1>0, SumsKnown
<1> DEFINE W == {s \in SUBSET S : F[s] \in Nat /\ ((\A d \in S : f[d] = 0) => F[s] = 0)}
<1>2. {} \in W
  BY <1>1 DEF AreSums
<1>3. ASSUME NEW s \in SUBSET S, s # {}, s \ {Pick(s)} \in W
      PROVE  s \in W
  <2>1. PICK x \in S : x = Pick(s) /\ x \in s
    BY <1>3, PickSmaller
  <2>2. F[s] = f[x] + F[s \ {x}] /\ f[x] \in Nat
    BY <1>1, <1>3, <2>1 DEF AreSums
  <2> QED
    BY <1>3, <2>1, <2>2
<1>4. W = SUBSET S
  <2> HIDE DEF W
  <2>1. W \in SUBSET (SUBSET S)
    BY DEF W
  <2> QED
    BY <1>2, <1>3, <2>1, AllSubsets
<1>5. S \in W
  BY <1>4
<1> QED
  BY <1>1, <1>5

-----------------------------------------------------------------------------
(* The checkpoints *)

(* A claim has its limit and no fact; a fact is there from then on.  What   *)
(* has a checkpoint was attempted.                                          *)
PhasesFilled ==
  \A d \in Decisions : checkpoints[d] # None =>
    /\ d \in attempts
    /\ checkpoints[d].phase = "CLAIMED" => checkpoints[d].limit \in Limits /\ checkpoints[d].fact = None
    /\ checkpoints[d].phase # "CLAIMED" => checkpoints[d].fact \in Fact

(* A provider's call, until its outcome is recorded, is that of the open    *)
(* cycle of a current question (ClaimsStayRecordable without its budget).   *)
ClaimsStayOpen ==
  \A d \in Claimed \cup (FactReady \ Violated) :
    outcomes[d] = None => d \in attempts /\ Owns(d) /\ Ready(planned[d])

ExecutionInv ==
  /\ LedgerInv
  /\ checkpoints \in [Decisions -> Checkpoint \cup {None}]
  /\ PhasesFilled
  /\ OutcomeIsTheFact

(* A fact that is not an overrun is an outcome the ledger can take. *)
LEMMA FactIsAnOutcome ==
  ASSUME ExecutionInv, NEW d \in FactReady \ Violated
  PROVE  checkpoints[d].fact \in Outcome
  BY DEF ExecutionInv, PhasesFilled, FactReady, Violated, Fact, Violation

(* Executing with checkpoints writes nothing that the ledger alone would    *)
(* not have let be written.                                                 *)
LEMMA StepIsLedgerStep ==
  ASSUME ExecutionInv, [Next]_vars
  PROVE  [LedgerNext]_ledger
<1>1. ASSUME NEW d \in Decisions, Execute(d)
      PROVE  [LedgerNext]_ledger
  <2>1. CASE PersistExecutionTerminalFactAsRouteOutcome(d)
    <3>1. d \in FactReady \ Violated /\ RecordRouteOutcome(d, checkpoints[d].fact)
      BY <2>1 DEF PersistExecutionTerminalFactAsRouteOutcome
    <3>2. checkpoints[d].fact \in Outcome
      BY <3>1, FactIsAnOutcome
    <3> QED
      BY <3>1, <3>2 DEF LedgerNext, SpendLatency
  <2>2. CASE UNCHANGED ledger
    BY <2>2
  <2> QED
    BY <1>1, <2>1, <2>2 DEF Execute, ClaimRouteExecution, RecordExecutionPreCallFailure, Insert,
       RecordExecutionTerminalFact, MarkExecutionOutcomeCommitted
<1>2. ASSUME NEW d \in Decisions, PerformCoordinatedLatencyWrite(d)
      PROVE  [LedgerNext]_ledger
  BY <1>2 DEF PerformCoordinatedLatencyWrite, LedgerNext
<1>3. CASE UNCHANGED vars
  BY <1>3 DEF vars, ledger
<1>4. Deliberate => LedgerNext
  BY DEF LedgerNext
<1> QED
  BY <1>1, <1>2, <1>3, <1>4 DEF Next

LEMMA DeliberateKeeps ==
  ASSUME Deliberate
  PROVE  outcomes' = outcomes /\ attempts \subseteq attempts'
  BY DEF Deliberate, Ask, RegisterQuestion, Supersede, RegisterEvidenceSubject, PlanRoute,
     RecordRouteDecision, RecordRouteAttemptStart, CreateContextRequest,
     CreateCrossSessionTransition, RecordQuestionDisposition, Disposes, RecordStop

(* What a checkpoint becomes keeps the record of its execution. *)
LEMMA CheckpointWritten ==
  ASSUME ExecutionInv, UNCHANGED <<attempts, outcomes>>, NEW d \in attempts, NEW new \in Checkpoint,
         checkpoints' = [checkpoints EXCEPT ![d] = new],
         new.phase = "CLAIMED" => new.limit \in Limits /\ new.fact = None,
         new.phase # "CLAIMED" => new.fact \in Fact,
         outcomes[d] # None => outcomes[d] = new.fact,
         new.phase = "OUTCOME_COMMITTED" => outcomes[d] # None
  PROVE  /\ checkpoints' \in [Decisions -> Checkpoint \cup {None}]
         /\ PhasesFilled' /\ OutcomeIsTheFact'
<1>1. d \in Decisions
  BY DEF ExecutionInv, LedgerInv, LedgerTypeOK
<1>2. /\ checkpoints' \in [Decisions -> Checkpoint \cup {None}]
      /\ checkpoints'[d] = new /\ \A e \in Decisions \ {d} : checkpoints'[e] = checkpoints[e]
  BY <1>1 DEF ExecutionInv
<1> QED
  BY <1>2 DEF ExecutionInv, PhasesFilled, OutcomeIsTheFact

LEMMA ClaimStep ==
  ASSUME ExecutionInv, NEW d \in Decisions, NEW limit \in Limits, ClaimRouteExecution(d, limit)
  PROVE  /\ checkpoints' \in [Decisions -> Checkpoint \cup {None}]
         /\ PhasesFilled' /\ OutcomeIsTheFact'
<1> DEFINE claim == [phase |-> "CLAIMED", limit |-> limit, reserved |-> limit, fact |-> None]
<1>1. claim \in Checkpoint /\ PreCallFailed \in Checkpoint /\ PreCallFailed.fact \in Fact
  BY LimitsAssumption DEF Checkpoint, PreCallFailed, Fact, Outcome, Payloads
<1>2. /\ UNCHANGED <<attempts, outcomes>> /\ d \in attempts /\ outcomes[d] = None
      /\ checkpoints' = [checkpoints EXCEPT ![d] = IF Admitted(limit) THEN claim ELSE PreCallFailed]
  BY DEF ClaimRouteExecution, Insert, Unclaimed, ledger
<1>3. CASE Admitted(limit)
  BY <1>1, <1>2, <1>3, CheckpointWritten
<1>4. CASE ~Admitted(limit)
  <2>1. PreCallFailed.phase = "TERMINAL_FACT_READY"
    BY DEF PreCallFailed
  <2> QED
    BY <1>1, <1>2, <1>4, <2>1, CheckpointWritten
<1> QED
  BY <1>3, <1>4

LEMMA PreCallFailureStep ==
  ASSUME ExecutionInv, NEW d \in Decisions, RecordExecutionPreCallFailure(d)
  PROVE  /\ checkpoints' \in [Decisions -> Checkpoint \cup {None}]
         /\ PhasesFilled' /\ OutcomeIsTheFact'
<1>1. /\ PreCallFailed \in Checkpoint /\ PreCallFailed.fact \in Fact
      /\ PreCallFailed.phase = "TERMINAL_FACT_READY"
  BY DEF Checkpoint, PreCallFailed, Fact, Outcome, Payloads
<1>2. /\ UNCHANGED <<attempts, outcomes>> /\ d \in attempts /\ outcomes[d] = None
      /\ checkpoints' = [checkpoints EXCEPT ![d] = PreCallFailed]
  BY DEF RecordExecutionPreCallFailure, Insert, Unclaimed, ledger
<1> QED
  BY <1>1, <1>2, CheckpointWritten

(* An overrun took some time: the limit it passed is a natural. *)
LEMMA FactJudged ==
  ASSUME NEW d, NEW o \in Outcome, checkpoints[d].limit \in Limits
  PROVE  FactOf(d, o) \in Fact
<1>1. CASE o.latency > checkpoints[d].limit
  <2>1. o.latency \in Latencies \cup {0} /\ Limits \subseteq Nat
    BY LimitsAssumption DEF Outcome
  <2>2. checkpoints[d].limit \in Nat
    BY Zenon, <2>1
  <2>3. o.latency # 0
    BY <1>1, <2>2
  <2> QED
    BY <1>1, <2>1, <2>3 DEF FactOf, Fact
<1>2. CASE ~(o.latency > checkpoints[d].limit)
  BY <1>2 DEF FactOf, Fact
<1> QED
  BY <1>1, <1>2

(* A claimed attempt has no outcome yet. *)
LEMMA TerminalFactStep ==
  ASSUME ExecutionInv, NEW d \in Decisions, NEW o \in Outcome, RecordExecutionTerminalFact(d, o)
  PROVE  /\ checkpoints' \in [Decisions -> Checkpoint \cup {None}]
         /\ PhasesFilled' /\ OutcomeIsTheFact'
<1> DEFINE new == [checkpoints[d] EXCEPT !.phase = "TERMINAL_FACT_READY", !.fact = FactOf(d, o)]
<1>1. /\ d \in attempts /\ checkpoints[d] \in Checkpoint /\ checkpoints[d].limit \in Limits
      /\ checkpoints[d].fact = None /\ checkpoints[d] # None
  BY DEF ExecutionInv, PhasesFilled, RecordExecutionTerminalFact, Claimed
<1>2. outcomes[d] = None
  BY <1>1 DEF ExecutionInv, OutcomeIsTheFact
<1>3. FactOf(d, o) \in Fact
  BY <1>1, FactJudged
<1>4. new \in Checkpoint /\ new.phase = "TERMINAL_FACT_READY" /\ new.fact = FactOf(d, o)
  BY <1>1, <1>3 DEF Checkpoint
<1>5. UNCHANGED <<attempts, outcomes>> /\ checkpoints' = [checkpoints EXCEPT ![d] = new]
  BY DEF RecordExecutionTerminalFact, ledger
<1> HIDE DEF new
<1> QED
  BY <1>1, <1>2, <1>3, <1>4, <1>5, CheckpointWritten

LEMMA PersistStep ==
  ASSUME ExecutionInv, NEW d \in Decisions, PersistExecutionTerminalFactAsRouteOutcome(d)
  PROVE  /\ checkpoints' \in [Decisions -> Checkpoint \cup {None}]
         /\ PhasesFilled' /\ OutcomeIsTheFact'
<1>1. /\ checkpoints' = checkpoints /\ attempts' = attempts
      /\ outcomes' = [outcomes EXCEPT ![d] = checkpoints[d].fact]
  BY DEF PersistExecutionTerminalFactAsRouteOutcome, RecordRouteOutcome, Terminalizes
<1>2. outcomes'[d] = checkpoints[d].fact /\ \A e \in Decisions \ {d} : outcomes'[e] = outcomes[e]
  BY <1>1 DEF ExecutionInv, LedgerInv, LedgerTypeOK
<1>3. d \in FactReady /\ checkpoints[d].fact # None
  BY FactIsAnOutcome, NoneAssumption DEF PersistExecutionTerminalFactAsRouteOutcome
<1>4. PhasesFilled'
  BY <1>1 DEF ExecutionInv, PhasesFilled
<1>5. OutcomeIsTheFact'
  BY <1>1, <1>2, <1>3 DEF ExecutionInv, OutcomeIsTheFact
<1> QED
  BY <1>1, <1>4, <1>5 DEF ExecutionInv

LEMMA CommittedStep ==
  ASSUME ExecutionInv, NEW d \in Decisions, MarkExecutionOutcomeCommitted(d)
  PROVE  /\ checkpoints' \in [Decisions -> Checkpoint \cup {None}]
         /\ PhasesFilled' /\ OutcomeIsTheFact'
<1> DEFINE new == [checkpoints[d] EXCEPT !.phase = "OUTCOME_COMMITTED"]
<1>1. /\ checkpoints[d] \in Checkpoint /\ d \in attempts
      /\ outcomes[d] # None /\ outcomes[d] = checkpoints[d].fact
      /\ checkpoints' = [checkpoints EXCEPT ![d] = new] /\ UNCHANGED <<attempts, outcomes>>
  BY DEF ExecutionInv, PhasesFilled, MarkExecutionOutcomeCommitted, Insert, FactReady, Agrees, ledger
<1>2. checkpoints[d].fact \in Fact
  BY DEF ExecutionInv, PhasesFilled, MarkExecutionOutcomeCommitted, FactReady
<1>3. new \in Checkpoint /\ new.phase = "OUTCOME_COMMITTED" /\ new.fact = checkpoints[d].fact
  BY <1>1 DEF Checkpoint
<1> HIDE DEF new
<1> QED
  BY <1>1, <1>2, <1>3, CheckpointWritten

LEMMA CoordinatedStep ==
  ASSUME ExecutionInv, NEW d \in Decisions, PerformCoordinatedLatencyWrite(d)
  PROVE  /\ checkpoints' \in [Decisions -> Checkpoint \cup {None}]
         /\ PhasesFilled' /\ OutcomeIsTheFact'
<1>1. /\ checkpoints' = checkpoints /\ attempts' = attempts /\ checkpoints[d] = None
      /\ \A e \in Decisions \ {d} : outcomes'[e] = outcomes[e]
  BY DEF PerformCoordinatedLatencyWrite, Uncheckpointed, SpendLatency, RecordRouteOutcome,
     CloseContextRequestWithoutResponse, Terminalizes, ExecutionInv, LedgerInv, LedgerTypeOK
<1> QED
  BY <1>1 DEF ExecutionInv, PhasesFilled, OutcomeIsTheFact

(* The checkpoints keep the record of the executions, whatever step comes. *)
LEMMA ExecutionStep ==
  ASSUME ExecutionInv, [Next]_vars
  PROVE  ExecutionInv'
<1> DEFINE Kept == /\ checkpoints' \in [Decisions -> Checkpoint \cup {None}]
                   /\ PhasesFilled' /\ OutcomeIsTheFact'
<1>1. LedgerInv'
  BY StepIsLedgerStep, LedgerStep DEF ExecutionInv
<1>2. ASSUME NEW d \in Decisions, Execute(d)
      PROVE  Kept
  BY <1>2, ClaimStep, PreCallFailureStep, TerminalFactStep, PersistStep, CommittedStep DEF Execute
<1>3. ASSUME NEW d \in Decisions, PerformCoordinatedLatencyWrite(d)
      PROVE  Kept
  BY <1>3, CoordinatedStep
<1>4. ASSUME Deliberate, UNCHANGED checkpoints
      PROVE  Kept
  BY <1>4, DeliberateKeeps DEF ExecutionInv, PhasesFilled, OutcomeIsTheFact
<1>5. ASSUME UNCHANGED vars
      PROVE  Kept
  BY <1>5 DEF vars, ledger, ExecutionInv, PhasesFilled, OutcomeIsTheFact
<1> QED
  BY <1>1, <1>2, <1>3, <1>4, <1>5 DEF Next, ExecutionInv

LEMMA ExecutionStarts ==
  ASSUME Init
  PROVE  ExecutionInv
<1>1. LedgerInv
  BY LedgerStarts DEF Init
<1>2. checkpoints = [d \in Decisions |-> None]
  BY DEF Init
<1> QED
  BY <1>1, <1>2 DEF ExecutionInv, PhasesFilled, OutcomeIsTheFact

LEMMA ExecutionHolds == Spec => []ExecutionInv
<1>1. Init => ExecutionInv
  BY ExecutionStarts
<1>2. ExecutionInv /\ [Next]_vars => ExecutionInv'
  BY ExecutionStep
<1> QED
  BY <1>1, <1>2, PTL DEF Spec

-----------------------------------------------------------------------------
(* The latency the calls in flight may still take *)

SpentOn(d) == IF outcomes[d] = None THEN 0 ELSE outcomes[d].latency
Spending == [d \in Decisions |-> SpentOn(d)]
Reserving == [d \in Decisions |-> Encumbrance(d)]
Total(f) == Sums(Decisions, f)[Decisions]

(* A claim holds all it may take, and a fact takes no more than was held.  *)
HeldEnough(d) ==
  checkpoints[d] # None =>
    /\ checkpoints[d].phase = "CLAIMED" => checkpoints[d].limit = checkpoints[d].reserved
    /\ d \in FactReady \ Violated => checkpoints[d].fact.latency <= checkpoints[d].reserved
Reserved == \A d \in Decisions : HeldEnough(d)

LatencyInv ==
  /\ Reserved
  /\ latency = Total(Spending)
  /\ latency + Total(Reserving) <= ceiling.latency

LEMMA TotalsAreSums ==
  /\ TotalEncumbrance = Total(Reserving)
  /\ MapThenSumSet(LAMBDA d : IF outcomes[d] = None THEN 0 ELSE outcomes[d].latency, Decisions)
       = Total(Spending)
<1>1. TotalEncumbrance = Total(Reserving)
  BY DEF TotalEncumbrance, Reserving, Total, MapThenSumSet, MapThenFoldSet, Pick, Sums, SumsOn
<1>2. MapThenSumSet(LAMBDA d : IF outcomes[d] = None THEN 0 ELSE outcomes[d].latency, Decisions)
        = Total(Spending)
  BY DEF Spending, SpentOn, Total, MapThenSumSet, MapThenFoldSet, Pick, Sums, SumsOn
<1> QED
  BY <1>1, <1>2

LEMMA OutcomeLatency == \A o \in Outcome : o.latency \in Nat
<1>1. Latencies \cup {0} \subseteq Nat
  BY DeliberationAssumption
<1> QED
  BY <1>1 DEF Outcome

(* No reservation is negative: what a fact has spent it had reserved.      *)
LEMMA Encumbrances ==
  ASSUME ExecutionInv, Reserved, NEW d \in Decisions
  PROVE  /\ Encumbrance(d) \in Nat
         /\ d \in Claimed \cup FactReady /\ outcomes[d] = None =>
              Encumbrance(d) = checkpoints[d].reserved
<1>1. CASE d \notin Claimed \cup FactReady
  BY <1>1 DEF Encumbrance
<1>2. CASE d \in Claimed \cup FactReady
  <2>1. checkpoints[d] # None /\ checkpoints[d] \in Checkpoint /\ checkpoints[d].reserved \in Nat
    BY <1>2 DEF ExecutionInv, Claimed, FactReady, Checkpoint
  <2>2. CASE ~Agrees(d)
    BY <1>2, <2>1, <2>2 DEF Encumbrance
  <2>3. CASE Agrees(d)
    <3>1. outcomes[d] # None /\ outcomes[d] \in Outcome /\ checkpoints[d].fact = outcomes[d]
      BY <2>3 DEF Agrees, ExecutionInv, LedgerInv, LedgerTypeOK
    <3>2. checkpoints[d].phase # "CLAIMED"
      BY <2>1, <3>1 DEF ExecutionInv, PhasesFilled
    <3>3. d \in FactReady \ Violated
      <4>1. d \in FactReady
        BY <1>2, <3>2 DEF Claimed, FactReady
      <4>2. outcomes[d].status # "DEADLINE_VIOLATION"
        BY <3>1 DEF Outcome
      <4> QED
        BY <3>1, <4>1, <4>2 DEF Violated
    <3>4. checkpoints[d].fact.latency \in Nat
      BY <3>1, OutcomeLatency
    <3>5. checkpoints[d].fact.latency <= checkpoints[d].reserved
      BY <2>1, <3>3 DEF Reserved, HeldEnough
    <3> QED
      BY <1>2, <2>1, <2>3, <3>1, <3>4, <3>5 DEF Encumbrance
  <2> QED
    BY <2>2, <2>3
<1> QED
  BY <1>1, <1>2

LEMMA Spendings == ExecutionInv => Spending \in [Decisions -> Nat]
<1> SUFFICES ASSUME ExecutionInv
             PROVE  Spending \in [Decisions -> Nat]
  OBVIOUS
<1>1. ASSUME NEW d \in Decisions
      PROVE  SpentOn(d) \in Nat
  <2>1. outcomes[d] \in Outcome \cup {None}
    BY DEF ExecutionInv, LedgerInv, LedgerTypeOK
  <2> QED
    BY <2>1, OutcomeLatency DEF SpentOn
<1> QED
  BY <1>1 DEF Spending

LEMMA Reservings == ExecutionInv /\ Reserved => Reserving \in [Decisions -> Nat]
  BY Encumbrances DEF Reserving

LEMMA TotalsKnown ==
  ASSUME ExecutionInv, Reserved
  PROVE  /\ Total(Spending) \in Nat /\ Total(Reserving) \in Nat
         /\ latency \in Nat /\ ceiling.latency \in Nat
<1>1. latency \in Nat /\ ceiling.latency \in Nat
  BY DeliberationAssumption DEF ExecutionInv, LedgerInv, LedgerTypeOK
<1> QED
  BY <1>1, Spendings, Reservings, SumNatural, DeliberationAssumption DEF Total

(* A step that changes what one attempt reserves or spends.                *)
LEMMA OneChange ==
  ASSUME NEW f \in [Decisions -> Nat], NEW h \in [Decisions -> Nat], NEW d \in Decisions,
         \A e \in Decisions \ {d} : h[e] = f[e]
  PROVE  /\ Total(h) = Total(f) + h[d] - f[d]
         /\ Total(f) \in Nat /\ Total(h) \in Nat
<1>1. f \in [Decisions -> Int] /\ h \in [Decisions -> Int]
  OBVIOUS
<1>2. IsFiniteSet(Decisions)
  BY DeliberationAssumption
<1>3. Sums(Decisions, h)[Decisions] = Sums(Decisions, f)[Decisions] + h[d] - f[d]
  BY <1>1, <1>2, SumChanges
<1>4. Sums(Decisions, f)[Decisions] \in Nat /\ Sums(Decisions, h)[Decisions] \in Nat
  BY <1>2, SumNatural
<1> QED
  BY <1>3, <1>4 DEF Total

(* The least each reserves is in the total.                                *)
LEMMA PartOfTotal ==
  ASSUME NEW f \in [Decisions -> Nat], NEW d \in Decisions
  PROVE  f[d] <= Total(f)
<1>1. PICK h : h = [f EXCEPT ![d] = 0]
  OBVIOUS
<1>2. h \in [Decisions -> Nat] /\ h[d] = 0 /\ \A e \in Decisions \ {d} : h[e] = f[e]
  BY <1>1
<1>3. PICK m \in Nat, n \in Nat : m = Total(f) /\ n = Total(h) /\ n = m + h[d] - f[d]
  BY <1>2, OneChange
<1>4. f[d] \in Nat
  OBVIOUS
<1> QED
  BY <1>2, <1>3, <1>4

(* A checkpoint written over another, the ledger as it was.                *)
LEMMA Rechecked ==
  ASSUME ExecutionInv, ExecutionInv', LatencyInv, UNCHANGED ledger, NEW d \in Decisions,
         \A e \in Decisions \ {d} : checkpoints'[e] = checkpoints[e],
         HeldEnough(d)',
         \/ Encumbrance(d)' <= Encumbrance(d)
         \/ Encumbrance(d) = 0 /\ Encumbrance(d)' <= Remaining
  PROVE  LatencyInv'
<1>0. Reserved'
  BY DEF LatencyInv, Reserved, HeldEnough, FactReady, Violated
<1>1. PICK f \in [Decisions -> Nat] : f = Reserving
  BY Reservings DEF LatencyInv
<1>a. ExecutionInv' /\ Reserved' => (Reserving \in [Decisions -> Nat])'
  BY Reservings, PTL
<1>2. PICK h \in [Decisions -> Nat] : h = Reserving'
  BY <1>0, <1>a
<1>3. \A e \in Decisions \ {d} : Encumbrance(e)' = Encumbrance(e)
  BY DEF Encumbrance, Claimed, FactReady, Agrees, ledger
<1>4. \A e \in Decisions \ {d} : h[e] = f[e]
  BY <1>1, <1>2, <1>3 DEF Reserving
<1>5. Total(h) = Total(f) + h[d] - f[d] /\ Total(f) \in Nat /\ Total(h) \in Nat
  BY <1>4, OneChange
<1>6. h[d] = Encumbrance(d)' /\ f[d] = Encumbrance(d)
  BY <1>1, <1>2 DEF Reserving
<1>7. /\ Remaining = ceiling.latency - latency - Total(f)
      /\ latency + Total(f) <= ceiling.latency
      /\ latency \in Nat /\ ceiling.latency \in Nat
  BY <1>1, TotalsAreSums, TotalsKnown DEF Remaining, LatencyInv
<1>8. latency + Total(h) <= ceiling.latency
  BY <1>5, <1>6, <1>7
<1>9. Spending' = Spending
  BY DEF Spending, SpentOn, ledger
<1> QED
  BY <1>0, <1>2, <1>8, <1>9 DEF LatencyInv, ledger, Total

(* A call is admitted within what remains, or refused without holding any.  *)
LEMMA ClaimLatency ==
  ASSUME ExecutionInv, ExecutionInv', LatencyInv, NEW d \in Decisions, Unclaimed(d),
         \/ RecordExecutionPreCallFailure(d)
         \/ \E limit \in Limits : ClaimRouteExecution(d, limit)
  PROVE  LatencyInv'
<1>1. /\ checkpoints[d] = None /\ outcomes[d] = None /\ UNCHANGED ledger
      /\ outcomes'[d] = None
  BY DEF Unclaimed, RecordExecutionPreCallFailure, ClaimRouteExecution, Insert, ledger
<1>2. Encumbrance(d) = 0
  BY <1>1 DEF Encumbrance, Claimed, FactReady
<1>3. CASE Insert(d, PreCallFailed)
  <2>1. /\ checkpoints'[d] = PreCallFailed
        /\ \A e \in Decisions \ {d} : checkpoints'[e] = checkpoints[e]
    BY <1>3 DEF Insert, ExecutionInv
  <2>2. HeldEnough(d)'
    BY <2>1 DEF HeldEnough, PreCallFailed
  <2>3. Encumbrance(d)' = 0
    BY <1>1, <2>1 DEF Encumbrance, PreCallFailed, Agrees
  <2> QED
    BY <1>1, <1>2, <2>1, <2>2, <2>3, Rechecked
<1>4. ASSUME NEW limit \in Limits, Admitted(limit),
             Insert(d, [phase |-> "CLAIMED", limit |-> limit, reserved |-> limit, fact |-> None])
      PROVE  LatencyInv'
  <2> DEFINE claim == [phase |-> "CLAIMED", limit |-> limit, reserved |-> limit, fact |-> None]
  <2>1. /\ checkpoints'[d] = claim
        /\ \A e \in Decisions \ {d} : checkpoints'[e] = checkpoints[e]
    BY <1>4 DEF Insert, ExecutionInv
  <2>2. HeldEnough(d)'
    BY <2>1 DEF HeldEnough, FactReady
  <2>3. claim # None
    BY <2>1, NoCheckpointAssumption, LimitsAssumption DEF Checkpoint
  <2>4. Encumbrance(d)' = limit
    <3>1. limit \in Nat
      BY LimitsAssumption
    <3> QED
      BY <1>1, <2>1, <2>3, <3>1 DEF Encumbrance, Agrees, Claimed
  <2>5. Encumbrance(d)' <= Remaining
    BY <1>4, <2>4 DEF Admitted
  <2> QED
    BY <1>1, <1>2, <2>1, <2>2, <2>5, Rechecked
<1> QED
  BY <1>3, <1>4 DEF ClaimRouteExecution, RecordExecutionPreCallFailure

(* The fact a call brings back is within its limit, or it is an overrun and *)
(* is never spent.                                                          *)
LEMMA TerminalFactLatency ==
  ASSUME ExecutionInv, ExecutionInv', LatencyInv, NEW d \in Decisions, NEW o \in Outcome,
         RecordExecutionTerminalFact(d, o)
  PROVE  LatencyInv'
<1>1. /\ checkpoints[d] \in Checkpoint /\ checkpoints[d].phase = "CLAIMED"
      /\ checkpoints[d].fact = None /\ checkpoints[d] # None
      /\ checkpoints[d].limit \in Nat /\ checkpoints[d].limit = checkpoints[d].reserved
  BY LimitsAssumption
     DEF ExecutionInv, PhasesFilled, RecordExecutionTerminalFact, Claimed, LatencyInv, Reserved,
         HeldEnough
<1>2. outcomes[d] = None /\ outcomes'[d] = None /\ UNCHANGED ledger
  BY <1>1 DEF ExecutionInv, OutcomeIsTheFact, RecordExecutionTerminalFact, ledger
<1>3. /\ checkpoints'[d].phase = "TERMINAL_FACT_READY" /\ checkpoints'[d].fact = FactOf(d, o)
      /\ checkpoints'[d].reserved = checkpoints[d].reserved
      /\ \A e \in Decisions \ {d} : checkpoints'[e] = checkpoints[e]
  BY <1>1 DEF RecordExecutionTerminalFact, ExecutionInv, Checkpoint
<1>4. HeldEnough(d)'
  <2>1. CASE o.latency > checkpoints[d].limit
    <3>1. FactOf(d, o).status = "DEADLINE_VIOLATION"
      BY <2>1 DEF FactOf, Violation
    <3> QED
      BY <1>3, <3>1 DEF HeldEnough, Violated
  <2>2. CASE ~(o.latency > checkpoints[d].limit)
    <3>1. FactOf(d, o).latency <= checkpoints[d].reserved
      BY <1>1, <2>2, OutcomeLatency DEF FactOf
    <3> QED
      BY <1>3, <3>1 DEF HeldEnough
  <2> QED
    BY <2>1, <2>2
<1>5. Encumbrance(d)' = checkpoints[d].reserved /\ Encumbrance(d) = checkpoints[d].reserved
  <2>1. ~Agrees(d) /\ ~Agrees(d)'
    BY <1>2 DEF Agrees
  <2>2. checkpoints'[d] # None
    <3>1. checkpoints[d].limit \in Limits
      BY DEF ExecutionInv, PhasesFilled, RecordExecutionTerminalFact, Claimed
    <3>2. FactOf(d, o) \in Fact
      BY <3>1, FactJudged
    <3>3. checkpoints'[d] \in Checkpoint
      BY <1>1, <3>2 DEF RecordExecutionTerminalFact, ExecutionInv, Checkpoint
    <3> QED
      BY <3>3, NoCheckpointAssumption
  <2>3. d \in Claimed
    BY <1>1 DEF Claimed
  <2> QED
    BY <1>1, <1>3, <2>1, <2>2, <2>3 DEF Encumbrance, FactReady, Checkpoint
<1> QED
  BY <1>1, <1>2, <1>3, <1>4, <1>5, Rechecked DEF Checkpoint

(* A commit gives back what is left of the reservation.                     *)
LEMMA CommittedLatency ==
  ASSUME ExecutionInv, ExecutionInv', LatencyInv, NEW d \in Decisions,
         MarkExecutionOutcomeCommitted(d)
  PROVE  LatencyInv'
<1>1. checkpoints[d] \in Checkpoint /\ checkpoints[d] # None /\ UNCHANGED ledger
  BY DEF MarkExecutionOutcomeCommitted, FactReady, Insert, ExecutionInv
<1>2. /\ checkpoints'[d].phase = "OUTCOME_COMMITTED"
      /\ \A e \in Decisions \ {d} : checkpoints'[e] = checkpoints[e]
  BY <1>1 DEF MarkExecutionOutcomeCommitted, Insert, ExecutionInv, Checkpoint
<1>3. HeldEnough(d)' /\ Encumbrance(d)' = 0
  BY <1>2 DEF HeldEnough, FactReady, Encumbrance, Claimed
<1>4. Encumbrance(d) \in Nat
  BY Encumbrances DEF LatencyInv
<1> QED
  BY <1>1, <1>2, <1>3, <1>4, Rechecked

(* An outcome is recorded once; what it spends it had reserved, or there    *)
(* was no reservation to spare and the ceiling had room for it.             *)
LEMMA Recorded ==
  ASSUME ExecutionInv, ExecutionInv', LatencyInv, NEW d \in Decisions, NEW o \in Outcome,
         Terminalizes(d, o), checkpoints' = checkpoints,
         \/ Encumbrance(d)' = Encumbrance(d) - o.latency
         \/ Encumbrance(d)' = Encumbrance(d) /\ TotalEncumbrance = 0
  PROVE  LatencyInv'
<1>1. /\ outcomes[d] = None /\ outcomes'[d] = o
      /\ \A e \in Decisions \ {d} : outcomes'[e] = outcomes[e]
      /\ latency' = latency + o.latency /\ ceiling' = ceiling
      /\ latency + o.latency <= ceiling.latency
  BY DEF Terminalizes, Fits, ExecutionInv, LedgerInv, LedgerTypeOK
<1>2. o # None /\ o.latency \in Nat
  BY NoneAssumption, OutcomeLatency
<1>3. Reserved'
  BY DEF LatencyInv, Reserved, HeldEnough, FactReady, Violated
<1>4. PICK f \in [Decisions -> Nat] : f = Reserving
  BY Reservings DEF LatencyInv
<1>5. ExecutionInv' /\ Reserved' => (Reserving \in [Decisions -> Nat])'
  BY Reservings, PTL
<1>6. PICK h \in [Decisions -> Nat] : h = Reserving'
  BY <1>3, <1>5
<1>7. PICK s \in [Decisions -> Nat] : s = Spending
  BY Spendings
<1>8. ExecutionInv' => (Spending \in [Decisions -> Nat])'
  BY Spendings, PTL
<1>9. PICK t \in [Decisions -> Nat] : t = Spending'
  BY <1>8
<1>10. \A e \in Decisions \ {d} : h[e] = f[e] /\ t[e] = s[e]
  BY <1>1, <1>4, <1>6, <1>7, <1>9
     DEF Reserving, Encumbrance, Claimed, FactReady, Agrees, Spending, SpentOn
<1>11. t[d] = o.latency /\ s[d] = 0
  BY <1>1, <1>2, <1>7, <1>9 DEF Spending, SpentOn
<1>12. /\ Total(h) = Total(f) + h[d] - f[d] /\ Total(f) \in Nat /\ Total(h) \in Nat
       /\ Total(t) = Total(s) + t[d] - s[d] /\ Total(s) \in Nat /\ Total(t) \in Nat
  BY <1>10, OneChange
<1>13. h[d] = Encumbrance(d)' /\ f[d] = Encumbrance(d) /\ h[d] \in Nat /\ f[d] \in Nat
  BY <1>4, <1>6 DEF Reserving
<1>14. /\ latency = Total(s) /\ latency + Total(f) <= ceiling.latency
       /\ TotalEncumbrance = Total(f) /\ latency \in Nat /\ ceiling.latency \in Nat
  BY <1>4, <1>7, TotalsAreSums, TotalsKnown DEF LatencyInv
<1>15. latency' = Total(t)
  BY <1>1, <1>2, <1>11, <1>12, <1>14
<1>16. latency' + Total(h) <= ceiling.latency
  BY <1>1, <1>2, <1>12, <1>13, <1>14
<1> QED
  BY <1>1, <1>3, <1>6, <1>9, <1>15, <1>16 DEF LatencyInv, Total

(* A fact is replayed within what its call reserved.                        *)
LEMMA PersistLatency ==
  ASSUME ExecutionInv, ExecutionInv', LatencyInv, NEW d \in Decisions,
         PersistExecutionTerminalFactAsRouteOutcome(d)
  PROVE  LatencyInv'
<1> DEFINE o == checkpoints[d].fact
<1>1. /\ d \in FactReady \ Violated /\ Terminalizes(d, o) /\ checkpoints' = checkpoints
      /\ outcomes[d] = None /\ outcomes'[d] = o
  BY DEF PersistExecutionTerminalFactAsRouteOutcome, RecordRouteOutcome, Terminalizes, ExecutionInv,
     LedgerInv, LedgerTypeOK
<1>2. o \in Outcome /\ o # None
  BY <1>1, FactIsAnOutcome, NoneAssumption
<1>3. Encumbrance(d) = checkpoints[d].reserved
  BY <1>1, Encumbrances DEF LatencyInv
<1>4. Encumbrance(d)' = checkpoints[d].reserved - o.latency
  BY <1>1, <1>2 DEF Encumbrance, Agrees, FactReady
<1> HIDE DEF o
<1> QED
  BY <1>1, <1>2, <1>3, <1>4, Recorded

(* An outcome no call was made for is recorded when nothing is reserved.    *)
LEMMA CoordinatedLatency ==
  ASSUME ExecutionInv, ExecutionInv', LatencyInv, NEW d \in Decisions,
         PerformCoordinatedLatencyWrite(d)
  PROVE  LatencyInv'
<1>1. checkpoints[d] = None /\ TotalEncumbrance = 0 /\ checkpoints' = checkpoints
  BY DEF PerformCoordinatedLatencyWrite, Uncheckpointed
<1>2. Encumbrance(d)' = Encumbrance(d)
  BY <1>1 DEF Encumbrance, Claimed, FactReady
<1>3. PICK o \in Outcome : Terminalizes(d, o)
  <2>1. \A spent \in Latencies : NoResponse(spent) \in Outcome
    BY DEF NoResponse, Outcome, Payloads
  <2> QED
    BY <2>1 DEF PerformCoordinatedLatencyWrite, SpendLatency, RecordRouteOutcome,
       CloseContextRequestWithoutResponse
<1> QED
  BY <1>1, <1>2, <1>3, Recorded

(* Nothing else spends or reserves latency.                                 *)
LEMMA SameLatency ==
  ASSUME LatencyInv, UNCHANGED <<outcomes, latency, ceiling, checkpoints>>
  PROVE  LatencyInv'
  BY DEF LatencyInv, Reserved, HeldEnough, FactReady, Claimed, Violated, Spending, SpentOn, Reserving,
     Encumbrance, Agrees, Total

LEMMA DeliberateSpendsNothing ==
  ASSUME Deliberate
  PROVE  UNCHANGED <<outcomes, latency, ceiling>>
  BY DEF Deliberate, Ask, RegisterQuestion, Supersede, RegisterEvidenceSubject, PlanRoute,
     RecordRouteDecision, RecordRouteAttemptStart, CreateContextRequest,
     CreateCrossSessionTransition, RecordQuestionDisposition, Disposes, RecordStop

LEMMA LatencyStep ==
  ASSUME ExecutionInv, ExecutionInv', LatencyInv, [Next]_vars
  PROVE  LatencyInv'
<1>1. ASSUME NEW d \in Decisions, Execute(d)
      PROVE  LatencyInv'
  <2>1. ASSUME NEW limit \in Limits, ClaimRouteExecution(d, limit)
        PROVE  LatencyInv'
    BY <2>1, ClaimLatency DEF ClaimRouteExecution
  <2>2. CASE RecordExecutionPreCallFailure(d)
    BY <2>2, ClaimLatency DEF RecordExecutionPreCallFailure
  <2> QED
    BY <1>1, <2>1, <2>2, TerminalFactLatency, PersistLatency, CommittedLatency DEF Execute
<1>2. ASSUME NEW d \in Decisions, PerformCoordinatedLatencyWrite(d)
      PROVE  LatencyInv'
  BY <1>2, CoordinatedLatency
<1>3. ASSUME Deliberate, UNCHANGED checkpoints
      PROVE  LatencyInv'
  BY <1>3, DeliberateSpendsNothing, SameLatency
<1>4. ASSUME UNCHANGED vars
      PROVE  LatencyInv'
  BY <1>4, SameLatency DEF vars, ledger
<1> QED
  BY <1>1, <1>2, <1>3, <1>4 DEF Next

LEMMA LatencyStarts ==
  ASSUME Init
  PROVE  LatencyInv
<1>1. /\ outcomes = [d \in Decisions |-> None] /\ checkpoints = [d \in Decisions |-> None]
      /\ latency = 0 /\ ceiling \in Ceilings
  BY DEF Init, LedgerInit
<1>2. \A d \in Decisions : SpentOn(d) = 0 /\ Encumbrance(d) = 0
  BY <1>1 DEF SpentOn, Encumbrance, Claimed, FactReady
<1> DEFINE zero == [d \in Decisions |-> 0]
<1>3. Spending = zero /\ Reserving = zero
  BY <1>2 DEF Spending, Reserving
<1>4. zero \in [Decisions -> Nat] /\ \A d \in Decisions : zero[d] = 0
  OBVIOUS
<1> HIDE DEF zero
<1>5. IsFiniteSet(Decisions)
  BY DeliberationAssumption
<1>6. Total(zero) = 0
  BY <1>4, <1>5, SumNatural DEF Total
<1>7. ceiling.latency \in Nat
  BY <1>1, DeliberationAssumption
<1>8. Reserved
  BY <1>1 DEF Reserved, HeldEnough
<1> QED
  BY <1>1, <1>3, <1>4, <1>6, <1>7, <1>8 DEF LatencyInv

LEMMA LatencyHolds == Spec => [](ExecutionInv /\ LatencyInv)
<1>1. Init => LatencyInv
  BY LatencyStarts
<1>2. ExecutionInv /\ ExecutionInv' /\ LatencyInv /\ [Next]_vars => LatencyInv'
  BY LatencyStep
<1> QED
  BY <1>1, <1>2, ExecutionHolds, PTL DEF Spec

(* The ledger and the checkpoints have their shapes, and neither budget is  *)
(* overdrawn, whatever is asked of them.                                    *)
THEOREM ExecutionTypeCorrect == Spec => []TypeOK
<1>1. ExecutionInv => TypeOK
  BY DEF ExecutionInv, LedgerInv, TypeOK
<1> QED
  BY <1>1, ExecutionHolds, PTL

(* A question is worked on by one decision at a time, and closed by one.    *)
THEOREM CyclesCorrect == Spec => []OneActiveCycle
<1>1. ExecutionInv => OneActiveCycle
  BY DEF ExecutionInv, LedgerInv
<1> QED
  BY <1>1, ExecutionHolds, PTL

(* Questions derive from superseded ones without cycles or forks, and       *)
(* sessions from the answers that opened them.                              *)
THEOREM LineageCorrect == Spec => []LineageSound
<1>1. ExecutionInv => LineageSound
  BY DEF ExecutionInv, LedgerInv
<1> QED
  BY <1>1, ExecutionHolds, PTL

(* One reviewer run is the success of one attempt.                          *)
THEOREM ReviewersCorrect == Spec => []ReviewersCountedOnce
<1>1. ExecutionInv => ReviewersCountedOnce
  BY DEF ExecutionInv, LedgerInv
<1> QED
  BY <1>1, ExecutionHolds, PTL

(* An attempt that was claimed has the outcome its executor returned, and   *)
(* none before.                                                             *)
THEOREM OutcomesCorrect == Spec => []OutcomeIsTheFact
<1>1. ExecutionInv => OutcomeIsTheFact
  BY DEF ExecutionInv
<1> QED
  BY <1>1, ExecutionHolds, PTL

(* A provider's call that is under way, or waits to be recorded, is that of *)
(* the open cycle of a current question, ready for what it returns.         *)
THEOREM ClaimsCorrect == Spec => []ClaimsStayOpen
<1>1. Init => AttemptsOpen
  BY DEF Init, LedgerInit, AttemptsOpen
<1>2. ExecutionInv /\ AttemptsOpen /\ [Next]_vars => AttemptsOpen'
  BY StepIsLedgerStep, AttemptsOpenStep DEF ExecutionInv
<1>3. ExecutionInv /\ AttemptsOpen => ClaimsStayOpen
  BY DEF ExecutionInv, PhasesFilled, AttemptsOpen, ClaimsStayOpen, Claimed, FactReady
<1> QED
  BY <1>1, <1>2, <1>3, ExecutionHolds, PTL DEF Spec

(* What the calls in flight reserved is never given away: the latency spent *)
(* is what the outcomes consumed, and with the reservations still held it   *)
(* stays within the ceiling, for any number of attempts and any limits a    *)
(* policy answers (assertGlobalLatencyIntegrity never refuses a state).     *)
THEOREM LatencyNeverOverdrawn == Spec => []LatencyCovered
<1>1. LatencyInv => LatencyCovered
  BY TotalsAreSums DEF LatencyInv, LatencyCovered
<1> QED
  BY <1>1, LatencyHolds, PTL

(* A provider call that was paid for can always be recorded: its cycle is   *)
(* still open, its question still ready for it, and the latency it reserved *)
(* still within the budget, whatever the deliberation did meanwhile.        *)
THEOREM PaidCallsStayRecordable == Spec => []ClaimsStayRecordable
<1>1. ASSUME ClaimsStayOpen, ExecutionInv, LatencyInv
      PROVE  ClaimsStayRecordable
  <2> SUFFICES ASSUME NEW d \in Claimed \cup (FactReady \ Violated), outcomes[d] = None
               PROVE  latency + checkpoints[d].reserved <= ceiling.latency
    BY <1>1 DEF ClaimsStayRecordable, ClaimsStayOpen
  <2>1. d \in Decisions
    BY DEF Claimed, FactReady
  <2>2. Encumbrance(d) = checkpoints[d].reserved
    BY <1>1, <2>1, Encumbrances DEF LatencyInv
  <2>3. PICK f \in [Decisions -> Nat] : f = Reserving
    BY <1>1, Reservings DEF LatencyInv
  <2>4. f[d] <= Total(f) /\ f[d] = Encumbrance(d)
    BY <2>1, <2>3, PartOfTotal DEF Reserving
  <2>5. /\ latency + Total(f) <= ceiling.latency /\ Total(f) \in Nat
        /\ latency \in Nat /\ ceiling.latency \in Nat
    BY <1>1, <2>3, TotalsKnown DEF LatencyInv
  <2>6. f[d] \in Nat
    BY <2>1
  <2> QED
    BY <2>2, <2>4, <2>5, <2>6
<1> QED
  BY <1>1, LatencyHolds, ClaimsCorrect, PTL

(* Executing routes with checkpoints implements the ledger: it records      *)
(* nothing that the ledger's own operations would not have recorded.        *)
THEOREM ExecutionImplementsLedger == Spec => LedgerSpec
<1>1. Init => LedgerInit
  BY DEF Init
<1>2. ExecutionInv /\ [Next]_vars => [LedgerNext]_ledger
  BY StepIsLedgerStep
<1> QED
  BY <1>1, <1>2, ExecutionHolds, PTL DEF Spec, LedgerSpec
=============================================================================
