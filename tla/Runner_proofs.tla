----------------------------- MODULE Runner_proofs -----------------------------
(***************************************************************************)
(* AutomationRunner's properties, proved for any runners, principals,      *)
(* trail, packets, outcomes, call budget and faults.                       *)
(*                                                                         *)
(* IInv strengthens the properties with what a runner in the middle of a   *)
(* step may rely on, by the phase it is in (Fits), and with who may still  *)
(* call the actor for an occurrence (ClaimsOK).  Everything shared only    *)
(* grows (Grows), so what a step learned of it stays true while others     *)
(* act; the lemmas before the actions say so once for all of them.         *)
(***************************************************************************)
EXTENDS Runner, FiniteSetTheorems, TLAPS

-----------------------------------------------------------------------------
(* The invocation journal by itself: for any occurrences, packets, outcomes *)
(* and call budget, JournalInv (types, the consistency of each record and   *)
(* the budget) is inductive as it stands.                                   *)

JournalInv == JournalTypeOK /\ RecordsConsistent /\ CallBudgetHeld

(* The calls of a packet are finitely many, so they can be counted.        *)
LEMMA CallsFinite ==
  ASSUME NEW packet
  PROVE  /\ IsFiniteSet(CallsOf(packet))
         /\ Cardinality(CallsOf(packet)) \in Nat
<1>1. CallsOf(packet) \subseteq Occurrences
  BY DEF CallsOf
<1>2. IsFiniteSet(CallsOf(packet))
  BY <1>1, JournalAssumption, FS_Subset
<1> QED
  BY <1>2, FS_CardinalityType

(* An operation that starts nothing leaves every packet's calls as they were. *)
LEMMA BudgetKept ==
  ASSUME CallBudgetHeld, \A packet \in Packets : CallsOf(packet)' = CallsOf(packet)
  PROVE  CallBudgetHeld'
  BY DEF CallBudgetHeld

LEMMA PrepareKeeps ==
  ASSUME JournalInv, NEW s \in Occurrences, NEW packet \in Packets, Prepare(s, packet)
  PROVE  JournalInv'
<1>1. journal' = [journal EXCEPT ![s] = [state |-> "PREPARED", started |-> FALSE,
                                          packet |-> packet, result |-> None]]
  BY DEF Prepare, Prepared
<1>2. /\ journal \in [Occurrences -> InvocationRecord \cup {None}]
      /\ journal[s] = None
  BY DEF JournalInv, JournalTypeOK, Prepare
<1>3. JournalTypeOK'
  BY <1>1, <1>2 DEF JournalTypeOK, InvocationRecord, InvocationStates
<1>4. RecordsConsistent'
  BY <1>1, <1>2 DEF JournalInv, RecordsConsistent, Consistent
<1>5. \A p \in Packets : CallsOf(p)' = CallsOf(p)
  BY <1>1, <1>2 DEF CallsOf
<1> QED
  BY <1>3, <1>4, <1>5, BudgetKept DEF JournalInv

LEMMA StartKeeps ==
  ASSUME JournalInv, NEW s \in Occurrences, Start(s)
  PROVE  JournalInv'
<1>0. /\ journal \in [Occurrences -> InvocationRecord \cup {None}]
      /\ journal[s] # None
      /\ journal[s] \in InvocationRecord
      /\ journal[s].state = "PREPARED"
  BY DEF JournalInv, JournalTypeOK, Start, MayStart
<1>1. PICK packet \in Packets : journal[s].packet = packet
  BY <1>0 DEF InvocationRecord
<1>2. /\ journal' = [journal EXCEPT ![s].state = "STARTED", ![s].started = TRUE]
      /\ BudgetLeft(packet)
  BY <1>1 DEF Start, Started
<1>3. /\ journal'[s] = [journal[s] EXCEPT !.state = "STARTED", !.started = TRUE]
      /\ \A o \in Occurrences \ {s} : journal'[o] = journal[o]
  BY <1>0, <1>2
<1>4. JournalTypeOK'
  BY <1>0, <1>2 DEF JournalTypeOK, InvocationRecord, InvocationStates
<1>5. ~journal[s].started /\ journal[s].result = None
  BY <1>0 DEF JournalInv, RecordsConsistent, Consistent
<1>6. RecordsConsistent'
  BY <1>0, <1>3, <1>5 DEF JournalInv, RecordsConsistent, Consistent, InvocationRecord
<1>7. CallBudgetHeld'
  <2>1. ASSUME NEW p \in Packets, p # packet
        PROVE  CallsOf(p)' = CallsOf(p)
    BY <1>0, <1>1, <1>3, <2>1 DEF CallsOf, InvocationRecord
  <2>2. CallsOf(packet)' = CallsOf(packet) \cup {s}
    <3>1. /\ journal'[s] # None
          /\ journal'[s].packet = packet
          /\ journal'[s].started
      <4>1. journal'[s] \in InvocationRecord
        BY <1>0, <1>3 DEF InvocationRecord, InvocationStates
      <4> QED
        BY <1>0, <1>1, <1>3, <4>1, NoneAssumption DEF InvocationRecord
    <3> QED
      BY <1>3, <3>1 DEF CallsOf
  <2>3. Cardinality(CallsOf(packet) \cup {s}) <= Cardinality(CallsOf(packet)) + 1
    BY CallsFinite, FS_AddElement
  <2>4. Cardinality(CallsOf(packet) \cup {s}) \in Nat
    BY CallsFinite, FS_AddElement, FS_CardinalityType
  <2>5. Cardinality(CallsOf(packet)) < MaxCalls
    BY <1>2 DEF BudgetLeft
  <2>6. Cardinality(CallsOf(packet)') <= MaxCalls
    BY <2>2, <2>3, <2>4, <2>5, CallsFinite, JournalAssumption
  <2> QED
    BY <2>1, <2>6 DEF JournalInv, CallBudgetHeld
<1> QED
  BY <1>4, <1>6, <1>7 DEF JournalInv

LEMMA CompleteKeeps ==
  ASSUME JournalInv, NEW s \in Occurrences, NEW outcome \in Outcomes, Complete(s, outcome)
  PROVE  JournalInv'
<1>1. /\ journal \in [Occurrences -> InvocationRecord \cup {None}]
      /\ journal[s] # None
      /\ journal[s] \in InvocationRecord
      /\ journal[s].state = "STARTED"
  BY DEF JournalInv, JournalTypeOK, Complete, May, Transitions
<1>2. journal' = [journal EXCEPT ![s].state = "COMPLETED", ![s].result = outcome]
  BY DEF Complete, Completed
<1>3. /\ journal'[s] = [journal[s] EXCEPT !.state = "COMPLETED", !.result = outcome]
      /\ \A o \in Occurrences \ {s} : journal'[o] = journal[o]
  BY <1>1, <1>2
<1>4. JournalTypeOK'
  BY <1>1, <1>2 DEF JournalTypeOK, InvocationRecord, InvocationStates
<1>5. journal[s].started /\ outcome # None
  BY <1>1, JournalAssumption DEF JournalInv, RecordsConsistent, Consistent
<1>6. RecordsConsistent'
  BY <1>1, <1>3, <1>5 DEF JournalInv, RecordsConsistent, Consistent, InvocationRecord
<1>7. \A p \in Packets : CallsOf(p)' = CallsOf(p)
  <2>1. /\ journal'[s] # None
        /\ journal'[s].packet = journal[s].packet
        /\ journal'[s].started = journal[s].started
    <3>1. journal'[s] \in InvocationRecord
      BY <1>1, <1>3 DEF InvocationRecord, InvocationStates
    <3> QED
      BY <1>1, <1>3, <3>1, NoneAssumption DEF InvocationRecord
  <2>2. \A o \in Occurrences, p \in Packets :
          (journal'[o] # None /\ journal'[o].packet = p /\ journal'[o].started)
            <=> (journal[o] # None /\ journal[o].packet = p /\ journal[o].started)
    BY <1>1, <1>3, <2>1
  <2> QED
    BY <2>2 DEF CallsOf
<1> QED
  BY <1>4, <1>6, <1>7, BudgetKept DEF JournalInv

LEMMA SettleKeeps ==
  ASSUME JournalInv, NEW s \in Occurrences, NEW state \in Final, Settle(s, state)
  PROVE  JournalInv'
<1>1. /\ journal \in [Occurrences -> InvocationRecord \cup {None}]
      /\ journal[s] # None
      /\ journal[s] \in InvocationRecord
      /\ <<journal[s].state, state>> \in Transitions
  BY DEF JournalInv, JournalTypeOK, Settle, May
<1>2. journal' = [journal EXCEPT ![s].state = state]
  BY DEF Settle, Settled
<1>3. /\ journal'[s] = [journal[s] EXCEPT !.state = state]
      /\ \A o \in Occurrences \ {s} : journal'[o] = journal[o]
  BY <1>1, <1>2
<1>4. JournalTypeOK'
  BY <1>1, <1>2 DEF JournalTypeOK, InvocationRecord, InvocationStates
<1>5. Consistent(journal[s])
  BY <1>1 DEF JournalInv, RecordsConsistent
<1>6. \/ journal[s].state = "PREPARED" /\ state = "ABANDONED"
      \/ journal[s].state = "STARTED" /\ state = "UNCERTAIN"
      \/ journal[s].state = "COMPLETED" /\ state \in {"APPLIED", "ABANDONED"}
  BY <1>1 DEF Transitions, Final
<1>7. Consistent(journal'[s])
  BY <1>1, <1>3, <1>5, <1>6 DEF Consistent, InvocationRecord
<1>8. RecordsConsistent'
  BY <1>3, <1>7 DEF JournalInv, RecordsConsistent, Consistent
<1>9. \A p \in Packets : CallsOf(p)' = CallsOf(p)
  <2>1. /\ journal'[s] # None
        /\ journal'[s].packet = journal[s].packet
        /\ journal'[s].started = journal[s].started
    <3>1. journal'[s] \in InvocationRecord
      BY <1>1, <1>3 DEF InvocationRecord, InvocationStates
    <3> QED
      BY <1>1, <1>3, <3>1, NoneAssumption DEF InvocationRecord
  <2>2. \A o \in Occurrences, p \in Packets :
          (journal'[o] # None /\ journal'[o].packet = p /\ journal'[o].started)
            <=> (journal[o] # None /\ journal[o].packet = p /\ journal[o].started)
    BY <1>1, <1>3, <2>1
  <2> QED
    BY <2>2 DEF CallsOf
<1> QED
  BY <1>4, <1>8, <1>9, BudgetKept DEF JournalInv

LEMMA JournalStarts == JournalInit => JournalInv
<1> SUFFICES ASSUME JournalInit PROVE JournalInv
  OBVIOUS
<1>1. JournalTypeOK /\ RecordsConsistent
  BY DEF JournalInit, JournalTypeOK, RecordsConsistent
<1>2. \A packet \in Packets : CallsOf(packet) = {}
  BY DEF JournalInit, CallsOf
<1> QED
  BY <1>1, <1>2, FS_EmptySet, JournalAssumption DEF JournalInv, CallBudgetHeld

LEMMA JournalInductive == JournalSpec => []JournalInv
<1>1. JournalInit => JournalInv
  BY JournalStarts
<1>2. JournalInv /\ [JournalNext]_journal => JournalInv'
  <2> SUFFICES ASSUME JournalInv, [JournalNext]_journal PROVE JournalInv'
    OBVIOUS
  <2>1. CASE UNCHANGED journal
    BY <2>1 DEF JournalInv, JournalTypeOK, RecordsConsistent, CallBudgetHeld, CallsOf
  <2>2. CASE JournalNext
    BY <2>2, PrepareKeeps, StartKeeps, CompleteKeeps, SettleKeeps DEF JournalNext
  <2> QED
    BY <2>1, <2>2
<1> QED
  BY <1>1, <1>2, PTL DEF JournalSpec

(* Whatever the operations and their order, no packet starts more calls    *)
(* than its budget (file-invocation-journal.ts, start).                    *)
THEOREM BudgetNeverExceeded == JournalSpec => []CallBudgetHeld
<1>1. JournalInv => CallBudgetHeld
  BY DEF JournalInv
<1> QED
  BY <1>1, JournalInductive, PTL

(* Every record the journal holds passes parseInvocationRecord: no load of *)
(* the journal's own writes fails as an integrity error.                   *)
THEOREM RecordsAlwaysLoad == JournalSpec => [](JournalTypeOK /\ RecordsConsistent)
<1>1. JournalInv => JournalTypeOK /\ RecordsConsistent
  BY DEF JournalInv
<1> QED
  BY <1>1, JournalInductive, PTL

-----------------------------------------------------------------------------
(* The inductive invariant *)

Writers == Architects \cup {"implementer", "runner", "controller", "other"}
ResultWhys == {"unusable", "reported", "authority_refused"}
Whys == {"restart", "conflict", "not_authorized", "no_result", "budget"} \cup ResultWhys
EntryWhys == Whys \cup {"iterations", "branch_moved", "runtime_exceeded", "failures", None}
EntryActions == {"BEGIN_IMPLEMENTATION", "REPORT_IMPLEMENTATION_COMPLETE", "RECORD_REMOTE_SHA",
  "BEGIN_REMOTE_ACCEPTANCE", "ACCEPT_EXACT_SHA", "REJECT_EXACT_SHA", "ISSUE_CORRECTION_PACKET",
  "ISSUE_PACKET", "STOP", "RESUME", "BUDGET_EXHAUSTED", "RECHECK", "RETURN", "FAIL_CLOSED"}
Entry == [action: EntryActions, by: Writers, why: EntryWhys, run: Run]

Phases == {"idle", "list", "settle", "choose", "entered", "prepare_entered", "prepare", "gate",
  "check", "start", "call", "calling", "uncertain", "complete", "abandon", "apply", "preserve",
  "decide", "halt", "halt_exhausted", "correct", "finish"}
Worker == [at: Phases, read: Nat, occ: Nat, owned: Nat, todo: SUBSET (Occurrences \X Final),
           why: Whys \cup {None}, outcome: Outcomes \cup {None},
           verdict: {"APPLIED", "ABANDONED", None}]

(* The trail: an entry that opened a call is one of Occurrences, and a stop *)
(* remembers the active state it interrupted.                               *)
AuditOK ==
  /\ audit \in Seq(Entry)
  /\ Len(audit) >= 1
  /\ audit[1].by = "other"
  /\ \A s \in DOMAIN audit :
       /\ audit[s].run.state \in Stops => audit[s].run.interrupted \in Active
       /\ audit[s].run.state \in ActorStates => s \in Occurrences

JournalOK ==
  /\ JournalInv
  /\ \A s \in Occurrences : journal[s] # None =>
       /\ s \in DOMAIN audit
       /\ journal[s].result \in OutcomesFor(s) \cup {None}

(* What a runner or the controller applied opened a call.                  *)
AppliedOpened ==
  \A s \in DOMAIN audit : AppliedAt(s) /\ audit[s + 1].by # "other" => s \in Occurrences

HistoryOK ==
  /\ AppliedOpened
  /\ AppliedOnlyIfApplied
  /\ DurableBeforeApplied
  /\ AuthorityPrecedesReview
  /\ ReviewKeepsItsPrincipal
  /\ CorrectionAnswersOwnReview

CallsOK ==
  /\ calls \in [Occurrences -> Nat]
  /\ \A s \in Occurrences : calls[s] > 0 =>
       /\ calls[s] = 1
       /\ s \in DOMAIN audit
       /\ live => journal[s] # None /\ journal[s].started

RestOK == leftover \subseteq {"run", "journal"} /\ faults \in 0..MaxFaults
          /\ preserved \subseteq DOMAIN audit

SharedOK == AuditOK /\ JournalOK /\ HistoryOK /\ CallsOK /\ RestOK

(* What a runner in phase x.at holds of the run it read, the occurrence it *)
(* owns, the one it acts on and the outcome it carries.                    *)
InTrail(s) == s \in DOMAIN audit /\ s \in Occurrences /\ audit[s].run.state \in ActorStates
Mine(w, s) == /\ audit[s].action = Entering[audit[s].run.state]
              /\ IsReview(s) => audit[s].by = principal[w]

BeforeActing == {"idle", "list", "settle", "choose", "entered"}
InJournal == {"list", "settle", "prepare_entered", "prepare", "gate", "check", "start", "complete",
  "abandon", "uncertain", "preserve", "finish"}
OnOwn == {"prepare", "gate", "check", "start", "call", "calling", "complete", "apply", "preserve",
  "decide", "halt_exhausted", "correct"}
WithOutcome == {"complete", "apply", "preserve", "decide", "halt", "halt_exhausted", "correct",
  "finish"}

TypeFits(x) ==
  /\ x.read <= Len(audit) /\ x.occ <= Len(audit) /\ x.owned <= Len(audit)
  /\ x.at \in InJournal => live

OwnedFits(w, x) ==
  /\ x.owned # 0 => /\ audit[x.owned].run.state \in ActorStates
                    /\ Mine(w, x.owned) \/ (Len(audit) > x.owned /\ x.read # x.owned)
  /\ x.at # "idle" => x.read >= 1
  /\ x.at \in {"list", "settle", "choose"} => x.owned \in {0, x.read} \/ x.owned < Len(audit)
  /\ x.at = "entered" =>
       /\ x.read < Len(audit)
       /\ x.owned < Len(audit)
       /\ Len(audit) = x.read + 1 /\ IsReview(x.read + 1) => audit[x.read + 1].by = principal[w]
  /\ ~live /\ x.at \notin BeforeActing => x.owned = 0

OccFits(w, x) ==
  /\ x.at \notin BeforeActing => InTrail(x.occ)
  /\ x.at \in OnOwn => Mine(w, x.occ)
  /\ live /\ x.at = "call" => journal[x.occ] # None /\ journal[x.occ].started
  /\ live /\ x.at = "decide" => x.occ \in preserved
  /\ x.at \in {"halt_exhausted", "correct"} =>
       /\ x.occ + 1 \in DOMAIN audit
       /\ IsReview(x.occ)
       /\ audit[x.occ + 1].action = "REJECT_EXACT_SHA"
       /\ audit[x.occ + 1].by = principal[w]

OutcomeFits(x) ==
  /\ x.at \notin WithOutcome => x.outcome = None
  /\ x.at \in {"complete", "apply"} => x.outcome \in OutcomesFor(x.occ)
  /\ x.at \in {"preserve", "decide"} => x.outcome \in Outcomes \cap Verdicts /\ IsReview(x.occ)
  /\ x.at = "uncertain" => x.why \in Whys \ ResultWhys
  /\ x.at = "abandon" => x.why = None \/ x.why \in Whys \ ResultWhys
  /\ x.at = "halt" => x.why \in Whys /\ (x.outcome # None <=> x.why \in ResultWhys)
  /\ x.at \in {"halt_exhausted", "correct", "finish"} => x.outcome \in Outcomes
  /\ live /\ x.at # "complete" /\ x.outcome # None =>
       journal[x.occ] # None /\ journal[x.occ].result # None
  /\ x.at = "finish" => x.verdict \in {"APPLIED", "ABANDONED"}
  /\ x.at = "finish" /\ x.verdict = "APPLIED" => AppliedAt(x.occ)

TodoFits(x) ==
  \A item \in x.todo : /\ item[1] \in DOMAIN audit
                       /\ item[2] = "APPLIED" => AppliedAt(item[1])

Fits(w, x) ==
  TypeFits(x) /\ OwnedFits(w, x) /\ OccFits(w, x) /\ OutcomeFits(x) /\ TodoFits(x)

WorkersOK ==
  /\ workers \in [Runners -> Worker]
  /\ \A w \in Runners : Fits(w, workers[w])

(* Who may still call the actor for s: with a journal the runner that      *)
(* started it, without one the runner that entered it.                     *)
ClaimOf(x, s) ==
  \/ x.at = "call" /\ x.occ = s
  \/ /\ ~live
     /\ \/ x.at = "entered" /\ x.read + 1 = s /\ Len(audit) = s
        \/ x.at = "idle" /\ x.owned = s /\ Len(audit) = s
        \/ x.at = "choose" /\ x.owned = s /\ x.read = s

ClaimsOK ==
  \A s \in Occurrences, w \in Runners :
    ClaimOf(workers[w], s) =>
      /\ calls[s] = 0
      /\ \A v \in Runners : ClaimOf(workers[v], s) => v = w

IInv == live \in BOOLEAN /\ SharedOK /\ WorkersOK /\ ClaimsOK

-----------------------------------------------------------------------------
(* What is shared only grows *)

Grows ==
  /\ live' = live
  /\ Len(audit) <= Len(audit')
  /\ \A s \in 1..Len(audit) : audit'[s] = audit[s]
  /\ \A s \in Occurrences : journal[s] # None =>
       /\ journal'[s] # None
       /\ journal[s].started => journal'[s].started
       /\ journal[s].result # None => journal'[s].result # None
  /\ preserved \subseteq preserved'

LEMMA TrailIndices ==
  ASSUME AuditOK
  PROVE  /\ Len(audit) \in Nat
         /\ DOMAIN audit = 1..Len(audit)
         /\ \A s \in 1..Len(audit) : audit[s] \in Entry
  BY DEF AuditOK

(* What a runner holds stays true whatever the others do meanwhile.        *)
LEMMA FitsStable ==
  ASSUME AuditOK, AuditOK', Grows, NEW w \in Runners, NEW x \in Worker, Fits(w, x)
  PROVE  Fits(w, x)'
<1>0. /\ Len(audit) \in Nat /\ Len(audit') \in Nat /\ Len(audit) <= Len(audit')
      /\ DOMAIN audit = 1..Len(audit) /\ DOMAIN audit' = 1..Len(audit')
      /\ \A s \in 1..Len(audit) : s \in 1..Len(audit') /\ audit'[s] = audit[s]
      /\ live' = live
  BY DEF Grows, AuditOK
<1>a. x.read \in Nat /\ x.occ \in Nat /\ x.owned \in Nat /\ x.todo \subseteq Occurrences \X Final
  BY DEF Worker
<1>b. \A s \in 1..Len(audit) : AppliedAt(s) => AppliedAt(s)'
  BY <1>0 DEF AppliedAt, AppliesResult, IsReview, ControllerHalt
<1>1. TypeFits(x)'
  BY <1>0, <1>a DEF Fits, TypeFits
<1>2. OwnedFits(w, x)'
  BY <1>0, <1>a DEF Fits, TypeFits, OwnedFits, Mine, IsReview
<1>c. x.at \notin BeforeActing => x.occ \in 1..Len(audit) /\ x.occ \in Occurrences
  BY <1>0 DEF Fits, OccFits, InTrail
<1>3. OccFits(w, x)'
  <2>1. InTrail(x.occ) => InTrail(x.occ)'
    BY <1>0 DEF InTrail
  <2>2. x.occ \in 1..Len(audit) => (Mine(w, x.occ) => Mine(w, x.occ)')
    BY <1>0 DEF Mine, IsReview
  <2>3. x.at \in OnOwn => x.at \notin BeforeActing
    BY DEF OnOwn, BeforeActing
  <2>4. x.at \in {"call", "decide", "halt_exhausted", "correct"} => x.at \notin BeforeActing
    BY DEF BeforeActing
  <2> QED
    BY <1>0, <1>a, <1>c, <2>1, <2>2, <2>3, <2>4 DEF Fits, OccFits, IsReview, Grows
<1>4. OutcomeFits(x)'
  <2>1. x.at \in WithOutcome => x.at \notin BeforeActing
    BY DEF WithOutcome, BeforeActing
  <2>2. \A s \in 1..Len(audit) : IsReview(s)' = IsReview(s) /\ OutcomesFor(s)' = OutcomesFor(s)
    BY <1>0 DEF IsReview, OutcomesFor
  <2>3. x.outcome # None => x.at \in WithOutcome
    BY DEF Fits, OutcomeFits
  <2> QED
    BY <1>0, <1>b, <1>c, <2>1, <2>2, <2>3 DEF Fits, OutcomeFits, Grows, WithOutcome
<1>5. TodoFits(x)'
  BY <1>0, <1>b DEF Fits, TodoFits
<1> QED
  BY <1>1, <1>2, <1>3, <1>4, <1>5 DEF Fits

(* Others' steps give no runner a claim it did not have.                   *)
LEMMA ClaimsShrink ==
  ASSUME AuditOK, AuditOK', Grows, NEW w \in Runners, NEW x \in Worker, Fits(w, x),
         NEW s \in Occurrences, ClaimOf(x, s)'
  PROVE  ClaimOf(x, s)
<1>0. /\ Len(audit) \in Nat /\ Len(audit') \in Nat /\ Len(audit) <= Len(audit')
      /\ live' = live
      /\ x.read \in Nat /\ x.owned \in Nat
      /\ s \in Nat
  BY JournalAssumption DEF Grows, AuditOK, Worker
<1> QED
  BY <1>0 DEF ClaimOf, Fits, TypeFits, OwnedFits

Turns(w, x) == workers' = [workers EXCEPT ![w] = x]

(* A runner's step that leaves the shared state in order and that runner   *)
(* fit for its phase leaves all of them fit, and the others with no new    *)
(* claim.                                                                  *)
LEMMA WorkersKept ==
  ASSUME IInv, SharedOK', Grows, NEW w \in Runners, NEW x \in Worker, Turns(w, x), Fits(w, x)'
  PROVE  /\ WorkersOK'
         /\ \A s \in Occurrences :
              /\ ClaimOf(workers[w], s)' => ClaimOf(x, s)'
              /\ \A v \in Runners \ {w} : ClaimOf(workers[v], s)' => ClaimOf(workers[v], s)
<1>0. /\ AuditOK /\ AuditOK'
      /\ workers \in [Runners -> Worker]
      /\ workers'[w] = x
      /\ \A v \in Runners \ {w} : workers'[v] = workers[v]
  BY DEF IInv, SharedOK, WorkersOK, Turns
<1>1. workers' \in [Runners -> Worker]
  BY <1>0 DEF Turns
<1>2. ASSUME NEW v \in Runners
      PROVE  Fits(v, workers[v])'
  <2>1. CASE v = w
    <3>1. PICK y \in Worker : y = workers'[v]
      BY <1>1
    <3> QED
      BY <1>0, <2>1, <3>1
  <2>2. CASE v # w
    <3>1. PICK y \in Worker : y = workers[v] /\ y = workers'[v]
      BY <1>0, <2>2
    <3>2. Fits(v, y)
      BY <3>1 DEF IInv, WorkersOK
    <3>3. Fits(v, y)'
      BY <1>0, <3>2, FitsStable
    <3> QED
      BY <3>1, <3>3
  <2> QED
    BY <2>1, <2>2
<1>3. ASSUME NEW s \in Occurrences, ClaimOf(workers[w], s)'
      PROVE  ClaimOf(x, s)'
  BY <1>0, <1>3 DEF ClaimOf
<1>4. ASSUME NEW s \in Occurrences, NEW v \in Runners \ {w}, ClaimOf(workers[v], s)'
      PROVE  ClaimOf(workers[v], s)
  <2>1. PICK y \in Worker : y = workers[v] /\ y = workers'[v]
    BY <1>0
  <2>2. Fits(v, y) /\ ClaimOf(y, s)'
    BY <1>4, <2>1 DEF IInv, WorkersOK, ClaimOf
  <2>3. ClaimOf(y, s)
    BY <1>0, <2>2, ClaimsShrink
  <2> QED
    BY <2>1, <2>3
<1> QED
  BY <1>1, <1>2, <1>3, <1>4 DEF WorkersOK

(* If it claims an occurrence it did not claim, nobody has called it and   *)
(* nobody else claims it.                                                  *)
LEMMA StepClaims ==
  ASSUME IInv, SharedOK', Grows, calls' = calls,
         NEW w \in Runners, NEW x \in Worker, Turns(w, x), Fits(w, x)',
         \A s \in Occurrences : ClaimOf(x, s)' =>
           \/ ClaimOf(workers[w], s)
           \/ /\ calls[s] = 0
              /\ \A v \in Runners \ {w} : ~ClaimOf(workers[v], s)
  PROVE  IInv'
<1>1. WorkersOK'
  BY WorkersKept
<1>2. ASSUME NEW s \in Occurrences, NEW v \in Runners, ClaimOf(workers[v], s)'
      PROVE  /\ calls'[s] = 0
             /\ \A u \in Runners : ClaimOf(workers[u], s)' => u = v
  <2>1. \A u \in Runners \ {w} : ClaimOf(workers[u], s)' => ClaimOf(workers[u], s)
    BY WorkersKept
  <2>2. ClaimOf(workers[w], s)' => \/ ClaimOf(workers[w], s)
                                  \/ /\ calls[s] = 0
                                     /\ \A u \in Runners \ {w} : ~ClaimOf(workers[u], s)
    BY WorkersKept
  <2>3. \A u \in Runners : ClaimOf(workers[u], s) =>
          calls[s] = 0 /\ \A t \in Runners : ClaimOf(workers[t], s) => t = u
    BY DEF IInv, ClaimsOK
  <2>4. ASSUME NEW u \in Runners, ClaimOf(workers[u], s)'
        PROVE  u = v
    BY <1>2, <2>1, <2>2, <2>3, <2>4
  <2>5. calls[s] = 0
    BY <1>2, <2>1, <2>2, <2>3
  <2> QED
    BY <2>4, <2>5
<1>3. ClaimsOK'
  BY <1>2 DEF ClaimsOK
<1> QED
  BY <1>1, <1>3 DEF IInv, Grows

LEMMA StepKeeps ==
  ASSUME IInv, SharedOK', Grows, calls' = calls,
         NEW w \in Runners, NEW x \in Worker, Turns(w, x), Fits(w, x)',
         \A s \in Occurrences : ClaimOf(x, s)' => ClaimOf(workers[w], s)
  PROVE  IInv'
BY StepClaims

(* A step of somebody who is no runner. *)
LEMMA OthersKeep ==
  ASSUME IInv, SharedOK', Grows, calls' = calls, workers' = workers
  PROVE  IInv'
<1>0. /\ AuditOK /\ AuditOK'
      /\ workers \in [Runners -> Worker]
  BY DEF IInv, SharedOK, WorkersOK
<1>1. ASSUME NEW v \in Runners
      PROVE  Fits(v, workers[v])' /\ \A s \in Occurrences : ClaimOf(workers[v], s)' => ClaimOf(workers[v], s)
  <2>1. PICK y \in Worker : y = workers[v]
    BY <1>0
  <2>2. Fits(v, y)
    BY <2>1 DEF IInv, WorkersOK
  <2>3. Fits(v, y)'
    BY <1>0, <2>2, FitsStable
  <2>4. \A s \in Occurrences : ClaimOf(y, s)' => ClaimOf(y, s)
    BY <1>0, <2>2, ClaimsShrink
  <2> QED
    BY <2>1, <2>3, <2>4
<1>2. ClaimsOK'
  BY <1>1 DEF IInv, ClaimsOK
<1> QED
  BY <1>0, <1>1, <1>2 DEF IInv, WorkersOK, Grows

-----------------------------------------------------------------------------
(* The shared state through each kind of write *)

(* A step that writes neither the run nor the journal. *)
LEMMA StillKeeps ==
  ASSUME SharedOK, UNCHANGED <<live, journal, audit>>, CallsOK', preserved \subseteq preserved', RestOK'
  PROVE  SharedOK' /\ Grows
<1>1. AuditOK'
  BY DEF SharedOK, AuditOK
<1>2. JournalInv'
  BY DEF SharedOK, JournalOK, JournalInv, JournalTypeOK, RecordsConsistent, CallBudgetHeld, CallsOf
<1>3. JournalOK'
  BY <1>2 DEF SharedOK, JournalOK, OutcomesFor, IsReview
<1>4. HistoryOK'
  BY DEF SharedOK, HistoryOK, AppliedOpened, AppliedOnlyIfApplied, DurableBeforeApplied,
         AuthorityPrecedesReview, ReviewKeepsItsPrincipal, CorrectionAnswersOwnReview, AppliedAt,
         AppliesResult, IsReview, ControllerHalt, DecidedByRunner
<1>5. Grows
  <2>1. Len(audit) \in Nat
    BY DEF SharedOK, AuditOK
  <2> QED
    BY <2>1 DEF Grows
<1> QED
  BY <1>1, <1>3, <1>4, <1>5 DEF SharedOK

LEMMA QuietKeeps ==
  ASSUME SharedOK, UNCHANGED <<live, journal, audit, calls, preserved>>,
         leftover' \subseteq {"run", "journal"}, faults' \in 0..MaxFaults
  PROVE  SharedOK' /\ Grows
<1>1. CallsOK' /\ RestOK'
  BY DEF SharedOK, CallsOK, RestOK
<1> QED
  BY <1>1, StillKeeps

(* What an entry appended to the trail must satisfy: the properties of the *)
(* trail, for the one entry that follows its last.                         *)
Legal(e) ==
  LET n == Len(audit)
  IN /\ e \in Entry
     /\ e.run.state \in Stops => e.run.interrupted \in Active
     /\ AppliesResult(e, n) /\ e.by # "other" =>
          n \in Occurrences /\ (live => journal[n] # None /\ journal[n].result # None)
     /\ e.action \in Decisions /\ e.by \in Architects =>
          /\ live => n \in preserved
          /\ audit[n].action = "BEGIN_REMOTE_ACCEPTANCE"
          /\ audit[n].by = e.by
     /\ e.action = "ISSUE_CORRECTION_PACKET" /\ e.by \in Architects =>
          audit[n].action = "REJECT_EXACT_SHA" /\ audit[n].by = e.by

LEMMA CommitKeeps ==
  ASSUME SharedOK, NEW e \in Entry, Legal(e), Len(audit) + 1 \in Occurrences,
         audit' = Append(audit, e), UNCHANGED <<live, journal, calls, preserved, leftover, faults>>
  PROVE  /\ SharedOK' /\ Grows
         /\ Len(audit') = Len(audit) + 1
         /\ audit'[Len(audit) + 1] = e
<1>n. PICK n \in Nat : n = Len(audit)
  BY DEF SharedOK, AuditOK
<1>0. /\ n >= 1
      /\ DOMAIN audit = 1..n /\ DOMAIN audit' = 1..(n + 1)
      /\ audit' \in Seq(Entry)
      /\ Len(audit') = n + 1
      /\ audit'[n + 1] = e
      /\ \A s \in 1..n : audit'[s] = audit[s]
  BY <1>n DEF SharedOK, AuditOK
<1>1. AuditOK'
  BY <1>0 DEF SharedOK, AuditOK, Legal
<1>2. Grows
  BY <1>n, <1>0 DEF Grows
<1>3. JournalInv'
  BY DEF SharedOK, JournalOK, JournalInv, JournalTypeOK, RecordsConsistent, CallBudgetHeld, CallsOf
<1>4. JournalOK'
  BY <1>0, <1>3 DEF SharedOK, JournalOK, OutcomesFor, IsReview
<1>5. \A s \in 1..n : IsReview(s)' = IsReview(s)
  BY <1>0 DEF IsReview
<1>6. \A s \in 1..(n - 1) : AppliedAt(s)' = AppliedAt(s)
  BY <1>0, <1>5 DEF AppliedAt, AppliesResult, ControllerHalt
<1>7. /\ AppliedAt(n)' = AppliesResult(e, n)
      /\ ~AppliedAt(n)
      /\ ~AppliedAt(n + 1)'
  <2>1. n + 1 \notin DOMAIN audit /\ n + 2 \notin DOMAIN audit' /\ n + 1 \in DOMAIN audit'
    BY <1>0
  <2>2. IsReview(n)' = IsReview(n) /\ audit'[n] = audit[n] /\ audit'[n + 1] = e
    BY <1>0, <1>5
  <2>3. AppliedAt(n)' = AppliesResult(e, n)
    BY <2>1, <2>2 DEF AppliedAt, AppliesResult, ControllerHalt
  <2>4. ~AppliedAt(n)
    BY <2>1 DEF AppliedAt
  <2>5. ~AppliedAt(n + 1)'
    <3>1. (n + 1) + 1 \notin DOMAIN audit'
      BY <1>n, <1>0
    <3> QED
      BY <3>1 DEF AppliedAt
  <2> QED
    BY <2>3, <2>4, <2>5
<1>8. AppliedOnlyIfApplied'
  <2>1. \A s \in Occurrences : journal[s] # None => s \in 1..n
    BY <1>0 DEF SharedOK, JournalOK
  <2>2. \A s \in 1..n : AppliedAt(s) => AppliedAt(s)'
    BY <1>0, <1>6, <1>7
  <2> QED
    BY <2>1, <2>2 DEF SharedOK, HistoryOK, AppliedOnlyIfApplied
<1>16. AppliedOpened'
  <2> SUFFICES ASSUME NEW s \in 1..(n + 1), AppliedAt(s)', audit'[s + 1].by # "other"
               PROVE  s \in Occurrences
    BY <1>0 DEF AppliedOpened
  <2>1. CASE s = n + 1
    BY <1>7, <2>1
  <2>2. CASE s = n
    BY <1>n, <1>0, <1>7, <2>2 DEF Legal
  <2>3. CASE s \in 1..(n - 1)
    BY <1>0, <1>6, <2>3 DEF SharedOK, HistoryOK, AppliedOpened
  <2> QED
    BY <1>n, <1>0, <2>1, <2>2, <2>3
<1>9. DurableBeforeApplied'
  <2> SUFFICES ASSUME live, NEW s \in 1..(n + 1), AppliedAt(s)', audit'[s + 1].by # "other"
               PROVE  journal[s] # None /\ journal[s].result # None
    BY <1>0 DEF DurableBeforeApplied
  <2>1. CASE s = n + 1
    BY <1>7, <2>1
  <2>2. CASE s = n
    BY <1>n, <1>0, <1>7, <2>2 DEF Legal
  <2>3. CASE s \in 1..(n - 1)
    BY <1>0, <1>6, <2>3 DEF SharedOK, HistoryOK, DurableBeforeApplied
  <2> QED
    BY <1>0, <2>1, <2>2, <2>3
<1>10. \A k \in 1..n : DecidedByRunner(k)' = DecidedByRunner(k)
  BY <1>0 DEF DecidedByRunner
<1>11. \A k \in 1..n : audit[k].by \in Architects => k - 1 \in 1..n
  <2>1. audit[1].by \notin Architects
    BY RunnerAssumption DEF SharedOK, AuditOK
  <2> QED
    BY <1>0, <2>1
<1>12. AuthorityPrecedesReview'
  <2> SUFFICES ASSUME live, NEW k \in 1..(n + 1), DecidedByRunner(k)'
               PROVE  k - 1 \in preserved
    BY <1>0 DEF AuthorityPrecedesReview
  <2>1. CASE k = n + 1
    BY <1>n, <1>0, <2>1 DEF Legal, DecidedByRunner
  <2>2. CASE k \in 1..n
    BY <1>0, <1>10, <2>2 DEF SharedOK, HistoryOK, AuthorityPrecedesReview
  <2> QED
    BY <1>n, <1>0, <2>1, <2>2
<1>13. ReviewKeepsItsPrincipal'
  <2> SUFFICES ASSUME NEW k \in 1..(n + 1), DecidedByRunner(k)'
               PROVE  /\ audit'[k - 1].action = "BEGIN_REMOTE_ACCEPTANCE"
                      /\ audit'[k - 1].by = audit'[k].by
    BY <1>0 DEF ReviewKeepsItsPrincipal
  <2>0. k = n + 1 \/ k \in 1..n
    BY <1>n
  <2>1. CASE k = n + 1
    <3>1. e.action \in Decisions /\ e.by \in Architects
      BY <1>0, <2>1 DEF DecidedByRunner
    <3>2. audit[n].action = "BEGIN_REMOTE_ACCEPTANCE" /\ audit[n].by = e.by
      BY <1>n, <3>1 DEF Legal
    <3>3. k - 1 = n /\ audit'[n] = audit[n]
      BY <1>0, <2>1
    <3> QED
      BY <1>0, <2>1, <3>2, <3>3
  <2>2. CASE k \in 1..n
    <3>1. DecidedByRunner(k)
      BY <1>10, <2>2
    <3>2. audit[k - 1].action = "BEGIN_REMOTE_ACCEPTANCE" /\ audit[k - 1].by = audit[k].by
      BY <1>0, <2>2, <3>1 DEF SharedOK, HistoryOK, ReviewKeepsItsPrincipal
    <3>3. k - 1 \in 1..n
      BY <1>11, <2>2, <3>1 DEF DecidedByRunner
    <3> QED
      BY <1>0, <2>2, <3>2, <3>3
  <2> QED
    BY <2>0, <2>1, <2>2
<1>14. CorrectionAnswersOwnReview'
  <2> SUFFICES ASSUME NEW k \in 1..(n + 1), audit'[k].action = "ISSUE_CORRECTION_PACKET",
                      audit'[k].by \in Architects
               PROVE  /\ audit'[k - 1].action = "REJECT_EXACT_SHA"
                      /\ audit'[k - 1].by = audit'[k].by
    BY <1>0 DEF CorrectionAnswersOwnReview
  <2>0. k = n + 1 \/ k \in 1..n
    BY <1>n
  <2>1. CASE k = n + 1
    <3>1. audit[n].action = "REJECT_EXACT_SHA" /\ audit[n].by = e.by
      BY <1>n, <1>0, <2>1 DEF Legal
    <3>2. k - 1 = n /\ audit'[n] = audit[n]
      BY <1>0, <2>1
    <3> QED
      BY <1>0, <2>1, <3>1, <3>2
  <2>2. CASE k \in 1..n
    <3>1. audit[k - 1].action = "REJECT_EXACT_SHA" /\ audit[k - 1].by = audit[k].by
      BY <1>0, <2>2 DEF SharedOK, HistoryOK, CorrectionAnswersOwnReview
    <3>2. k - 1 \in 1..n
      BY <1>0, <1>11, <2>2
    <3> QED
      BY <1>0, <2>2, <3>1, <3>2
  <2> QED
    BY <2>0, <2>1, <2>2
<1>15. CallsOK' /\ RestOK'
  BY <1>0 DEF SharedOK, CallsOK, RestOK
<1> QED
  BY <1>0, <1>1, <1>2, <1>4, <1>8, <1>9, <1>12, <1>13, <1>14, <1>15, <1>16, <1>n DEF SharedOK, HistoryOK

(* One record written: prepared, started, completed or settled. *)
LEMMA RecordKeeps ==
  ASSUME SharedOK, JournalInv', UNCHANGED <<live, audit, calls, preserved, leftover, faults>>,
         NEW s \in Occurrences, s \in DOMAIN audit, journal'[s] # None,
         \A o \in Occurrences \ {s} : journal'[o] = journal[o],
         journal'[s].result \in OutcomesFor(s) \cup {None},
         journal[s] # None => /\ journal[s].started => journal'[s].started
                              /\ journal[s].result # None => journal'[s].result # None,
         journal'[s].state = "APPLIED" => AppliedAt(s)
  PROVE  SharedOK' /\ Grows
<1>1. AuditOK' /\ RestOK'
  BY DEF SharedOK, AuditOK, RestOK
<1>2. Grows
  <2>1. Len(audit) \in Nat
    BY DEF SharedOK, AuditOK
  <2>2. \A o \in Occurrences : journal[o] # None =>
          /\ journal'[o] # None
          /\ journal[o].started => journal'[o].started
          /\ journal[o].result # None => journal'[o].result # None
    OBVIOUS
  <2> QED
    BY <2>1, <2>2 DEF Grows
<1>3. JournalOK'
  BY DEF SharedOK, JournalOK, OutcomesFor, IsReview
<1>4. \A o : AppliedAt(o)' = AppliedAt(o)
  BY DEF AppliedAt, AppliesResult, IsReview, ControllerHalt
<1>5. AppliedOnlyIfApplied'
  BY <1>4 DEF SharedOK, HistoryOK, AppliedOnlyIfApplied
<1>6. DurableBeforeApplied'
  <2> SUFFICES ASSUME live, NEW o \in DOMAIN audit, AppliedAt(o), audit[o + 1].by # "other"
               PROVE  journal'[o] # None /\ journal'[o].result # None
    BY <1>4 DEF DurableBeforeApplied
  <2>1. o \in Occurrences /\ journal[o] # None /\ journal[o].result # None
    BY DEF SharedOK, HistoryOK, AppliedOpened, DurableBeforeApplied
  <2>2. CASE o = s
    BY <2>1, <2>2
  <2>3. CASE o # s
    BY <2>1, <2>3
  <2> QED
    BY <2>2, <2>3
<1>7. AuthorityPrecedesReview' /\ ReviewKeepsItsPrincipal' /\ CorrectionAnswersOwnReview'
  BY DEF SharedOK, HistoryOK, AuthorityPrecedesReview, ReviewKeepsItsPrincipal,
         CorrectionAnswersOwnReview, DecidedByRunner
<1>8. CallsOK'
  BY <1>2 DEF SharedOK, CallsOK, Grows
<1>9. AppliedOpened'
  BY <1>4 DEF SharedOK, HistoryOK, AppliedOpened
<1> QED
  BY <1>1, <1>2, <1>3, <1>5, <1>6, <1>7, <1>8, <1>9 DEF SharedOK, HistoryOK

(* A record settled, or left as another runner left it. *)
LEMMA SettleShared ==
  ASSUME SharedOK, JournalOnly, NEW s \in Occurrences, NEW state \in Final,
         SettledOrMoved(s, state), state = "APPLIED" => AppliedAt(s)
  PROVE  SharedOK' /\ Grows /\ calls' = calls
<1>0. /\ UNCHANGED <<live, audit, calls, preserved, leftover, faults>>
      /\ leftover \subseteq {"run", "journal"} /\ faults \in 0..MaxFaults
      /\ journal \in [Occurrences -> InvocationRecord \cup {None}]
      /\ JournalInv
  BY DEF JournalOnly, Unfaulted, ghosts, SharedOK, RestOK, JournalOK, JournalInv, JournalTypeOK
<1>1. CASE ~May(s, state)
  BY <1>0, <1>1, QuietKeeps DEF SettledOrMoved
<1>2. CASE May(s, state)
  <2>1. Settle(s, state)
    BY <1>2 DEF SettledOrMoved, Settle
  <2>2. JournalInv'
    BY <1>0, <2>1, SettleKeeps
  <2>3. /\ journal[s] # None /\ journal[s] \in InvocationRecord
        /\ journal'[s] = [journal[s] EXCEPT !.state = state]
        /\ \A o \in Occurrences \ {s} : journal'[o] = journal[o]
    BY <1>0, <1>2, <2>1 DEF Settle, Settled, May
  <2>4. /\ journal'[s] # None
        /\ journal'[s].result = journal[s].result
        /\ journal'[s].started = journal[s].started
        /\ journal'[s].state = state
    <3>1. journal'[s] \in InvocationRecord
      BY <2>3 DEF InvocationRecord, InvocationStates
    <3> QED
      BY <2>3, <3>1, NoneAssumption DEF InvocationRecord
  <2>5. s \in DOMAIN audit /\ journal[s].result \in OutcomesFor(s) \cup {None}
    BY <2>3 DEF SharedOK, JournalOK
  <2> QED
    BY <1>0, <2>2, <2>3, <2>4, <2>5, RecordKeeps
<1> QED
  BY <1>1, <1>2

-----------------------------------------------------------------------------
(* A runner's step, by where it takes the runner *)

(* It goes on with what it knew before the step. *)
LEMMA GoesOn ==
  ASSUME IInv, SharedOK', Grows, calls' = calls,
         NEW w \in Runners, NEW x \in Worker, Turns(w, x), Fits(w, x),
         \A s \in Occurrences : ClaimOf(x, s) => ClaimOf(workers[w], s)
  PROVE  IInv'
<1>0. AuditOK /\ AuditOK'
  BY DEF IInv, SharedOK
<1>1. Fits(w, x)'
  BY <1>0, FitsStable
<1>2. \A s \in Occurrences : ClaimOf(x, s)' => ClaimOf(workers[w], s)
  BY <1>0, ClaimsShrink
<1> QED
  BY <1>1, <1>2, StepKeeps

(* It keeps its step to itself. *)
LEMMA GoesOnQuietly ==
  ASSUME IInv, WorkerOnly,
         NEW w \in Runners, NEW x \in Worker, Turns(w, x), Fits(w, x),
         \A s \in Occurrences : ClaimOf(x, s) => ClaimOf(workers[w], s)
  PROVE  IInv'
<1>1. SharedOK' /\ Grows /\ calls' = calls
  BY QuietKeeps DEF IInv, SharedOK, RestOK, WorkerOnly, Unfaulted, ghosts
<1> QED
  BY <1>1, GoesOn

(* Its step ends, the occurrence it owns kept or given up. *)
LEMMA IdleFits ==
  ASSUME IInv, NEW w \in Runners, NEW o \in {0, workers[w].owned}
  PROVE  /\ Idle(o) \in Worker
         /\ Fits(w, Idle(o))
         /\ \A s \in Occurrences : ClaimOf(Idle(o), s) => ClaimOf(workers[w], s)
<1>0. /\ workers[w] \in Worker
      /\ Fits(w, workers[w])
      /\ Len(audit) \in Nat /\ Len(audit) >= 1
  BY DEF IInv, SharedOK, AuditOK, WorkersOK
<1>1. Idle(o) \in Worker
  BY <1>0 DEF Idle, Worker, Phases
<1>2. o \in Nat /\ o <= Len(audit)
  BY <1>0 DEF Worker, Fits, TypeFits
<1>3. Fits(w, Idle(o))
  <2>1. TypeFits(Idle(o)) /\ OccFits(w, Idle(o)) /\ OutcomeFits(Idle(o)) /\ TodoFits(Idle(o))
    BY <1>0, <1>2 DEF TypeFits, OccFits, OutcomeFits, TodoFits, Idle, BeforeActing, InJournal, OnOwn,
                      WithOutcome
  <2>2. OwnedFits(w, Idle(o))
    BY <1>0, <1>2 DEF Fits, TypeFits, OwnedFits, Mine, IsReview, Idle, BeforeActing, Worker
  <2> QED
    BY <2>1, <2>2 DEF Fits
<1>4. ASSUME NEW s \in Occurrences, ClaimOf(Idle(o), s)
      PROVE  ClaimOf(workers[w], s)
  <2>1. ~live /\ o = s /\ Len(audit) = s /\ o # 0 /\ workers[w].owned = s
    BY <1>0, <1>4 DEF ClaimOf, Idle
  <2> QED
    BY <1>0, <2>1 DEF Fits, TypeFits, OwnedFits, ClaimOf, InJournal, BeforeActing, Worker
<1> QED
  BY <1>1, <1>3, <1>4

LEMMA Ends ==
  ASSUME IInv, SharedOK', Grows, calls' = calls, NEW w \in Runners, EndStep(w)
  PROVE  IInv'
<1>1. PICK o \in {0, workers[w].owned} : o = workers[w].owned
  OBVIOUS
<1>2. Turns(w, Idle(o))
  BY <1>1 DEF EndStep, Turns, IInv, WorkersOK
<1> QED
  BY <1>1, <1>2, IdleFits, GoesOn

LEMMA EndsQuietly ==
  ASSUME IInv, WorkerOnly, NEW w \in Runners, EndStep(w)
  PROVE  IInv'
<1>1. SharedOK' /\ Grows /\ calls' = calls
  BY QuietKeeps DEF IInv, SharedOK, RestOK, WorkerOnly, Unfaulted, ghosts
<1> QED
  BY <1>1, Ends

(* It has applied its result, or found the run gone, and settles what is   *)
(* stored.                                                                 *)
LEMMA Finishes ==
  ASSUME IInv, SharedOK', Grows, calls' = calls, NEW w \in Runners,
         workers[w].at \in {"apply", "preserve", "decide", "halt", "halt_exhausted", "correct"},
         NEW verdict \in {"APPLIED", "ABANDONED"}, Finish(w, verdict),
         NEW s, s = workers[w].occ, verdict = "APPLIED" /\ Settling(w) => AppliedAt(s)'
  PROVE  IInv'
<1>1. CASE ~Settling(w)
  BY <1>1, Ends DEF Finish
<1>2. CASE Settling(w)
  <2>0. /\ workers \in [Runners -> Worker]
        /\ workers[w] \in Worker
        /\ Fits(w, workers[w])
        /\ AuditOK /\ AuditOK'
    BY DEF IInv, SharedOK, WorkersOK
  <2>1. PICK y \in Worker : y = workers[w]
    BY <2>0
  <2>2. PICK x : x = [y EXCEPT !.at = "finish", !.verdict = verdict]
    OBVIOUS
  <2>3. /\ x \in Worker
        /\ x.at = "finish" /\ x.verdict = verdict
        /\ x.read = y.read /\ x.occ = y.occ /\ x.owned = y.owned
        /\ x.todo = y.todo /\ x.why = y.why /\ x.outcome = y.outcome
    BY <2>1, <2>2 DEF Worker, Phases
  <2>4. Turns(w, x)
    BY <1>2, <2>0, <2>1, <2>2 DEF Finish, Turns
  <2>5. Fits(w, y)'
    BY <2>0, <2>1, FitsStable
  <2>6. /\ live' = live /\ live
        /\ y.outcome \in Outcomes /\ y.outcome # None
        /\ verdict = "APPLIED" => AppliedAt(y.occ)'
    BY <1>2, <2>1 DEF Settling, Worker, Grows
  <2>7. Fits(w, x)'
    <3>0. y.at \in {"apply", "preserve", "decide", "halt", "halt_exhausted", "correct"}
      BY <2>1
    <3>1. TypeFits(x)' /\ TodoFits(x)'
      BY <1>2, <2>3, <2>5, <2>6 DEF Fits, TypeFits, TodoFits
    <3>2. OwnedFits(w, x)' /\ OccFits(w, x)'
      BY <2>3, <2>5, <2>6, <3>0 DEF Fits, OwnedFits, OccFits, BeforeActing, OnOwn
    <3>3. OutcomeFits(x)'
      BY <2>3, <2>5, <2>6, <3>0, <1>2 DEF Fits, OutcomeFits, WithOutcome, Settling, Grows
    <3> QED
      BY <3>1, <3>2, <3>3 DEF Fits
  <2>8. \A o \in Occurrences : ~ClaimOf(x, o)'
    BY <2>3 DEF ClaimOf
  <2> QED
    BY <2>3, <2>4, <2>7, <2>8, StepKeeps
<1> QED
  BY <1>1, <1>2

LEMMA Known ==
  ASSUME IInv, NEW w \in Runners
  PROVE  /\ live \in BOOLEAN
         /\ workers \in [Runners -> Worker]
         /\ workers[w] \in Worker
         /\ Fits(w, workers[w])
         /\ Len(audit) \in Nat /\ Len(audit) >= 1
         /\ DOMAIN audit = 1..Len(audit)
         /\ \A s \in 1..Len(audit) : audit[s] \in Entry
         /\ SharedOK /\ AuditOK /\ JournalOK /\ JournalInv
         /\ workers[w].read \in 0..Len(audit)
         /\ workers[w].owned \in 0..Len(audit)
BY DEF IInv, SharedOK, AuditOK, JournalOK, WorkersOK, Fits, TypeFits, Worker

(* It moves on within its step, no result in hand. *)
LEMMA MovesOn ==
  ASSUME IInv, SharedOK', Grows, calls' = calls, NEW w \in Runners,
         NEW a \in {"gate", "check", "start", "abandon", "uncertain", "halt"},
         NEW why \in Whys \cup {None}, Turns(w, [workers[w] EXCEPT !.at = a, !.why = why]),
         workers[w].at \notin BeforeActing \cup WithOutcome,
         a \in InJournal => live,
         a \in OnOwn => workers[w].at \in OnOwn,
         a \in {"halt", "uncertain"} => why \in Whys \ ResultWhys,
         a = "abandon" => why = None \/ why \in Whys \ ResultWhys
  PROVE  IInv'
<1>0. workers[w] \in Worker /\ Fits(w, workers[w]) /\ Len(audit) \in Nat
  BY Known
<1>1. PICK y \in Worker : y = workers[w]
  BY <1>0
<1>2. PICK x : x = [y EXCEPT !.at = a, !.why = why]
  OBVIOUS
<1>3. /\ x \in Worker
      /\ x.at = a /\ x.why = why
      /\ x.read = y.read /\ x.occ = y.occ /\ x.owned = y.owned
      /\ x.todo = y.todo /\ x.outcome = y.outcome /\ x.verdict = y.verdict
  BY <1>1, <1>2 DEF Worker, Phases
<1>4. Turns(w, x)
  BY <1>1, <1>2
<1>5. /\ Fits(w, y) /\ y.at \notin BeforeActing \cup WithOutcome
      /\ a \in OnOwn => y.at \in OnOwn
  BY <1>0, <1>1
<1>6. y.outcome = None
  BY <1>5 DEF Fits, OutcomeFits
<1>7. Fits(w, x)
  <2>1. TypeFits(x) /\ TodoFits(x)
    BY <1>3, <1>5 DEF Fits, TypeFits, TodoFits
  <2>2. OwnedFits(w, x) /\ OccFits(w, x)
    BY <1>3, <1>5 DEF Fits, OwnedFits, OccFits, BeforeActing
  <2>3. OutcomeFits(x)
    BY <1>3, <1>6 DEF OutcomeFits, WithOutcome
  <2> QED
    BY <2>1, <2>2, <2>3 DEF Fits
<1>8. \A s \in Occurrences : ~ClaimOf(x, s)
  BY <1>3 DEF ClaimOf
<1> QED
  BY <1>3, <1>4, <1>7, <1>8, GoesOn

(* It stops the run on the result in hand. *)
LEMMA HaltsOnResult ==
  ASSUME IInv, WorkerOnly, NEW w \in Runners, workers[w].at \in {"apply", "preserve", "decide"},
         NEW why \in ResultWhys, HaltWith(w, why)
  PROVE  IInv'
<1>0. workers[w] \in Worker /\ Fits(w, workers[w]) /\ Len(audit) \in Nat
      /\ workers \in [Runners -> Worker]
  BY Known
<1>1. PICK y \in Worker : y = workers[w]
  BY <1>0
<1>2. PICK x : x = [y EXCEPT !.at = "halt", !.why = why]
  OBVIOUS
<1>3. /\ x \in Worker
      /\ x.at = "halt" /\ x.why = why
      /\ x.read = y.read /\ x.occ = y.occ /\ x.owned = y.owned
      /\ x.todo = y.todo /\ x.outcome = y.outcome /\ x.verdict = y.verdict
  BY <1>1, <1>2 DEF Worker, Phases, Whys
<1>4. Turns(w, x)
  BY <1>0, <1>1, <1>2 DEF HaltWith, Turns
<1>5. Fits(w, y) /\ y.at \in {"apply", "preserve", "decide"}
  BY <1>0, <1>1
<1>6. y.outcome # None
  BY <1>5, JournalAssumption DEF Fits, OutcomeFits, OutcomesFor
<1>7. Fits(w, x)
  <2>1. TypeFits(x) /\ TodoFits(x)
    BY <1>3, <1>5 DEF Fits, TypeFits, TodoFits, InJournal
  <2>2. OwnedFits(w, x) /\ OccFits(w, x)
    BY <1>3, <1>5 DEF Fits, OwnedFits, OccFits, BeforeActing, OnOwn
  <2>3. OutcomeFits(x)
    BY <1>3, <1>5, <1>6 DEF Fits, OutcomeFits, WithOutcome, Whys
  <2> QED
    BY <2>1, <2>2, <2>3 DEF Fits
<1>8. \A s \in Occurrences : ~ClaimOf(x, s)
  BY <1>3 DEF ClaimOf
<1> QED
  BY <1>3, <1>4, <1>7, <1>8, GoesOnQuietly

LEMMA NowKnown ==
  ASSUME IInv
  PROVE  /\ Len(audit) \in Nat /\ Len(audit) >= 1
         /\ Now = audit[Len(audit)].run
         /\ Now \in Run
         /\ Now.state \in Stops => Now.interrupted \in Active
<1>1. AuditOK /\ Len(audit) \in Nat /\ Len(audit) >= 1
  BY DEF IInv, SharedOK, AuditOK
<1>2. audit[Len(audit)] \in Entry /\ Len(audit) \in DOMAIN audit
  BY <1>1 DEF AuditOK
<1>3. Now = audit[Len(audit)].run
  BY DEF Now, Last
<1> QED
  BY <1>1, <1>2, <1>3 DEF AuditOK, Entry

(* The runs a commit builds from the one it read last. *)
LEMMA NextRuns ==
  ASSUME IInv
  PROVE  /\ \A state \in Active \cup {"FAILED_CLOSED"} :
              To(state) \in Run /\ To(state).state = state
         /\ Now.state \in Active => \A kind \in Stops :
              /\ Stopped(kind) \in Run
              /\ Stopped(kind).state = kind
              /\ Stopped(kind).interrupted = Now.state
<1>1. Now \in Run
  BY NowKnown
<1>2. ASSUME NEW state \in Active \cup {"FAILED_CLOSED"}
      PROVE  To(state) \in Run /\ To(state).state = state
  BY <1>1 DEF Run, To
<1>3. ASSUME Now.state \in Active, NEW kind \in Stops
      PROVE  /\ Stopped(kind) \in Run
             /\ Stopped(kind).state = kind
             /\ Stopped(kind).interrupted = Now.state
  BY <1>1, <1>3 DEF Run, Stopped
<1> QED
  BY <1>2, <1>3

(* One commit of a runner or of others, its entry legal where it lands. *)
LEMMA Commits ==
  ASSUME IInv, RunOnly, NEW run \in Run, NEW action \in EntryActions, NEW by \in Writers,
         NEW why \in EntryWhys, NEW e,
         e = [action |-> action, by |-> by, why |-> why, run |-> run],
         Commit(run, action, by, why),
         Legal(e)
  PROVE  /\ SharedOK' /\ Grows /\ calls' = calls
         /\ Len(audit') = Len(audit) + 1
         /\ audit'[Len(audit) + 1] = e
         /\ Len(audit) + 1 \in Occurrences
<1>1. e \in Entry /\ audit' = Append(audit, e) /\ Len(audit) + 1 \in Occurrences
  BY DEF Entry, Commit
<1> QED
  BY <1>1, CommitKeeps DEF IInv, RunOnly, Unfaulted, ghosts

(* What a stop or a step between two calls records: no result, no verdict. *)
LEMMA PlainLegal ==
  ASSUME IInv, NEW e \in Entry, e.run.state \in Stops => e.run.interrupted \in Active,
         \/ e.by = "other"
         \/ e.by = "implementer" /\ e.action \in {"BEGIN_IMPLEMENTATION", "RECORD_REMOTE_SHA"}
         \/ e.action = "BEGIN_REMOTE_ACCEPTANCE"
         \/ /\ e.action = "STOP" /\ e.by = "controller"
            /\ e.why # ControllerHalt(Len(audit))
  PROVE  Legal(e)
<1>1. e.by = "other" \/ e.by = "implementer" \/ e.by = "controller" => e.by \notin Architects
  BY RunnerAssumption
<1>2. AppliesResult(e, Len(audit)) => \/ e.action = "REPORT_IMPLEMENTATION_COMPLETE"
                                      \/ e.action \in Decisions
                                      \/ e.action = "STOP"
  BY DEF AppliesResult, Decisions
<1>3. CASE e.by = "other"
  BY <1>1, <1>3 DEF Legal
<1>4. CASE e.by = "implementer" /\ e.action \in {"BEGIN_IMPLEMENTATION", "RECORD_REMOTE_SHA"}
  BY <1>1, <1>2, <1>4 DEF Legal, Decisions
<1>5. CASE e.action = "BEGIN_REMOTE_ACCEPTANCE"
  BY <1>2, <1>5 DEF Legal, Decisions
<1>6. CASE e.action = "STOP" /\ e.by = "controller" /\ e.why # ControllerHalt(Len(audit))
  BY <1>1, <1>6 DEF Legal, AppliesResult, Decisions
<1> QED
  BY <1>3, <1>4, <1>5, <1>6

-----------------------------------------------------------------------------
(* Reading, settling what is left, entering an occurrence *)

LEMMA ReadKeeps ==
  ASSUME IInv, NEW w \in Runners, Read(w)
  PROVE  IInv'
<1> DEFINE old == workers[w]
<1>0. old \in Worker /\ Fits(w, old) /\ Len(audit) \in Nat /\ Len(audit) >= 1 /\ live \in BOOLEAN
      /\ workers \in [Runners -> Worker]
  BY Known
<1>1. PICK x : x = [old EXCEPT !.at = IF live THEN "list" ELSE "choose", !.read = Len(audit)]
  OBVIOUS
<1>2. /\ x \in Worker
      /\ x.at = IF live THEN "list" ELSE "choose"
      /\ x.read = Len(audit)
      /\ x.occ = old.occ /\ x.owned = old.owned /\ x.todo = old.todo /\ x.why = old.why
      /\ x.outcome = old.outcome /\ x.verdict = old.verdict
  BY <1>0, <1>1 DEF Worker, Phases
<1>3. old.at = "idle" /\ WorkerOnly /\ Turns(w, x)
  BY <1>0, <1>1 DEF Read, Is, Turns
<1> HIDE DEF old
<1>4. Fits(w, x)
  <2>1. TypeFits(x) /\ TodoFits(x)
    BY <1>0, <1>2 DEF Fits, TypeFits, TodoFits, InJournal
  <2>2. OwnedFits(w, x)
    BY <1>0, <1>2, <1>3 DEF Fits, TypeFits, OwnedFits, Mine, IsReview, BeforeActing, Worker
  <2>3. OccFits(w, x)
    BY <1>2 DEF OccFits, BeforeActing, OnOwn
  <2>4. OutcomeFits(x)
    BY <1>0, <1>2, <1>3 DEF Fits, OutcomeFits, WithOutcome
  <2> QED
    BY <2>1, <2>2, <2>3, <2>4 DEF Fits
<1>5. \A s \in Occurrences : ClaimOf(x, s) => ClaimOf(old, s)
  BY <1>2, <1>3 DEF ClaimOf
<1> QED
  BY <1>2, <1>3, <1>4, <1>5, GoesOnQuietly DEF old

LEMMA ListKeeps ==
  ASSUME IInv, NEW w \in Runners, List(w)
  PROVE  IInv'
<1>0. workers[w] \in Worker /\ Fits(w, workers[w]) /\ workers \in [Runners -> Worker]
      /\ Len(audit) \in Nat /\ DOMAIN audit = 1..Len(audit) /\ JournalOK
  BY Known
<1>1. PICK y \in Worker : y = workers[w]
  BY <1>0
<1>2. PICK x : x = [y EXCEPT !.at = IF LeftRecords(w) = {} THEN "choose" ELSE "settle",
                             !.todo = {<<s, SettlementOf(w, s)>> : s \in LeftRecords(w)}]
  OBVIOUS
<1>3. \A s \in LeftRecords(w) :
        /\ s \in Occurrences /\ s \in DOMAIN audit
        /\ SettlementOf(w, s) \in Final
        /\ SettlementOf(w, s) = "APPLIED" => AppliedAt(s)
  <2> SUFFICES ASSUME NEW s \in LeftRecords(w)
               PROVE  /\ s \in Occurrences /\ s \in DOMAIN audit
                      /\ SettlementOf(w, s) \in Final
                      /\ SettlementOf(w, s) = "APPLIED" => AppliedAt(s)
    OBVIOUS
  <2>1. s \in Occurrences /\ journal[s] # None /\ journal[s].state \notin Final
    BY DEF LeftRecords, Open
  <2>2. journal[s] \in InvocationRecord
    BY <1>0, <2>1 DEF JournalOK, JournalInv, JournalTypeOK
  <2>3. journal[s].state \in {"PREPARED", "STARTED", "COMPLETED"}
    BY <2>1, <2>2 DEF InvocationRecord, InvocationStates
  <2>4. SettlementOf(w, s) \in {"ABANDONED", "UNCERTAIN", "APPLIED"}
    BY <2>3 DEF SettlementOf
  <2>5. SettlementOf(w, s) = "APPLIED" => s < workers[w].read /\ AppliesResult(audit[s + 1], s)
    BY <2>3 DEF SettlementOf
  <2>6. workers[w].read \in Nat /\ workers[w].read <= Len(audit) /\ s \in Nat
    BY <1>0, <2>1, JournalAssumption DEF Worker, Fits, TypeFits
  <2>7. s \in DOMAIN audit
    BY <1>0, <2>1 DEF JournalOK
  <2>8. SettlementOf(w, s) = "APPLIED" => AppliedAt(s)
    BY <1>0, <2>5, <2>6, <2>7 DEF AppliedAt
  <2> QED
    BY <2>1, <2>4, <2>7, <2>8 DEF Final
<1>4. /\ x \in Worker
      /\ x.at \in {"choose", "settle"}
      /\ x.todo = {<<s, SettlementOf(w, s)>> : s \in LeftRecords(w)}
      /\ x.read = y.read /\ x.occ = y.occ /\ x.owned = y.owned
      /\ x.why = y.why /\ x.outcome = y.outcome /\ x.verdict = y.verdict
  <2>1. {<<s, SettlementOf(w, s)>> : s \in LeftRecords(w)} \subseteq Occurrences \X Final
    BY <1>3
  <2> QED
    BY <1>2, <2>1 DEF Worker, Phases
<1>5. y.at = "list" /\ WorkerOnly /\ Turns(w, x)
  BY <1>0, <1>1, <1>2 DEF List, Is, Turns
<1>6. Fits(w, y) /\ live
  BY <1>0, <1>1, <1>5 DEF Fits, TypeFits, InJournal
<1>7. Fits(w, x)
  <2>1. TypeFits(x)
    BY <1>4, <1>6 DEF Fits, TypeFits
  <2>2. OwnedFits(w, x) /\ OccFits(w, x)
    BY <1>4, <1>5, <1>6 DEF Fits, OwnedFits, OccFits, BeforeActing, OnOwn
  <2>3. OutcomeFits(x)
    BY <1>4, <1>5, <1>6 DEF Fits, OutcomeFits, WithOutcome
  <2>4. TodoFits(x)
    BY <1>3, <1>4 DEF TodoFits
  <2> QED
    BY <2>1, <2>2, <2>3, <2>4 DEF Fits
<1>8. \A s \in Occurrences : ~ClaimOf(x, s)
  BY <1>4, <1>6 DEF ClaimOf
<1> QED
  BY <1>4, <1>5, <1>7, <1>8, GoesOnQuietly

LEMMA SettleListedKeeps ==
  ASSUME IInv, NEW w \in Runners, SettleListed(w)
  PROVE  IInv'
<1>0. workers[w] \in Worker /\ Fits(w, workers[w]) /\ workers \in [Runners -> Worker]
      /\ Len(audit) \in Nat /\ SharedOK
  BY Known
<1>1. PICK y \in Worker : y = workers[w]
  BY <1>0
<1>2. PICK item \in y.todo :
        /\ SettledOrMoved(item[1], item[2])
        /\ workers' = [workers EXCEPT ![w].todo = @ \ {item},
                                      ![w].at = IF y.todo = {item} THEN "choose" ELSE @]
  BY <1>1 DEF SettleListed
<1>3. y.at = "settle" /\ JournalOnly
  BY <1>1 DEF SettleListed, Is
<1>4. Fits(w, y) /\ live
  BY <1>0, <1>1, <1>3 DEF Fits, TypeFits, InJournal
<1>5. PICK x : x = [y EXCEPT !.todo = @ \ {item}, !.at = IF y.todo = {item} THEN "choose" ELSE @]
  OBVIOUS
<1>6. /\ x \in Worker
      /\ x.at \in {"choose", "settle"} /\ x.todo \subseteq y.todo
      /\ x.read = y.read /\ x.occ = y.occ /\ x.owned = y.owned
      /\ x.why = y.why /\ x.outcome = y.outcome /\ x.verdict = y.verdict
  BY <1>3, <1>5 DEF Worker, Phases
<1>7. Turns(w, x)
  BY <1>0, <1>1, <1>2, <1>5 DEF Turns
<1>8. SharedOK' /\ Grows /\ calls' = calls
  <2>1. /\ item[1] \in Occurrences /\ item[2] \in Final
        /\ item[2] = "APPLIED" => AppliedAt(item[1])
    BY <1>2, <1>4 DEF Worker, Fits, TodoFits
  <2> QED
    BY <1>0, <1>2, <1>3, <2>1, SettleShared
<1>9. Fits(w, x)
  <2>1. TypeFits(x) /\ TodoFits(x)
    BY <1>4, <1>6 DEF Fits, TypeFits, TodoFits
  <2>2. OwnedFits(w, x) /\ OccFits(w, x)
    BY <1>3, <1>4, <1>6 DEF Fits, OwnedFits, OccFits, BeforeActing, OnOwn
  <2>3. OutcomeFits(x)
    BY <1>3, <1>4, <1>6 DEF Fits, OutcomeFits, WithOutcome
  <2> QED
    BY <2>1, <2>2, <2>3 DEF Fits
<1>10. \A s \in Occurrences : ~ClaimOf(x, s)
  BY <1>4, <1>6 DEF ClaimOf
<1> QED
  BY <1>6, <1>7, <1>8, <1>9, <1>10, GoesOn

LEMMA WaitKeeps ==
  ASSUME IInv, NEW w \in Runners, Wait(w) \/ EnterRefused(w)
  PROVE  IInv'
BY EndsQuietly DEF Wait, EnterRefused

(* The entry a runner opened, or the stop it got instead, is the one after *)
(* the trail as it was: nobody has called for it, and no one else may.     *)
LEMMA EnteringKeeps ==
  ASSUME IInv, SharedOK', Grows, calls' = calls, NEW w \in Runners,
         workers[w].at = "choose", Goto(w, "entered"),
         Len(audit') = Len(audit) + 1,
         audit'[Len(audit) + 1].run.state = "ACCEPTANCE_REVIEW" =>
           audit'[Len(audit) + 1].by = principal[w]
  PROVE  IInv'
<1>0. /\ workers \in [Runners -> Worker] /\ workers[w] \in Worker /\ Fits(w, workers[w])
      /\ Len(audit) \in Nat /\ Len(audit) >= 1
      /\ AuditOK
  BY Known
<1>1. PICK y \in Worker : y = workers[w]
  BY <1>0
<1>2. PICK n \in Nat : n = Len(audit)
  BY <1>0
<1>3. PICK x : x = [y EXCEPT !.at = "entered"]
  OBVIOUS
<1>4. /\ x \in Worker /\ x.at = "entered"
      /\ x.read = y.read /\ x.occ = y.occ /\ x.owned = y.owned /\ x.todo = y.todo
      /\ x.why = y.why /\ x.outcome = y.outcome /\ x.verdict = y.verdict
  BY <1>3 DEF Worker, Phases
<1>5. Turns(w, x)
  BY <1>0, <1>1, <1>3 DEF Goto, Turns
<1>6. Fits(w, y) /\ Fits(w, y)' /\ y.at = "choose"
  BY <1>0, <1>1, FitsStable DEF IInv, SharedOK
<1>7. y.read <= n /\ y.owned <= n /\ y.read \in Nat /\ y.owned \in Nat
      /\ Len(audit') = n + 1
      /\ audit' \in Seq(Entry)
      /\ (IsReview(n + 1)' => audit'[n + 1].by = principal[w])
  BY <1>2, <1>6 DEF Fits, TypeFits, Worker, SharedOK, AuditOK, IsReview
<1>8. Fits(w, x)'
  <2>1. TypeFits(x)' /\ TodoFits(x)'
    BY <1>4, <1>6 DEF Fits, TypeFits, TodoFits, InJournal
  <2>2. OwnedFits(w, x)'
    <3>1. Len(audit') = x.read + 1 => x.read = n
      BY <1>2, <1>4, <1>7
    <3> QED
      BY <1>2, <1>4, <1>6, <1>7, <3>1 DEF Fits, OwnedFits, BeforeActing
  <2>3. OccFits(w, x)'
    BY <1>4 DEF OccFits, BeforeActing, OnOwn
  <2>4. OutcomeFits(x)'
    BY <1>4, <1>6 DEF Fits, OutcomeFits, WithOutcome
  <2> QED
    BY <2>1, <2>2, <2>3, <2>4 DEF Fits
<1>9. ASSUME NEW s \in Occurrences, ClaimOf(x, s)'
      PROVE  /\ calls[s] = 0
             /\ \A v \in Runners \ {w} : ~ClaimOf(workers[v], s)
  <2>1. s = n + 1
    BY <1>4, <1>7, <1>9 DEF ClaimOf
  <2>2. calls[s] = 0
    <3>1. calls[s] \in Nat /\ s \notin DOMAIN audit
      BY <1>0, <1>2, <2>1 DEF IInv, SharedOK, CallsOK, AuditOK
    <3> QED
      BY <3>1 DEF IInv, SharedOK, CallsOK
  <2>3. ASSUME NEW v \in Runners \ {w}
        PROVE  ~ClaimOf(workers[v], s)
    <3>1. /\ workers[v] \in Worker /\ Fits(v, workers[v])
      BY Known
    <3> QED
      BY <1>0, <1>2, <2>1, <3>1 DEF ClaimOf, Fits, TypeFits, Worker
  <2> QED
    BY <2>2, <2>3
<1> QED
  BY <1>4, <1>5, <1>8, <1>9, StepClaims

LEMMA EnterImplementationKeeps ==
  ASSUME IInv, NEW w \in Runners, EnterImplementation(w)
  PROVE  IInv'
<1>0. workers[w].at = "choose" /\ RunOnly /\ Goto(w, "entered")
      /\ Now.state \in {"PACKET_READY", "CORRECTION_REQUIRED"}
  BY DEF EnterImplementation, Chooses, Is, MayBegin
<1>1. Now.state \in Active /\ Now.state \notin ActorStates
  BY <1>0 DEF Active, RunnerStates, ActorStates
<1>2. CASE Commit(To("IMPLEMENTING"), "BEGIN_IMPLEMENTATION", "implementer", None)
  <2>1. PICK e : e = [action |-> "BEGIN_IMPLEMENTATION", by |-> "implementer", why |-> None,
                      run |-> To("IMPLEMENTING")]
    OBVIOUS
  <2>2. To("IMPLEMENTING") \in Run /\ To("IMPLEMENTING").state = "IMPLEMENTING"
    BY NextRuns DEF Active, RunnerStates
  <2>3. e \in Entry /\ e.run.state \notin Stops /\ Legal(e)
    <3>1. e \in Entry /\ e.run.state \notin Stops
      BY <2>1, <2>2 DEF Entry, EntryActions, EntryWhys, Writers, Stops
    <3> QED
      BY <2>1, <3>1, PlainLegal
  <2>4. /\ SharedOK' /\ Grows /\ calls' = calls
        /\ Len(audit') = Len(audit) + 1
        /\ audit'[Len(audit) + 1] = e
    BY <1>0, <1>2, <2>1, <2>2, <2>3, Commits DEF EntryActions, EntryWhys, Writers
  <2> QED
    BY <1>0, <2>1, <2>2, <2>4, EnteringKeeps
<1>3. CASE Commit(Stopped("HUMAN_STOP"), "STOP", "controller", "iterations")
  <2>1. PICK e : e = [action |-> "STOP", by |-> "controller", why |-> "iterations",
                      run |-> Stopped("HUMAN_STOP")]
    OBVIOUS
  <2>2. /\ Stopped("HUMAN_STOP") \in Run
        /\ Stopped("HUMAN_STOP").state = "HUMAN_STOP"
        /\ Stopped("HUMAN_STOP").interrupted \in Active
    BY <1>1, NextRuns DEF Stops
  <2>3. Legal(e)
    <3>1. e \in Entry
      BY <2>1, <2>2 DEF Entry, EntryActions, EntryWhys, Writers
    <3>2. e.why # ControllerHalt(Len(audit))
      BY <2>1 DEF ControllerHalt
    <3> QED
      BY <2>1, <2>2, <3>1, <3>2, PlainLegal
  <2>4. /\ SharedOK' /\ Grows /\ calls' = calls
        /\ Len(audit') = Len(audit) + 1
        /\ audit'[Len(audit) + 1] = e
    BY <1>0, <1>3, <2>1, <2>2, <2>3, Commits DEF EntryActions, EntryWhys, Writers
  <2> QED
    BY <1>0, <2>1, <2>2, <2>4, EnteringKeeps
<1> QED
  BY <1>2, <1>3 DEF EnterImplementation

LEMMA EnterReviewKeeps ==
  ASSUME IInv, NEW w \in Runners, EnterReview(w)
  PROVE  IInv'
<1>0. workers[w].at = "choose" /\ RunOnly /\ Goto(w, "entered")
      /\ Now.state = "REMOTE_SHA_READY"
  BY DEF EnterReview, Chooses, Is
<1>1. /\ Now.state \in Active
      /\ ~IsReview(Len(audit))
      /\ principal[w] \in Writers /\ principal[w] \in Architects
  BY <1>0, NowKnown, RunnerAssumption DEF Active, RunnerStates, IsReview, Writers
<1>2. CASE Commit(To("ACCEPTANCE_REVIEW"), "BEGIN_REMOTE_ACCEPTANCE", principal[w], None)
  <2>1. PICK e : e = [action |-> "BEGIN_REMOTE_ACCEPTANCE", by |-> principal[w], why |-> None,
                      run |-> To("ACCEPTANCE_REVIEW")]
    OBVIOUS
  <2>2. To("ACCEPTANCE_REVIEW") \in Run /\ To("ACCEPTANCE_REVIEW").state = "ACCEPTANCE_REVIEW"
    BY NextRuns DEF Active, RunnerStates
  <2>3. Legal(e)
    <3>1. e \in Entry /\ e.run.state \notin Stops
      BY <1>1, <2>1, <2>2 DEF Entry, EntryActions, EntryWhys, Stops
    <3> QED
      BY <2>1, <3>1, PlainLegal
  <2>4. /\ SharedOK' /\ Grows /\ calls' = calls
        /\ Len(audit') = Len(audit) + 1
        /\ audit'[Len(audit) + 1] = e
    BY <1>0, <1>1, <1>2, <2>1, <2>2, <2>3, Commits DEF EntryActions, EntryWhys
  <2> QED
    BY <1>0, <2>1, <2>4, EnteringKeeps
<1>3. CASE Commit(Stopped("ARCHITECTURE_STOP"), "STOP", "controller", "branch_moved")
  <2>1. PICK e : e = [action |-> "STOP", by |-> "controller", why |-> "branch_moved",
                      run |-> Stopped("ARCHITECTURE_STOP")]
    OBVIOUS
  <2>2. /\ Stopped("ARCHITECTURE_STOP") \in Run
        /\ Stopped("ARCHITECTURE_STOP").state = "ARCHITECTURE_STOP"
        /\ Stopped("ARCHITECTURE_STOP").interrupted \in Active
    BY <1>1, NextRuns DEF Stops
  <2>3. Legal(e)
    <3>1. e \in Entry
      BY <2>1, <2>2 DEF Entry, EntryActions, EntryWhys, Writers
    <3>2. e.why # ControllerHalt(Len(audit))
      BY <1>1, <2>1 DEF ControllerHalt
    <3> QED
      BY <2>1, <2>2, <3>1, <3>2, PlainLegal
  <2>4. /\ SharedOK' /\ Grows /\ calls' = calls
        /\ Len(audit') = Len(audit) + 1
        /\ audit'[Len(audit) + 1] = e
    BY <1>0, <1>3, <2>1, <2>2, <2>3, Commits DEF EntryActions, EntryWhys, Writers
  <2> QED
    BY <1>0, <2>1, <2>2, <2>4, EnteringKeeps
<1> QED
  BY <1>2, <1>3 DEF EnterReview

LEMMA RecordRemoteShaKeeps ==
  ASSUME IInv, NEW w \in Runners, RecordRemoteSha(w)
  PROVE  IInv'
<1>0. /\ RunOnly /\ EndStep(w)
      /\ Commit(To("REMOTE_SHA_READY"), "RECORD_REMOTE_SHA", "implementer", None)
  BY DEF RecordRemoteSha
<1>1. PICK e : e = [action |-> "RECORD_REMOTE_SHA", by |-> "implementer", why |-> None,
                    run |-> To("REMOTE_SHA_READY")]
  OBVIOUS
<1>2. To("REMOTE_SHA_READY") \in Run /\ To("REMOTE_SHA_READY").state = "REMOTE_SHA_READY"
  BY NextRuns DEF Active, RunnerStates
<1>3. Legal(e)
  <2>1. e \in Entry /\ e.run.state \notin Stops
    BY <1>1, <1>2 DEF Entry, EntryActions, EntryWhys, Writers, Stops
  <2> QED
    BY <1>1, <2>1, PlainLegal
<1>4. SharedOK' /\ Grows /\ calls' = calls
  BY <1>0, <1>1, <1>2, <1>3, Commits DEF EntryActions, EntryWhys, Writers
<1> QED
  BY <1>0, <1>4, Ends

LEMMA EnteredKeeps ==
  ASSUME IInv, NEW w \in Runners, Entered(w)
  PROVE  IInv'
<1>0. /\ workers \in [Runners -> Worker] /\ workers[w] \in Worker /\ Fits(w, workers[w])
      /\ Len(audit) \in Nat /\ Len(audit) >= 1 /\ DOMAIN audit = 1..Len(audit)
      /\ AuditOK
  BY Known
<1>1. PICK y \in Worker : y = workers[w]
  BY <1>0
<1>2. PICK entry : entry = y.read + 1
  OBVIOUS
<1>3. /\ y.at = "entered" /\ WorkerOnly /\ Fits(w, y)
      /\ entry \in Nat /\ entry # 0 /\ entry <= Len(audit)
      /\ entry \in DOMAIN audit
  BY <1>0, <1>1, <1>2 DEF Entered, Is, Fits, OwnedFits, Worker
<1>4. CASE ~(audit[entry].run.state \in ActorStates
             /\ audit[entry].action = Entering[audit[entry].run.state])
  <2>1. EndStep(w)
    BY <1>1, <1>2, <1>4 DEF Entered
  <2> QED
    BY <1>3, <2>1, EndsQuietly
<1>5. CASE /\ audit[entry].run.state \in ActorStates
           /\ audit[entry].action = Entering[audit[entry].run.state]
           /\ live /\ Len(audit) = entry
  <2>1. PICK x : x = [y EXCEPT !.at = "prepare_entered", !.occ = entry, !.owned = entry]
    OBVIOUS
  <2>2. /\ x \in Worker /\ x.at = "prepare_entered"
        /\ x.occ = entry /\ x.owned = entry
        /\ x.read = y.read /\ x.todo = y.todo
        /\ x.why = y.why /\ x.outcome = y.outcome /\ x.verdict = y.verdict
    BY <1>3, <2>1 DEF Worker, Phases
  <2>3. Turns(w, x)
    BY <1>0, <1>1, <1>2, <1>5, <2>1 DEF Entered, Turns
  <2>4. InTrail(entry) /\ Mine(w, entry)
    BY <1>0, <1>2, <1>3, <1>5 DEF InTrail, AuditOK, Mine, IsReview, Fits, OwnedFits
  <2>5. Fits(w, x)
    <3>1. TypeFits(x) /\ TodoFits(x)
      BY <1>3, <1>5, <2>2 DEF Fits, TypeFits, TodoFits
    <3>2. OwnedFits(w, x) /\ OccFits(w, x)
      BY <1>3, <1>5, <2>2, <2>4 DEF Fits, OwnedFits, OccFits, BeforeActing, OnOwn
    <3>3. OutcomeFits(x)
      BY <1>3, <2>2 DEF Fits, OutcomeFits, WithOutcome
    <3> QED
      BY <3>1, <3>2, <3>3 DEF Fits
  <2>6. \A s \in Occurrences : ~ClaimOf(x, s)
    BY <1>5, <2>2 DEF ClaimOf
  <2> QED
    BY <1>3, <2>2, <2>3, <2>5, <2>6, GoesOnQuietly
<1>6. CASE /\ audit[entry].run.state \in ActorStates
           /\ audit[entry].action = Entering[audit[entry].run.state]
           /\ ~(live /\ Len(audit) = entry)
  <2>1. PICK x : x = Idle(entry)
    OBVIOUS
  <2>2. /\ x \in Worker /\ x.at = "idle"
        /\ x.occ = 0 /\ x.owned = entry /\ x.read = 0 /\ x.todo = {}
        /\ x.why = None /\ x.outcome = None /\ x.verdict = None
    BY <1>3, <2>1 DEF Worker, Phases, Idle
  <2>3. Turns(w, x)
    BY <1>0, <1>1, <1>2, <1>6, <2>1 DEF Entered, Turns
  <2>4. Len(audit) = entry => Mine(w, entry)
    BY <1>0, <1>2, <1>3, <1>6 DEF Mine, IsReview, Fits, OwnedFits
  <2>5. Fits(w, x)
    <3>1. TypeFits(x) /\ TodoFits(x)
      BY <1>0, <1>3, <2>2 DEF TypeFits, TodoFits, InJournal
    <3>2. OwnedFits(w, x)
      BY <1>0, <1>3, <1>6, <2>2, <2>4 DEF OwnedFits, BeforeActing
    <3>3. OccFits(w, x) /\ OutcomeFits(x)
      BY <2>2 DEF OccFits, OutcomeFits, WithOutcome, BeforeActing, OnOwn
    <3> QED
      BY <3>1, <3>2, <3>3 DEF Fits
  <2>6. \A s \in Occurrences : ClaimOf(x, s) => ClaimOf(workers[w], s)
    BY <1>1, <1>2, <1>3, <2>2 DEF ClaimOf
  <2> QED
    BY <1>3, <2>2, <2>3, <2>5, <2>6, GoesOnQuietly
<1> QED
  BY <1>4, <1>5, <1>6

-----------------------------------------------------------------------------
(* Preparing the call, and acting on what the journal holds of it *)

LEMMA Untouched ==
  ASSUME JournalOnly, UNCHANGED journal
  PROVE  WorkerOnly
BY DEF JournalOnly, WorkerOnly

LEMMA NotGrantedKeeps ==
  ASSUME IInv, NEW w \in Runners, NotGranted(w)
  PROVE  IInv'
<1>0. /\ workers \in [Runners -> Worker] /\ workers[w] \in Worker
      /\ workers[w].at \in {"prepare_entered", "prepare"}
      /\ WorkerOnly /\ HaltWith(w, "not_authorized")
  BY Known DEF NotGranted, Is
<1>1. SharedOK' /\ Grows /\ calls' = calls
  BY <1>0, QuietKeeps DEF IInv, SharedOK, RestOK, WorkerOnly, Unfaulted, ghosts
<1>2. Turns(w, [workers[w] EXCEPT !.at = "halt", !.why = "not_authorized"])
  BY <1>0 DEF HaltWith, Turns
<1> QED
  BY <1>0, <1>1, <1>2, MovesOn DEF BeforeActing, WithOutcome, InJournal, OnOwn, Whys, ResultWhys

LEMMA PrepareCallKeeps ==
  ASSUME IInv, NEW w \in Runners, PrepareCall(w)
  PROVE  IInv'
<1>0. /\ workers \in [Runners -> Worker] /\ workers[w] \in Worker
      /\ workers[w].at \in {"prepare_entered", "prepare"}
      /\ Fits(w, workers[w]) /\ SharedOK /\ JournalInv
      /\ JournalOnly
  BY Known DEF PrepareCall, Is
<1>1. CASE journal[workers[w].occ] # None
  BY <1>0, <1>1, Untouched, EndsQuietly DEF PrepareCall
<1>2. CASE journal[workers[w].occ] = None
  <2>1. InTrail(workers[w].occ) /\ live
    BY <1>0 DEF Fits, OccFits, TypeFits, BeforeActing, InJournal
  <2>2. PICK s \in Occurrences : s = workers[w].occ
    BY <2>1 DEF InTrail
  <2>3. PICK packet \in Packets : packet = audit[s].run.packet
    <3>1. audit[s] \in Entry
      BY <2>1, <2>2, Known DEF InTrail
    <3> QED
      BY <3>1 DEF Entry, Run
  <2>4. Prepare(s, packet)
    BY <1>2, <2>2, <2>3 DEF PrepareCall
  <2>5. JournalInv'
    BY <1>0, <2>4, PrepareKeeps
  <2>6. /\ journal'[s] = [state |-> "PREPARED", started |-> FALSE, packet |-> packet,
                          result |-> None]
        /\ \A o \in Occurrences \ {s} : journal'[o] = journal[o]
        /\ journal'[s] # None
    <3>1. journal \in [Occurrences -> InvocationRecord \cup {None}]
      BY <1>0 DEF JournalInv, JournalTypeOK
    <3>2. [state |-> "PREPARED", started |-> FALSE, packet |-> packet, result |-> None]
            \in InvocationRecord
      BY DEF InvocationRecord, InvocationStates
    <3> QED
      BY <2>4, <3>1, <3>2, NoneAssumption DEF Prepare, Prepared
  <2>7. SharedOK' /\ Grows /\ calls' = calls
    BY <1>0, <1>2, <2>1, <2>2, <2>5, <2>6, RecordKeeps
    DEF JournalOnly, Unfaulted, ghosts, InTrail
  <2>8. CASE workers[w].at = "prepare"
    <3>1. Turns(w, [workers[w] EXCEPT !.at = "gate", !.why = workers[w].why])
      BY <1>0, <1>2, <2>8 DEF PrepareCall, Is, Goto, Turns, Worker
    <3>2. workers[w].why \in Whys \cup {None}
      BY <1>0 DEF Worker
    <3> QED
      BY <2>1, <2>7, <2>8, <3>1, <3>2, MovesOn DEF BeforeActing, WithOutcome, OnOwn
  <2>9. CASE workers[w].at = "prepare_entered"
    <3>1. EndStep(w)
      BY <1>2, <2>9 DEF PrepareCall, Is
    <3> QED
      BY <2>7, <3>1, Ends
  <2> QED
    BY <1>0, <2>8, <2>9
<1> QED
  BY <1>1, <1>2

(* A run observed in an actor state was left there by an entry that opened *)
(* a call.                                                                 *)
LEMMA ActorStateRead ==
  ASSUME IInv, NEW w \in Runners, Chooses(w, ActorStates)
  PROVE  /\ workers[w].at = "choose"
         /\ InTrail(workers[w].read)
         /\ Owns(w) => Mine(w, workers[w].read)
<1>0. /\ workers[w] \in Worker /\ Fits(w, workers[w])
      /\ Len(audit) \in Nat /\ DOMAIN audit = 1..Len(audit)
      /\ AuditOK
      /\ workers[w].at = "choose"
      /\ audit[workers[w].read].run.state \in ActorStates
  BY Known DEF Chooses, Is, Seen
<1>1. workers[w].read \in 1..Len(audit)
  BY <1>0 DEF Fits, TypeFits, OwnedFits, Worker
<1>2. InTrail(workers[w].read)
  BY <1>0, <1>1 DEF InTrail, AuditOK
<1>3. Owns(w) => Mine(w, workers[w].read)
  BY <1>0, <1>1 DEF Owns, Fits, OwnedFits
<1> QED
  BY <1>0, <1>2, <1>3

(* Without a journal or on a finding no record explains, the runner halts. *)
LEMMA HaltsObserved ==
  ASSUME IInv, WorkerOnly, NEW w \in Runners, Chooses(w, ActorStates),
         NEW why \in Whys \ ResultWhys, NEW x,
         x = [workers[w] EXCEPT !.at = "halt", !.occ = workers[w].read, !.owned = 0, !.why = why],
         Turns(w, x)
  PROVE  IInv'
<1>0. /\ workers[w] \in Worker /\ Fits(w, workers[w]) /\ Len(audit) \in Nat
      /\ workers[w].at = "choose" /\ InTrail(workers[w].read)
  BY Known, ActorStateRead
<1>1. PICK y \in Worker : y = workers[w]
  BY <1>0
<1>2. /\ x \in Worker /\ x.at = "halt" /\ x.why = why
      /\ x.occ = y.read /\ x.owned = 0 /\ x.read = y.read
      /\ x.todo = y.todo /\ x.outcome = y.outcome /\ x.verdict = y.verdict
  BY <1>1 DEF Worker, Phases
<1>3. Fits(w, y) /\ y.at = "choose" /\ InTrail(y.read)
  BY <1>0, <1>1
<1>4. Fits(w, x)
  <2>1. TypeFits(x) /\ TodoFits(x)
    BY <1>0, <1>2, <1>3 DEF Fits, TypeFits, TodoFits, InJournal
  <2>2. OwnedFits(w, x) /\ OccFits(w, x)
    BY <1>2, <1>3 DEF Fits, OwnedFits, OccFits, OnOwn, BeforeActing
  <2>3. OutcomeFits(x)
    BY <1>2, <1>3 DEF Fits, OutcomeFits, WithOutcome
  <2> QED
    BY <2>1, <2>2, <2>3 DEF Fits
<1>5. \A s \in Occurrences : ~ClaimOf(x, s)
  BY <1>2 DEF ClaimOf
<1> QED
  BY <1>2, <1>4, <1>5, GoesOnQuietly

LEMMA ActWithoutJournalKeeps ==
  ASSUME IInv, NEW w \in Runners, ActWithoutJournal(w)
  PROVE  IInv'
<1>0. /\ workers \in [Runners -> Worker] /\ workers[w] \in Worker /\ Fits(w, workers[w])
      /\ Len(audit) \in Nat
      /\ ~live /\ WorkerOnly /\ Chooses(w, ActorStates)
  BY Known DEF ActWithoutJournal
<1>1. CASE ~Owns(w)
  <2>1. PICK x : x = [workers[w] EXCEPT !.at = "halt", !.occ = workers[w].read, !.owned = 0,
                                        !.why = "restart"]
    OBVIOUS
  <2>2. Turns(w, x)
    BY <1>0, <1>1, <2>1 DEF ActWithoutJournal, Observed, Turns
  <2> QED
    BY <1>0, <2>1, <2>2, HaltsObserved DEF Whys, ResultWhys
<1>2. CASE Owns(w)
  <2>1. PICK y \in Worker : y = workers[w]
    BY <1>0
  <2>2. PICK x : x = [y EXCEPT !.at = "call", !.occ = y.read, !.owned = 0]
    OBVIOUS
  <2>3. /\ x \in Worker /\ x.at = "call"
        /\ x.occ = y.read /\ x.owned = 0 /\ x.read = y.read
        /\ x.todo = y.todo /\ x.why = y.why /\ x.outcome = y.outcome /\ x.verdict = y.verdict
    BY <2>1, <2>2 DEF Worker, Phases
  <2>4. /\ Fits(w, y) /\ y.at = "choose" /\ InTrail(y.read) /\ Mine(w, y.read)
        /\ y.owned = y.read
    BY <1>0, <1>2, <2>1, ActorStateRead DEF Owns
  <2>5. Turns(w, x)
    BY <1>0, <1>2, <2>1, <2>2 DEF ActWithoutJournal, Turns
  <2>6. Fits(w, x)
    <3>1. TypeFits(x) /\ TodoFits(x)
      BY <1>0, <2>3, <2>4 DEF Fits, TypeFits, TodoFits, InJournal
    <3>2. OwnedFits(w, x) /\ OccFits(w, x)
      BY <1>0, <2>3, <2>4 DEF Fits, OwnedFits, OccFits, OnOwn, BeforeActing
    <3>3. OutcomeFits(x)
      BY <1>0, <2>3, <2>4 DEF Fits, OutcomeFits, WithOutcome
    <3> QED
      BY <3>1, <3>2, <3>3 DEF Fits
  <2>7. \A s \in Occurrences : ClaimOf(x, s) => ClaimOf(workers[w], s)
    BY <1>0, <2>1, <2>3, <2>4 DEF ClaimOf
  <2> QED
    BY <1>0, <2>3, <2>5, <2>6, <2>7, GoesOnQuietly
<1> QED
  BY <1>1, <1>2

LEMMA ActKeeps ==
  ASSUME IInv, NEW w \in Runners, Act(w)
  PROVE  IInv'
<1>0. /\ workers \in [Runners -> Worker] /\ workers[w] \in Worker /\ Fits(w, workers[w])
      /\ Len(audit) \in Nat
      /\ live /\ WorkerOnly /\ Chooses(w, ActorStates)
  BY Known DEF Act
<1>1. PICK y \in Worker : y = workers[w]
  BY <1>0
<1>2. PICK s \in Occurrences : s = y.read
  BY <1>0, <1>1, ActorStateRead DEF InTrail
<1>3. /\ Fits(w, y) /\ y.at = "choose" /\ InTrail(s)
      /\ y.outcome = None
  BY <1>0, <1>1, <1>2, ActorStateRead DEF Fits, OutcomeFits, WithOutcome
<1>4. PICK mine : mine = [y EXCEPT !.occ = s, !.owned = 0]
  OBVIOUS
<1>5. PICK next : /\ Turns(w, next)
                  /\ next = IF audit[s].action # Entering[audit[s].run.state]
                            THEN Observed(w, mine, "restart")
                            ELSE IF ~Continues(w) THEN Idle(0)
                            ELSE IF journal[s] = None
                            THEN IF Owns(w) THEN [mine EXCEPT !.at = "prepare"]
                                            ELSE Observed(w, mine, "restart")
                            ELSE IF OnRecord(w, journal[s]) = "conflict"
                            THEN Observed(w, mine, "conflict")
                            ELSE [mine EXCEPT !.at = OnRecord(w, journal[s]), !.why = "restart",
                                              !.outcome = journal[s].result]
  BY <1>0, <1>1, <1>2, <1>4 DEF Act, Turns, Seen
<1>6. ASSUME NEW why \in Whys \ ResultWhys, next = Observed(w, mine, why)
      PROVE  IInv'
  <2>1. next = [workers[w] EXCEPT !.at = "halt", !.occ = workers[w].read, !.owned = 0, !.why = why]
    BY <1>1, <1>2, <1>4, <1>6 DEF Observed, Worker
  <2> QED
    BY <1>0, <1>5, <2>1, HaltsObserved
<1>7. ASSUME next = Idle(0)
      PROVE  IInv'
  BY <1>0, <1>5, <1>7, IdleFits, GoesOnQuietly
<1>8. ASSUME audit[s].action = Entering[audit[s].run.state], Continues(w),
             NEW a \in {"prepare", "gate", "uncertain", "halt", "apply"},
             next.at = a, next \in Worker,
             next.occ = s, next.owned = 0, next.read = y.read, next.todo = y.todo,
             a \in {"halt", "uncertain"} => next.why \in Whys \ ResultWhys,
             a # "apply" => next.outcome = None,
             a = "apply" => /\ journal[s] # None /\ journal[s].result # None
                            /\ next.outcome = journal[s].result
      PROVE  IInv'
  <2>1. Mine(w, s)
    BY <1>1, <1>2, <1>8 DEF Mine, Continues, Seen, IsReview
  <2>2. a = "apply" => next.outcome \in OutcomesFor(s)
    BY <1>8, Known DEF JournalOK
  <2>3. Fits(w, next)
    <3>1. TypeFits(next) /\ TodoFits(next)
      BY <1>0, <1>2, <1>3, <1>8 DEF Fits, TypeFits, TodoFits
    <3>2. OwnedFits(w, next)
      BY <1>3, <1>8 DEF Fits, OwnedFits, BeforeActing
    <3>3. OccFits(w, next)
      BY <1>3, <1>8, <2>1 DEF OccFits
    <3>4. OutcomeFits(next)
      BY <1>8, <2>2 DEF OutcomeFits, WithOutcome
    <3> QED
      BY <3>1, <3>2, <3>3, <3>4 DEF Fits
  <2>4. \A o \in Occurrences : ~ClaimOf(next, o)
    BY <1>0, <1>8 DEF ClaimOf
  <2> QED
    BY <1>0, <1>5, <1>8, <2>3, <2>4, GoesOnQuietly
<1>9. CASE audit[s].action # Entering[audit[s].run.state]
  BY <1>5, <1>6, <1>9 DEF Whys, ResultWhys
<1>10. CASE audit[s].action = Entering[audit[s].run.state] /\ ~Continues(w)
  BY <1>5, <1>7, <1>10
<1>11. CASE /\ audit[s].action = Entering[audit[s].run.state] /\ Continues(w)
            /\ journal[s] = None
  <2>1. CASE ~Owns(w)
    BY <1>5, <1>6, <1>11, <2>1 DEF Whys, ResultWhys
  <2>2. CASE Owns(w)
    <3>1. next = [mine EXCEPT !.at = "prepare"]
      BY <1>5, <1>11, <2>2
    <3>2. /\ next \in Worker /\ next.at = "prepare" /\ next.occ = s /\ next.owned = 0
          /\ next.read = y.read /\ next.todo = y.todo /\ next.outcome = None
      BY <1>3, <1>4, <3>1, JournalAssumption DEF Worker, Phases
    <3> QED
      BY <1>8, <1>11, <3>2
  <2> QED
    BY <2>1, <2>2
<1>12. CASE /\ audit[s].action = Entering[audit[s].run.state] /\ Continues(w)
            /\ journal[s] # None
  <2>1. /\ journal[s] \in InvocationRecord /\ Consistent(journal[s])
    BY <1>12, Known DEF JournalInv, JournalTypeOK, RecordsConsistent
  <2>2. CASE OnRecord(w, journal[s]) = "conflict"
    BY <1>5, <1>6, <1>12, <2>2 DEF Whys, ResultWhys
  <2>3. CASE OnRecord(w, journal[s]) # "conflict"
    <3>1. next = [mine EXCEPT !.at = OnRecord(w, journal[s]), !.why = "restart",
                              !.outcome = journal[s].result]
      BY <1>5, <1>12, <2>3
    <3>2. \/ journal[s].state = "PREPARED" /\ OnRecord(w, journal[s]) = "gate"
          \/ journal[s].state = "STARTED" /\ OnRecord(w, journal[s]) = "uncertain"
          \/ journal[s].state = "UNCERTAIN" /\ OnRecord(w, journal[s]) = "halt"
          \/ journal[s].state = "COMPLETED" /\ OnRecord(w, journal[s]) = "apply"
      BY <2>1, <2>3 DEF OnRecord, InvocationRecord, InvocationStates, Final
    <3>3. /\ journal[s].result \in Outcomes \cup {None}
          /\ journal[s].state = "COMPLETED" => journal[s].result # None
          /\ journal[s].state \in {"PREPARED", "STARTED", "UNCERTAIN"} => journal[s].result = None
      BY <2>1 DEF InvocationRecord, Consistent
    <3>4. OnRecord(w, journal[s]) \in {"prepare", "gate", "uncertain", "halt", "apply"}
      BY <3>2
    <3>5. /\ next \in Worker /\ next.at = OnRecord(w, journal[s])
          /\ next.occ = s /\ next.owned = 0
          /\ next.read = y.read /\ next.todo = y.todo /\ next.outcome = journal[s].result
          /\ next.why = "restart"
      BY <1>4, <3>1, <3>3, <3>4, JournalAssumption DEF Worker, Phases, Whys
    <3> QED
      BY <1>8, <1>12, <3>2, <3>3, <3>4, <3>5 DEF Whys, ResultWhys
  <2> QED
    BY <2>2, <2>3
<1> QED
  BY <1>9, <1>10, <1>11, <1>12

-----------------------------------------------------------------------------
(* Dispatch *)

LEMMA MovesOnQuietly ==
  ASSUME IInv, WorkerOnly, NEW w \in Runners,
         NEW a \in {"gate", "check", "start", "abandon", "uncertain", "halt"},
         NEW why \in Whys \cup {None}, Turns(w, [workers[w] EXCEPT !.at = a, !.why = why]),
         workers[w].at \notin BeforeActing \cup WithOutcome,
         a \in InJournal => live,
         a \in OnOwn => workers[w].at \in OnOwn,
         a \in {"halt", "uncertain"} => why \in Whys \ ResultWhys,
         a = "abandon" => why = None \/ why \in Whys \ ResultWhys
  PROVE  IInv'
<1>1. SharedOK' /\ Grows /\ calls' = calls
  BY QuietKeeps DEF IInv, SharedOK, RestOK, WorkerOnly, Unfaulted, ghosts
<1> QED
  BY <1>1, MovesOn

(* Every look before the call: the grant, the run, the record, the budget. *)
LEMMA DispatchKeeps ==
  ASSUME IInv, NEW w \in Runners,
         \/ Authorized(w) \/ Denied(w) \/ StillThere(w) \/ LeftBeforeDispatch(w)
         \/ Claimed(w) \/ OverBudget(w)
  PROVE  IInv'
<1>0. /\ workers \in [Runners -> Worker] /\ workers[w] \in Worker /\ Fits(w, workers[w])
  BY Known
<1>1. workers[w].why \in Whys \cup {None}
  BY <1>0 DEF Worker
<1>2. workers[w].at \in {"gate", "check", "start"} =>
        /\ live
        /\ workers[w].at \notin BeforeActing \cup WithOutcome
        /\ workers[w].at \in OnOwn
  BY <1>0 DEF Fits, TypeFits, InJournal, BeforeActing, WithOutcome, OnOwn
<1>3. CASE Authorized(w)
  <2>1. Turns(w, [workers[w] EXCEPT !.at = "check", !.why = workers[w].why])
    BY <1>0, <1>3 DEF Authorized, Goto, Turns, Worker
  <2> QED
    BY <1>1, <1>2, <1>3, <2>1, MovesOnQuietly DEF Authorized, Is
<1>4. CASE Denied(w)
  <2>1. Turns(w, [workers[w] EXCEPT !.at = "abandon", !.why = "not_authorized"])
    BY <1>0, <1>4 DEF Denied, Turns
  <2> QED
    BY <1>2, <1>4, <2>1, MovesOnQuietly DEF Denied, Is, Whys, ResultWhys, OnOwn
<1>5. CASE StillThere(w)
  <2>1. Turns(w, [workers[w] EXCEPT !.at = "start", !.why = workers[w].why])
    BY <1>0, <1>5 DEF StillThere, Goto, Turns, Worker
  <2> QED
    BY <1>1, <1>2, <1>5, <2>1, MovesOnQuietly DEF StillThere, Is
<1>6. CASE LeftBeforeDispatch(w)
  <2>1. Turns(w, [workers[w] EXCEPT !.at = "abandon", !.why = None])
    BY <1>0, <1>6 DEF LeftBeforeDispatch, Turns
  <2> QED
    BY <1>2, <1>6, <2>1, MovesOnQuietly DEF LeftBeforeDispatch, Is, OnOwn
<1>7. CASE Claimed(w)
  BY <1>7, EndsQuietly DEF Claimed
<1>8. CASE OverBudget(w)
  <2>1. Turns(w, [workers[w] EXCEPT !.at = "abandon", !.why = "budget"])
    BY <1>0, <1>8 DEF OverBudget, Turns
  <2> QED
    BY <1>2, <1>8, <2>1, MovesOnQuietly DEF OverBudget, Is, Whys, ResultWhys, OnOwn
<1> QED
  BY <1>3, <1>4, <1>5, <1>6, <1>7, <1>8

(* One runner starts a record, and only its own claim on the call follows. *)
LEMMA StartCallKeeps ==
  ASSUME IInv, NEW w \in Runners, StartCall(w)
  PROVE  IInv'
<1>0. /\ workers \in [Runners -> Worker] /\ workers[w] \in Worker /\ Fits(w, workers[w])
      /\ SharedOK /\ AuditOK /\ JournalOK /\ JournalInv
      /\ workers[w].at = "start" /\ JournalOnly
  BY Known DEF StartCall, Is
<1>1. PICK y \in Worker : y = workers[w]
  BY <1>0
<1>2. InTrail(y.occ) /\ live /\ Fits(w, y) /\ y.at = "start"
  BY <1>0, <1>1 DEF Fits, OccFits, TypeFits, BeforeActing, InJournal
<1>3. PICK s \in Occurrences : s = y.occ
  BY <1>2 DEF InTrail
<1>4. Start(s) /\ s \in DOMAIN audit
  BY <1>1, <1>2, <1>3 DEF StartCall, InTrail
<1>5. JournalInv'
  BY <1>0, <1>4, StartKeeps
<1>6. /\ journal[s] \in InvocationRecord /\ journal[s] # None /\ journal[s].state = "PREPARED"
      /\ ~journal[s].started /\ journal[s].result = None
  BY <1>0, <1>4 DEF Start, MayStart, JournalInv, JournalTypeOK, RecordsConsistent, Consistent
<1>7. /\ journal'[s] \in InvocationRecord /\ journal'[s] # None
      /\ journal'[s].state = "STARTED" /\ journal'[s].started
      /\ journal'[s].result = None
      /\ \A o \in Occurrences \ {s} : journal'[o] = journal[o]
  <2>1. /\ journal'[s] = [journal[s] EXCEPT !.state = "STARTED", !.started = TRUE]
        /\ \A o \in Occurrences \ {s} : journal'[o] = journal[o]
    BY <1>0, <1>4 DEF Start, Started, JournalInv, JournalTypeOK
  <2>2. journal'[s] \in InvocationRecord
    BY <1>6, <2>1 DEF InvocationRecord, InvocationStates
  <2> QED
    BY <1>6, <2>1, <2>2, NoneAssumption DEF InvocationRecord
<1>8. SharedOK' /\ Grows /\ calls' = calls /\ live' = live
  BY <1>0, <1>4, <1>5, <1>6, <1>7, RecordKeeps DEF JournalOnly, Unfaulted, ghosts
<1>9. PICK x : x = [y EXCEPT !.at = "call"]
  OBVIOUS
<1>10. /\ x \in Worker /\ x.at = "call"
       /\ x.read = y.read /\ x.occ = y.occ /\ x.owned = y.owned /\ x.todo = y.todo
       /\ x.why = y.why /\ x.outcome = y.outcome /\ x.verdict = y.verdict
  BY <1>9 DEF Worker, Phases
<1>11. Turns(w, x)
  BY <1>0, <1>1, <1>9 DEF StartCall, Goto, Turns
<1>12. Fits(w, y)'
  BY <1>0, <1>2, <1>8, FitsStable DEF SharedOK
<1>13. Fits(w, x)'
  <2>1. TypeFits(x)' /\ TodoFits(x)'
    BY <1>10, <1>12 DEF Fits, TypeFits, TodoFits, InJournal
  <2>2. OwnedFits(w, x)'
    BY <1>2, <1>8, <1>10, <1>12 DEF Fits, OwnedFits, BeforeActing
  <2>3. OccFits(w, x)'
    BY <1>2, <1>3, <1>7, <1>10, <1>12 DEF Fits, OccFits, OnOwn, BeforeActing
  <2>4. OutcomeFits(x)'
    BY <1>2, <1>10, <1>12 DEF Fits, OutcomeFits, WithOutcome
  <2> QED
    BY <2>1, <2>2, <2>3, <2>4 DEF Fits
<1>14. ASSUME NEW o \in Occurrences, ClaimOf(x, o)'
       PROVE  /\ calls[o] = 0
              /\ \A v \in Runners \ {w} : ~ClaimOf(workers[v], o)
  <2>1. o = s
    BY <1>3, <1>10, <1>14 DEF ClaimOf
  <2>2. calls[s] = 0
    BY <1>2, <1>6 DEF IInv, SharedOK, CallsOK
  <2>3. ASSUME NEW v \in Runners \ {w}, ClaimOf(workers[v], s)
        PROVE  FALSE
    <3>1. workers[v].at = "call" /\ workers[v].occ = s
      BY <1>2, <2>3 DEF ClaimOf
    <3>2. Fits(v, workers[v])
      BY Known
    <3> QED
      BY <1>2, <1>6, <3>1, <3>2 DEF Fits, OccFits
  <2> QED
    BY <2>1, <2>2, <2>3
<1> QED
  BY <1>8, <1>10, <1>11, <1>13, <1>14, StepClaims

(* A call not made is abandoned in the journal, then the run stopped. *)
LEMMA AbandonKeeps ==
  ASSUME IInv, NEW w \in Runners, Abandon(w)
  PROVE  IInv'
<1>0. /\ workers \in [Runners -> Worker] /\ workers[w] \in Worker /\ Fits(w, workers[w])
      /\ SharedOK /\ workers[w].at = "abandon" /\ JournalOnly
      /\ workers[w].why = None \/ workers[w].why \in Whys \ ResultWhys
  BY Known DEF Abandon, Is, Fits, OutcomeFits
<1>1. CASE ~May(workers[w].occ, "ABANDONED")
  BY <1>0, <1>1, Untouched, EndsQuietly DEF Abandon
<1>2. CASE May(workers[w].occ, "ABANDONED")
  <2>1. PICK s \in Occurrences : s = workers[w].occ
    BY <1>0 DEF Fits, OccFits, InTrail, BeforeActing
  <2>2. SettledOrMoved(s, "ABANDONED")
    BY <1>2, <2>1 DEF Abandon, SettledOrMoved
  <2>3. SharedOK' /\ Grows /\ calls' = calls
    BY <1>0, <2>2, SettleShared DEF Final
  <2>4. CASE workers[w].why = None
    BY <1>2, <2>3, <2>4, Ends DEF Abandon
  <2>5. CASE workers[w].why # None
    <3>1. Turns(w, [workers[w] EXCEPT !.at = "halt", !.why = workers[w].why])
      BY <1>0, <1>2, <2>5 DEF Abandon, Goto, Turns, Worker
    <3>2. workers[w].why \in Whys \ ResultWhys /\ workers[w].why \in Whys \cup {None}
      BY <1>0, <2>5
    <3> QED
      BY <1>0, <2>3, <3>1, <3>2, MovesOn DEF BeforeActing, WithOutcome, InJournal, OnOwn
  <2> QED
    BY <2>4, <2>5
<1> QED
  BY <1>1, <1>2

LEMMA MarkUncertainKeeps ==
  ASSUME IInv, NEW w \in Runners, MarkUncertain(w)
  PROVE  IInv'
<1>0. /\ workers \in [Runners -> Worker] /\ workers[w] \in Worker /\ Fits(w, workers[w])
      /\ SharedOK /\ workers[w].at = "uncertain" /\ JournalOnly
      /\ workers[w].why \in Whys \ ResultWhys
  BY Known DEF MarkUncertain, Is, Fits, OutcomeFits
<1>1. PICK s \in Occurrences : s = workers[w].occ
  BY <1>0 DEF Fits, OccFits, InTrail, BeforeActing
<1>2. SettledOrMoved(s, "UNCERTAIN")
  BY <1>1 DEF MarkUncertain
<1>3. SharedOK' /\ Grows /\ calls' = calls
  BY <1>0, <1>2, SettleShared DEF Final
<1>4. Turns(w, [workers[w] EXCEPT !.at = "halt", !.why = workers[w].why])
  BY <1>0 DEF MarkUncertain, Goto, Turns, Worker
<1>5. workers[w].why \in Whys \cup {None}
  BY <1>0
<1> QED
  BY <1>0, <1>3, <1>4, <1>5, MovesOn DEF BeforeActing, WithOutcome, InJournal, OnOwn

-----------------------------------------------------------------------------
(* The call *)

(* The one claim on the occurrence is used up. *)
LEMMA CallActorKeeps ==
  ASSUME IInv, NEW w \in Runners, CallActor(w)
  PROVE  IInv'
<1>0. /\ workers \in [Runners -> Worker] /\ workers[w] \in Worker /\ Fits(w, workers[w])
      /\ SharedOK /\ AuditOK /\ Len(audit) \in Nat
      /\ workers[w].at = "call"
      /\ UNCHANGED <<live, journal, audit, preserved, leftover, faults>>
  BY Known DEF CallActor, Is, Unfaulted
<1>1. PICK y \in Worker : y = workers[w]
  BY <1>0
<1>2. InTrail(y.occ) /\ Fits(w, y) /\ y.at = "call"
  BY <1>0, <1>1 DEF Fits, OccFits, BeforeActing
<1>3. PICK s \in Occurrences : s = y.occ
  BY <1>2 DEF InTrail
<1>4. /\ calls[s] = 0
      /\ \A v \in Runners : ClaimOf(workers[v], s) => v = w
  <2>1. ClaimOf(workers[w], s)
    BY <1>1, <1>2, <1>3 DEF ClaimOf
  <2> QED
    BY <2>1 DEF IInv, ClaimsOK
<1>5. /\ calls \in [Occurrences -> Nat]
      /\ calls' = [calls EXCEPT ![s] = calls[s] + 1]
  BY <1>0, <1>1, <1>3 DEF CallActor, SharedOK, CallsOK
<1>6. /\ calls' \in [Occurrences -> Nat]
      /\ calls'[s] = 1
      /\ \A o \in Occurrences \ {s} : calls'[o] = calls[o]
  BY <1>4, <1>5
<1>7. SharedOK' /\ Grows
  <2>1. CallsOK'
    <3>1. s \in DOMAIN audit /\ (live => journal[s] # None /\ journal[s].started)
      BY <1>2, <1>3 DEF InTrail, Fits, OccFits
    <3> QED
      BY <1>0, <1>6, <3>1 DEF SharedOK, CallsOK
  <2>2. RestOK'
    BY <1>0 DEF SharedOK, RestOK
  <2> QED
    BY <1>0, <2>1, <2>2, StillKeeps
<1>8. PICK x : x = [y EXCEPT !.at = "calling"]
  OBVIOUS
<1>9. /\ x \in Worker /\ x.at = "calling"
      /\ x.read = y.read /\ x.occ = y.occ /\ x.owned = y.owned /\ x.todo = y.todo
      /\ x.why = y.why /\ x.outcome = y.outcome /\ x.verdict = y.verdict
  BY <1>8 DEF Worker, Phases
<1>10. Turns(w, x)
  BY <1>0, <1>1, <1>8 DEF CallActor, Goto, Turns
<1>11. Fits(w, x)
  <2>1. TypeFits(x) /\ TodoFits(x)
    BY <1>2, <1>9 DEF Fits, TypeFits, TodoFits, InJournal
  <2>2. OwnedFits(w, x)
    BY <1>2, <1>9 DEF Fits, OwnedFits, BeforeActing
  <2>3. OccFits(w, x)
    BY <1>2, <1>9 DEF Fits, OccFits, OnOwn
  <2>4. OutcomeFits(x)
    BY <1>2, <1>9 DEF Fits, OutcomeFits, WithOutcome
  <2> QED
    BY <2>1, <2>2, <2>3, <2>4 DEF Fits
<1>12. Fits(w, x)'
  BY <1>0, <1>7, <1>9, <1>11, FitsStable DEF SharedOK
<1>13. WorkersOK'
  BY <1>7, <1>9, <1>10, <1>12, WorkersKept
<1>14. ClaimsOK'
  <2> SUFFICES ASSUME NEW o \in Occurrences, NEW v \in Runners, ClaimOf(workers[v], o)'
               PROVE  /\ calls'[o] = 0
                      /\ \A u \in Runners : ClaimOf(workers[u], o)' => u = v
    BY DEF ClaimsOK
  <2>1. ~ClaimOf(x, o)'
    BY <1>9 DEF ClaimOf
  <2>2. ~ClaimOf(workers[w], o)'
    BY <1>7, <1>9, <1>10, <1>12, <2>1, WorkersKept
  <2>3. \A u \in Runners \ {w} : ClaimOf(workers[u], o)' => ClaimOf(workers[u], o)
    BY <1>7, <1>9, <1>10, <1>12, WorkersKept
  <2>4. v # w /\ ClaimOf(workers[v], o)
    BY <2>2, <2>3
  <2>5. o # s
    BY <1>4, <2>4
  <2>6. /\ calls[o] = 0
        /\ \A u \in Runners : ClaimOf(workers[u], o) => u = v
    BY <2>4 DEF IInv, ClaimsOK
  <2> QED
    BY <1>6, <2>2, <2>3, <2>5, <2>6
<1> QED
  BY <1>0, <1>7, <1>13, <1>14 DEF IInv

LEMMA ActorAnswersKeeps ==
  ASSUME IInv, NEW w \in Runners, ActorAnswers(w)
  PROVE  IInv'
<1>0. /\ workers \in [Runners -> Worker] /\ workers[w] \in Worker /\ Fits(w, workers[w])
      /\ workers[w].at = "calling" /\ WorkerOnly
      /\ live \in BOOLEAN
  BY Known DEF ActorAnswers, Is
<1>1. PICK y \in Worker : y = workers[w]
  BY <1>0
<1>2. Fits(w, y) /\ y.at = "calling"
  BY <1>0, <1>1
<1>3. PICK outcome \in OutcomesFor(y.occ) :
        workers' = [workers EXCEPT ![w].at = IF live THEN "complete" ELSE "apply",
                                   ![w].outcome = outcome]
  BY <1>1 DEF ActorAnswers
<1>4. PICK x : x = [y EXCEPT !.at = IF live THEN "complete" ELSE "apply", !.outcome = outcome]
  OBVIOUS
<1>5. /\ x \in Worker /\ x.at = (IF live THEN "complete" ELSE "apply") /\ x.outcome = outcome
      /\ x.read = y.read /\ x.occ = y.occ /\ x.owned = y.owned /\ x.todo = y.todo
      /\ x.why = y.why /\ x.verdict = y.verdict
  <2>1. outcome \in Outcomes
    BY <1>3 DEF OutcomesFor
  <2> QED
    BY <1>4, <2>1 DEF Worker, Phases
<1>6. Turns(w, x)
  BY <1>0, <1>1, <1>3, <1>4 DEF Turns
<1>7. Fits(w, x)
  <2>1. TypeFits(x) /\ TodoFits(x)
    BY <1>2, <1>5 DEF Fits, TypeFits, TodoFits, InJournal
  <2>2. OwnedFits(w, x)
    BY <1>2, <1>5 DEF Fits, OwnedFits, BeforeActing
  <2>3. OccFits(w, x)
    BY <1>2, <1>5 DEF Fits, OccFits, OnOwn, BeforeActing
  <2>4. OutcomeFits(x)
    BY <1>2, <1>3, <1>5 DEF Fits, OutcomeFits, WithOutcome
  <2> QED
    BY <2>1, <2>2, <2>3, <2>4 DEF Fits
<1>8. \A s \in Occurrences : ~ClaimOf(x, s)
  BY <1>5 DEF ClaimOf
<1> QED
  BY <1>0, <1>5, <1>6, <1>7, <1>8, GoesOnQuietly

LEMMA NoResultKeeps ==
  ASSUME IInv, NEW w \in Runners, NoResult(w)
  PROVE  IInv'
<1>0. /\ workers \in [Runners -> Worker] /\ workers[w] \in Worker
      /\ workers[w].at = "calling" /\ WorkerOnly
      /\ live \in BOOLEAN
  BY Known DEF NoResult, Is
<1>1. PICK a \in {"uncertain", "halt"} : a = IF live THEN "uncertain" ELSE "halt"
  BY <1>0
<1>2. Turns(w, [workers[w] EXCEPT !.at = a, !.why = "no_result"])
  BY <1>0, <1>1 DEF NoResult, Turns
<1>3. a \in InJournal => live
  BY <1>1 DEF InJournal
<1> QED
  BY <1>0, <1>2, <1>3, MovesOnQuietly DEF BeforeActing, WithOutcome, OnOwn, Whys, ResultWhys

LEMMA CompleteCallKeeps ==
  ASSUME IInv, NEW w \in Runners, CompleteCall(w)
  PROVE  IInv'
<1>0. /\ workers \in [Runners -> Worker] /\ workers[w] \in Worker /\ Fits(w, workers[w])
      /\ SharedOK /\ AuditOK /\ JournalOK /\ JournalInv
      /\ workers[w].at = "complete" /\ JournalOnly
  BY Known DEF CompleteCall, Is
<1>1. CASE ~May(workers[w].occ, "COMPLETED")
  BY <1>0, <1>1, Untouched, EndsQuietly DEF CompleteCall
<1>2. CASE May(workers[w].occ, "COMPLETED")
  <2>1. PICK y \in Worker : y = workers[w]
    BY <1>0
  <2>2. /\ InTrail(y.occ) /\ live /\ Fits(w, y) /\ y.at = "complete"
        /\ y.outcome \in OutcomesFor(y.occ)
    BY <1>0, <2>1 DEF Fits, OccFits, TypeFits, OutcomeFits, BeforeActing, InJournal
  <2>3. PICK s \in Occurrences : s = y.occ
    BY <2>2 DEF InTrail
  <2>4. PICK outcome \in Outcomes : outcome = y.outcome
    BY <2>2 DEF OutcomesFor
  <2>5. Complete(s, outcome) /\ s \in DOMAIN audit
    BY <1>2, <2>1, <2>2, <2>3, <2>4 DEF CompleteCall, Complete, InTrail
  <2>6. JournalInv'
    BY <1>0, <2>5, CompleteKeeps
  <2>7. journal[s] \in InvocationRecord /\ journal[s] # None
    BY <1>0, <1>2, <2>1, <2>3 DEF May, JournalInv, JournalTypeOK
  <2>8. /\ journal'[s] # None
        /\ journal'[s].state = "COMPLETED"
        /\ journal'[s].started = journal[s].started
        /\ journal'[s].result = outcome
        /\ \A o \in Occurrences \ {s} : journal'[o] = journal[o]
    <3>1. /\ journal'[s] = [journal[s] EXCEPT !.state = "COMPLETED", !.result = outcome]
          /\ \A o \in Occurrences \ {s} : journal'[o] = journal[o]
      BY <1>0, <2>5 DEF Complete, Completed, JournalInv, JournalTypeOK
    <3>2. journal'[s] \in InvocationRecord
      BY <2>7, <3>1 DEF InvocationRecord, InvocationStates
    <3> QED
      BY <2>7, <3>1, <3>2, NoneAssumption DEF InvocationRecord
  <2>9. outcome # None /\ outcome \in OutcomesFor(s)
    BY <2>2, <2>3, <2>4, JournalAssumption
  <2>10. SharedOK' /\ Grows /\ calls' = calls /\ live' = live
    BY <1>0, <2>5, <2>6, <2>8, <2>9, RecordKeeps DEF JournalOnly, Unfaulted, ghosts
  <2>11. PICK x : x = [y EXCEPT !.at = "apply"]
    OBVIOUS
  <2>12. /\ x \in Worker /\ x.at = "apply"
         /\ x.read = y.read /\ x.occ = y.occ /\ x.owned = y.owned /\ x.todo = y.todo
         /\ x.why = y.why /\ x.outcome = y.outcome /\ x.verdict = y.verdict
    BY <2>11 DEF Worker, Phases
  <2>13. Turns(w, x)
    BY <1>0, <1>2, <2>1, <2>11 DEF CompleteCall, Goto, Turns
  <2>14. Fits(w, y)'
    BY <1>0, <2>2, <2>10, FitsStable DEF SharedOK
  <2>15. Fits(w, x)'
    <3>1. TypeFits(x)' /\ TodoFits(x)'
      BY <2>12, <2>14 DEF Fits, TypeFits, TodoFits, InJournal
    <3>2. OwnedFits(w, x)'
      BY <2>2, <2>10, <2>12, <2>14 DEF Fits, OwnedFits, BeforeActing
    <3>3. OccFits(w, x)'
      BY <2>2, <2>12, <2>14 DEF Fits, OccFits, OnOwn, BeforeActing
    <3>4. OutcomeFits(x)'
      BY <2>2, <2>3, <2>8, <2>9, <2>12, <2>14 DEF Fits, OutcomeFits, WithOutcome
    <3> QED
      BY <3>1, <3>2, <3>3, <3>4 DEF Fits
  <2>16. \A o \in Occurrences : ~ClaimOf(x, o)'
    BY <2>12 DEF ClaimOf
  <2> QED
    BY <2>10, <2>12, <2>13, <2>15, <2>16, StepKeeps
<1> QED
  BY <1>1, <1>2

-----------------------------------------------------------------------------
(* Applying the result *)

(* The step ends where the run left the occurrence: nothing is applied.    *)
LEMMA LeavesQuietly ==
  ASSUME IInv, WorkerOnly, NEW w \in Runners,
         workers[w].at \in {"apply", "preserve", "decide", "halt", "halt_exhausted", "correct"},
         Finish(w, "ABANDONED")
  PROVE  IInv'
<1>1. SharedOK' /\ Grows /\ calls' = calls
  BY QuietKeeps DEF IInv, SharedOK, RestOK, WorkerOnly, Unfaulted, ghosts
<1>2. PICK s : s = workers[w].occ
  OBVIOUS
<1>3. PICK verdict \in {"APPLIED", "ABANDONED"} : verdict = "ABANDONED"
  OBVIOUS
<1> QED
  BY <1>1, <1>2, <1>3, Finishes

(* A runner at its occurrence finds the run in the actor state it opened. *)
LEMMA HereKnown ==
  ASSUME IInv, NEW w \in Runners, workers[w].at \notin BeforeActing, AtOccurrence(w)
  PROVE  /\ Len(audit) \in Occurrences
         /\ Len(audit) = workers[w].occ
         /\ Now.state \in ActorStates /\ Now.state \in Active
         /\ workers[w].at \in OnOwn => Mine(w, Len(audit))
<1>1. Fits(w, workers[w]) /\ Len(audit) = workers[w].occ
  BY Known DEF AtOccurrence
<1>2. InTrail(Len(audit)) /\ (workers[w].at \in OnOwn => Mine(w, Len(audit)))
  BY <1>1 DEF Fits, OccFits
<1> QED
  BY <1>1, <1>2, NowKnown DEF InTrail, ActorStates, Active, RunnerStates

(* What a runner applies with a result in hand is legal: with a journal    *)
(* that result is stored.                                                  *)
LEMMA ResultLegal ==
  ASSUME IInv, NEW w \in Runners, AtOccurrence(w), workers[w].at \in {"apply", "decide", "halt"},
         NEW e \in Entry, e.run.state \in Stops => e.run.interrupted \in Active,
         \/ workers[w].outcome # None
         \/ ~AppliesResult(e, Len(audit)),
         e.by \in {"implementer", "runner", "controller"}
  PROVE  Legal(e)
<1>1. /\ Fits(w, workers[w]) /\ Len(audit) \in Occurrences
      /\ Len(audit) = workers[w].occ
  BY Known, HereKnown DEF BeforeActing
<1>2. live /\ workers[w].outcome # None =>
        journal[Len(audit)] # None /\ journal[Len(audit)].result # None
  BY <1>1 DEF Fits, OutcomeFits
<1>3. e.by \notin Architects
  BY RunnerAssumption
<1> QED
  BY <1>1, <1>2, <1>3 DEF Legal

(* The entry a commit appended applies a result of the one before it.      *)
LEMMA AppliedNow ==
  ASSUME AuditOK, NEW s, s = Len(audit), NEW e \in Entry, AppliesResult(e, s),
         Len(audit') = Len(audit) + 1, audit'[Len(audit) + 1] = e,
         AuditOK', Grows
  PROVE  AppliedAt(s)'
<1>1. /\ s \in Nat /\ s \in 1..Len(audit)
      /\ s + 1 \in DOMAIN audit' /\ audit'[s + 1] = e /\ audit'[s] = audit[s]
  BY DEF AuditOK, Grows
<1> QED
  BY <1>1 DEF AppliedAt, AppliesResult, ControllerHalt, IsReview

LEMMA UnappliedKeeps ==
  ASSUME IInv, NEW w \in Runners, Unapplied(w)
  PROVE  IInv'
<1>1. PICK why \in ResultWhys : why = IF workers[w].outcome = "stop" THEN "reported" ELSE "unusable"
  BY DEF ResultWhys
<1> QED
  BY <1>1, HaltsOnResult DEF Unapplied, Is

LEMMA CompleteImplementationKeeps ==
  ASSUME IInv, NEW w \in Runners, CompleteImplementation(w)
  PROVE  IInv'
<1>0. /\ workers[w] \in Worker /\ Fits(w, workers[w]) /\ AuditOK
      /\ workers[w].at = "apply" /\ workers[w].outcome = "done"
  BY Known DEF CompleteImplementation, Is
<1>1. /\ "done" \in Outcomes /\ "done" # None
      /\ ~IsReview(workers[w].occ)
  BY <1>0, JournalAssumption DEF Fits, OutcomeFits, OutcomesFor
<1>2. CASE Left(w)
  BY <1>0, <1>2, LeavesQuietly DEF Left
<1>3. CASE AtOccurrence(w) /\ HaltWith(w, "unusable") /\ WorkerOnly
  BY <1>0, <1>3, HaltsOnResult DEF ResultWhys
<1>4. ASSUME AtOccurrence(w), RunOnly, Finish(w, "APPLIED"),
             NEW run \in Run, NEW action \in EntryActions, NEW by \in {"implementer", "controller"},
             NEW why \in EntryWhys, Commit(run, action, by, why),
             run.state \in Stops => run.interrupted \in Active,
             \/ action = "REPORT_IMPLEMENTATION_COMPLETE" /\ by = "implementer"
             \/ action = "STOP" /\ by = "controller" /\ why = "runtime_exceeded"
      PROVE  IInv'
  <2>1. PICK e : e = [action |-> action, by |-> by, why |-> why, run |-> run]
    OBVIOUS
  <2>2. PICK s : s = workers[w].occ
    OBVIOUS
  <2>3. s = Len(audit)
    BY <1>0, <1>4, <2>2, HereKnown DEF BeforeActing
  <2>4. e \in Entry /\ by \in Writers
    BY <2>1 DEF Entry, Writers
  <2>5. AppliesResult(e, s)
    BY <1>1, <1>4, <2>1, <2>2 DEF AppliesResult, ControllerHalt
  <2>6. Legal(e)
    BY <1>0, <1>1, <1>4, <2>1, <2>4, ResultLegal
  <2>7. /\ SharedOK' /\ Grows /\ calls' = calls
        /\ Len(audit') = Len(audit) + 1
        /\ audit'[Len(audit) + 1] = e
    BY <1>4, <2>1, <2>4, <2>6, Commits
  <2>8. AppliedAt(s)'
    BY <1>0, <2>3, <2>4, <2>5, <2>7, AppliedNow DEF SharedOK
  <2> QED
    BY <1>0, <1>4, <2>2, <2>7, <2>8, Finishes
<1>5. CASE /\ AtOccurrence(w)
           /\ \/ Commit(To("IMPLEMENTATION_COMPLETE"), "REPORT_IMPLEMENTATION_COMPLETE",
                        "implementer", None)
              \/ Commit(Stopped("HUMAN_STOP"), "STOP", "controller", "runtime_exceeded")
           /\ Finish(w, "APPLIED")
           /\ RunOnly
  <2>1. /\ To("IMPLEMENTATION_COMPLETE") \in Run
        /\ To("IMPLEMENTATION_COMPLETE").state \notin Stops
    BY NextRuns DEF Active, RunnerStates, Stops
  <2>2. /\ Stopped("HUMAN_STOP") \in Run
        /\ Stopped("HUMAN_STOP").interrupted \in Active
    BY <1>0, <1>5, HereKnown, NextRuns DEF Stops, BeforeActing
  <2>3. CASE Commit(To("IMPLEMENTATION_COMPLETE"), "REPORT_IMPLEMENTATION_COMPLETE",
                    "implementer", None)
    BY <1>4, <1>5, <2>1, <2>3 DEF EntryActions, EntryWhys
  <2>4. CASE Commit(Stopped("HUMAN_STOP"), "STOP", "controller", "runtime_exceeded")
    BY <1>4, <1>5, <2>2, <2>4 DEF EntryActions, EntryWhys
  <2> QED
    BY <1>5, <2>3, <2>4
<1> QED
  BY <1>2, <1>3, <1>5 DEF CompleteImplementation

LEMMA HaltAtKeeps ==
  ASSUME IInv, NEW w \in Runners, HaltAt(w)
  PROVE  IInv'
<1>0. /\ workers[w] \in Worker /\ Fits(w, workers[w]) /\ AuditOK
      /\ workers[w].at = "halt"
      /\ workers[w].why \in Whys
      /\ workers[w].outcome # None <=> workers[w].why \in ResultWhys
  BY Known DEF HaltAt, Is, Fits, OutcomeFits
<1>1. CASE Left(w)
  BY <1>0, <1>1, LeavesQuietly DEF Left
<1>2. ASSUME AtOccurrence(w), NEW kind \in HaltKinds(w),
             Commit(Stopped(kind), "STOP", "runner", workers[w].why),
             Finish(w, "APPLIED"), RunOnly
      PROVE  IInv'
  <2>1. kind \in Stops
    BY <1>2 DEF HaltKinds, Stops
  <2>2. Stopped(kind) \in Run /\ Stopped(kind).interrupted \in Active
    BY <1>0, <1>2, <2>1, HereKnown, NextRuns DEF BeforeActing
  <2>3. PICK e : e = [action |-> "STOP", by |-> "runner", why |-> workers[w].why,
                      run |-> Stopped(kind)]
    OBVIOUS
  <2>4. PICK s : s = workers[w].occ
    OBVIOUS
  <2>5. s = Len(audit)
    BY <1>0, <1>2, <2>4, HereKnown DEF BeforeActing
  <2>6. e \in Entry /\ workers[w].why \in EntryWhys
    BY <1>0, <2>2, <2>3 DEF Entry, EntryActions, EntryWhys, Writers
  <2>7. workers[w].outcome # None <=> AppliesResult(e, s)
    BY <1>0, <2>3 DEF AppliesResult, ResultWhys
  <2>8. Legal(e)
    BY <1>0, <1>2, <2>2, <2>3, <2>5, <2>6, <2>7, ResultLegal
  <2>9. /\ SharedOK' /\ Grows /\ calls' = calls
        /\ Len(audit') = Len(audit) + 1
        /\ audit'[Len(audit) + 1] = e
    BY <1>2, <2>2, <2>3, <2>6, <2>8, Commits DEF EntryActions, Writers
  <2>10. Settling(w) => AppliedAt(s)'
    BY <1>0, <2>5, <2>6, <2>7, <2>9, AppliedNow DEF SharedOK, Settling
  <2> QED
    BY <1>0, <1>2, <2>4, <2>9, <2>10, Finishes
<1> QED
  BY <1>1, <1>2 DEF HaltAt

LEMMA FinishStepKeeps ==
  ASSUME IInv, NEW w \in Runners, FinishStep(w)
  PROVE  IInv'
<1>0. /\ Fits(w, workers[w]) /\ SharedOK
      /\ workers[w].at = "finish" /\ JournalOnly /\ EndStep(w)
  BY Known DEF FinishStep, Is
<1>1. PICK s \in Occurrences : s = workers[w].occ
  BY <1>0 DEF Fits, OccFits, InTrail, BeforeActing
<1>2. PICK state \in Final : state = workers[w].verdict /\ (state = "APPLIED" => AppliedAt(s))
  BY <1>0, <1>1 DEF Fits, OutcomeFits, Final
<1>3. SharedOK' /\ Grows /\ calls' = calls
  BY <1>0, <1>1, <1>2, SettleShared DEF FinishStep
<1> QED
  BY <1>0, <1>3, Ends

-----------------------------------------------------------------------------
(* A review's verdict *)

LEMMA ReviewReturnedKeeps ==
  ASSUME IInv, NEW w \in Runners, ReviewReturned(w)
  PROVE  IInv'
<1>0. /\ workers \in [Runners -> Worker] /\ workers[w] \in Worker /\ Fits(w, workers[w])
      /\ workers[w].at = "apply" /\ workers[w].outcome \in Verdicts /\ WorkerOnly
  BY Known DEF ReviewReturned, Is
<1>1. PICK y \in Worker : y = workers[w]
  BY <1>0
<1>2. Fits(w, y) /\ y.at = "apply" /\ y.outcome \in Verdicts
  BY <1>0, <1>1
<1>3. IsReview(y.occ) /\ y.outcome \in Outcomes
  BY <1>2 DEF Fits, OutcomeFits, OutcomesFor, Verdicts
<1>4. PICK x : x = [y EXCEPT !.at = IF live THEN "preserve" ELSE "decide"]
  OBVIOUS
<1>5. /\ x \in Worker /\ x.at = (IF live THEN "preserve" ELSE "decide")
      /\ x.read = y.read /\ x.occ = y.occ /\ x.owned = y.owned /\ x.todo = y.todo
      /\ x.why = y.why /\ x.outcome = y.outcome /\ x.verdict = y.verdict
  BY <1>4 DEF Worker, Phases
<1>6. Turns(w, x)
  BY <1>0, <1>1, <1>4 DEF ReviewReturned, Goto, Turns
<1>7. Fits(w, x)
  <2>1. TypeFits(x) /\ TodoFits(x)
    BY <1>2, <1>5 DEF Fits, TypeFits, TodoFits, InJournal
  <2>2. OwnedFits(w, x)
    BY <1>2, <1>5 DEF Fits, OwnedFits, BeforeActing
  <2>3. OccFits(w, x)
    BY <1>2, <1>5 DEF Fits, OccFits, OnOwn, BeforeActing
  <2>4. OutcomeFits(x)
    BY <1>2, <1>3, <1>5 DEF Fits, OutcomeFits, WithOutcome
  <2> QED
    BY <2>1, <2>2, <2>3, <2>4 DEF Fits
<1>8. \A s \in Occurrences : ~ClaimOf(x, s)
  BY <1>5 DEF ClaimOf
<1> QED
  BY <1>0, <1>5, <1>6, <1>7, <1>8, GoesOnQuietly

LEMMA PreserveKeeps ==
  ASSUME IInv, NEW w \in Runners, Preserve(w)
  PROVE  IInv'
<1>0. /\ workers \in [Runners -> Worker] /\ workers[w] \in Worker /\ Fits(w, workers[w])
      /\ SharedOK /\ AuditOK
      /\ workers[w].at = "preserve"
  BY Known DEF Preserve, Is
<1>1. CASE Left(w)
  BY <1>0, <1>1, LeavesQuietly DEF Left
<1>2. CASE HaltWith(w, "authority_refused") /\ WorkerOnly
  BY <1>0, <1>2, HaltsOnResult DEF ResultWhys
<1>3. CASE /\ preserved' = preserved \cup {workers[w].occ}
           /\ Goto(w, "decide")
           /\ UNCHANGED <<journal, audit, calls>>
           /\ Unfaulted
  <2>1. PICK y \in Worker : y = workers[w]
    BY <1>0
  <2>2. Fits(w, y) /\ y.at = "preserve" /\ InTrail(y.occ)
    BY <1>0, <2>1 DEF Fits, OccFits, BeforeActing
  <2>3. /\ UNCHANGED <<live, journal, audit, calls, leftover, faults>>
        /\ preserved' = preserved \cup {y.occ}
    BY <1>3, <2>1 DEF Unfaulted
  <2>4. SharedOK' /\ Grows
    <3>1. CallsOK' /\ RestOK'
      BY <1>0, <2>2, <2>3 DEF SharedOK, CallsOK, RestOK, InTrail
    <3> QED
      BY <1>0, <2>3, <3>1, StillKeeps
  <2>5. PICK x : x = [y EXCEPT !.at = "decide"]
    OBVIOUS
  <2>6. /\ x \in Worker /\ x.at = "decide"
        /\ x.read = y.read /\ x.occ = y.occ /\ x.owned = y.owned /\ x.todo = y.todo
        /\ x.why = y.why /\ x.outcome = y.outcome /\ x.verdict = y.verdict
    BY <2>5 DEF Worker, Phases
  <2>7. Turns(w, x)
    BY <1>0, <1>3, <2>1, <2>5 DEF Goto, Turns
  <2>8. Fits(w, y)'
    BY <1>0, <2>2, <2>4, FitsStable DEF SharedOK
  <2>9. Fits(w, x)'
    <3>1. TypeFits(x)' /\ TodoFits(x)'
      BY <2>6, <2>8 DEF Fits, TypeFits, TodoFits, InJournal
    <3>2. OwnedFits(w, x)'
      BY <2>2, <2>6, <2>8 DEF Fits, OwnedFits, BeforeActing
    <3>3. OccFits(w, x)'
      BY <2>2, <2>3, <2>6, <2>8 DEF Fits, OccFits, OnOwn, BeforeActing
    <3>4. OutcomeFits(x)'
      BY <2>2, <2>6, <2>8 DEF Fits, OutcomeFits, WithOutcome
    <3> QED
      BY <3>1, <3>2, <3>3, <3>4 DEF Fits
  <2>10. \A s \in Occurrences : ~ClaimOf(x, s)'
    BY <2>6 DEF ClaimOf
  <2> QED
    BY <2>3, <2>4, <2>6, <2>7, <2>9, <2>10, StepKeeps
<1> QED
  BY <1>1, <1>2, <1>3 DEF Preserve

LEMMA FaultKeeps ==
  ASSUME IInv, Fault, UNCHANGED <<journal, audit, ghosts>>, leftover' \subseteq {"run", "journal"}
  PROVE  SharedOK' /\ Grows /\ calls' = calls
<1>1. faults' \in 0..MaxFaults
  BY RunnerAssumption DEF Fault, IInv, SharedOK, RestOK
<1> QED
  BY <1>1, QuietKeeps DEF IInv, Fault, ghosts

LEMMA NotPreservedKeeps ==
  ASSUME IInv, NEW w \in Runners, NotPreserved(w)
  PROVE  IInv'
BY FaultKeeps, Ends DEF NotPreserved, IInv, SharedOK, RestOK

(* A rejection whose second write is owed: the stop of an exhausted budget, *)
(* or the correction.                                                      *)
LEMMA OwesSecond ==
  ASSUME IInv, SharedOK', Grows, calls' = calls, NEW w \in Runners, workers[w].at = "decide",
         NEW a \in {"halt_exhausted", "correct"}, Goto(w, a),
         NEW s, s = workers[w].occ, s = Len(audit),
         Len(audit') = Len(audit) + 1, audit'[s + 1].action = "REJECT_EXACT_SHA",
         audit'[s + 1].by = principal[w]
  PROVE  IInv'
<1>0. /\ workers \in [Runners -> Worker] /\ workers[w] \in Worker /\ Fits(w, workers[w])
      /\ AuditOK /\ AuditOK' /\ Len(audit) \in Nat /\ live' = live
  BY Known DEF SharedOK, Grows
<1>1. PICK y \in Worker : y = workers[w]
  BY <1>0
<1>2. Fits(w, y) /\ Fits(w, y)' /\ y.at = "decide" /\ y.occ = s
  BY <1>0, <1>1, FitsStable
<1>3. PICK x : x = [y EXCEPT !.at = a]
  OBVIOUS
<1>4. /\ x \in Worker /\ x.at = a
      /\ x.read = y.read /\ x.occ = y.occ /\ x.owned = y.owned /\ x.todo = y.todo
      /\ x.why = y.why /\ x.outcome = y.outcome /\ x.verdict = y.verdict
  BY <1>3 DEF Worker, Phases
<1>5. Turns(w, x)
  BY <1>0, <1>1, <1>3 DEF Goto, Turns
<1>6. s + 1 \in DOMAIN audit'
  BY <1>0 DEF AuditOK
<1>7. Fits(w, x)'
  <2>1. TypeFits(x)' /\ TodoFits(x)'
    BY <1>2, <1>4 DEF Fits, TypeFits, TodoFits, InJournal
  <2>2. OwnedFits(w, x)'
    BY <1>2, <1>4 DEF Fits, OwnedFits, BeforeActing
  <2>3. OccFits(w, x)'
    BY <1>2, <1>4, <1>6 DEF Fits, OccFits, OutcomeFits, OnOwn, BeforeActing
  <2>4. OutcomeFits(x)'
    BY <1>2, <1>4 DEF Fits, OutcomeFits, WithOutcome
  <2> QED
    BY <2>1, <2>2, <2>3, <2>4 DEF Fits
<1>8. \A o \in Occurrences : ~ClaimOf(x, o)'
  BY <1>4 DEF ClaimOf
<1> QED
  BY <1>4, <1>5, <1>7, <1>8, StepKeeps

LEMMA DecideKeeps ==
  ASSUME IInv, NEW w \in Runners, Decide(w)
  PROVE  IInv'
<1>0. /\ workers[w] \in Worker /\ Fits(w, workers[w]) /\ AuditOK
      /\ workers[w].at = "decide"
  BY Known DEF Decide, Is
<1>1. CASE Left(w)
  BY <1>0, <1>1, LeavesQuietly DEF Left
<1>2. CASE HaltWith(w, "unusable") /\ WorkerOnly
  BY <1>0, <1>2, HaltsOnResult DEF ResultWhys
<1>3. CASE AtOccurrence(w) /\ RunOnly /\ ~(HaltWith(w, "unusable") /\ WorkerOnly) /\ ~Left(w)
  <2>0. PICK s : s = workers[w].occ
    OBVIOUS
  <2>1. /\ s \in Occurrences /\ s = Len(audit) /\ Now.state \in Active
        /\ IsReview(s) /\ audit[s].by = principal[w]
        /\ audit[s].action = "BEGIN_REMOTE_ACCEPTANCE"
        /\ workers[w].outcome # None
        /\ live => s \in preserved
    <3>1. s \in Occurrences /\ s = Len(audit) /\ Now.state \in Active /\ Mine(w, s)
      BY <1>0, <1>3, <2>0, HereKnown DEF OnOwn, BeforeActing
    <3>2. IsReview(s) /\ workers[w].outcome # None /\ (live => s \in preserved)
      BY <1>0, <2>0, JournalAssumption DEF Fits, OutcomeFits, OccFits
    <3> QED
      BY <3>1, <3>2 DEF Mine, Entering, IsReview
  <2>2. principal[w] \in Architects /\ principal[w] \in Writers
    BY RunnerAssumption DEF Writers
  <2>3. live => journal[s] # None /\ journal[s].result # None
    BY <1>0, <2>0, <2>1 DEF Fits, OutcomeFits
  <2>4. ASSUME NEW run \in Run, NEW action \in Decisions,
               Commit(run, action, principal[w], None),
               run.state \notin Stops
        PROVE  /\ SharedOK' /\ Grows /\ calls' = calls
               /\ Len(audit') = Len(audit) + 1
               /\ audit'[s + 1].action = action /\ audit'[s + 1].by = principal[w]
               /\ AppliedAt(s)'
    <3>1. PICK e : e = [action |-> action, by |-> principal[w], why |-> None, run |-> run]
      OBVIOUS
    <3>2. e \in Entry /\ action \in EntryActions
      BY <2>2, <2>4, <3>1 DEF Entry, EntryActions, EntryWhys, Decisions
    <3>3. AppliesResult(e, s)
      BY <2>1, <2>4, <3>1 DEF AppliesResult, Decisions
    <3>4. Legal(e)
      BY <2>1, <2>3, <2>4, <3>1, <3>2 DEF Legal, Decisions
    <3>5. /\ SharedOK' /\ Grows /\ calls' = calls
          /\ Len(audit') = Len(audit) + 1
          /\ audit'[Len(audit) + 1] = e
      BY <1>3, <2>2, <2>4, <3>1, <3>2, <3>4, Commits DEF EntryWhys
    <3>6. AppliedAt(s)'
      BY <1>0, <2>1, <3>2, <3>3, <3>5, AppliedNow DEF SharedOK
    <3> QED
      BY <2>1, <3>1, <3>5, <3>6
  <2>5. CASE /\ Commit(Stopped("ARCHITECTURE_STOP"), "STOP", "controller", "branch_moved")
             /\ Finish(w, "APPLIED")
    <3>1. /\ Stopped("ARCHITECTURE_STOP") \in Run
          /\ Stopped("ARCHITECTURE_STOP").interrupted \in Active
      BY <2>1, NextRuns DEF Stops
    <3>2. PICK e : e = [action |-> "STOP", by |-> "controller", why |-> "branch_moved",
                        run |-> Stopped("ARCHITECTURE_STOP")]
      OBVIOUS
    <3>3. e \in Entry
      BY <3>1, <3>2 DEF Entry, EntryActions, EntryWhys, Writers
    <3>4. AppliesResult(e, s)
      BY <2>1, <3>2 DEF AppliesResult, ControllerHalt
    <3>5. Legal(e)
      BY <1>0, <1>3, <2>1, <3>1, <3>2, <3>3, ResultLegal
    <3>6. /\ SharedOK' /\ Grows /\ calls' = calls
          /\ Len(audit') = Len(audit) + 1
          /\ audit'[Len(audit) + 1] = e
      BY <1>3, <2>5, <3>1, <3>2, <3>5, Commits DEF EntryActions, EntryWhys, Writers
    <3>7. AppliedAt(s)'
      BY <1>0, <2>1, <3>3, <3>4, <3>6, AppliedNow DEF SharedOK
    <3> QED
      BY <1>0, <2>0, <2>5, <3>6, <3>7, Finishes
  <2>6. CASE /\ Commit(To("ACCEPTED"), "ACCEPT_EXACT_SHA", principal[w], None)
             /\ Finish(w, "APPLIED")
    <3>1. To("ACCEPTED") \in Run /\ To("ACCEPTED").state \notin Stops
      BY NextRuns DEF Active, Stops
    <3>2. SharedOK' /\ Grows /\ calls' = calls /\ AppliedAt(s)'
      BY <2>4, <2>6, <3>1 DEF Decisions
    <3> QED
      BY <1>0, <2>0, <2>6, <3>2, Finishes
  <2>7. CASE /\ Commit([Now EXCEPT !.state = "CORRECTION_REQUIRED", !.corrected = FALSE],
                       "REJECT_EXACT_SHA", principal[w], None)
             /\ \/ Goto(w, "halt_exhausted")
                \/ Goto(w, "correct")
                \/ Finish(w, "APPLIED")
    <3>1. PICK run : run = [Now EXCEPT !.state = "CORRECTION_REQUIRED", !.corrected = FALSE]
      OBVIOUS
    <3>2. run \in Run /\ run.state \notin Stops
      BY <3>1, NowKnown DEF Run, Active, RunnerStates, Stops
    <3>3. /\ SharedOK' /\ Grows /\ calls' = calls
          /\ Len(audit') = Len(audit) + 1
          /\ audit'[s + 1].action = "REJECT_EXACT_SHA" /\ audit'[s + 1].by = principal[w]
          /\ AppliedAt(s)'
      BY <2>4, <2>7, <3>1, <3>2 DEF Decisions
    <3>4. CASE Goto(w, "halt_exhausted") \/ Goto(w, "correct")
      BY <1>0, <2>0, <2>1, <3>3, <3>4, OwesSecond
    <3>5. CASE Finish(w, "APPLIED")
      BY <1>0, <2>0, <3>3, <3>5, Finishes
    <3> QED
      BY <2>7, <3>4, <3>5
  <2> QED
    BY <1>3, <2>5, <2>6, <2>7 DEF Decide
<1> QED
  BY <1>1, <1>2, <1>3 DEF Decide
(* What an entry applied once stays applied: the trail only grows.         *)
LEMMA AppliedStable ==
  ASSUME AuditOK, AuditOK', Grows, NEW s \in Occurrences, s \in DOMAIN audit, AppliedAt(s)
  PROVE  AppliedAt(s)'
<1>1. /\ Len(audit) \in Nat /\ DOMAIN audit = 1..Len(audit) /\ DOMAIN audit' = 1..Len(audit')
      /\ Len(audit) <= Len(audit') /\ Len(audit') \in Nat
      /\ \A k \in 1..Len(audit) : k \in 1..Len(audit') /\ audit'[k] = audit[k]
  BY DEF AuditOK, Grows
<1> QED
  BY <1>1 DEF AppliedAt, AppliesResult, ControllerHalt, IsReview

(* A runner that owes the second write of a rejection has applied it.      *)
LEMMA RejectionApplied ==
  ASSUME IInv, NEW w \in Runners, workers[w].at \in {"halt_exhausted", "correct"},
         NEW s, s = workers[w].occ
  PROVE  /\ s \in Occurrences /\ s \in DOMAIN audit
         /\ AppliedAt(s)
         /\ audit[s + 1].action = "REJECT_EXACT_SHA" /\ audit[s + 1].by = principal[w]
         /\ s + 1 \in DOMAIN audit
<1>1. Fits(w, workers[w])
  BY Known
<1>2. /\ InTrail(s) /\ Mine(w, s) /\ IsReview(s) /\ s + 1 \in DOMAIN audit
      /\ audit[s + 1].action = "REJECT_EXACT_SHA" /\ audit[s + 1].by = principal[w]
  BY <1>1 DEF Fits, OccFits, BeforeActing, OnOwn
<1> QED
  BY <1>2 DEF InTrail, Mine, AppliedAt, AppliesResult

LEMMA HaltExhaustedKeeps ==
  ASSUME IInv, NEW w \in Runners, HaltExhausted(w)
  PROVE  IInv'
<1>0. /\ workers[w].at = "halt_exhausted" /\ Now.state \in Active /\ RunOnly
      /\ Commit(Stopped("HUMAN_STOP"), "STOP", "controller", "failures")
      /\ Finish(w, "APPLIED")
      /\ AuditOK
  BY Known DEF HaltExhausted, Is
<1>1. PICK s : s = workers[w].occ
  OBVIOUS
<1>2. s \in Occurrences /\ s \in DOMAIN audit /\ AppliedAt(s)
  BY <1>0, <1>1, RejectionApplied
<1>3. /\ Stopped("HUMAN_STOP") \in Run
      /\ Stopped("HUMAN_STOP").interrupted \in Active
  BY <1>0, NextRuns DEF Stops
<1>4. PICK e : e = [action |-> "STOP", by |-> "controller", why |-> "failures",
                    run |-> Stopped("HUMAN_STOP")]
  OBVIOUS
<1>5. e \in Entry
  BY <1>3, <1>4 DEF Entry, EntryActions, EntryWhys, Writers
<1>6. Legal(e)
  BY <1>3, <1>4, <1>5, PlainLegal DEF ControllerHalt
<1>7. SharedOK' /\ Grows /\ calls' = calls
  BY <1>0, <1>3, <1>4, <1>6, Commits DEF EntryActions, EntryWhys, Writers
<1>8. AppliedAt(s)'
  BY <1>0, <1>2, <1>7, AppliedStable DEF SharedOK
<1> QED
  BY <1>0, <1>1, <1>7, <1>8, Finishes

LEMMA HaltExhaustedRefusedKeeps ==
  ASSUME IInv, NEW w \in Runners, HaltExhaustedRefused(w)
  PROVE  IInv'
BY LeavesQuietly DEF HaltExhaustedRefused, Is

LEMMA CorrectKeeps ==
  ASSUME IInv, NEW w \in Runners, Correct(w)
  PROVE  IInv'
<1>0. workers[w].at = "correct" /\ Finish(w, "APPLIED") /\ AuditOK /\ SharedOK
      /\ Len(audit) \in Nat
  BY Known DEF Correct, Is
<1>1. PICK s : s = workers[w].occ
  OBVIOUS
<1>2. /\ s \in Occurrences /\ s \in DOMAIN audit /\ AppliedAt(s)
      /\ audit[s + 1].action = "REJECT_EXACT_SHA" /\ audit[s + 1].by = principal[w]
  BY <1>0, <1>1, RejectionApplied
<1>3. SharedOK' /\ Grows /\ calls' = calls
  <2>1. CASE WorkerOnly
    BY <1>0, <2>1, QuietKeeps DEF SharedOK, RestOK, WorkerOnly, Unfaulted, ghosts
  <2>2. CASE /\ CorrectsOwn(w)
             /\ Commit([Now EXCEPT !.corrected = TRUE], "ISSUE_CORRECTION_PACKET", principal[w],
                       None)
             /\ RunOnly
    <3>1. Len(audit) = s + 1
      BY <1>1, <2>2 DEF CorrectsOwn
    <3>2. PICK run : run = [Now EXCEPT !.corrected = TRUE]
      OBVIOUS
    <3>3. run \in Run /\ (run.state \in Stops => run.interrupted \in Active)
      BY <3>2, NowKnown DEF Run
    <3>4. principal[w] \in Writers /\ principal[w] \notin {"other", "runner", "controller"}
      BY RunnerAssumption DEF Writers
    <3>5. PICK e : e = [action |-> "ISSUE_CORRECTION_PACKET", by |-> principal[w], why |-> None,
                        run |-> run]
      OBVIOUS
    <3>6. e \in Entry
      BY <3>3, <3>4, <3>5 DEF Entry, EntryActions, EntryWhys
    <3>7. /\ ~AppliesResult(e, Len(audit))
          /\ e.action \notin Decisions
      BY <3>5 DEF AppliesResult, Decisions
    <3>8. Legal(e)
      BY <1>2, <3>1, <3>3, <3>5, <3>6, <3>7 DEF Legal
    <3> QED
      BY <2>2, <3>2, <3>3, <3>4, <3>5, <3>8, Commits DEF EntryActions, EntryWhys
  <2> QED
    BY <2>1, <2>2 DEF Correct
<1>4. AppliedAt(s)'
  BY <1>0, <1>2, <1>3, AppliedStable DEF SharedOK
<1> QED
  BY <1>0, <1>1, <1>3, <1>4, Finishes

-----------------------------------------------------------------------------
(* Failures *)

(* A step that fails leaves its runner idle; what is written stays.        *)
LEMMA RejectsKeeps ==
  ASSUME IInv, SharedOK', Grows, calls' = calls, NEW w \in Runners, Rejects(w)
  PROVE  IInv'
<1>1. PICK o \in {0, workers[w].owned} :
        o = IF Chooses(w, ActorStates) THEN 0 ELSE workers[w].owned
  OBVIOUS
<1>2. Turns(w, Idle(o))
  BY <1>1 DEF Rejects, Turns, IInv, WorkersOK
<1> QED
  BY <1>1, <1>2, IdleFits, GoesOn

LEMMA CrashKeeps ==
  ASSUME IInv, NEW w \in Runners, Crash(w)
  PROVE  IInv'
<1>1. leftover' \subseteq {"run", "journal"}
  BY DEF Crash, IInv, SharedOK, RestOK
<1>2. SharedOK' /\ Grows /\ calls' = calls
  BY <1>1, FaultKeeps DEF Crash
<1>3. PICK o \in {0, workers[w].owned} : o = 0
  OBVIOUS
<1>4. Turns(w, Idle(o))
  BY <1>3 DEF Crash, Turns
<1> QED
  BY <1>2, <1>3, <1>4, IdleFits, GoesOn

LEMMA ThrowKeeps ==
  ASSUME IInv, NEW w \in Runners, Throw(w)
  PROVE  IInv'
<1>1. leftover' \subseteq {"run", "journal"}
  BY DEF Throw, IInv, SharedOK, RestOK
<1>2. SharedOK' /\ Grows /\ calls' = calls
  BY <1>1, FaultKeeps DEF Throw
<1> QED
  BY <1>2, RejectsKeeps DEF Throw

LEMMA LockedOutKeeps ==
  ASSUME IInv, NEW w \in Runners, LockedOut(w)
  PROVE  IInv'
<1>1. SharedOK' /\ Grows /\ calls' = calls
  BY QuietKeeps DEF LockedOut, IInv, SharedOK, RestOK, WorkerOnly, Unfaulted, ghosts
<1> QED
  BY <1>1, RejectsKeeps DEF LockedOut

LEMMA HumanClearsLockKeeps ==
  ASSUME IInv, HumanClearsLock
  PROVE  IInv'
<1>1. leftover' \subseteq {"run", "journal"}
  BY DEF HumanClearsLock, IInv, SharedOK, RestOK
<1>2. SharedOK' /\ Grows /\ calls' = calls /\ workers' = workers
  BY <1>1, QuietKeeps DEF HumanClearsLock, IInv, SharedOK, RestOK, ghosts
<1> QED
  BY <1>2, OthersKeep

-----------------------------------------------------------------------------
(* The other writers *)

LEMMA OtherEntryKeeps ==
  ASSUME IInv, NEW run \in Run, run.state \in Stops => run.interrupted \in Active,
         NEW action \in EntryActions, OtherEntry(run, action)
  PROVE  IInv'
<1>1. PICK e : e = [action |-> action, by |-> "other", why |-> None, run |-> run]
  OBVIOUS
<1>2. e \in Entry
  BY <1>1 DEF Entry, EntryWhys, Writers
<1>3. Legal(e)
  BY <1>1, <1>2, PlainLegal
<1>4. SharedOK' /\ Grows /\ calls' = calls
  BY <1>1, <1>3, Commits DEF OtherEntry, EntryWhys, Writers
<1> QED
  BY <1>4, OthersKeep DEF OtherEntry

LEMMA OthersAllKeep ==
  ASSUME IInv, Others
  PROVE  IInv'
<1>0. Now \in Run /\ (Now.state \in Stops => Now.interrupted \in Active)
  BY NowKnown
<1>1. CASE OtherStops
  <2>1. PICK kind \in Stops : Now.state \in Active /\ OtherEntry(Stopped(kind), "STOP")
    BY <1>1 DEF OtherStops
  <2>2. Stopped(kind) \in Run /\ Stopped(kind).interrupted \in Active
    BY <2>1, NextRuns
  <2> QED
    BY <2>1, <2>2, OtherEntryKeeps DEF EntryActions
<1>2. CASE Resumes
  <2>1. PICK run : run = [Now EXCEPT !.state = Now.interrupted, !.interrupted = None,
                                     !.recheck = @ \/ Now.state = "HUMAN_STOP"]
    OBVIOUS
  <2>2. Now.interrupted \in Active
    BY <1>0, <1>2 DEF Resumes, Stops
  <2>3. (Now.recheck \/ Now.state = "HUMAN_STOP") \in BOOLEAN
    BY Zenon
  <2>4. run \in Run /\ run.state \notin Stops
    BY <1>0, <2>1, <2>2, <2>3 DEF Run, Active, RunnerStates, Stops
  <2> QED
    BY <1>2, <2>1, <2>4, OtherEntryKeeps DEF Resumes, EntryActions
<1>3. CASE Exhausts
  <2>1. PICK run : run = [Now EXCEPT !.state = "HUMAN_STOP"]
    OBVIOUS
  <2>2. run \in Run /\ run.interrupted \in Active
    BY <1>0, <1>3, <2>1 DEF Exhausts, Run, Stops
  <2> QED
    BY <1>3, <2>1, <2>2, OtherEntryKeeps DEF Exhausts, EntryActions
<1>4. CASE Rechecks
  <2>1. PICK run : run = [Now EXCEPT !.recheck = FALSE]
    OBVIOUS
  <2>2. run \in Run /\ (run.state \in Stops => run.interrupted \in Active)
    BY <1>0, <2>1 DEF Run
  <2> QED
    BY <1>4, <2>1, <2>2, OtherEntryKeeps DEF Rechecks, EntryActions
<1>5. CASE Returns
  <2>1. PICK run : run = [Now EXCEPT !.state = "ARCHITECTURE", !.interrupted = None]
    OBVIOUS
  <2>2. run \in Run /\ run.state \notin Stops
    BY <1>0, <2>1 DEF Run, Active, RunnerStates, Stops
  <2> QED
    BY <1>5, <2>1, <2>2, OtherEntryKeeps DEF Returns, EntryActions
<1>6. CASE Issues
  <2>1. PICK packet \in Packets :
          OtherEntry([Now EXCEPT !.state = "PACKET_READY", !.packet = packet, !.corrected = FALSE],
                     "ISSUE_PACKET")
    BY <1>6 DEF Issues
  <2>2. PICK run : run = [Now EXCEPT !.state = "PACKET_READY", !.packet = packet,
                                     !.corrected = FALSE]
    OBVIOUS
  <2>3. run \in Run /\ run.state \notin Stops
    BY <1>0, <2>2 DEF Run, Active, RunnerStates, Stops
  <2> QED
    BY <2>1, <2>2, <2>3, OtherEntryKeeps DEF EntryActions
<1>7. CASE Corrects
  <2>1. PICK run : run = [Now EXCEPT !.corrected = TRUE]
    OBVIOUS
  <2>2. run \in Run /\ (run.state \in Stops => run.interrupted \in Active)
    BY <1>0, <2>1 DEF Run
  <2> QED
    BY <1>7, <2>1, <2>2, OtherEntryKeeps DEF Corrects, EntryActions
<1>8. CASE OtherResult
  <2>1. \A state \in {"IMPLEMENTATION_COMPLETE", "ACCEPTED"} :
          To(state) \in Run /\ To(state).state \notin Stops
    BY NextRuns DEF Active, RunnerStates, Stops
  <2>2. PICK run : run = [Now EXCEPT !.state = "CORRECTION_REQUIRED", !.corrected = FALSE]
    OBVIOUS
  <2>3. run \in Run /\ run.state \notin Stops
    BY <1>0, <2>2 DEF Run, Active, RunnerStates, Stops
  <2>4. CASE OtherEntry(To("IMPLEMENTATION_COMPLETE"), "REPORT_IMPLEMENTATION_COMPLETE")
    BY <2>1, <2>4, OtherEntryKeeps DEF EntryActions
  <2>5. CASE OtherEntry(To("ACCEPTED"), "ACCEPT_EXACT_SHA")
    BY <2>1, <2>5, OtherEntryKeeps DEF EntryActions
  <2>6. CASE OtherEntry(run, "REJECT_EXACT_SHA")
    BY <2>3, <2>6, OtherEntryKeeps DEF EntryActions
  <2> QED
    BY <1>8, <2>2, <2>4, <2>5, <2>6 DEF OtherResult
<1>9. CASE FailsClosed
  <2>1. To("FAILED_CLOSED") \in Run /\ To("FAILED_CLOSED").state \notin Stops
    BY NextRuns DEF Stops
  <2> QED
    BY <1>9, <2>1, OtherEntryKeeps DEF FailsClosed, EntryActions
<1> QED
  BY <1>1, <1>2, <1>3, <1>4, <1>5, <1>6, <1>7, <1>8, <1>9 DEF Others
-----------------------------------------------------------------------------
(* The invariant is inductive *)

LEMMA Starts == Init => IInv
<1> SUFFICES ASSUME Init PROVE IInv
  OBVIOUS
<1>1. PICK p \in Packets : p = CHOOSE q \in Packets : \A r \in Packets : q <= r
  BY RunnerAssumption
<1>2. PICK e : audit = <<e>> /\ e \in Entry /\ e.by = "other"
                /\ e.run.state \in {"PACKET_READY", "REMOTE_SHA_READY"}
  <2>1. ASSUME NEW state \in {"PACKET_READY", "REMOTE_SHA_READY"},
               NEW action \in {"ISSUE_PACKET", "RECORD_REMOTE_SHA"},
               audit = Found(state, action)
        PROVE  \E e : audit = <<e>> /\ e \in Entry /\ e.by = "other"
                       /\ e.run.state \in {"PACKET_READY", "REMOTE_SHA_READY"}
    <3>1. PICK run : run = [state |-> state, interrupted |-> None, packet |-> p,
                            recheck |-> FALSE, corrected |-> FALSE]
      OBVIOUS
    <3>2. run \in Run /\ run.state = state
      BY <3>1 DEF Run, Active, RunnerStates
    <3>3. PICK e : e = [action |-> action, by |-> "other", why |-> None, run |-> run]
      OBVIOUS
    <3>4. e \in Entry /\ e.by = "other" /\ e.run.state = state
      BY <3>2, <3>3 DEF Entry, EntryActions, EntryWhys, Writers
    <3>5. audit = <<e>>
      BY <1>1, <2>1, <3>1, <3>3 DEF Found
    <3> QED
      BY <3>4, <3>5
  <2>2. \/ audit = Found("PACKET_READY", "ISSUE_PACKET")
        \/ audit = Found("REMOTE_SHA_READY", "RECORD_REMOTE_SHA")
    BY DEF Init
  <2> QED
    BY <2>1, <2>2
<1>3. /\ audit \in Seq(Entry) /\ Len(audit) = 1 /\ DOMAIN audit = {1} /\ audit[1] = e
  BY <1>2
<1>4. AuditOK
  BY <1>2, <1>3 DEF AuditOK, Stops, ActorStates
<1>5. JournalOK
  <2>1. JournalInv
    BY JournalStarts DEF Init
  <2> QED
    BY <2>1 DEF JournalOK, Init, JournalInit
<1>6. \A s \in DOMAIN audit : ~AppliedAt(s) /\ ~DecidedByRunner(s) /\ audit[s].by \notin Architects
  BY <1>2, <1>3, RunnerAssumption DEF AppliedAt, DecidedByRunner
<1>7. HistoryOK
  BY <1>6 DEF HistoryOK, AppliedOpened, AppliedOnlyIfApplied, DurableBeforeApplied,
              AuthorityPrecedesReview, ReviewKeepsItsPrincipal, CorrectionAnswersOwnReview, Init,
              JournalInit
<1>8. CallsOK /\ RestOK
  BY RunnerAssumption DEF CallsOK, RestOK, Init
<1>9. Idle(0) \in Worker
  BY DEF Idle, Worker, Phases
<1>10. ASSUME NEW w \in Runners
       PROVE  Fits(w, Idle(0)) /\ \A s \in Occurrences : ~ClaimOf(Idle(0), s)
  BY <1>3 DEF Fits, TypeFits, OwnedFits, OccFits, OutcomeFits, TodoFits, ClaimOf, Idle, InJournal,
              BeforeActing, OnOwn, WithOutcome
<1>11. WorkersOK
  BY <1>9, <1>10 DEF WorkersOK, Init
<1>12. ClaimsOK
  <2>1. \A w \in Runners : workers[w] = Idle(0)
    BY DEF Init
  <2> QED
    BY <1>10, <2>1 DEF ClaimsOK
<1> QED
  BY <1>4, <1>5, <1>7, <1>8, <1>11, <1>12, RunnerAssumption DEF IInv, SharedOK, Init

LEMMA StepOfKeeps ==
  ASSUME IInv, NEW w \in Runners, StepOf(w)
  PROVE  IInv'
BY ReadKeeps, ListKeeps, SettleListedKeeps, WaitKeeps, EnterImplementationKeeps,
   RecordRemoteShaKeeps, EnterReviewKeeps, EnteredKeeps, PrepareCallKeeps, NotGrantedKeeps,
   ActWithoutJournalKeeps, ActKeeps, DispatchKeeps, StartCallKeeps, AbandonKeeps, CallActorKeeps,
   ActorAnswersKeeps, NoResultKeeps, CompleteCallKeeps, MarkUncertainKeeps, UnappliedKeeps,
   CompleteImplementationKeeps, ReviewReturnedKeeps, PreserveKeeps, DecideKeeps,
   HaltExhaustedKeeps, HaltExhaustedRefusedKeeps, CorrectKeeps, HaltAtKeeps, FinishStepKeeps,
   LockedOutKeeps, Zenon
   DEF StepOf

LEMMA StutterKeeps ==
  ASSUME IInv, UNCHANGED vars
  PROVE  IInv'
<1>1. /\ UNCHANGED <<live, journal, audit, calls, preserved>> /\ workers' = workers
      /\ leftover' = leftover /\ faults' = faults
  BY DEF vars
<1>2. SharedOK' /\ Grows
  BY <1>1, QuietKeeps DEF IInv, SharedOK, RestOK
<1> QED
  BY <1>1, <1>2, OthersKeep

LEMMA Inductive == Spec => []IInv
<1>1. IInv /\ [Next]_vars => IInv'
  <2> SUFFICES ASSUME IInv, [Next]_vars PROVE IInv'
    OBVIOUS
  <2>1. CASE UNCHANGED vars
    BY <2>1, StutterKeeps
  <2>2. ASSUME NEW w \in Runners, StepOf(w) \/ NotPreserved(w) \/ Crash(w) \/ Throw(w)
        PROVE  IInv'
    BY <2>2, StepOfKeeps, NotPreservedKeeps, CrashKeeps, ThrowKeeps
  <2>3. CASE HumanClearsLock
    BY <2>3, HumanClearsLockKeeps
  <2>4. CASE Others
    BY <2>4, OthersAllKeep
  <2> QED
    BY <2>1, <2>2, <2>3, <2>4 DEF Next
<1> QED
  BY <1>1, Starts, PTL DEF Spec

-----------------------------------------------------------------------------
(* The properties *)

(* Every variable of the runners, the run and the journal keeps to its     *)
(* type: what #settleJournal, #dispatch and the decision methods write.    *)
THEOREM TypesHold == Spec => []TypeOK
<1>1. IInv => TypeOK
  <2> SUFFICES ASSUME IInv PROVE TypeOK
    OBVIOUS
  <2>1. /\ AuditOK /\ JournalTypeOK /\ CallsOK /\ RestOK /\ Len(audit) \in Nat
        /\ DOMAIN audit = 1..Len(audit)
        /\ \A s \in 1..Len(audit) : audit[s] \in Entry
    BY TrailIndices DEF IInv, SharedOK, JournalOK, JournalInv
  <2>2. ASSUME NEW w \in Runners
        PROVE  /\ {workers[w].read, workers[w].occ, workers[w].owned} \subseteq 0..Len(audit)
               /\ workers[w].outcome \in Outcomes \cup {None}
               /\ workers[w].verdict \in {"APPLIED", "ABANDONED", None}
    <3>1. workers[w] \in Worker /\ TypeFits(workers[w])
      BY Known DEF Fits
    <3> QED
      BY <2>1, <3>1 DEF Worker, TypeFits
  <2> QED
    BY <2>1, <2>2 DEF TypeOK, Entry, Writers, CallsOK, RestOK
<1> QED
  BY <1>1, Inductive, PTL

(* "not replayed" (runner.ts): however many runners share the run, crash   *)
(* and restart, the external actor is called at most once for one entry    *)
(* into an actor state, and never without its durable STARTED.             *)
THEOREM NeverCalledTwice == Spec => []OneCallPerOccurrence
<1>1. IInv => OneCallPerOccurrence
  BY DEF IInv, SharedOK, CallsOK, OneCallPerOccurrence
<1> QED
  BY <1>1, Inductive, PTL

(* #settleRecord and #finish write APPLIED only over a trail that holds    *)
(* the application, whichever runner settles and whenever it read the run. *)
THEOREM AppliedIsTrue == Spec => []AppliedOnlyIfApplied
<1>1. IInv => AppliedOnlyIfApplied
  BY DEF IInv, SharedOK, HistoryOK
<1> QED
  BY <1>1, Inductive, PTL

(* In the live composition the journal holds a call's result before any    *)
(* controller write of the runner's that rests on it.                      *)
THEOREM ResultsAreDurable == Spec => []DurableBeforeApplied
<1>1. IInv => DurableBeforeApplied
  BY DEF IInv, SharedOK, HistoryOK
<1> QED
  BY <1>1, Inductive, PTL

(* G1-AP1: a runner's acceptance or rejection follows the preservation of  *)
(* that very review in the authority archive.                              *)
THEOREM AuthorityFirst == Spec => []AuthorityPrecedesReview
<1>1. IInv => AuthorityPrecedesReview
  BY DEF IInv, SharedOK, HistoryOK
<1> QED
  BY <1>1, Inductive, PTL

(* G1-RP1-C1: the principal a decision is recorded under is the one that   *)
(* began the review, restarts under other principals included.             *)
THEOREM PrincipalKept == Spec => []ReviewKeepsItsPrincipal
<1>1. IInv => ReviewKeepsItsPrincipal
  BY DEF IInv, SharedOK, HistoryOK
<1> QED
  BY <1>1, Inductive, PTL

(* A correction packet a runner issues lands right after its own           *)
(* rejection, whatever others wrote to the run in between.                 *)
THEOREM CorrectionLandsOnItsReview == Spec => []CorrectionAnswersOwnReview
<1>1. IInv => CorrectionAnswersOwnReview
  BY DEF IInv, SharedOK, HistoryOK
<1> QED
  BY <1>1, Inductive, PTL

-----------------------------------------------------------------------------
(* The runners keep to the journal's protocol *)

LEMMA SettlesByProtocol ==
  ASSUME NEW s \in Occurrences, NEW state \in Final, SettledOrMoved(s, state)
  PROVE  [JournalNext]_journal
BY DEF SettledOrMoved, JournalNext, Settle

LEMMA StepsByProtocol ==
  ASSUME IInv, NEW w \in Runners, StepOf(w)
  PROVE  [JournalNext]_journal
<1>0. /\ Fits(w, workers[w]) /\ workers[w] \in Worker /\ JournalOK /\ AuditOK
      /\ workers[w].at \notin BeforeActing =>
           /\ workers[w].occ \in Occurrences
           /\ audit[workers[w].occ].run.packet \in Packets
  <2>1. Fits(w, workers[w]) /\ workers[w] \in Worker /\ JournalOK /\ AuditOK
    BY Known
  <2>2. \A s \in DOMAIN audit : audit[s].run.packet \in Packets
    <3>1. \A s \in DOMAIN audit : audit[s] \in Entry
      BY <2>1 DEF AuditOK
    <3> QED
      BY <3>1 DEF Entry, Run
  <2> QED
    BY <2>1, <2>2 DEF Fits, OccFits, InTrail
<1>1. CASE SettleListed(w)
  <2>1. PICK item \in workers[w].todo : SettledOrMoved(item[1], item[2])
    BY <1>1 DEF SettleListed
  <2>2. item[1] \in Occurrences /\ item[2] \in Final
    BY <1>0, <2>1 DEF Worker
  <2> QED
    BY <2>1, <2>2, SettlesByProtocol
<1>2. CASE PrepareCall(w)
  <2>1. workers[w].at \notin BeforeActing
    BY <1>2 DEF PrepareCall, Is, BeforeActing
  <2>2. CASE journal[workers[w].occ] = None
    BY <1>0, <1>2, <2>1, <2>2 DEF PrepareCall, JournalNext
  <2>3. CASE journal[workers[w].occ] # None
    BY <1>2, <2>3 DEF PrepareCall
  <2> QED
    BY <2>2, <2>3
<1>3. CASE StartCall(w)
  BY <1>0, <1>3 DEF StartCall, Is, BeforeActing, JournalNext
<1>4. CASE Abandon(w)
  <2>1. workers[w].occ \in Occurrences
    BY <1>0, <1>4 DEF Abandon, Is, BeforeActing
  <2>2. SettledOrMoved(workers[w].occ, "ABANDONED")
    BY <1>4 DEF Abandon, SettledOrMoved
  <2> QED
    BY <2>1, <2>2, SettlesByProtocol DEF Final
<1>5. CASE CompleteCall(w)
  <2>1. workers[w].occ \in Occurrences /\ workers[w].outcome \in Outcomes
    BY <1>0, <1>5 DEF CompleteCall, Is, BeforeActing, Fits, OutcomeFits, OutcomesFor
  <2> QED
    BY <1>5, <2>1 DEF CompleteCall, Complete, JournalNext
<1>6. CASE MarkUncertain(w)
  <2>1. workers[w].occ \in Occurrences
    BY <1>0, <1>6 DEF MarkUncertain, Is, BeforeActing
  <2> QED
    BY <1>6, <2>1, SettlesByProtocol DEF MarkUncertain, Final
<1>7. CASE FinishStep(w)
  <2>1. workers[w].occ \in Occurrences /\ workers[w].verdict \in Final
    BY <1>0, <1>7 DEF FinishStep, Is, BeforeActing, Fits, OutcomeFits, Final
  <2> QED
    BY <1>7, <2>1, SettlesByProtocol DEF FinishStep
<1>8. CASE UNCHANGED journal
  BY <1>8
<1>9. \/ SettleListed(w) \/ PrepareCall(w) \/ StartCall(w) \/ Abandon(w) \/ CompleteCall(w)
      \/ MarkUncertain(w) \/ FinishStep(w) \/ UNCHANGED journal
  BY DEF StepOf, Read, List, Wait, EnterImplementation, RecordRemoteSha, EnterReview, EnterRefused,
         Entered, NotGranted, ActWithoutJournal, Act, Authorized, Denied, StillThere,
         LeftBeforeDispatch, Claimed, OverBudget, CallActor, ActorAnswers, NoResult, Unapplied,
         CompleteImplementation, Left, ReviewReturned, Preserve, Decide, HaltExhausted,
         HaltExhaustedRefused, Correct, HaltAt, LockedOut, WorkerOnly, RunOnly
<1> QED
  BY <1>1, <1>2, <1>3, <1>4, <1>5, <1>6, <1>7, <1>8, <1>9

(* Whatever the runners do, and wherever they crash, the journal only ever *)
(* takes the transitions of invocation-journal.ts: the runner implements   *)
(* the journal's specification.                                            *)
THEOREM JournalProtocolKept == Spec => JournalSpec
<1>1. Init => JournalInit
  BY DEF Init
<1>2. IInv /\ [Next]_vars => [JournalNext]_journal
  <2> SUFFICES ASSUME IInv, [Next]_vars PROVE [JournalNext]_journal
    OBVIOUS
  <2>1. ASSUME NEW w \in Runners, StepOf(w)
        PROVE  [JournalNext]_journal
    BY <2>1, StepsByProtocol
  <2>2. ASSUME NEW w \in Runners, NotPreserved(w) \/ Crash(w) \/ Throw(w)
        PROVE  UNCHANGED journal
    BY <2>2 DEF NotPreserved, Crash, Throw
  <2>3. CASE HumanClearsLock \/ UNCHANGED vars
    BY <2>3 DEF HumanClearsLock, vars
  <2>4. CASE Others
    BY <2>4 DEF Others, OtherStops, Resumes, Exhausts, Rechecks, Returns, Issues, Corrects,
                OtherResult, FailsClosed, OtherEntry, RunOnly
  <2> QED
    BY <2>1, <2>2, <2>3, <2>4 DEF Next
<1> QED
  BY <1>1, <1>2, Inductive, PTL DEF Spec, JournalSpec

(* So no packet ever starts more calls than its budget, and every stored   *)
(* record loads, however many runners drive the run.                       *)
THEOREM RunnersKeepTheBudget == Spec => [](CallBudgetHeld /\ RecordsConsistent)
<1>1. JournalInv => CallBudgetHeld /\ RecordsConsistent
  BY DEF JournalInv
<1> QED
  BY <1>1, JournalProtocolKept, JournalInductive, PTL

=============================================================================
