---------------------------- MODULE RouteExecution ----------------------------
(***************************************************************************)
(* The execution of routes by providers, of src/stress-test/deliberation.ts*)
(* and execution-authority.ts, composed with the ledger.  A provider call  *)
(* is made outside; the checkpoint of its attempt says who may make it,    *)
(* holds the latency it may take, and keeps what it returned until the     *)
(* ledger has it:                                                          *)
(*     none -> CLAIMED -> TERMINAL_FACT_READY -> OUTCOME_COMMITTED         *)
(*                                                                         *)
(* Every operation runs inside withCurrentDeliberationState: it reads the  *)
(* current ledger and commits before another operation enters, so each is  *)
(* one action, and the writes of latency that have no checkpoint go        *)
(* through performCoordinatedLatencyWrite.  Executors, humans and callers  *)
(* come in any order; an executor that never returns is the absence of a   *)
(* step.  A policy that answers DISABLED changes nothing.                  *)
(***************************************************************************)
EXTENDS Deliberation, FiniteSetsExt

CONSTANT Limits      \* latencyLimitMs the policy answers; 0 stands for a malformed one

ASSUME LimitsAssumption == Limits \subseteq Nat

VARIABLE checkpoints \* attempt -> its RouteExecutionCheckpoint, or None

vars == <<ledger, checkpoints>>

Machine == {"ADD_REVIEWER", "REPLICATE", "SEEK_EVIDENCE", "TARGETED_PEER_CHALLENGE"}

(* A terminal fact is an outcome still to be recorded, or a deadline        *)
(* violation, which never becomes one.                                      *)
Violation(actual) == [status |-> "DEADLINE_VIOLATION", payload |-> None, latency |-> actual]
Fact == Outcome \cup {Violation(actual) : actual \in Latencies}

(* limit is None for a call that was never attempted. *)
Checkpoint == [phase: {"CLAIMED", "TERMINAL_FACT_READY", "OUTCOME_COMMITTED"},
               limit: Limits \cup {None}, reserved: Nat, fact: Fact \cup {None}]

ASSUME NoCheckpointAssumption == None \notin Checkpoint /\ None \notin Fact

Claimed == {d \in Decisions : checkpoints[d] # None /\ checkpoints[d].phase = "CLAIMED"}
FactReady == {d \in Decisions : /\ checkpoints[d] # None
                                /\ checkpoints[d].phase = "TERMINAL_FACT_READY"}
Violated == {d \in FactReady : checkpoints[d].fact.status = "DEADLINE_VIOLATION"}

-----------------------------------------------------------------------------
(* What the reservations still hold of the latency budget *)

(* projectRouteOutcomeToTerminalFact and terminalFactsExactlyAgree. *)
Agrees(d) == outcomes[d] # None /\ outcomes[d] = checkpoints[d].fact

(* Mutant of Encumbrance: the reservation is released with the fact. *)
EncumbranceOfClaims(d) == IF d \in Claimed THEN checkpoints[d].reserved ELSE 0

(* Derived on every read: the reservation, less what the outcome has spent. *)
Encumbrance(d) ==
  IF d \in Claimed \cup FactReady
  THEN checkpoints[d].reserved - (IF Agrees(d) THEN checkpoints[d].fact.latency ELSE 0)
  ELSE 0

TotalEncumbrance == MapThenSumSet(Encumbrance, Decisions)
Remaining == ceiling.latency - latency - TotalEncumbrance

-----------------------------------------------------------------------------
(* Claiming *)

(* An attempt no one has terminalized or claimed, of a route a machine takes. *)
Unclaimed(d) ==
  /\ d \in attempts /\ outcomes[d] = None
  /\ checkpoints[d] = None
  /\ Route(d) \in Machine
  /\ ~stopped

Insert(d, checkpoint) ==
  /\ checkpoints' = [checkpoints EXCEPT ![d] = checkpoint]
  /\ UNCHANGED ledger

PreCallFailed == [phase |-> "TERMINAL_FACT_READY", limit |-> None, reserved |-> 0,
                  fact |-> [status |-> "FAILED", payload |-> None, latency |-> 0]]

(* Mutant of Admitted: the reservations of other calls are not counted. *)
AdmittedAlone(limit) == Violated = {} /\ limit > 0 /\ limit <= ceiling.latency - latency

(* Nothing overran unreconciled, the limit is one, and the budget has it. *)
Admitted(limit) == Violated = {} /\ limit > 0 /\ limit <= Remaining

ClaimRouteExecution(d, limit) ==
  /\ Unclaimed(d)
  /\ Owns(d)
  /\ Ready(planned[d])
  /\ Insert(d, IF Admitted(limit)
               THEN [phase |-> "CLAIMED", limit |-> limit, reserved |-> limit, fact |-> None]
               ELSE PreCallFailed)

RecordExecutionPreCallFailure(d) == Unclaimed(d) /\ Insert(d, PreCallFailed)

-----------------------------------------------------------------------------
(* What the executor brings back *)

(* recordExecutionTerminalFact knows the route, not the ledger: whether the *)
(* ledger takes the result is found out when it is persisted.               *)
Returnable(d, o) ==
  \/ o.status = "FAILED" /\ o.payload = None
  \/ o.status = "INCONCLUSIVE" /\ o.payload = None /\ Route(d) = "SEEK_EVIDENCE"
  \/ /\ o.status = "SUCCEEDED"
     /\ IF Route(d) = "ADD_REVIEWER" THEN o.payload \in Reviewers ELSE o.payload = "RESULT"

(* Mutant of FactOf: an overrun is stored like any other result. *)
FactUnjudged(d, o) == o

(* The overrun is judged first, whatever the executor says of the result. *)
FactOf(d, o) == IF o.latency > checkpoints[d].limit THEN Violation(o.latency) ELSE o

RecordExecutionTerminalFact(d, o) ==
  /\ d \in Claimed
  /\ Returnable(d, o)
  /\ checkpoints' = [checkpoints EXCEPT ![d].phase = "TERMINAL_FACT_READY",
                                        ![d].fact = FactOf(d, o)]
  /\ UNCHANGED ledger

(* The stored fact is replayed as the outcome, by the ledger's own operation. *)
PersistExecutionTerminalFactAsRouteOutcome(d) ==
  /\ d \in FactReady \ Violated
  /\ RecordRouteOutcome(d, checkpoints[d].fact)
  /\ UNCHANGED checkpoints

MarkExecutionOutcomeCommitted(d) ==
  /\ d \in FactReady \ Violated
  /\ Agrees(d)
  /\ latency + TotalEncumbrance <= ceiling.latency
  /\ Insert(d, [checkpoints[d] EXCEPT !.phase = "OUTCOME_COMMITTED"])

-----------------------------------------------------------------------------
(* Outcomes no provider was claimed for: a human's, or a failure *)

(* Mutant of Uncheckpointed: only the encumbrance is looked at. *)
UncheckpointedByBudget(d) == TotalEncumbrance = 0

Uncheckpointed(d) == checkpoints[d] = None /\ TotalEncumbrance = 0

PerformCoordinatedLatencyWrite(d) ==
  /\ Uncheckpointed(d)
  /\ SpendLatency(d)
  /\ UNCHANGED checkpoints

-----------------------------------------------------------------------------
Init == LedgerInit /\ checkpoints = [d \in Decisions |-> None]

Execute(d) ==
  \/ \E limit \in Limits : ClaimRouteExecution(d, limit)
  \/ RecordExecutionPreCallFailure(d)
  \/ \E o \in Outcome : RecordExecutionTerminalFact(d, o)
  \/ PersistExecutionTerminalFactAsRouteOutcome(d)
  \/ MarkExecutionOutcomeCommitted(d)

Next ==
  \/ Deliberate /\ UNCHANGED checkpoints
  \/ \E d \in Decisions : Execute(d) \/ PerformCoordinatedLatencyWrite(d)

Spec == Init /\ [][Next]_vars

-----------------------------------------------------------------------------
(* Properties *)

(* The ledger and the checkpoints have their shapes, and neither budget is  *)
(* overdrawn (applyCostSpend, applyLatencySpend).                           *)
TypeOK == LedgerTypeOK /\ checkpoints \in [Decisions -> Checkpoint \cup {None}]

(* What the calls in flight reserved is never given away: the latency spent *)
(* is what the outcomes consumed, and with the reservations still held it   *)
(* stays within the ceiling (assertGlobalLatencyIntegrity), whatever order  *)
(* claims, overruns, outcomes and human answers come in.                    *)
LatencyCovered ==
  /\ latency = MapThenSumSet(LAMBDA d : IF outcomes[d] = None THEN 0 ELSE outcomes[d].latency,
                             Decisions)
  /\ latency + TotalEncumbrance <= ceiling.latency

(* A provider call that was paid for is not lost to what the rest of the    *)
(* deliberation does meanwhile: until it is recorded, its attempt is still  *)
(* the open cycle of a current question that is ready for it, and the       *)
(* budget still has room for it.                                            *)
ClaimsStayRecordable ==
  \A d \in Claimed \cup (FactReady \ Violated) :
    outcomes[d] = None => /\ d \in attempts
                          /\ Owns(d)
                          /\ Ready(planned[d])
                          /\ latency + checkpoints[d].reserved <= ceiling.latency

(* An attempt with a checkpoint has the outcome its executor returned and   *)
(* no other: none before there is a fact, none for an overrun, and one for  *)
(* every commit acknowledged (EC-23, EC-30 of the lifecycle contract).      *)
OutcomeIsTheFact ==
  \A d \in Decisions : checkpoints[d] # None =>
    /\ outcomes[d] # None => outcomes[d] = checkpoints[d].fact
    /\ checkpoints[d].phase = "OUTCOME_COMMITTED" => outcomes[d] # None
=============================================================================
