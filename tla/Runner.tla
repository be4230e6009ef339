-------------------------------- MODULE Runner --------------------------------
(***************************************************************************)
(* AutomationRunner of src/automation/runner.ts: processes that drive one  *)
(* run through implementation and review, one step at a time, over the     *)
(* controller and (in the live composition) the invocation journal.        *)
(*                                                                         *)
(* A step is synchronous in its process until the actor call, but between  *)
(* any two of its reads and writes other processes may act: other runners, *)
(* and the people and agents who stop, resume, correct and re-issue the    *)
(* run.  Each controller call and each journal operation is one step here  *)
(* (their stores serialize them); what a step read earlier it keeps.       *)
(*                                                                         *)
(* The run is its audit trail, append-only; every entry holds the run it   *)
(* left.  An entry's position in the trail identifies it, so the           *)
(* occurrence of an actor call is the position of the entry that opened    *)
(* it, and the guard of the *ForOccurrence methods is that this entry is   *)
(* still the last.  What the controller decides on grounds the runner does *)
(* not see (budgets, clocks, a moved branch, evidence it refuses) is a     *)
(* free choice here; the Controller module has them.                       *)
(***************************************************************************)
EXTENDS InvocationJournal, SequencesExt

CONSTANTS
  Runners,       \* the processes
  Architects,    \* GPT_ARCHITECT principals
  principal,     \* the principal each runner records reviews under
  Modes,         \* the compositions a run may be driven under: live (TRUE) or not
  MaxFaults      \* bound on crashes and failed operations

ASSUME RunnerAssumption ==
  /\ principal \in [Runners -> Architects]
  /\ Architects \cap {"implementer", "runner", "controller", "other"} = {}
  /\ Modes \subseteq BOOLEAN
  /\ MaxFaults \in Nat
  /\ Packets \subseteq Nat
  /\ \E p \in Packets : \A q \in Packets : p <= q

VARIABLES
  live,          \* with an invocation journal and an authority archive, or without
  audit,         \* the stored run
  workers,       \* what each runner is doing
  leftover,      \* locks whose write is over: "run", "journal"
  calls,         \* for the properties: actor calls made for an occurrence
  preserved,     \* occurrences whose review is in the authority archive
  faults

vars == <<live, journal, audit, workers, leftover, calls, preserved, faults>>
ghosts == <<calls, preserved>>

-----------------------------------------------------------------------------
(* The run *)

Stops == {"SOFT_STOP", "ARCHITECTURE_STOP", "HUMAN_STOP"}
RunnerStates == {"PACKET_READY", "IMPLEMENTING", "IMPLEMENTATION_COMPLETE", "REMOTE_SHA_READY",
                 "ACCEPTANCE_REVIEW", "CORRECTION_REQUIRED"}
ActorStates == {"IMPLEMENTING", "ACCEPTANCE_REVIEW"}
Active == RunnerStates \cup {"ARCHITECTURE", "ACCEPTED"}
Run == [state: Active \cup Stops \cup {"FAILED_CLOSED"}, interrupted: Active \cup {None},
        packet: Packets, recheck: BOOLEAN, corrected: BOOLEAN]

Now == Last(audit).run

(* One commit; Occurrences bounds the trail. *)
Commit(run, action, by, why) ==
  /\ "run" \notin leftover
  /\ Len(audit) + 1 \in Occurrences
  /\ audit' = Append(audit, [action |-> action, by |-> by, why |-> why, run |-> run])

To(state) == [Now EXCEPT !.state = state]
Stopped(kind) == [Now EXCEPT !.state = kind, !.interrupted = Now.state]

Entering == [IMPLEMENTING |-> "BEGIN_IMPLEMENTATION",
             ACCEPTANCE_REVIEW |-> "BEGIN_REMOTE_ACCEPTANCE"]
IsReview(s) == audit[s].run.state = "ACCEPTANCE_REVIEW"

(* appliesResult: the entry after an occurrence is the application of its result. *)
ControllerHalt(s) == IF IsReview(s) THEN "branch_moved" ELSE "runtime_exceeded"
AppliesResult(entry, s) ==
  \/ ~IsReview(s) /\ entry.action = "REPORT_IMPLEMENTATION_COMPLETE" /\ entry.by = "implementer"
  \/ /\ IsReview(s)
     /\ entry.action \in {"ACCEPT_EXACT_SHA", "REJECT_EXACT_SHA"}
     /\ entry.by = audit[s].by
  \/ /\ entry.action = "STOP"
     /\ \/ entry.by = "runner" /\ entry.why \in {"unusable", "reported", "authority_refused"}
        \/ entry.by = "controller" /\ entry.why = ControllerHalt(s)

-----------------------------------------------------------------------------
(* A runner's step *)

Idle(owned) == [at |-> "idle", read |-> 0, occ |-> 0, owned |-> owned, todo |-> {}, why |-> None,
                outcome |-> None, verdict |-> None]
Is(w, at) == workers[w].at = at
Goto(w, at) == workers' = [workers EXCEPT ![w].at = at]
EndStep(w) == workers' = [workers EXCEPT ![w] = Idle(@.owned)]
HaltWith(w, why) == workers' = [workers EXCEPT ![w].at = "halt", ![w].why = why]
Seen(w) == audit[workers[w].read]
AtOccurrence(w) == Len(audit) = workers[w].occ

Fault == faults < MaxFaults /\ faults' = faults + 1 /\ UNCHANGED live
Unfaulted == UNCHANGED <<live, leftover, faults>>
WorkerOnly == UNCHANGED <<journal, audit, ghosts>> /\ Unfaulted
JournalOnly == "journal" \notin leftover /\ UNCHANGED <<audit, ghosts>> /\ Unfaulted
RunOnly == UNCHANGED <<journal, ghosts>> /\ Unfaulted

Read(w) ==
  /\ Is(w, "idle")
  /\ workers' = [workers EXCEPT ![w].at = IF live THEN "list" ELSE "choose",
                                ![w].read = Len(audit)]
  /\ WorkerOnly

(* #settleJournal, on the run as it was read. *)
SettlementOf(w, s) ==
  CASE journal[s].state = "PREPARED" -> "ABANDONED"
    [] journal[s].state = "STARTED" -> "UNCERTAIN"
    [] journal[s].state = "COMPLETED" ->
         IF s < workers[w].read /\ AppliesResult(audit[s + 1], s) THEN "APPLIED" ELSE "ABANDONED"

Open(s) == journal[s] # None /\ journal[s].state \notin Final

(* Mutant of LeftRecords: a completed call is taken for a settled one. *)
UncompletedRecords(w) ==
  {s \in Occurrences \ {workers[w].read} : Open(s) /\ journal[s].state # "COMPLETED"}

LeftRecords(w) == {s \in Occurrences \ {workers[w].read} : Open(s)}

List(w) ==
  /\ Is(w, "list")
  /\ LET open == LeftRecords(w)
     IN workers' = [workers EXCEPT ![w].at = IF open = {} THEN "choose" ELSE "settle",
                                   ![w].todo = {<<s, SettlementOf(w, s)>> : s \in open}]
  /\ WorkerOnly

(* Mutant of SettledOrMoved: the record is written whatever it became. *)
SettledAnyway(s, state) == journal' = Settled(s, state)

(* #settleRecord: a record another runner has moved on is left alone. *)
SettledOrMoved(s, state) == journal' = IF May(s, state) THEN Settled(s, state) ELSE journal

SettleListed(w) ==
  /\ Is(w, "settle")
  /\ \E item \in workers[w].todo :
       /\ SettledOrMoved(item[1], item[2])
       /\ workers' = [workers EXCEPT ![w].todo = @ \ {item},
                                     ![w].at = IF workers[w].todo = {item} THEN "choose" ELSE @]
  /\ JournalOnly

-----------------------------------------------------------------------------
(* Choosing what the observed state calls for *)

Waits(w) ==
  LET run == Seen(w).run
  IN \/ run.state \notin RunnerStates
     \/ run.recheck
     \/ run.state = "CORRECTION_REQUIRED" /\ ~run.corrected

Wait(w) == Is(w, "choose") /\ Waits(w) /\ EndStep(w) /\ WorkerOnly

Chooses(w, states) == Is(w, "choose") /\ ~Waits(w) /\ Seen(w).run.state \in states

MayBegin == Now.state \in {"PACKET_READY", "CORRECTION_REQUIRED"} /\ ~Now.recheck

(* The controller may find the iteration budget exhausted instead. *)
EnterImplementation(w) ==
  /\ Chooses(w, {"PACKET_READY", "CORRECTION_REQUIRED"})
  /\ MayBegin
  /\ \/ /\ Now.state = "CORRECTION_REQUIRED" => Now.corrected
        /\ Commit(To("IMPLEMENTING"), "BEGIN_IMPLEMENTATION", "implementer", None)
     \/ Commit(Stopped("HUMAN_STOP"), "STOP", "controller", "iterations")
  /\ Goto(w, "entered")
  /\ RunOnly

RecordRemoteSha(w) ==
  /\ Chooses(w, {"IMPLEMENTATION_COMPLETE"})
  /\ Now.state = "IMPLEMENTATION_COMPLETE" /\ ~Now.recheck
  /\ Commit(To("REMOTE_SHA_READY"), "RECORD_REMOTE_SHA", "implementer", None)
  /\ EndStep(w)
  /\ RunOnly

(* The controller may find that the work branch moved instead. *)
EnterReview(w) ==
  /\ Chooses(w, {"REMOTE_SHA_READY"})
  /\ Now.state = "REMOTE_SHA_READY" /\ ~Now.recheck
  /\ \/ Commit(To("ACCEPTANCE_REVIEW"), "BEGIN_REMOTE_ACCEPTANCE", principal[w], None)
     \/ Commit(Stopped("ARCHITECTURE_STOP"), "STOP", "controller", "branch_moved")
  /\ Goto(w, "entered")
  /\ RunOnly

(* The run is no longer where it was read: the controller throws. *)
EnterRefused(w) ==
  /\ Chooses(w, RunnerStates \ ActorStates)
  /\ \/ Now.recheck
     \/ Now.state # Seen(w).run.state
     \/ Now.state = "CORRECTION_REQUIRED" /\ ~Now.corrected
  /\ EndStep(w)
  /\ WorkerOnly

(* #enter: owned is the entry right after the run as observed, if it entered an actor state. *)
Entered(w) ==
  LET entry == workers[w].read + 1
  IN /\ Is(w, "entered")
     /\ IF audit[entry].run.state \in ActorStates
             /\ audit[entry].action = Entering[audit[entry].run.state]
        THEN workers' = [workers EXCEPT
               ![w] = IF live /\ Len(audit) = entry
                      THEN [@ EXCEPT !.at = "prepare_entered", !.occ = entry, !.owned = entry]
                      ELSE Idle(entry)]
        ELSE EndStep(w)
     /\ WorkerOnly

(* #prepare; a second identity for the occurrence is refused. *)
PrepareCall(w) ==
  /\ Is(w, "prepare_entered") \/ Is(w, "prepare")
  /\ IF journal[workers[w].occ] = None
     THEN /\ Prepare(workers[w].occ, audit[workers[w].occ].run.packet)
          /\ IF Is(w, "prepare") THEN Goto(w, "gate") ELSE EndStep(w)
     ELSE EndStep(w) /\ UNCHANGED journal
  /\ JournalOnly

NotGranted(w) ==
  /\ Is(w, "prepare_entered") \/ Is(w, "prepare")
  /\ HaltWith(w, "not_authorized")
  /\ WorkerOnly

-----------------------------------------------------------------------------
(* #actor: the run was read in an actor state *)

Observed(w, record, why) ==
  [record EXCEPT !.at = "halt", !.occ = workers[w].read, !.owned = 0, !.why = why]

(* Mutant of Owns: a runner that restarted takes the occurrence for its own. *)
OwnsAny(w) == TRUE

(* #take: ownership is consumed; it counts for this very entry only. *)
Owns(w) == workers[w].owned = workers[w].read

(* Without a journal the owner calls, and anyone else stops the run for a human. *)
ActWithoutJournal(w) ==
  /\ ~live
  /\ Chooses(w, ActorStates)
  /\ workers' = [workers EXCEPT
       ![w] = IF Owns(w) THEN [@ EXCEPT !.at = "call", !.occ = workers[w].read, !.owned = 0]
                         ELSE Observed(w, @, "restart")]
  /\ WorkerOnly

(* Mutant of Continues: any principal continues a review. *)
ContinuesAny(w) == TRUE

(* G1-RP1-C1: only the principal that began a review continues it. *)
Continues(w) == IsReview(workers[w].read) => Seen(w).by = principal[w]

(* Mutant of OnRecord: a call that started and left no result is made again. *)
OnRecordReplayed(w, record) ==
  CASE record.state = "PREPARED" -> "gate"
    [] record.state = "STARTED" -> "call"
    [] record.state = "UNCERTAIN" -> "halt"
    [] record.state = "COMPLETED" -> "apply"
    [] record.state \in {"APPLIED", "ABANDONED"} -> "conflict"

(* Mutant of OnRecord: an uncertain call is waited for. *)
OnRecordWaits(w, record) ==
  CASE record.state = "PREPARED" -> "gate"
    [] record.state = "STARTED" -> "uncertain"
    [] record.state = "UNCERTAIN" -> "idle"
    [] record.state = "COMPLETED" -> "apply"
    [] record.state \in {"APPLIED", "ABANDONED"} -> "conflict"

OnRecord(w, record) ==
  CASE record.state = "PREPARED" -> "gate"
    [] record.state = "STARTED" -> "uncertain"
    [] record.state = "UNCERTAIN" -> "halt"
    [] record.state = "COMPLETED" -> "apply"
    [] record.state \in {"APPLIED", "ABANDONED"} -> "conflict"

Act(w) ==
  LET s == workers[w].read
      record == journal[s]
      mine == [workers[w] EXCEPT !.occ = s, !.owned = 0]
      next == IF Seen(w).action # Entering[Seen(w).run.state] THEN Observed(w, mine, "restart")
              ELSE IF ~Continues(w) THEN Idle(0)
              ELSE IF record = None
                   THEN IF Owns(w) THEN [mine EXCEPT !.at = "prepare"]
                                   ELSE Observed(w, mine, "restart")
              ELSE IF OnRecord(w, record) = "conflict" THEN Observed(w, mine, "conflict")
              ELSE [mine EXCEPT !.at = OnRecord(w, record), !.why = "restart",
                                !.outcome = record.result]
  IN /\ live
     /\ Chooses(w, ActorStates)
     /\ workers' = [workers EXCEPT ![w] = next]
     /\ WorkerOnly

-----------------------------------------------------------------------------
(* #dispatch *)

(* authorizeLiveModelCall: whether the grant is exact and current now. *)
Authorized(w) == Is(w, "gate") /\ Goto(w, "check") /\ WorkerOnly
Denied(w) ==
  /\ Is(w, "gate")
  /\ workers' = [workers EXCEPT ![w].at = "abandon", ![w].why = "not_authorized"]
  /\ WorkerOnly

StillThere(w) == Is(w, "check") /\ AtOccurrence(w) /\ Goto(w, "start") /\ WorkerOnly
LeftBeforeDispatch(w) ==
  /\ Is(w, "check")
  /\ ~AtOccurrence(w)
  /\ workers' = [workers EXCEPT ![w].at = "abandon", ![w].why = None]
  /\ WorkerOnly

StartCall(w) ==
  /\ Is(w, "start")
  /\ Start(workers[w].occ)
  /\ Goto(w, "call")
  /\ JournalOnly

(* INVOCATION_CLAIMED: another runner holds it. *)
Claimed(w) == Is(w, "start") /\ ~MayStart(workers[w].occ) /\ EndStep(w) /\ WorkerOnly

OverBudget(w) ==
  /\ Is(w, "start")
  /\ MayStart(workers[w].occ)
  /\ ~BudgetLeft(journal[workers[w].occ].packet)
  /\ workers' = [workers EXCEPT ![w].at = "abandon", ![w].why = "budget"]
  /\ WorkerOnly

(* A call not made: its record is abandoned, then the run stopped, if there is a reason to. *)
Abandon(w) ==
  /\ Is(w, "abandon")
  /\ IF May(workers[w].occ, "ABANDONED")
     THEN /\ journal' = Settled(workers[w].occ, "ABANDONED")
          /\ IF workers[w].why = None THEN EndStep(w) ELSE Goto(w, "halt")
     ELSE EndStep(w) /\ UNCHANGED journal
  /\ JournalOnly

-----------------------------------------------------------------------------
(* The actor *)

CallActor(w) ==
  /\ Is(w, "call")
  /\ calls' = [calls EXCEPT ![workers[w].occ] = @ + 1]
  /\ Goto(w, "calling")
  /\ UNCHANGED <<journal, audit, preserved>>
  /\ Unfaulted

OutcomesFor(s) ==
  IF IsReview(s) THEN Outcomes \ {"done"} ELSE Outcomes \cap {"done", "stop", "unusable"}

ActorAnswers(w) ==
  /\ Is(w, "calling")
  /\ \E outcome \in OutcomesFor(workers[w].occ) :
       workers' = [workers EXCEPT ![w].at = IF live THEN "complete" ELSE "apply",
                                  ![w].outcome = outcome]
  /\ WorkerOnly

NoResult(w) ==
  /\ Is(w, "calling")
  /\ workers' = [workers EXCEPT ![w].at = IF live THEN "uncertain" ELSE "halt",
                                ![w].why = "no_result"]
  /\ WorkerOnly

(* Mutant of CompleteCall: the result is applied though it could not be stored. *)
CompleteCallAnyway(w) ==
  /\ Is(w, "complete")
  /\ Goto(w, "apply")
  /\ journal' = IF May(workers[w].occ, "COMPLETED")
                THEN Completed(workers[w].occ, workers[w].outcome) ELSE journal
  /\ JournalOnly

(* Settled by another runner while the call ran: the result is not this step's to apply. *)
CompleteCall(w) ==
  /\ Is(w, "complete")
  /\ IF May(workers[w].occ, "COMPLETED")
     THEN journal' = Completed(workers[w].occ, workers[w].outcome) /\ Goto(w, "apply")
     ELSE EndStep(w) /\ UNCHANGED journal
  /\ JournalOnly

MarkUncertain(w) ==
  /\ Is(w, "uncertain")
  /\ SettledOrMoved(workers[w].occ, "UNCERTAIN")
  /\ Goto(w, "halt")
  /\ JournalOnly

-----------------------------------------------------------------------------
(* Applying a result *)

(* The step ends; a stored result is settled first. *)
Settling(w) == live /\ workers[w].outcome # None
Finish(w, verdict) ==
  IF Settling(w)
  THEN workers' = [workers EXCEPT ![w].at = "finish", ![w].verdict = verdict]
  ELSE EndStep(w)

FinishStep(w) ==
  /\ Is(w, "finish")
  /\ SettledOrMoved(workers[w].occ, workers[w].verdict)
  /\ EndStep(w)
  /\ JournalOnly

(* Mutant of Left: the result is settled as applied. *)
LeftApplied(w) == ~AtOccurrence(w) /\ Finish(w, "APPLIED") /\ WorkerOnly

(* A controller write bound to the occurrence: the run left it, or is still there. *)
Left(w) == ~AtOccurrence(w) /\ Finish(w, "ABANDONED") /\ WorkerOnly

Unapplied(w) ==
  /\ Is(w, "apply")
  /\ workers[w].outcome \in {"unusable", "stop"}
  /\ HaltWith(w, IF workers[w].outcome = "stop" THEN "reported" ELSE "unusable")
  /\ WorkerOnly

CompleteImplementation(w) ==
  /\ Is(w, "apply")
  /\ workers[w].outcome = "done"
  /\ \/ Left(w)
     \/ AtOccurrence(w) /\ HaltWith(w, "unusable") /\ WorkerOnly
     \/ /\ AtOccurrence(w)
        /\ \/ Commit(To("IMPLEMENTATION_COMPLETE"), "REPORT_IMPLEMENTATION_COMPLETE",
                     "implementer", None)
           \/ Commit(Stopped("HUMAN_STOP"), "STOP", "controller", "runtime_exceeded")
        /\ Finish(w, "APPLIED")
        /\ RunOnly

Verdicts == {"accept", "reject", "reject_and_correct"}

ReviewReturned(w) ==
  /\ Is(w, "apply")
  /\ workers[w].outcome \in Verdicts
  /\ Goto(w, IF live THEN "preserve" ELSE "decide")
  /\ WorkerOnly

(* Mutant of Preserve: a review that could not be preserved is applied all the same. *)
PreserveBestEffort(w) ==
  /\ Is(w, "preserve")
  /\ \/ Left(w)
     \/ /\ AtOccurrence(w)
        /\ \/ preserved' = preserved \cup {workers[w].occ}
           \/ UNCHANGED preserved
        /\ Goto(w, "decide")
        /\ UNCHANGED <<journal, audit, calls>>
        /\ Unfaulted

(* G1-AP1: preserved; refused; or failed, and then the result stays COMPLETED (the step ends). *)
Preserve(w) ==
  /\ Is(w, "preserve")
  /\ \/ Left(w)
     \/ /\ AtOccurrence(w)
        /\ preserved' = preserved \cup {workers[w].occ}
        /\ Goto(w, "decide")
        /\ UNCHANGED <<journal, audit, calls>>
        /\ Unfaulted
     \/ AtOccurrence(w) /\ HaltWith(w, "authority_refused") /\ WorkerOnly

NotPreserved(w) ==
  /\ Is(w, "preserve")
  /\ AtOccurrence(w)
  /\ Fault
  /\ EndStep(w)
  /\ UNCHANGED <<journal, audit, ghosts, leftover>>

(* A rejection that exhausts the failure budget still owes its HUMAN_STOP. *)
Decide(w) ==
  /\ Is(w, "decide")
  /\ \/ Left(w)
     \/ AtOccurrence(w) /\ HaltWith(w, "unusable") /\ WorkerOnly
     \/ /\ AtOccurrence(w)
        /\ \/ /\ Commit(Stopped("ARCHITECTURE_STOP"), "STOP", "controller", "branch_moved")
              /\ Finish(w, "APPLIED")
           \/ /\ workers[w].outcome = "accept"
              /\ Commit(To("ACCEPTED"), "ACCEPT_EXACT_SHA", principal[w], None)
              /\ Finish(w, "APPLIED")
           \/ /\ workers[w].outcome # "accept"
              /\ Commit([Now EXCEPT !.state = "CORRECTION_REQUIRED", !.corrected = FALSE],
                        "REJECT_EXACT_SHA", principal[w], None)
              /\ \/ Goto(w, "halt_exhausted")
                 \/ workers[w].outcome = "reject_and_correct" /\ Goto(w, "correct")
                 \/ workers[w].outcome = "reject" /\ Finish(w, "APPLIED")
        /\ RunOnly

(* The controller's second write of the same call, on the run as it reads it then. *)
HaltExhausted(w) ==
  /\ Is(w, "halt_exhausted")
  /\ Now.state \in Active
  /\ Commit(Stopped("HUMAN_STOP"), "STOP", "controller", "failures")
  /\ Finish(w, "APPLIED")
  /\ RunOnly

(* Another writer or a left lock refuses it, and the run has left the occurrence. *)
HaltExhaustedRefused(w) ==
  /\ Is(w, "halt_exhausted")
  /\ Len(audit) > workers[w].occ + 1 \/ "run" \in leftover
  /\ Finish(w, "ABANDONED")
  /\ WorkerOnly

(* Mutant of CorrectsOwn: the correction goes to whatever rejection is current. *)
CorrectsAny(w) == Now.state = "CORRECTION_REQUIRED"

(* The correction of the same review, bound to the entry its decision created. *)
CorrectsOwn(w) == Len(audit) = workers[w].occ + 1

Correct(w) ==
  /\ Is(w, "correct")
  /\ Finish(w, "APPLIED")
  /\ \/ /\ CorrectsOwn(w)
        /\ Commit([Now EXCEPT !.corrected = TRUE], "ISSUE_CORRECTION_PACKET", principal[w], None)
        /\ RunOnly
     \/ WorkerOnly

(* #haltAt: if the run has left the occurrence, nothing is stopped. *)
HaltKinds(w) ==
  CASE workers[w].why \in {"conflict", "authority_refused"} -> {"ARCHITECTURE_STOP"}
    [] workers[w].why = "unusable" ->
         {IF IsReview(workers[w].occ) THEN "ARCHITECTURE_STOP" ELSE "HUMAN_STOP"}
    [] workers[w].why = "reported" ->
         IF IsReview(workers[w].occ) THEN Stops \ {"SOFT_STOP"} ELSE Stops
    [] OTHER -> {"HUMAN_STOP"}

HaltAt(w) ==
  /\ Is(w, "halt")
  /\ \/ Left(w)
     \/ /\ AtOccurrence(w)
        /\ \E kind \in HaltKinds(w) : Commit(Stopped(kind), "STOP", "runner", workers[w].why)
        /\ Finish(w, "APPLIED")
        /\ RunOnly

-----------------------------------------------------------------------------
(* Failures *)

JournalWrites == {"settle", "prepare_entered", "prepare", "start", "abandon", "complete",
                  "uncertain", "finish"}
RunWrites == {"choose", "halt"}

(* The step rejects; #take has consumed the ownership before anything can fail. *)
Rejects(w) ==
  workers' = [workers EXCEPT ![w] = Idle(IF Chooses(w, ActorStates) THEN 0 ELSE @.owned)]

(* A process dies at any point; the write it was in may leave its lock. *)
Crash(w) ==
  /\ Fault
  /\ ~Is(w, "idle") \/ workers[w].owned # 0
  /\ workers' = [workers EXCEPT ![w] = Idle(0)]
  /\ leftover' \in {leftover, leftover \cup {"run"}, leftover \cup {"journal"}}
  /\ UNCHANGED <<journal, audit, ghosts>>

(* A write fails: an I/O error, or its lock held elsewhere just then.  When the fstat or  *)
(* the release of the lock is what fails, the lock stays.  (A write that took effect and  *)
(* throws is a Crash after it: only a run without a journal asks what was owned, and a    *)
(* choice has consumed that.)                                                             *)
Throw(w) ==
  /\ Fault
  /\ \/ workers[w].at \in JournalWrites /\ leftover' \in {leftover, leftover \cup {"journal"}}
     \/ workers[w].at \in RunWrites /\ leftover' \in {leftover, leftover \cup {"run"}}
  /\ Rejects(w)
  /\ UNCHANGED <<journal, audit, ghosts>>

(* While a lock is left over, every write under it fails. *)
LockedOut(w) ==
  /\ \/ "journal" \in leftover /\ workers[w].at \in JournalWrites
     \/ "run" \in leftover /\ workers[w].at \in RunWrites
  /\ Rejects(w)
  /\ WorkerOnly

HumanClearsLock ==
  /\ \E lock \in leftover : leftover' = leftover \ {lock}
  /\ UNCHANGED <<live, journal, audit, workers, ghosts, faults>>

-----------------------------------------------------------------------------
(* The other writers of the run: people, the architect, other tools *)

OtherEntry(run, action) ==
  Commit(run, action, "other", None) /\ UNCHANGED workers /\ RunOnly

OtherStops == Now.state \in Active /\ \E kind \in Stops : OtherEntry(Stopped(kind), "STOP")

Resumes ==
  /\ Now.state \in {"SOFT_STOP", "HUMAN_STOP"}
  /\ OtherEntry([Now EXCEPT !.state = Now.interrupted, !.interrupted = None,
                            !.recheck = @ \/ Now.state = "HUMAN_STOP"], "RESUME")

(* resumeSoft with the budget or the time of the iteration used up. *)
Exhausts ==
  /\ Now.state = "SOFT_STOP" /\ Now.interrupted \in {"IMPLEMENTING", "PACKET_READY"}
  /\ OtherEntry([Now EXCEPT !.state = "HUMAN_STOP"], "BUDGET_EXHAUSTED")

Rechecks == Now.state \in Active /\ Now.recheck /\ OtherEntry([Now EXCEPT !.recheck = FALSE], "RECHECK")

Returns ==
  /\ Now.state = "ARCHITECTURE_STOP"
  /\ OtherEntry([Now EXCEPT !.state = "ARCHITECTURE", !.interrupted = None], "RETURN")

Issues ==
  /\ Now.state = "ARCHITECTURE"
  /\ \E packet \in Packets :
       /\ packet > Now.packet
       /\ OtherEntry([Now EXCEPT !.state = "PACKET_READY", !.packet = packet, !.corrected = FALSE],
                     "ISSUE_PACKET")

Corrects ==
  /\ Now.state = "CORRECTION_REQUIRED" /\ ~Now.corrected /\ ~Now.recheck
  /\ OtherEntry([Now EXCEPT !.corrected = TRUE], "ISSUE_CORRECTION_PACKET")

(* Someone else reports or decides in the runner's place; a halt of theirs is in OtherStops. *)
OtherResult ==
  /\ ~Now.recheck
  /\ \/ /\ Now.state = "IMPLEMENTING"
        /\ OtherEntry(To("IMPLEMENTATION_COMPLETE"), "REPORT_IMPLEMENTATION_COMPLETE")
     \/ Now.state = "ACCEPTANCE_REVIEW" /\ OtherEntry(To("ACCEPTED"), "ACCEPT_EXACT_SHA")
     \/ /\ Now.state = "ACCEPTANCE_REVIEW"
        /\ OtherEntry([Now EXCEPT !.state = "CORRECTION_REQUIRED", !.corrected = FALSE],
                      "REJECT_EXACT_SHA")

FailsClosed == Now.state # "FAILED_CLOSED" /\ OtherEntry(To("FAILED_CLOSED"), "FAIL_CLOSED")

Others ==
  \/ OtherStops \/ Resumes \/ Exhausts \/ Rechecks \/ Returns
  \/ Issues \/ Corrects \/ OtherResult \/ FailsClosed

-----------------------------------------------------------------------------

(* A runner may find the run with its packet issued, or its remote SHA recorded by hand. *)
Found(state, action) ==
  <<[action |-> action, by |-> "other", why |-> None,
     run |-> [state |-> state, interrupted |-> None, packet |-> CHOOSE p \in Packets : \A q \in Packets : p <= q,
              recheck |-> FALSE, corrected |-> FALSE]]>>

Init ==
  /\ live \in Modes
  /\ JournalInit
  /\ audit \in {Found("PACKET_READY", "ISSUE_PACKET"), Found("REMOTE_SHA_READY", "RECORD_REMOTE_SHA")}
  /\ workers = [w \in Runners |-> Idle(0)]
  /\ leftover = {}
  /\ calls = [s \in Occurrences |-> 0]
  /\ preserved = {}
  /\ faults = 0

StepOf(w) ==
  \/ Read(w) \/ List(w) \/ SettleListed(w) \/ Wait(w)
  \/ EnterImplementation(w) \/ RecordRemoteSha(w) \/ EnterReview(w) \/ EnterRefused(w) \/ Entered(w)
  \/ PrepareCall(w) \/ NotGranted(w)
  \/ ActWithoutJournal(w) \/ Act(w)
  \/ Authorized(w) \/ Denied(w) \/ StillThere(w) \/ LeftBeforeDispatch(w)
  \/ StartCall(w) \/ Claimed(w) \/ OverBudget(w) \/ Abandon(w)
  \/ CallActor(w) \/ ActorAnswers(w) \/ NoResult(w) \/ CompleteCall(w) \/ MarkUncertain(w)
  \/ Unapplied(w) \/ CompleteImplementation(w) \/ ReviewReturned(w) \/ Preserve(w) \/ Decide(w)
  \/ HaltExhausted(w) \/ HaltExhaustedRefused(w) \/ Correct(w) \/ HaltAt(w) \/ FinishStep(w)
  \/ LockedOut(w)

Next ==
  \/ \E w \in Runners : StepOf(w) \/ NotPreserved(w) \/ Crash(w) \/ Throw(w)
  \/ HumanClearsLock
  \/ Others

Spec == Init /\ [][Next]_vars

(* Each process keeps stepping, and an actor call ends (adapters have a time limit). *)
FairSpec == Spec /\ \A w \in Runners : WF_vars(StepOf(w))

-----------------------------------------------------------------------------
(* Properties *)

(* Every variable keeps to its type. *)
TypeOK ==
  /\ JournalTypeOK
  /\ \A s \in DOMAIN audit :
       /\ audit[s].run \in Run
       /\ audit[s].by \in Architects \cup {"implementer", "runner", "controller", "other"}
  /\ \A w \in Runners :
       /\ {workers[w].read, workers[w].occ, workers[w].owned} \subseteq 0..Len(audit)
       /\ workers[w].outcome \in Outcomes \cup {None}
       /\ workers[w].verdict \in {"APPLIED", "ABANDONED", None}
  /\ leftover \subseteq {"run", "journal"}
  /\ calls \in [Occurrences -> Nat]
  /\ preserved \subseteq DOMAIN audit
  /\ faults \in 0..MaxFaults

(* However many runners drive a run, crash and restart, the actor is called *)
(* at most once for an occurrence (runner.ts: "not replayed"), and with a   *)
(* journal never without a durable STARTED.                                 *)
OneCallPerOccurrence ==
  \A s \in Occurrences :
    /\ calls[s] <= 1
    /\ live /\ calls[s] > 0 => journal[s] # None /\ journal[s].started

(* The entry after s, when it applies a result of s. *)
AppliedAt(s) == s + 1 \in DOMAIN audit /\ AppliesResult(audit[s + 1], s)

(* A record is final as APPLIED only if the trail holds its application.    *)
AppliedOnlyIfApplied ==
  \A s \in Occurrences : journal[s] # None /\ journal[s].state = "APPLIED" => AppliedAt(s)

(* In the live composition nothing a call returned reaches the run before   *)
(* its result is durable in the journal, even if the record is later        *)
(* settled by another runner.                                               *)
DurableBeforeApplied ==
  live => \A s \in DOMAIN audit :
            AppliedAt(s) /\ audit[s + 1].by # "other" =>
              journal[s] # None /\ journal[s].result # None

Decisions == {"ACCEPT_EXACT_SHA", "REJECT_EXACT_SHA"}
DecidedByRunner(k) == audit[k].action \in Decisions /\ audit[k].by \in Architects

(* G1-AP1: a review decision a runner records was in the authority archive  *)
(* first.                                                                   *)
AuthorityPrecedesReview ==
  live => \A k \in DOMAIN audit : DecidedByRunner(k) => k - 1 \in preserved

(* G1-RP1-C1: a review is decided under the principal that began it.        *)
ReviewKeepsItsPrincipal ==
  \A k \in DOMAIN audit :
    DecidedByRunner(k) => /\ audit[k - 1].action = "BEGIN_REMOTE_ACCEPTANCE"
                          /\ audit[k - 1].by = audit[k].by

(* A correction a runner issues answers the rejection of the same review,   *)
(* never a later one.                                                       *)
CorrectionAnswersOwnReview ==
  \A k \in DOMAIN audit :
    audit[k].action = "ISSUE_CORRECTION_PACKET" /\ audit[k].by \in Architects =>
      audit[k - 1].action = "REJECT_EXACT_SHA" /\ audit[k - 1].by = audit[k].by

(* A run in an actor state that waits for no human recheck does not stay    *)
(* there: some runner applies a result or stops it, crashes and lost races  *)
(* included, unless a crash left a lock for a human.                        *)
OccurrenceEventuallyLeft ==
  \A s \in Occurrences :
    Len(audit) = s /\ Now.state \in ActorStates /\ ~Now.recheck /\ s + 1 \in Occurrences
      ~> Len(audit) > s \/ leftover # {}

(* A record of an occurrence the run has left is eventually final.          *)
LeftRecordsSettled ==
  \A s \in Occurrences :
    journal[s] # None /\ Len(audit) > s
      ~> (journal[s] # None /\ journal[s].state \in Final) \/ leftover # {}

=============================================================================
