# Verification of the governed automation core

TLA+ models of this repository, the TLC runs that check them, and the theorems
TLAPS proves of them. The paths below are relative to `src/src/` unless they say
otherwise; `PROJECT.json` maps each definition to the lines it stands for.

The program is a TypeScript system with three parts that share little state:

- **governed automation** (`automation/`): runs of a governed change, each a state
  machine of 17 states kept in one file, moved by a controller, driven by a runner
  that calls two external actors (an implementation agent and an architect review);
- **deliberation and review records** (`stress-test/`, `consultation/`, `context/`):
  an append-only record of a pre-submission review, reduced from events;
- **multi-model orchestration and workspace** (`modes/`, `agents/`, `execution/`,
  `workspace/`, `intake/`): task graphs over model providers, and the goal store a
  person works with.

Modelled are: the first part end to end (who may move a run, in what order its
evidence is collected, what a crash leaves, how many times an external actor is
called, and from what authority), with one live model call under its broker and
process; the deliberation ledger and the execution of its routes; and the goal queue
with the two bridges that turn a goal into a governed change and its run.

## 1. Inventory

### Components, their state and their operations

| Component | State it keeps | Operations that change it | Interacts with |
|---|---|---|---|
| Lifecycle (`automation/lifecycle.ts`) | none: a relation between two `ControllerRun`s | `assertTransition`, `assertRunInvariants`, `assertFreshRun` | called by the controller before each commit and by the store during it |
| Controller (`automation/controller.ts`) | none of its own; every method reads the stored run, builds the next, commits it | one commit per public method, two in `decideAcceptance` and `reconcile` | run store, GitHub reality port, clock |
| Run store and admission (`durable-store.ts`, `admission.ts`) | run files, one claim per change, lock files | open, `create`, `replace` | the file system, shared with other processes |
| Runner (`runner.ts`, `bridge.ts`) | the occurrences this process owns (memory only) | `step`, `drive` | controller, invocation journal, the two actors, the authority sink |
| Invocation journal (`file-invocation-journal.ts`) | one record per actor call | `prepare`, `start`, `complete`, `markUncertain`, `abandon`, `markApplied` | one lock, shared by every runner |
| Governed execution driver (`execution-driver.ts`, `live/governed-execution.ts`) | none; reads gates, then steps the runner at an expected position | `drive` | read model, runner |
| Activation (`activation-core.ts`, `root-run-admitter.ts`) | none; two source reads that must agree | activate, continue, admit a ROOT run | read model, authority preserver, controller, run store |
| Authority archive (`automation/authority/`) | write-once versions, one file each | `append`, preserve | the file system |
| Change registry and mint (`change-registry.ts`, `change-mint.ts`) | one write-once record per intent and per change | `mint` | the file system |
| Governed read model (`automation/read-model/`) | none; a projection | none | archive, registry, run store |
| Egress broker and journal (`live/connect-broker.ts`, `file-egress-journal.ts`) | open connections, counters, evidence records | connect, close, record | sockets, file system |
| Live adapters (`live/*`) | primed observations, child processes | run an agent, observe a repository | process executor, `gh` |
| Process executor (`process-executor.ts`) | one child and its timers | `run` | the operating system |
| Workspace goal store and server (`workspace/`) | one queue file per project: the history of its changes | add, reorder, remove | the file system, the registry (before a removal) |
| Goal intake bridges (`intake/`) | none | govern (mint a goal's change), admit (its ROOT run) | goal store, change registry, run store |
| Stress-test session and decision record (`stress-test/session.ts`, `decision-record.ts`) | an append-only record of a review | open, answer, decide | deliberation |
| Deliberation (`stress-test/deliberation.ts`) | questions, routes, revisions, reduced from events | apply an event | consultation, context packs |
| Consultation coordinator (`consultation/`) | requests in flight | request, settle | providers |
| Context packs (`context/`) | none | build and fingerprint | - |
| Orchestration (`modes/`, `agents/`, `models/`) | the wave of a task graph in progress | plan, run a wave, retry, fall back | providers |
| Execution runtime (`execution/`) | reservations and settlements | admit, reserve, settle | executors |
| Providers, MCP server, browser UI | connections, presentation | - | - |

### What is hard, and what correctness is

- *Lifecycle and controller*: long sequences of legal calls. A stop may interrupt
  any state and a resume returns to it, so a verdict, a correction, a grant or a SHA
  can outlive the occurrence it was given for. Correct means: one verdict per
  iteration, budgets held, a correction answers the rejection it names, a human
  grant is spent once and for what it names, no evidence is gained between a human
  resume and the recheck of reality.
- *Run store*: several processes, crashes and power loss between any two file
  operations. Correct means: one ROOT run per change, ever, on the disk too; nothing
  acknowledged is lost; no writer erases another's entry; the store never refuses a
  state it made itself.
- *Runner and journal*: two processes interleave between every read and write of a
  step, while people stop and resume the run; a call cannot be undone. Correct
  means: at most one call per occurrence and within the packet's budget, a result
  stored before it is applied, applied only at its own occurrence and under its own
  principal, preserved in the archive first, and a run that is never stuck in an
  actor state.
- *Archive, mint, activation, driver*: write-once publication against a crash, and
  decisions on state that was read before. Correct means: the controller relies only
  on archived authority, an answer is true when it is given, a model is called only
  for a packet its architect issued, with the grants it asks for in the archive.
- *Broker, process executor*: callbacks, timers and exits in any order. Correct
  means: evidence given as recorded is the whole truth, no tunnel outlives the call,
  every call ends.
- *Goal store and bridges*: operations over two stores, under a lock that a crash
  or a failed release leaves behind. Correct means: no change of the queue is lost, a governed goal is
  never removed, an answer is true.
- *Deliberation*: provider calls in flight while the ledger moves on. Correct means:
  one cycle of a question at a time, a lineage every reader accepts, each result
  recorded once and as it was returned, within the latency reserved for it.
- *Orchestration, execution runtime*: partial failure of a wave, a retry of what
  was done, a reservation never settled.

`PROJECT.json` lists the hazards at their lines. Those with a note have no property
yet; the plan says which module they wait for.

## 2. Modules and what they model

```
Lifecycle <-- Controller <-- MCController           Lifecycle_proofs <-- Controller_proofs
RunRegistry <-- RunStore <-- MCRunStore             RunStore_proofs
InvocationJournal <-- Runner <-- MCRunner           Runner_proofs
Deliberation <-- RouteExecution <-- MCRouteExecution  RouteExecution_proofs
AuthorityArchive <-- GovernedRun <-- MCGovernedRun  GovernedRun_proofs
ModelCall                                           ModelCall_proofs
GoalStore <-- Workspace <-- MCWorkspace             Workspace_proofs
              (with an instance of RunRegistry)
```

An arrow points from a module to one it extends or instantiates. Each proof module
extends the module before it on its line (`Controller_proofs` extends Controller and
`Lifecycle_proofs`). Lifecycle,
RunRegistry and InvocationJournal are abstract specifications that Controller,
RunStore and Runner are shown to implement; RouteExecution implements Deliberation's
own `LedgerSpec`.

### Lifecycle

`lifecycle.ts` as a specification: `run` is one `ControllerRun`, and every audit
action the code's `RULES` table allows is an operator over the run before and after
(`Trans` collects them), with the guards of `assertTransition` and the obligations
of `assertRunInvariants`. It is the *abstract* specification of a run: what any
writer that passes the check may do, whatever it computed. The audit trail is kept
as what is read back from it: its length, the grants consumed, the entry of the last
acceptance and rejection, and counts of verdicts. Packets, SHAs, grants and instants
are members of parameter sets.

### Controller

One action per committing public method (several where its outcomes differ, as in
`decideAcceptance` and `reconcile`), and `FinishCall` for the second commit of those
two. Between the two, a crash or another writer may come (`pending` holds what is
still owed). GitHub reads return any well-formed observation. `LifecycleSpec` states
that every write the controller builds is a step of Lifecycle: the guards repeated in
both files agree, and no public method can build a write that its own check throws
away.

### RunStore and RunRegistry

`FileControllerStore`, file operation by file operation: the scan of the claims
and runs on opening, lock, load, the one-ROOT admission (look for a claim, write the
pending file, link, sync), the temp file and rename, the directory sync, unlock.
Each name has what processes see and what is on the disk; an fsync returns once both
agree, a power loss leaves the second. Any file operation may fail, any process may
die at any step. A lock outlives its call when the process dies, when the fstat after
the exclusive open fails, or when the release does (close, owner check or unlink),
which also throws away the result of a finished call; from then on `orphans` has it,
and only a person removes it. `RunRegistry` is the abstract specification:
`root` and `stored` that only ever grow. `RegistrySpec` is the refinement, of the
*disk*: through crashes and power loss, what would be found is a registry.

### InvocationJournal

One record per occurrence: its state, whether it ever started, its packet and its
stored result. Every operation holds the one journal lock and is one step. The
budget of `start` counts calls that ever started.

### Runner

`AutomationRunner`: each process (`Runners`) goes through a step position by
position: read the run, list and settle the journal, choose, enter or prepare, gate,
check the occurrence, start, call, complete, preserve, decide, correct, halt, settle
the record. Each controller call and each journal operation is one step; between any
two, others move. The run is its audit trail and an entry's position identifies it,
so an occurrence guard is `Len(audit) = occ`: the code compares sequence, action and
timestamp of an append-only trail, which is the same. What the controller decides on
grounds a runner cannot see (budgets, clocks, a moved branch) is a free choice here;
Controller has the grounds. `Others` are the people, the architect and other tools.
`live` says whether the run is driven with an invocation journal and an archive, or
in the composition without them; `Modes` is the set of compositions a run may have.

`Crash` kills a process anywhere and may leave the lock of the write it was in;
`Throw` makes a write fail; `LockedOut` makes every write fail while a lock is left,
until a person clears it (the code never removes a lock it did not create).

### Deliberation and RouteExecution

`deliberation.ts` as a ledger: questions, decisions, attempts, outcomes, dispositions,
and two budgets. Every operation takes a state and returns the next, so it is one
action. Planning a route writes nothing: a caller holds the decision and may present
it after the ledger has moved on, which is how stale decisions come. A terminal
disposition closes a question; SUPERSEDED_RECLASSIFIED registers its replacement in
the same write. The integrity assertions the code runs before its reads are the
invariants here; as they hold, they never refuse a reachable state.

`RouteExecution` adds what `execution-authority.ts` and the checkpoint operations do:
claim an attempt and reserve its latency, keep what the provider returned as a
terminal fact, record it as the outcome, mark it committed. Each runs under
`withCurrentDeliberationState`. The latency that operations without a checkpoint
spend goes through `performCoordinatedLatencyWrite`, which the contract asks of its
callers. A fact over its limit is a DEADLINE_VIOLATION: its reservation is held for
good and no further claim is admitted, by design. The state is in memory, so there is
no crash to recover from.

### AuthorityArchive and GovernedRun

`AuthorityArchive` is `append` file operation by file operation: scan the chain of
the document's key, write and sync a temp file, link it exclusively, sync the
directory. What processes see and what is on the disk are apart, and `LosePower`
leaves the second.

`GovernedRun` is a change from its mint to its reviewed work. A call (`calls[p]`) is
the mint, an activation, a correction, or a driver's step; it goes position by
position, and between any two others act: the other process, an architect with the
controller in hand, people who stop and resume. A read-model answer is of one moment
or an error. Retained acceptances and human grants are `archived` or not, which is
what makes the read model DETERMINATE or not. As the body of a correction may be
archived in two versions, an exact retry can meet two records and is refused; it
fails closed. The run here has the states up to ACCEPTED; promotion is in
Controller, the journal in Runner, the files of the ROOT admission in RunStore.

### ModelCall

One call of `runModel`: open the egress session, start the broker, probe, spawn, wait,
close. The broker's connections (accepted, over the limit, reading a head, dialling,
tunnelling), the process tree (a leader that may ignore SIGTERM, a helper that may
leave the group or hold the output), the two timers and every journal write, which may
fail before or after it reached the file, are callbacks of one Node process in any
order. `Usable` is `egressRefusal`, what both adapters ask before they use an answer.

### GoalStore and Workspace

`GoalStore` is `FileGoalStore` with its lock: acquire (an exclusive open), load,
replay, build the next file, rename, sync the directory, unlock. The queue is stored
beside its history and always its replay, so the model keeps the history. A left lock
is never removed by the code; `ClearLock` is a person. `Procs` are the requests under
way, in one process or in several.

`Workspace` adds the removal's check of the registry, `govern` (mint by link and
sync) and `admit` (claim, create, or observe the run another made), all under the lock
of the goal, and the other writers of the controller's store. That store is an
instance of RunRegistry: what RunStore is shown to implement is what is assumed here.
Lookups only read. A refusal on grounds fixed with the request (who submitted the
goal, which repository is configured, whether the roots are isolated) is a free choice.

## 3. Runs

All bounds are in the guards or in the sets of the `.cfg`; no run uses a constraint.
Deadlock is not checked where the system stops: a closed or failed run, a full audit
trail, a ledger whose questions are closed, a run whose authority cannot be resolved.

| Run | Question | Bounds | States |
|---|---|---|---|
| `controller_correction` | From packet to promotion, with a rejection, a correction, stops and resumes: OneVerdictPerIteration, CorrectionAnswersLastRejection, PromotionGrantFollowsAcceptance, GrantsSpentOnce, the refinement LifecycleSpec, RecheckPrecedesEvidence | 18 entries less two per stop, 2 stops, two packets with limits of 3 and of 2, 3 instants, 2 grants | 524,857 |
| `controller_failure_budget` | finding 1 | 18 entries less two per stop, 1 stop, one packet of 3 iterations and 2 failures | |
| `run_store` | Two processes, two changes, two runs, crashes and power loss: OneRootPerChange, NeverRefusesItself, AcknowledgedSurvives, LocksAccounted, NoLostUpdate, the refinement RegistrySpec | 2 entries per trail | 652,512 |
| `runner_live` | Two runners of different principals, with journal and archive and without: TypeOK, OneCallPerOccurrence, AppliedOnlyIfApplied, DurableBeforeApplied, AuthorityPrecedesReview, ReviewKeepsItsPrincipal, CorrectionAnswersOwnReview, the refinement JournalSpec | trail of 5, budget of 1 call, 1 fault, 2 packets | 1,663,523 |
| `runner_progress` | Two live runners under fairness: OccurrenceEventuallyLeft, LeftRecordsSettled | trail of 3, 1 fault | 189,344 |
| `deliberation` | Routes decided, executed, answered late, closed and replaced: TypeOK (with both budgets), OneActiveCycle, LineageSound, ReviewersCountedOnce, LatencyCovered, ClaimsStayRecordable, OutcomeIsTheFact | 2 questions, 2 decisions, 1 reviewer, latencies 1 and 2, cost ceiling 1 or 2, latency ceiling 3 | 426,528 |
| `deliberation_replacement` | finding 2 | the same | |
| `governed_run` | Two processes on one change: TypeOK (with: every archived chain replays), ReportsAreTrue, CallsRestOnAuthority, EvidencePrecedesReliance | 9 entries, 1 stop, 2 architects, 2 packets, 3 corrections, 2 grants | 1,485,425 |
| `publication_durability` | finding 3 | the same with power loss, 2 entries, no stop | |
| `governed_step_position` | finding 4 | that of `governed_run` | |
| `model_call` | One call with two connections for one slot: EvidenceIsComplete, NoTunnelOutlivesCall, CallReturns | 2 connections, limit 1, one helper | 196,404 |
| `workspace` | Two requests on one queue: AnswersAreTrue, HistoryOnlyGrows, GovernanceKeepsItsSource, RequestsEnd | one goal, its run and a foreign one, 3 changes of the queue | 250,162 |

A property that a refinement and a theorem together imply is not checked once more:
IterationsWithinBudget and ResumeGrantNamesOneStop (of Lifecycle, with LifecycleSpec),
DiskIsIndexed (of RunStore, proved), RecordsConsistent and CallBudgetHeld (of
InvocationJournal, with JournalSpec), and the type invariants of Controller,
RunStore, ModelCall and Workspace.

Why the bounds are enough to meet the interesting cases:

- 18 entries without a stop hold two rejections, each with its correction, and the
  implementation begun on the second: a packet of limit 3 leaves room for it, so the
  first rejection's correction is there to be taken for the second's. 16 entries with
  a stop hold an acceptance given up for a new packet (architecture stop, return) and a
  second acceptance of the same SHA with its promotion; 14 with two stops hold a resume
  after a resume. Each property is about two occurrences of one kind, and two fit. The
  second packet's limit of 2 lets the limit drop while the counter stays, and three
  instants tell "issued before the acceptance" from after.
- Two changes and two runs are the least in which one run may be claimed for two
  changes and one change by two runs; two processes are the least that race, and
  each may crash and reopen any number of times.
- A trail of 5 from a packet ready, or of 5 from a recorded SHA, reaches both
  actors' calls, and a review, its rejection, its correction and the next call of
  the same packet (over a budget of 1). Both starting points are states the runner
  finds. A trail of 3 has one whole actor occurrence and its end, which is what the
  liveness properties are about.
- Two questions and two decisions: a decision kept while the other closes the
  question, a replacement and what it replaces, two calls in flight that share one
  latency budget, one reviewer run claimed by both. Latencies of 1 and 2 against a
  limit of 2 and a ceiling of 3 let one call fit, two not, and a call overrun.
- 9 entries hold enter, issue, implementation, its end, SHA, review, rejection,
  correction and the implementation begun on it, so that a model is called under a
  correction; a stop with its resume takes the place of the last two. Two architects
  are the least in which a packet can be another's; three corrections are one body in
  two versions, and another body of the same id. A second rejection does not fit and
  is left to `controller_correction`.
- Two connections for one slot reach the limit; one helper reaches a group that
  outlives its leader.
- The hazards of the queue concern one goal: a removal against a mint, a writer
  against a writer, an admission against a foreign run. More goals, runs and longer
  histories are in the proofs.

The runs with a symmetry set check no liveness. In `runner_live` the two runners may
be exchanged only together with their principals; in `deliberation` the questions, in
`governed_run` the processes, may be exchanged freely. `governed_run` has a VIEW
without the two disk variables, which no step reads unless the power fails.

**Fairness.** Three runs assume any, all of it weak:

- `runner_progress`: each runner's steps. A deployment calls `drive` or `step` again
  and again, and inside a step every operation is a synchronous file operation except
  the actor call, whose adapters run it under a time limit (`process-executor.ts`).
  Nothing is assumed of crashes, of other writers, or of a person clearing a left
  lock: the properties say "or a lock was left", and exclude an occurrence that waits
  for a human recheck.
- `model_call`: the call's own next step, the timeout and the hard kill: the event
  loop runs what it has to and timers fire. Nothing is assumed of the model process,
  its helpers, clients or dials. `CallReturns` excepts a helper that left the process
  group and keeps the output open, which nothing in the code can end.
- `workspace`: each request under way goes on. It is synchronous file operations that
  return, and one wait for the lock with a deadline of two seconds
  (`goal-store.ts`). A left lock may stay for ever.

## 4. Findings

1. `controller_failure_budget`: the rejection that exhausts the failure budget and
   its HUMAN_STOP are two commits (`controller.ts:284-286`). If the second is lost,
   the run goes on implementing after a correction: `beginImplementation` checks the
   iteration budget only. The contract says exhaustion yields HUMAN_STOP. The same
   pair has a second consequence: when another writer makes the second commit stale,
   the runner's `#attempt` (`runner.ts:589-596`) answers `moved`, "nothing was
   recorded", and the record is settled ABANDONED although the rejection is in the
   run. AppliedOnlyIfApplied holds all the same: the journal errs in one direction.
2. `deliberation_replacement`: the replacement of a reclassified question skips the
   check that a question about a conflict names two sides, which registration makes
   and the contract keeps for every registered question. Such a question is current
   and can never be planned.
3. `publication_durability`: a version that is already linked is answered as archived
   without a sync; if the writer that linked it had not synced it either, a power
   loss takes it, and the run stays bound to a packet the archive does not hold.
4. `governed_step_position`: the runner checks the gated position on the read it
   begins with; three controller writes of the step read the run again and take no
   position. A stop and a soft resume in between leave the same state at another
   position, which nobody gated.

Observed while modelling, with no run of its own:

- `#settleJournal` (`runner.ts:513-515`) takes the journal as it is now and the run
  as it was read, so a second runner may settle the record of the occurrence the run
  is at; the result is discarded and the run stopped for a human. It happens in
  `runner_live`, and no safety property breaks.
- `process-executor.ts` says the timeout terminates the whole tree, but `finish` on
  `close` clears the hard kill: a group member that let go of the output and ignores
  SIGTERM outlives a TIMED_OUT result.
- A mint linked but not synced is answered GOVERNED on a retry without a sync; a power
  loss then lets the goal be removed. A queue rename whose directory sync failed can
  be lost after its goal was governed. Finding 3 is the same omission in the archive.

## 5. Proofs

TLAPS checks every theorem and lemma down to its leaves, for every value of the
constants that satisfies the named assumptions of the modules. Each module's theorems
rest on one inductive invariant, because the properties are not inductive one by one.

**`Lifecycle_proofs`** (`LifecycleSpec`, any length of the trail): `VerdictsCorrect`,
`BudgetCorrect`, `CorrectionCorrect`, `PromotionCorrect`, `GrantsCorrect`, `ResumeCorrect`, `RecheckCorrect`. The invariant `Inductive` is

- `RunInvariants(run)`, the obligations the code itself asserts: without them the
  fields a state requires are unknown when a stop is resumed;
- `VerdictsCounted`: verdicts against iterations, in every state, so that a new
  iteration is known to be unjudged;
- `RejectedEarlier`: a recorded rejection belongs to the packet in force or to an
  earlier version, so issuing a packet cannot make an old rejection current;
- `GrantsCounted`: the consumed grants are finitely many (their number can grow by
  one) and as many as spent;
- `ResumedEarlier`: the last resume grant names a stop before the present end of the
  trail, so a new stop's id is different;
- the properties themselves.

`RecheckCorrect` is an action property, proved from the same invariant action by
action. Each action has a step of its own, with one step per conjunct it can disturb.

**`Controller_proofs`** (any packets, SHAs, grants and instants, any answers of
GitHub): `ControllerImplementsLifecycle`, `SecondWriteIsLegalAtOnce`,
`ControllerKeepsTheLifecycle`. The controller and the lifecycle check repeat each
other's rules in different forms, so the refinement says that they agree: no method
builds a run that `assertTransition` refuses. The argument has three layers:

- `Readable`, what a method may rely on of the run it reads: the lifecycle's
  invariant, that a stop inside an iteration keeps the iteration's start (`Begun`;
  without it a resumed IMPLEMENTING run could lack what its state requires), and that
  a run without entries is as it was created (`Untouched`; so binding an activation
  intent at the first entry contradicts nothing). It is inductive under the
  lifecycle's own steps.
- `Legal`, once for all methods: a copy of the run with the named fields changed and
  committed with the right role, move, counter and evidence is a `Step` of the
  lifecycle. `MoveLegal` is its form for methods that bring no new evidence (the next
  state asks for nothing the present one did not), `GainLegal` for those that do.
- one lemma per method, with the obligations of its own action.

The second commit of a call is made on a fresh read and may be refused, so in the
refinement `FinishCall` is guarded by the check. `SecondWriteIsLegalAtOnce` says what
this guard does not hide: right after the first commit the second is always legal, and
only another writer in between can spoil it. `ControllerKeepsTheLifecycle` then
carries the lifecycle's theorems to the controller.

**`Runner_proofs`** (any runners and principals, packets, outcomes, length of the
trail, call budget and faults, both compositions). First the journal by itself, under
`JournalSpec`: `BudgetNeverExceeded` (CallBudgetHeld) and `RecordsAlwaysLoad` (types
and RecordsConsistent); the start of a call adds at most one element to a finite set
whose size was below the budget. Then, of the runners: `TypesHold`, `NeverCalledTwice`,
`AppliedIsTrue`, `ResultsAreDurable`, `AuthorityFirst`, `PrincipalKept`,
`CorrectionLandsOnItsReview`, the refinement `JournalProtocolKept`, and from it
`RunnersKeepTheBudget`. No property is inductive by itself, because a runner acts on
what it read several steps ago. `IInv` adds

- what the shared state says of itself (`SharedOK`): the trail's entries against each
  other, records only of entries the trail has, and with a journal calls only behind a
  started record;
- `Fits`, one part per kind of knowledge: what each position of a step may still
  rely on (the entry it works on is its own, the record it would settle has the
  verdict the trail supports, the outcome in its hands is the one it called for);
- `ClaimsOK`: at most one runner can still call the actor for an occurrence, and
  nobody has yet. With a journal this is the runner whose start was the durable one;
  without, the runner that remembers having entered the occurrence.

What makes the proof manageable is `Grows`: trail, records and preserved documents
only grow, so what one runner knows survives every step of the others, and this is
proved once instead of once per pair of actions.

**`RunStore_proofs`** (any processes, changes and runs, through crashes and power
loss): `StoreTypeCorrect`, `RootsCorrect`, `DiskCorrect`, `OpensCorrect`,
`StoredSurvives`, `LocksCorrect`, `UpdatesKept`, and `StoreImplementsRegistry`: the
disk of a store is a RunRegistry. The invariant `StoreInv` adds to the properties that
the disk is never ahead of what processes see (`DiskBehind`), that a run's claim is
on the disk before the run is there (`ClaimedFirst`), that claims are one to one, and
what each call has read. `LocksCorrect` says that a lock is either held by one call or
left over by one that ended, never both: every step moves the locks in one of four ways
(`LockMoves`), each of which keeps that.
Most steps change neither runs nor claims (`QuietStep`) or publish one of them
(`PublishStep`), and the refinement has one case for each.

**`RouteExecution_proofs`** (any questions, decisions, latencies and ceilings):
`ExecutionTypeCorrect`, `CyclesCorrect`, `LineageCorrect`, `ReviewersCorrect`,
`OutcomesCorrect`, `ClaimsCorrect`, `LatencyNeverOverdrawn`, `PaidCallsStayRecordable`,
and `ExecutionImplementsLedger`: a step of the
execution is a step of `LedgerSpec` or leaves the ledger alone. `LedgerInv` is proved
of the ledger first (types, `CycleOrder`: a decision's attempt, outcome and
disposition come in that order, and the three properties), `ExecutionInv` on top of
it. The latency budget has an invariant of its own, `LatencyInv`: the latency spent is
the sum over the outcomes, together with what the calls under way reserved it is
within the ceiling, and a fact that may be recorded took no more than its call had
reserved (`Reserved`; without it recording a fact could overdraw what claiming it had
left room for). The sums run over any finite set of decisions. `SumsKnown` unfolds the
recursive sum by induction on the size of the subsets, stated with a set of naturals in
place of the library's operator parameter, and `SumChanges` says that changing one decision's share changes the sum by
as much; every action changes the share of one decision or of none.

**`GovernedRun_proofs`** (any processes, documents, architects and bounds; without
power loss): `ChainsReplay`, `ArchivedAuthority`, `TrueReports`, `AuthorizedCalls`,
`EvidenceFirst`, from `GovernedChange`. Its invariant `GovernedInv` has a part for the
run (what its entries say of each other), for the archive (versions of a key are
numbered and follow one another), for the registry, and for each call: what it has
archived, and what its last read is still worth.

**`ModelCall_proofs`** (any clients and limit): `CallTypeCorrect`, `EvidenceCorrect`,
`TunnelsCorrect`, from `CallCorrect`. The invariant `CallInv` adds that the session is
this invocation's (`OneSession`), that while the call is up each connection is in the
session as what became of it or the broker has a fault (`ToldWhileUp`), that an answer
RECORDED leaves nothing in flight, and that no dial is under way after the call unless
the broker knows it closes (`NoLateDial`).

**`Workspace_proofs`** (any requests, goals, runs and lengths): `QueueAlwaysReplays`,
`AnswersCorrect`, `ChangesKept`, `SourcesKept`, from `WorkspaceCorrect`. The invariant
`WorkInv` says that only the lock's holder builds on the history (`UnderLock`), what a
request has built (`Built`), that a bridge's goal is in the queue while the bridge
holds the lock (`OnItsGoal`), and that answers stay true; every other step is monotone
in what they mention.

**Assumptions.** Besides the typing of the constants: the Packets, Shas and GrantIds
of a run and the entries built of them do not contain the value that stands for an
absent field (`AbsentAssumption`, the `NoneAssumption`s); the occurrences of a run and
the decisions of a deliberation, which are counted and summed, are finitely many; in
Runner the principals
of reviews are not the names of the other writers, and there is a first packet. TLC
evaluates all of them in the runs.

**Only model-checked**: liveness, which is out of the prover's reach:
OccurrenceEventuallyLeft and LeftRecordsSettled (`runner_progress`), CallReturns
(`model_call`), RequestsEnd (`workspace`). Every safety property of the passing runs,
invariant or action property, and every refinement is proved. The four findings are
counterexamples of TLC.

## 6. Plan

Done: the controller, its lifecycle, store, runner and journal; the governed change;
the deliberation ledger and its execution; the model call; the goal queue and bridges;
the proofs of every safety property the runs check.
What is left, most important first:

| Step | Module | Content | Properties |
|---|---|---|---|
| 1 | proofs across modules | the registry that Workspace assumes is the disk of RunStore; the trail a Runner writes is one a Lifecycle run allows | the refinements, composed |
| 2 | `Orchestration` | planning, the workers of a round in parallel, what their settlements are cut down to, report and policy, the second round, the gate; reservations of the execution runtime | a task is answered once; every reservation is settled; a round's report speaks of its own workers |
| 3 | `Session`, `Consultation` | the append-only record of a review and the requests in flight beside it | no decision over an open blocking question; the record only grows |

## 7. Not modelled, and why

- Text: wording of reasons, schema limits, canonical JSON, hashes. Equality of a
  hash is equality of what it is of.
- Refusal evidence of the admission and temp files: no decision reads them. The
  archive's key directory, whose own mkdir and sync come before the first version.
- The parsing of actors' results: the models have its outcomes (usable, unusable, a
  reported stop).
- The order of goals in the queue, their texts, browser sessions and collaboration
  events: nothing modelled here reads them.
- Pure tables and projections (policy table, read model views, context packs, model
  capabilities), providers, the MCP server and the browser UI: I/O or presentation.
- Components marked `not_modelled` with "planned" in `PROJECT.json`: see the plan.
- More than half of the repository's lines are test programs at its root
  (`test-*.mjs`); they were read as documentation and are not mapped.
