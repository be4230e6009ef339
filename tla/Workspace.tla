------------------------------ MODULE Workspace ------------------------------
(***************************************************************************)
(* The trusted Workspace host: the goal queue (workspace/server.ts over    *)
(* GoalStore) with the two bridges of intake/ that turn a queued goal into *)
(* a governed change (GC1, which mints it) and a change into its ROOT run  *)
(* (RA1, root-run-admitter.ts).  Both work on the goal under the lock of   *)
(* its queue, and a removal asks the registry under that lock.             *)
(*                                                                         *)
(* The change registry publishes one record per goal by an exclusive link  *)
(* and an fsync: minted is what processes see, diskMinted what is durable. *)
(* The controller's store is RunRegistry, which RunStore implements.       *)
(*                                                                         *)
(* Whether the session's human submitted the goal, whether the configured  *)
(* repository is the one of its record and whether the roots are isolated  *)
(* is fixed by the request: a refusal on such grounds is Fails.            *)
(***************************************************************************)
EXTENDS GoalStore

CONSTANTS
  Runs,
  RunOf       \* rootRunIdOf: the one runId RA1 gives a goal's change

ASSUME WorkspaceAssumption ==
  /\ RunOf \in [Goals -> Runs]
  /\ \A g, h \in Goals : RunOf[g] = RunOf[h] => g = h
  /\ None \notin Runs
  /\ \A g \in Goals : None # [change |-> g, audit |-> <<>>]

VARIABLES
  minted,       \* the goals with a record in the change registry
  diskMinted,   \* those whose record is durable
  root,         \* the ROOT run of a goal's change, or None
  stored        \* a run's change and audit trail, or None

registry == <<minted, diskMinted>>
controllerStore == <<root, stored>>
vars == <<queue, calls, registry, controllerStore>>

Controller == INSTANCE RunRegistry WITH Changes <- Goals

Goal(p) == CHOOSE g \in Goals : calls[p].goals = {g}

-----------------------------------------------------------------------------
(* The queue's own requests *)

(* The check of a removal, on the goal its lock holds. *)
MayRemove(p) == calls[p].op = "remove" => calls[p].goals \cap minted = {}

QueueRequest(p) ==
  /\ RequestAdd(p) \/ RequestReorder(p) \/ RequestOn(p, "remove")
  /\ UNCHANGED <<registry, controllerStore>>

QueueStep(p) ==
  /\ \/ Acquire(p) \/ Busy(p) \/ Release(p)
     \/ MayRemove(p) /\ Build(p)
     \/ Rename(p) \/ SyncDirectory(p)
  /\ UNCHANGED <<registry, controllerStore>>

-----------------------------------------------------------------------------
(* withLockedGoal *)

RequestOnGoal(p) ==
  /\ RequestOn(p, "govern") \/ RequestOn(p, "admit")
  /\ UNCHANGED <<registry, controllerStore>>

(* Mutant of Held: the goal is the one the request saw, not read again. *)
HeldAsSeen(p) == calls[p].op \in {"govern", "admit"}

Held(p) == calls[p].op \in {"govern", "admit"} /\ Goal(p) \in Queued(history)

LoadGoal(p) ==
  /\ At(p, "load") /\ Held(p)
  /\ Goto(p, calls[p].op)
  /\ UNCHANGED <<queue, registry, controllerStore>>

-----------------------------------------------------------------------------
(* GC1: mint *)

(* The record is there, read before or found by the link. *)
AlreadyMinted(p) ==
  /\ At(p, "govern") /\ Goal(p) \in minted
  /\ Answer(p, "governed")
  /\ UNCHANGED <<queue, registry, controllerStore>>

Mint(p) ==
  /\ At(p, "govern") /\ Goal(p) \notin minted
  /\ minted' = minted \cup {Goal(p)}
  /\ Goto(p, "sync_mint")
  /\ UNCHANGED <<queue, diskMinted, controllerStore>>

SyncMint(p) ==
  /\ At(p, "sync_mint")
  /\ diskMinted' = minted
  /\ Answer(p, "governed")
  /\ UNCHANGED <<queue, minted, controllerStore>>

-----------------------------------------------------------------------------
(* RA1: admit *)

Fresh(r, g) == stored[r] = [change |-> g, audit |-> <<>>]

Governed(p) == Goal(p) \in minted

(* The run is there and untouched: nothing to create. *)
AlreadyAdmitted(p) ==
  /\ At(p, "admit") /\ Governed(p)
  /\ root[Goal(p)] = RunOf[Goal(p)]
  /\ Fresh(RunOf[Goal(p)], Goal(p))
  /\ Answer(p, "admitted")
  /\ UNCHANGED <<queue, registry, controllerStore>>

(* No run yet, and no claim but of this very run. *)
StartAdmission(p) ==
  /\ At(p, "admit") /\ Governed(p)
  /\ root[Goal(p)] \in {None, RunOf[Goal(p)]}
  /\ stored[RunOf[Goal(p)]] = None
  /\ Goto(p, IF root[Goal(p)] = None THEN "claim" ELSE "create")
  /\ UNCHANGED <<queue, registry, controllerStore>>

Claim(p) ==
  /\ At(p, "claim")
  /\ Controller!Admit(Goal(p), RunOf[Goal(p)])
  /\ Goto(p, "create")
  /\ UNCHANGED <<queue, registry>>

CreateRun(p) ==
  /\ At(p, "create") /\ root[Goal(p)] = RunOf[Goal(p)]
  /\ stored' = [stored EXCEPT ![RunOf[Goal(p)]] = [change |-> Goal(p), audit |-> <<>>]]
  /\ Controller!Create(RunOf[Goal(p)])
  /\ Goto(p, "observe")
  /\ UNCHANGED <<queue, registry>>

(* createRun throws, before or after it wrote. *)
CreateThrows(p) ==
  /\ calls[p].at \in {"claim", "create"}
  /\ Goto(p, "observe")
  /\ UNCHANGED <<queue, registry, controllerStore>>

(* Whatever happened, storage decides. *)
Observe(p) ==
  /\ At(p, "observe")
  /\ root[Goal(p)] = RunOf[Goal(p)] /\ Fresh(RunOf[Goal(p)], Goal(p))
  /\ Answer(p, "admitted")
  /\ UNCHANGED <<queue, registry, controllerStore>>

-----------------------------------------------------------------------------
(* Everyone else on the controller's store: another tool admits a run of    *)
(* its own for the change, and whoever holds the controller moves a run.    *)

OthersAdmit ==
  /\ \E g \in Goals, r \in Runs : (\A h \in Goals : RunOf[h] # r) /\ Controller!Admit(g, r)
  /\ UNCHANGED <<queue, calls, registry>>

OthersAdvance ==
  /\ \E r \in Runs :
       /\ stored[r] # None /\ stored[r].audit = <<>>
       /\ stored' = [stored EXCEPT ![r].audit = <<"PACKET_ISSUED">>]
       /\ Controller!Advance(r)
  /\ UNCHANGED <<queue, calls, registry>>

-----------------------------------------------------------------------------

Init ==
  /\ history = <<>> /\ synced = 0 /\ lock = None
  /\ calls = [p \in Procs |-> NoCall]
  /\ minted = {} /\ diskMinted = {}
  /\ Controller!Init

GoalStep(p) ==
  \/ LoadGoal(p) \/ AlreadyMinted(p) \/ Mint(p) \/ SyncMint(p)
  \/ AlreadyAdmitted(p) \/ StartAdmission(p) \/ Claim(p) \/ CreateRun(p) \/ Observe(p)

(* A step refuses the request or fails, after the lock was taken. *)
GoalFails(p) ==
  /\ calls[p].at \in {"govern", "sync_mint", "admit", "observe"}
  /\ Refuse(p, "release")
  /\ UNCHANGED queue

Refuses(p) ==
  /\ Fails(p) \/ GoalFails(p) \/ ReleaseFails(p)
  /\ UNCHANGED <<registry, controllerStore>>

Dies(p) ==
  /\ OpenFails(p) \/ Crash(p)
  /\ UNCHANGED <<registry, controllerStore>>

PersonClears == ClearLock /\ UNCHANGED <<registry, controllerStore>>

PowerLoss ==
  /\ LosePower
  /\ \E kept \in SUBSET (minted \ diskMinted) :
       minted' = diskMinted \cup kept /\ diskMinted' = minted'
  /\ UNCHANGED controllerStore

Next ==
  \/ \E p \in Procs : \/ QueueRequest(p) \/ RequestOnGoal(p)
                      \/ QueueStep(p) \/ GoalStep(p)
                      \/ CreateThrows(p) \/ Refuses(p) \/ Dies(p)
  \/ OthersAdmit \/ OthersAdvance
  \/ PersonClears \/ PowerLoss

Spec == Init /\ [][Next]_vars

(* A request is synchronous file operations, each of which returns, and one *)
(* wait with a deadline.                                                    *)
Serves(p) == QueueStep(p) \/ GoalStep(p) \/ CreateThrows(p) \/ Refuses(p)

FairSpec == Spec /\ \A p \in Procs : WF_vars(Serves(p))

-----------------------------------------------------------------------------
(* Properties *)

CallType == [at: {"none", "acquire", "load", "rename", "sync", "govern", "sync_mint", "admit",
                  "claim", "create", "observe", "release"},
             op: Changes \cup {"none", "govern", "admit"}, goals: SUBSET Goals,
             expected: Nat \cup {None}, next: Seq(Events),
             result: {"none", "changed", "governed", "admitted"}]

(* Everything has its type, and the queue file always passes the replay     *)
(* that every load demands of it (validateQueue).                           *)
TypeOK ==
  /\ history \in Seq(Events) /\ synced \in 0 .. Len(history) /\ Len(history) <= MaxHistory
  /\ \A i \in DOMAIN history : Replays(SubSeq(history, 1, i - 1), history[i])
  /\ lock \in Procs \cup {"left", None}
  /\ calls \in [Procs -> CallType]
  /\ diskMinted \subseteq minted /\ minted \subseteq Goals
  /\ root \in [Goals -> Runs \cup {None}]
  /\ \A r \in Runs : stored[r] # None => stored[r].change \in Goals

(* What a request answered is true, and a change of the queue stays true    *)
(* through every later crash and power loss: its events are durable         *)
(* (goal-store.ts #write, goal-change-bridge.ts govern,                     *)
(* goal-run-admission-bridge.ts admit).                                     *)
AnswersAreTrue ==
  \A p \in Procs :
    LET call == calls[p] IN
    /\ call.result = "changed" => /\ Len(call.next) <= synced
                                  /\ SubSeq(history, 1, Len(call.next)) = call.next
    /\ call.result \in {"governed", "admitted"} => call.goals \subseteq minted \cap Queued(history)
    /\ call.result = "admitted" => /\ root[Goal(p)] = RunOf[Goal(p)]
                                   /\ stored[RunOf[Goal(p)]] # None
                                   /\ stored[RunOf[Goal(p)]].change = Goal(p)

(* No change of the queue is lost to another writer, whoever crashes,       *)
(* whichever error is answered: while the power holds the history only      *)
(* grows, by one event at a time (FileGoalStore.#append).                   *)
HistoryOnlyGrows ==
  [][\/ PowerLoss
     \/ history' = history
     \/ Len(history') = Len(history) + 1 /\ IsPrefix(history, history')]_vars

(* A change is minted only for a goal that is in the queue, a run is        *)
(* admitted only for a goal in the queue and minted, and a goal that is     *)
(* governed is never removed: if removal wins, nothing is minted; if        *)
(* governance wins, nothing is removed (server.ts DELETE, the two bridges). *)
GovernanceKeepsItsSource ==
  [][\/ PowerLoss
     \/ \A g \in Goals :
          /\ g \in minted' \ minted => g \in Queued(history)
          /\ g \in minted \cap Queued(history) => g \in Queued(history')
          /\ root'[g] # root[g] /\ root'[g] = RunOf[g] => g \in minted \cap Queued(history)]_vars

(* Every request ends, even at a lock its writer abandoned: the wait is     *)
(* bounded (withLockedGoal), the lock is not repaired.                      *)
RequestsEnd == \A p \in Procs : ~At(p, "none") ~> At(p, "none")

=============================================================================
