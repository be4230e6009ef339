------------------------------ MODULE GoalStore ------------------------------
(***************************************************************************)
(* The goal queue of one Workspace project: FileGoalStore of               *)
(* workspace/goal-store.ts, file operation by file operation, shared by    *)
(* the requests of one process or of several.                              *)
(*                                                                         *)
(* The queue file holds the history of the queue's changes.  The queue     *)
(* itself is stored beside it and is always its replay, so the model keeps *)
(* the history alone.  A change is one new file, renamed over the old one  *)
(* under a lock file: history is what processes read, and its first synced *)
(* events are on the disk.  The order of the queue is left out: a reorder  *)
(* names the goals it orders.                                              *)
(*                                                                         *)
(* Any file operation may fail and any process may crash.  A lock that is  *)
(* left is never removed by the code.                                      *)
(***************************************************************************)
EXTENDS Integers, FiniteSets, SequencesExt

CONSTANTS
  Procs,        \* who serves a request: one of a process's requests at a time
  Goals,        \* goal ids newGoalId may draw
  MaxQueued,    \* MAX_QUEUED_GOALS
  MaxHistory,   \* MAX_HISTORY
  None

ASSUME GoalStoreAssumption ==
  /\ None \notin Procs \cup Nat /\ "left" \notin Procs /\ None # "left"
  /\ MaxQueued \in Nat /\ MaxHistory \in Nat

VARIABLES
  history,    \* the events in the queue file
  synced,     \* how many of them are durable
  lock,       \* the process whose lock file is there, "left", or None
  calls       \* the request each process serves, and how its last one ended

queue == <<history, synced, lock>>

Kinds == {"GOAL_ADDED", "QUEUE_REORDERED", "GOAL_REMOVED"}
Events == [kind: Kinds, goals: SUBSET Goals]

Added(h) == UNION {e.goals : e \in {h[i] : i \in {j \in DOMAIN h : h[j].kind = "GOAL_ADDED"}}}
Removed(h) == UNION {e.goals : e \in {h[i] : i \in {j \in DOMAIN h : h[j].kind = "GOAL_REMOVED"}}}
Queued(h) == Added(h) \ Removed(h)

(* What replayHistory asks of the next event. *)
Replays(h, event) ==
  CASE event.kind = "GOAL_ADDED" -> event.goals \cap Added(h) = {} /\ Cardinality(Queued(h)) < MaxQueued
    [] event.kind = "QUEUE_REORDERED" -> event.goals = Queued(h)
    [] event.kind = "GOAL_REMOVED" -> event.goals \subseteq Queued(h)

-----------------------------------------------------------------------------
(* A request: add, reorder or remove, or an action on one goal under the   *)
(* queue's lock (withLockedGoal).                                          *)

Changes == {"add", "reorder", "remove"}
NoCall == [at |-> "none", op |-> "none", goals |-> {}, expected |-> None,
           next |-> <<>>, result |-> "none"]

Goto(p, step) == calls' = [calls EXCEPT ![p].at = step]
Answer(p, result) == calls' = [calls EXCEPT ![p].at = "release", ![p].result = result]

(* What was asked for is forgotten with an error. *)
Refuse(p, step) == calls' = [calls EXCEPT ![p] = [NoCall EXCEPT !.at = step]]
At(p, step) == calls[p].at = step

Request(p, op, goals, expected) ==
  /\ At(p, "none")
  /\ calls' = [calls EXCEPT ![p] = [NoCall EXCEPT !.at = "acquire", !.op = op, !.goals = goals,
                                                  !.expected = expected]]
  /\ UNCHANGED queue

RequestAdd(p) == Request(p, "add", {}, None)

(* Whoever orders the queue has seen it, and may say at which revision. *)
RequestReorder(p) ==
  \E expected \in {Len(history), None} : Request(p, "reorder", Queued(history), expected)

(* A goal that was never there is refused whatever is done with it. *)
RequestOn(p, op) ==
  \E g \in Added(history) : Request(p, op, {g}, None)

-----------------------------------------------------------------------------
(* The lock *)

(* Mutant of Unlocked: the lock file is opened, whoever created it. *)
LockOpened == TRUE

Unlocked == lock = None

Acquire(p) ==
  /\ At(p, "acquire") /\ Unlocked
  /\ lock' = p
  /\ Goto(p, "load")
  /\ UNCHANGED <<history, synced>>

(* Mutant of Busy: the wait has no deadline. *)
BusyWhileHeld(p) ==
  /\ At(p, "acquire") /\ lock \in Procs
  /\ Refuse(p, "none")
  /\ UNCHANGED queue

(* A change is refused at once, a goal's action after the deadline. *)
Busy(p) ==
  /\ At(p, "acquire") /\ ~Unlocked
  /\ Refuse(p, "none")
  /\ UNCHANGED queue

Release(p) ==
  /\ At(p, "release")
  /\ lock' = None
  /\ Goto(p, "none")
  /\ UNCHANGED <<history, synced>>

(* The lock file stays, and the request answers its error. *)
ReleaseFails(p) ==
  /\ At(p, "release")
  /\ lock' = "left"
  /\ Refuse(p, "none")
  /\ UNCHANGED <<history, synced>>

-----------------------------------------------------------------------------
(* #append and #write *)

(* newGoalId is drawn under the lock. *)
EventsOf(p) ==
  CASE calls[p].op = "add" -> {[kind |-> "GOAL_ADDED", goals |-> {g}] : g \in Goals}
    [] calls[p].op = "reorder" -> {[kind |-> "QUEUE_REORDERED", goals |-> calls[p].goals]}
    [] calls[p].op = "remove" -> {[kind |-> "GOAL_REMOVED", goals |-> calls[p].goals]}

(* The file is loaded, the event built and the new file synced, beside it. *)
Build(p) ==
  /\ At(p, "load") /\ calls[p].op \in Changes
  /\ calls[p].expected \in {None, Len(history)}
  /\ Len(history) < MaxHistory
  /\ \E event \in EventsOf(p) :
       /\ Replays(history, event)
       /\ calls' = [calls EXCEPT ![p] = [NoCall EXCEPT !.at = "rename",
                                                      !.next = Append(history, event)]]
  /\ UNCHANGED queue

(* Mutant of Rename: answered before the directory is synced. *)
RenameUnsynced(p) ==
  /\ At(p, "rename")
  /\ history' = calls[p].next
  /\ Answer(p, "changed")
  /\ UNCHANGED <<synced, lock>>

Rename(p) ==
  /\ At(p, "rename")
  /\ history' = calls[p].next
  /\ Goto(p, "sync")
  /\ UNCHANGED <<synced, lock>>

SyncDirectory(p) ==
  /\ At(p, "sync")
  /\ synced' = Len(history)
  /\ Answer(p, "changed")
  /\ UNCHANGED <<history, lock>>

-----------------------------------------------------------------------------
(* Faults *)

(* The lock file is not created, or is and cannot be identified (fstat).    *)
OpenFails(p) ==
  /\ At(p, "acquire")
  /\ lock' \in IF Unlocked THEN {lock, "left"} ELSE {lock}
  /\ Refuse(p, "none")
  /\ UNCHANGED <<history, synced>>

(* A refusal of the request, or a file operation that fails: the error is   *)
(* answered, and what was renamed stays.                                    *)
Fails(p) ==
  /\ calls[p].at \in {"load", "rename", "sync"}
  /\ Refuse(p, "release")
  /\ UNCHANGED queue

Crash(p) ==
  /\ ~At(p, "none")
  /\ Refuse(p, "none")
  /\ lock' = IF lock = p THEN "left" ELSE lock
  /\ UNCHANGED <<history, synced>>

(* A person removes the lock of a writer that is gone. *)
ClearLock ==
  /\ lock = "left"
  /\ lock' = None
  /\ UNCHANGED <<history, synced, calls>>

(* The renames that no sync followed may be lost, the latest first; a lock  *)
(* file may be gone, or back.                                               *)
LosePower ==
  /\ \E kept \in synced .. Len(history) :
       /\ history' = SubSeq(history, 1, kept)
       /\ synced' = kept
  /\ lock' \in {None, "left"}
  /\ calls' = [p \in Procs |-> NoCall]

=============================================================================
