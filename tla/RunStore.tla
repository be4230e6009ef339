------------------------------ MODULE RunStore ------------------------------
(***************************************************************************)
(* FileControllerStore of src/automation/durable-store.ts: several         *)
(* processes on one storage directory, on one machine.                     *)
(*                                                                         *)
(* A store call is synchronous inside its process, but every file          *)
(* operation in it is a step other processes may come between.  Each name  *)
(* in the directory has what processes see (claims, runs) and what is      *)
(* already on the disk (diskClaims, diskRuns): an fsync returns when the   *)
(* two agree, and a power loss leaves what is on the disk.  Any file       *)
(* operation may fail and the call then throws.  A lock file is left by a  *)
(* process that crashes in a call, and by one that lives on when the fstat *)
(* that follows the exclusive open fails, or the release.                  *)
(*                                                                         *)
(* A stored run is its change and the processes that appended its audit    *)
(* entries, in order; the lifecycle check of replace is the part of it     *)
(* that concerns the store: exactly one entry on top of the stored trail.  *)
(* Temp files, never read, and refusal evidence, read by nothing, are left *)
(* out.                                                                    *)
(***************************************************************************)
EXTENDS SequencesExt

CONSTANTS Procs, Changes, Runs, None

ASSUME RunStoreAssumption ==
  None \notin Runs \cup Changes \cup [change: Changes, audit: Seq(Procs)]

VARIABLES
  claims,      \* changes/<changeKey>.json: the ROOT run of a change
  runs,        \* <runId>.json: the stored run
  diskClaims,
  diskRuns,
  locks,       \* runs whose <runId>.json.lock exists
  calls,       \* what each process is doing
  acked,       \* for the properties: the audit a finished call has reported stored
  orphans      \* for the properties: locks whose call is over

vars == <<claims, runs, diskClaims, diskRuns, locks, calls, acked, orphans>>
disk == <<diskClaims, diskRuns>>
ghosts == <<acked, orphans>>

Stored == [change: Changes, audit: Seq(Procs)]

Call(at, run, change) ==
  [at |-> at, run |-> run, change |-> change, built |-> <<>>, claims |-> {}, runs |-> {},
   owners |-> {}]
Closed == Call("closed", None, None)
Ready == Call("ready", None, None)
Refused == Call("refused", None, None)

Opening == {"scan_claims", "scan_runs"}
Creating == {"create", "admit", "absent", "pending", "link", "sync_claim", "write"}
Replacing == {"replace", "rewrite"}
Locked == Creating \cup Replacing \cup {"sync_run"}

Holds(p, r) == calls[p].at \in Locked /\ calls[p].run = r

Goto(p, at) == calls' = [calls EXCEPT ![p].at = at]
Becomes(p, call) == calls' = [calls EXCEPT ![p] = call]

-----------------------------------------------------------------------------
(* Opening: #assertIndexed reads every claim, then every run file *)

(* #assertRoot, on the admission as it is now. *)
IsRoot(r) == claims[runs[r].change] = r

Open(p) ==
  /\ calls[p].at = "closed"
  /\ diskRuns = runs
  /\ Becomes(p, [Call("scan_claims", None, None) EXCEPT
                   !.claims = {c \in Changes : claims[c] # None}])
  /\ UNCHANGED <<claims, runs, disk, locks, ghosts>>

ScanClaim(p, c) ==
  /\ calls[p].at = "scan_claims"
  /\ c \in calls[p].claims
  /\ IF claims[c] \in calls[p].owners \/ (runs[claims[c]] # None /\ runs[claims[c]].change # c)
     THEN Becomes(p, Refused)
     ELSE calls' = [calls EXCEPT ![p].claims = @ \ {c}, ![p].owners = @ \cup {claims[c]}]
  /\ UNCHANGED <<claims, runs, disk, locks, ghosts>>

ScanRuns(p) ==
  /\ calls[p].at = "scan_claims"
  /\ calls[p].claims = {}
  /\ Becomes(p, [Call("scan_runs", None, None) EXCEPT !.runs = {r \in Runs : runs[r] # None}])
  /\ UNCHANGED <<claims, runs, disk, locks, ghosts>>

ScanRun(p, r) ==
  /\ calls[p].at = "scan_runs"
  /\ r \in calls[p].runs
  /\ IF IsRoot(r) THEN calls' = [calls EXCEPT ![p].runs = @ \ {r}] ELSE Becomes(p, Refused)
  /\ UNCHANGED <<claims, runs, disk, locks, ghosts>>

Opened(p) ==
  /\ calls[p].at = "scan_runs"
  /\ calls[p].runs = {}
  /\ Becomes(p, Ready)
  /\ UNCHANGED <<claims, runs, disk, locks, ghosts>>

-----------------------------------------------------------------------------
(* #locked *)

Lock(p, call) ==
  /\ call.run \notin locks
  /\ locks' = locks \cup {call.run}
  /\ Becomes(p, call)
  /\ UNCHANGED <<claims, runs, disk, ghosts>>

(* Mutant of LockFails: open and fstat are inside the try, whose finally unlinks the name. *)
LockUndone(p, r) ==
  /\ calls[p].at = "ready" \/ (calls[p].at = "built" /\ calls[p].run = r)
  /\ locks' = locks \ {r}
  /\ Becomes(p, Ready)
  /\ UNCHANGED <<claims, runs, disk, ghosts>>

(* The name is taken (EEXIST), or openSync fails.  Or it succeeds and the fstat after it,  *)
(* outside the try, fails: no call goes on to remove that lock.                            *)
LockFails(p, r) ==
  /\ calls[p].at = "ready" \/ (calls[p].at = "built" /\ calls[p].run = r)
  /\ \E left \in SUBSET ({r} \ locks) : locks' = locks \cup left /\ orphans' = orphans \cup left
  /\ Becomes(p, Ready)
  /\ UNCHANGED <<claims, runs, disk, acked>>

(* The finally at the end of every call: close, compare the owner, unlink. *)
Release(p) ==
  /\ locks' = locks \ {calls[p].run}
  /\ Becomes(p, Ready)
  /\ UNCHANGED orphans

(* Part of it fails: the lock file stays. *)
ReleaseFails(p) ==
  /\ orphans' = orphans \cup {calls[p].run}
  /\ Becomes(p, Ready)
  /\ UNCHANGED locks

Throw(p) == (Release(p) \/ ReleaseFails(p)) /\ UNCHANGED <<claims, runs, disk, acked>>

(* Some file operation fails: of the release too, which throws away a result that was to *)
(* be returned.                                                                          *)
Fail(p) == calls[p].at \in Locked /\ Throw(p)

-----------------------------------------------------------------------------
(* create: #load, #admit, #write *)

BeginCreate(p, r, c) == calls[p].at = "ready" /\ Lock(p, Call("create", r, c))

LoadNew(p) ==
  /\ calls[p].at = "create"
  /\ runs[calls[p].run] = None
  /\ Goto(p, "admit")
  /\ UNCHANGED <<claims, runs, disk, locks, ghosts>>

DuplicateRun(p) ==
  /\ calls[p].at = "create"
  /\ runs[calls[p].run] # None
  /\ Throw(p)

NoAdmission(p) ==
  /\ calls[p].at = "admit"
  /\ claims[calls[p].change] = None
  /\ Goto(p, "absent")
  /\ UNCHANGED <<claims, runs, disk, locks, ghosts>>

(* ROOT_PENDING: a claim of this very run, left without its file. *)
RootPending(p) ==
  /\ calls[p].at = "admit"
  /\ claims[calls[p].change] = calls[p].run
  /\ Goto(p, "pending")
  /\ UNCHANGED <<claims, runs, disk, locks, ghosts>>

SecondRunForChange(p) ==
  /\ calls[p].at = "admit"
  /\ claims[calls[p].change] \notin {None, calls[p].run}
  /\ Throw(p)

(* Mutant of RootElsewhere: the reverse direction is not looked at. *)
RootElsewhereIgnored(p) == FALSE

(* Read claim by claim in the code; only the holder of the run's lock can publish one of them. *)
RootElsewhere(p) ==
  \E c \in Changes \ {calls[p].change} : claims[c] = calls[p].run

(* ROOT_PENDING makes the claim it found durable; otherwise a claim is made. *)
AfterUnclaimed(p) == IF calls[p].at = "pending" THEN "sync_claim" ELSE "link"

AssertRootUnclaimed(p) ==
  /\ calls[p].at \in {"absent", "pending"}
  /\ ~RootElsewhere(p)
  /\ Goto(p, AfterUnclaimed(p))
  /\ UNCHANGED <<claims, runs, disk, locks, ghosts>>

RootOfAnotherChange(p) ==
  /\ calls[p].at \in {"absent", "pending"}
  /\ RootElsewhere(p)
  /\ Throw(p)

(* Mutant of Link: the name is taken over from the writer that has it. *)
LinkOver(p) ==
  /\ calls[p].at = "link"
  /\ claims' = [claims EXCEPT ![calls[p].change] = calls[p].run]
  /\ Goto(p, "sync_claim")
  /\ UNCHANGED <<runs, disk, locks, ghosts>>

(* link(2) publishes the name if it is free. *)
Link(p) ==
  /\ calls[p].at = "link"
  /\ claims[calls[p].change] = None
  /\ claims' = [claims EXCEPT ![calls[p].change] = calls[p].run]
  /\ Goto(p, "sync_claim")
  /\ UNCHANGED <<runs, disk, locks, ghosts>>

(* EEXIST: the claim of the writer that was first decides. *)
LinkLost(p) ==
  /\ calls[p].at = "link"
  /\ claims[calls[p].change] # None
  /\ Goto(p, "admit")
  /\ UNCHANGED <<claims, runs, disk, locks, ghosts>>

(* Mutant of SyncClaim: the run is written before its claim is durable. *)
ClaimNotSynced(p) ==
  /\ calls[p].at = "sync_claim"
  /\ Goto(p, "write")
  /\ UNCHANGED <<claims, runs, disk, locks, ghosts>>

SyncClaim(p) ==
  /\ calls[p].at = "sync_claim"
  /\ diskClaims = claims
  /\ Goto(p, "write")
  /\ UNCHANGED <<claims, runs, disk, locks, ghosts>>

WriteNew(p) ==
  /\ calls[p].at = "write"
  /\ runs' = [runs EXCEPT ![calls[p].run] = [change |-> calls[p].change, audit |-> <<>>]]
  /\ Goto(p, "sync_run")
  /\ UNCHANGED <<claims, disk, locks, ghosts>>

-----------------------------------------------------------------------------
(* get, and replace by the next run built on it *)

Get(p, r) ==
  /\ calls[p].at = "ready"
  /\ runs[r] # None
  /\ Becomes(p, IF IsRoot(r)
                THEN [Call("built", r, runs[r].change) EXCEPT !.built = Append(runs[r].audit, p)]
                ELSE Refused)
  /\ UNCHANGED <<claims, runs, disk, locks, ghosts>>

BeginReplace(p) ==
  /\ calls[p].at = "built"
  /\ Lock(p, [calls[p] EXCEPT !.at = "replace"])

(* Mutant of Current: a trail of the right length is enough. *)
CurrentLength(p) == runs[calls[p].run] # None

Current(p) == Front(calls[p].built) = runs[calls[p].run].audit

LoadCurrent(p) ==
  /\ calls[p].at = "replace"
  /\ Current(p) /\ IsRoot(calls[p].run)
  /\ Goto(p, "rewrite")
  /\ UNCHANGED <<claims, runs, disk, locks, ghosts>>

StaleRun(p) ==
  /\ calls[p].at = "replace"
  /\ ~(Current(p) /\ IsRoot(calls[p].run))
  /\ Throw(p)

Rewrite(p) ==
  /\ calls[p].at = "rewrite"
  /\ runs' = [runs EXCEPT ![calls[p].run] =
                [change |-> calls[p].change, audit |-> calls[p].built]]
  /\ Goto(p, "sync_run")
  /\ UNCHANGED <<claims, disk, locks, ghosts>>

(* Mutant of RunSynced: the call returns without the fsync of the directory. *)
RunNotSynced == TRUE

RunSynced == diskRuns = runs

(* The end of #write, and of the call. *)
Return(p) ==
  /\ calls[p].at = "sync_run"
  /\ RunSynced
  /\ acked' = [acked EXCEPT ![calls[p].run] = runs[calls[p].run].audit]
  /\ Release(p)
  /\ UNCHANGED <<claims, runs, disk>>

-----------------------------------------------------------------------------
(* The machine *)

WriteBackClaim(c) ==
  /\ diskClaims[c] # claims[c]
  /\ diskClaims' = [diskClaims EXCEPT ![c] = claims[c]]
  /\ UNCHANGED <<claims, runs, diskRuns, locks, calls, ghosts>>

WriteBackRun(r) ==
  /\ diskRuns[r] # runs[r]
  /\ diskRuns' = [diskRuns EXCEPT ![r] = runs[r]]
  /\ UNCHANGED <<claims, runs, diskClaims, locks, calls, ghosts>>

Crash(p) ==
  /\ calls[p].at # "closed"
  /\ Becomes(p, Closed)
  /\ orphans' = orphans \cup {r \in Runs : Holds(p, r)}
  /\ UNCHANGED <<claims, runs, disk, locks, acked>>

(* A lock may be lost with its name, or come back: it is never synced away. *)
PowerLoss ==
  /\ claims' = diskClaims
  /\ runs' = diskRuns
  /\ calls' = [p \in Procs |-> Closed]
  /\ locks' \in SUBSET (locks \cup {r \in Runs : runs[r] # None \/ \E c \in Changes : claims[c] = r})
  /\ orphans' = locks'
  /\ UNCHANGED <<disk, acked>>

(* A human verified that no writer of r remains. *)
HumanClearsLock(r) ==
  /\ r \in locks
  /\ \A p \in Procs : ~Holds(p, r)
  /\ locks' = locks \ {r}
  /\ orphans' = orphans \ {r}
  /\ UNCHANGED <<claims, runs, disk, calls, acked>>

-----------------------------------------------------------------------------

Init ==
  /\ claims = [c \in Changes |-> None]
  /\ runs = [r \in Runs |-> None]
  /\ diskClaims = claims
  /\ diskRuns = runs
  /\ locks = {}
  /\ calls = [p \in Procs |-> Closed]
  /\ acked = [r \in Runs |-> None]
  /\ orphans = {}

OpenStep(p) ==
  \/ Open(p)
  \/ \E c \in Changes : ScanClaim(p, c)
  \/ ScanRuns(p)
  \/ \E r \in Runs : ScanRun(p, r)
  \/ Opened(p)

CreateStep(p) ==
  \/ \E r \in Runs, c \in Changes : BeginCreate(p, r, c)
  \/ LoadNew(p)
  \/ DuplicateRun(p)
  \/ NoAdmission(p)
  \/ RootPending(p)
  \/ SecondRunForChange(p)
  \/ AssertRootUnclaimed(p)
  \/ RootOfAnotherChange(p)
  \/ Link(p)
  \/ LinkLost(p)
  \/ SyncClaim(p)
  \/ WriteNew(p)

ReplaceStep(p) ==
  \/ \E r \in Runs : Get(p, r)
  \/ BeginReplace(p)
  \/ LoadCurrent(p)
  \/ StaleRun(p)
  \/ Rewrite(p)

MachineStep ==
  \/ \E c \in Changes : WriteBackClaim(c)
  \/ \E r \in Runs : WriteBackRun(r) \/ HumanClearsLock(r)
  \/ PowerLoss

Next ==
  \/ \E p \in Procs :
       \/ OpenStep(p) \/ CreateStep(p) \/ ReplaceStep(p) \/ Return(p)
       \/ Fail(p) \/ Crash(p) \/ (\E r \in Runs : LockFails(p, r))
  \/ MachineStep

Spec == Init /\ [][Next]_vars

-----------------------------------------------------------------------------
(* Properties *)

Maybe(S) == S \cup {None}

TypeOK ==
  /\ claims \in [Changes -> Maybe(Runs)]
  /\ diskClaims \in [Changes -> Maybe(Runs)]
  /\ runs \in [Runs -> Maybe(Stored)]
  /\ diskRuns \in [Runs -> Maybe(Stored)]
  /\ locks \subseteq Runs
  /\ orphans \subseteq Runs
  /\ acked \in [Runs -> Maybe(Seq(Procs))]
  /\ calls \in [Procs -> [at: {"closed", "ready", "refused", "built"} \cup Opening \cup Locked,
                          run: Maybe(Runs), change: Maybe(Changes), built: Seq(Procs),
                          claims: SUBSET Changes, runs: SUBSET Runs, owners: SUBSET Runs]]

(* No run is the ROOT of two changes, and every run file, at every moment   *)
(* another process may look, belongs to the ROOT of its change.             *)
OneToOne(roots) == \A c, d \in Changes : roots[c] # None /\ roots[c] = roots[d] => c = d
Indexed(roots, files) == \A r \in Runs : files[r] # None => roots[files[r].change] = r
OneRootPerChange == OneToOne(claims) /\ Indexed(claims, runs)

(* What a power loss would leave is indexed too: no run reaches the disk    *)
(* before the claim that admits it.                                         *)
DiskIsIndexed == OneToOne(diskClaims) /\ Indexed(diskClaims, diskRuns)

(* However opens, creates, crashes and power losses interleave, the store   *)
(* never meets a contradiction of its own making: no open or read refuses.  *)
NeverRefusesItself == \A p \in Procs : calls[p].at # "refused"

(* Two writers of one run: the entry one of them appended is never replaced *)
(* by a run built without it.  (A power loss may undo what no call          *)
(* reported as stored.)                                                     *)
NoLostUpdate ==
  [][\A r \in Runs : runs[r] # None /\ ~(\A p \in Procs : calls'[p] = Closed) =>
       /\ runs'[r] # None
       /\ runs'[r].change = runs[r].change
       /\ IsPrefix(runs[r].audit, runs'[r].audit)]_vars

(* What a call reported as stored survives a power loss. *)
AcknowledgedSurvives ==
  \A r \in Runs : acked[r] # None => diskRuns[r] # None /\ IsPrefix(acked[r], diskRuns[r].audit)

(* #locked: a run has one writer at a time, whose lock stays while it       *)
(* writes, and none while a lock is left by a call that is over.  A call is *)
(* over with its lock left only by a crash, a failed fstat or a failed      *)
(* release, never by what it refuses, and no other call takes that lock.    *)
LocksAccounted ==
  /\ \A p, q \in Procs, r \in Runs : Holds(p, r) /\ Holds(q, r) => p = q
  /\ \A r \in orphans, p \in Procs : ~Holds(p, r)
  /\ \A r \in Runs : r \in locks <=> r \in orphans \/ \E p \in Procs : Holds(p, r)

(* The disk, through every crash, is a registry of ROOT runs. *)
Registry == INSTANCE RunRegistry WITH root <- diskClaims, stored <- diskRuns
RegistrySpec == Registry!Spec

=============================================================================
