---------------------------- MODULE RunStore_proofs ----------------------------
(***************************************************************************)
(* Proofs about RunStore: what any number of processes leave in one        *)
(* storage directory, for any changes and runs, through every crash and    *)
(* power loss, and that its disk is a RunRegistry.                         *)
(***************************************************************************)
EXTENDS RunStore, TLAPS

(* Written to the disk: a name of it is as processes see it, or not there yet. *)
DiskBehind ==
  /\ \A c \in Changes : diskClaims[c] \in {None, claims[c]}
  /\ \A r \in Runs : diskRuns[r] # None =>
       /\ runs[r] # None /\ runs[r].change = diskRuns[r].change
       /\ IsPrefix(diskRuns[r].audit, runs[r].audit)

(* A run is written only after the claim that admits it is on the disk. *)
ClaimedFirst == \A r \in Runs : runs[r] # None => diskClaims[runs[r].change] = r

(* What a process has read of the claims and runs that its call relies on; *)
(* an open that is under way has met nothing it would refuse.              *)
Unwritten == {"admit", "absent", "pending", "link", "sync_claim", "write"}
CallOK(p) ==
  LET call == calls[p]
  IN /\ call.at # "refused"
     /\ call.at \in Locked \cup {"built"} => call.run \in Runs /\ call.change \in Changes
     /\ call.at \in Unwritten => runs[call.run] = None
     /\ call.at = "link" => \A c \in Changes \ {call.change} : claims[c] # call.run
     /\ call.at \in {"pending", "sync_claim"} => claims[call.change] = call.run
     /\ call.at = "write" => diskClaims[call.change] = call.run
     /\ call.at \in {"built", "replace", "rewrite"} =>
          /\ runs[call.run] # None /\ runs[call.run].change = call.change
          /\ call.built # <<>>
     /\ call.at = "rewrite" => Current(p)
     /\ call.at = "sync_run" => runs[call.run] # None
     /\ call.at = "scan_claims" =>
          /\ \A c \in call.claims : claims[c] # None
          /\ \A r \in call.owners : \E c \in Changes \ call.claims : claims[c] = r
     /\ call.at = "scan_runs" => \A r \in call.runs : runs[r] # None

CallType == [at: {"closed", "ready", "refused", "built"} \cup Opening \cup Locked,
             run: Maybe(Runs), change: Maybe(Changes), built: Seq(Procs),
             claims: SUBSET Changes, runs: SUBSET Runs, owners: SUBSET Runs]

StoreInv ==
  /\ TypeOK /\ DiskBehind /\ ClaimedFirst /\ OneToOne(claims)
  /\ LocksAccounted /\ (\A p \in Procs : CallOK(p)) /\ AcknowledgedSurvives

-----------------------------------------------------------------------------
(* Prefixes *)

LEMMA PrefixDef ==
  ASSUME NEW s \in Seq(Procs), NEW t \in Seq(Procs)
  PROVE  IsPrefix(s, t) <=> Len(s) <= Len(t) /\ \A i \in 1..Len(s) : s[i] = t[i]
<1>1. SubSeq(s, 1, Len(s)) = s
  OBVIOUS
<1>2. ASSUME Len(s) <= Len(t)
      PROVE  /\ SubSeq(t, 1, Len(s)) \in Seq(Procs) /\ Len(SubSeq(t, 1, Len(s))) = Len(s)
             /\ \A i \in 1..Len(s) : SubSeq(t, 1, Len(s))[i] = t[i]
  BY <1>2
<1>3. CASE Len(s) <= Len(t)
  BY <1>1, <1>2, <1>3 DEF IsPrefix
<1> QED
  BY <1>3 DEF IsPrefix

LEMMA PrefixOrder ==
  /\ \A s \in Seq(Procs) : IsPrefix(s, s)
  /\ \A s, t, u \in Seq(Procs) : IsPrefix(s, t) /\ IsPrefix(t, u) => IsPrefix(s, u)
BY PrefixDef

LEMMA FrontIsPrefix ==
  ASSUME NEW s \in Seq(Procs), s # <<>>
  PROVE  IsPrefix(Front(s), s) /\ Front(s) \in Seq(Procs)
<1>1. Len(s) \in Nat /\ Len(s) > 0
  OBVIOUS
<1>2. /\ Front(s) \in Seq(Procs) /\ Len(Front(s)) = Len(s) - 1
      /\ \A i \in 1..Len(Front(s)) : Front(s)[i] = s[i]
  BY <1>1 DEF Front
<1> QED
  BY <1>1, <1>2, PrefixDef

LEMMA FrontOfAppend ==
  ASSUME NEW s \in Seq(Procs), NEW p \in Procs
  PROVE  Front(Append(s, p)) = s /\ Append(s, p) # <<>> /\ Append(s, p) \in Seq(Procs)
BY DEF Front

-----------------------------------------------------------------------------
(* What a reader sees *)

(* Every visible run, and every run on the disk, is its change's ROOT. *)
LEMMA Rooted ==
  ASSUME StoreInv
  PROVE  /\ \A r \in Runs : runs[r] # None => IsRoot(r) /\ runs[r].change \in Changes
         /\ OneRootPerChange /\ DiskIsIndexed
<1>1. \A r \in Runs : runs[r] # None =>
        runs[r].change \in Changes /\ claims[runs[r].change] = r /\ diskClaims[runs[r].change] = r
  <2> SUFFICES ASSUME NEW r \in Runs, runs[r] # None
               PROVE  runs[r].change \in Changes /\ claims[runs[r].change] = r
                      /\ diskClaims[runs[r].change] = r
    OBVIOUS
  <2>1. runs[r] \in Stored
    BY DEF StoreInv, TypeOK, Maybe
  <2>2. runs[r].change \in Changes
    BY <2>1 DEF Stored
  <2> QED
    BY <2>2, RunStoreAssumption DEF StoreInv, ClaimedFirst, DiskBehind
<1>2. \A r \in Runs : diskRuns[r] # None => diskClaims[diskRuns[r].change] = r
  BY <1>1 DEF StoreInv, DiskBehind
<1>3. OneToOne(diskClaims)
  BY DEF StoreInv, DiskBehind, OneToOne
<1> QED
  BY <1>1, <1>2, <1>3 DEF IsRoot, OneRootPerChange, DiskIsIndexed, Indexed, StoreInv

-----------------------------------------------------------------------------
(* What a step leaves alone *)

LEMMA CallFacts ==
  ASSUME StoreInv, NEW p \in Procs
  PROVE  /\ calls[p] \in CallType /\ CallOK(p)
         /\ calls[p].at \in Locked => calls[p].run \in locks
         /\ \A q \in Procs \ {p} : calls[p].at \in Locked /\ calls[q].at \in Locked
                                     => calls[q].run # calls[p].run
<1>1. calls[p] \in CallType /\ CallOK(p)
  BY DEF StoreInv, TypeOK, CallType
<1>2. \A q \in Procs : calls[q].at \in Locked => calls[q].run \in Runs
  BY DEF StoreInv, CallOK
<1> QED
  BY <1>1, <1>2 DEF StoreInv, LocksAccounted, Holds

LEMMA CallKept ==
  ASSUME StoreInv, NEW q \in Procs, calls'[q] = calls[q],
         \A c \in Changes : claims[c] # None => claims'[c] = claims[c],
         \A c \in Changes : diskClaims[c] # None => diskClaims'[c] = diskClaims[c],
         \A r \in Runs : runs[r] # None => runs'[r] # None /\ runs'[r].change = runs[r].change,
         calls[q].at \in Locked => /\ runs'[calls[q].run] = runs[calls[q].run]
                                   /\ \A c \in Changes : claims'[c] = calls[q].run
                                                           => claims[c] = calls[q].run
  PROVE  CallOK(q)'
<1>1. calls[q] \in CallType /\ CallOK(q)
  BY CallFacts
<1>2. None \notin Runs /\ Unwritten \subseteq Locked
  BY RunStoreAssumption DEF Unwritten, Locked, Creating
<1>3. {"replace", "rewrite", "sync_run", "link", "pending", "sync_claim", "write"} \subseteq Locked
  BY DEF Locked, Creating, Replacing
<1>4. calls[q].claims \subseteq Changes /\ calls[q].runs \subseteq Runs /\ calls[q].owners \subseteq Runs
  BY <1>1 DEF CallType
<1>5. calls[q].at \in Locked \cup {"built"} => calls[q].run \in Runs /\ calls[q].change \in Changes
  BY <1>1 DEF CallOK
<1>6. /\ calls[q].at \in Unwritten => runs'[calls[q].run] = None
      /\ calls[q].at = "link" => \A c \in Changes \ {calls[q].change} : claims'[c] # calls[q].run
      /\ calls[q].at \in {"pending", "sync_claim"} => claims'[calls[q].change] = calls[q].run
      /\ calls[q].at = "write" => diskClaims'[calls[q].change] = calls[q].run
  BY <1>1, <1>2, <1>3, <1>5 DEF CallOK
<1>7. /\ calls[q].at \in {"built", "replace", "rewrite"} =>
           /\ runs'[calls[q].run] # None /\ runs'[calls[q].run].change = calls[q].change
           /\ calls[q].built # <<>>
      /\ calls[q].at = "rewrite" => Front(calls[q].built) = runs'[calls[q].run].audit
      /\ calls[q].at = "sync_run" => runs'[calls[q].run] # None
  BY <1>1, <1>3, <1>5 DEF CallOK, Current
<1>8. /\ calls[q].at = "scan_claims" =>
           /\ \A c \in calls[q].claims : claims'[c] # None
           /\ \A r \in calls[q].owners : \E c \in Changes \ calls[q].claims : claims'[c] = r
      /\ calls[q].at = "scan_runs" => \A r \in calls[q].runs : runs'[r] # None
  BY <1>1, <1>2, <1>4 DEF CallOK
<1> QED
  BY <1>1, <1>5, <1>6, <1>7, <1>8 DEF CallOK, Current

(* The lock of a call: kept, taken while free, released, or left (a lock of its own, or one that *)
(* was free) by a call that is over.                                                             *)
Kept(p, c) ==
  /\ locks' = locks /\ orphans' = orphans
  /\ \A r \in Runs : Holds(p, r) <=> c.at \in Locked /\ c.run = r
Taken(p, c) ==
  /\ calls[p].at \notin Locked /\ c.at \in Locked /\ c.run \in Runs \ locks
  /\ locks' = locks \cup {c.run} /\ orphans' = orphans
Released(p, c) ==
  /\ calls[p].at \in Locked /\ c.at \notin Locked
  /\ locks' = locks \ {calls[p].run} /\ orphans' = orphans
Left(p, c) ==
  /\ c.at \notin Locked
  /\ \E left \in SUBSET Runs :
       /\ locks' = locks \cup left /\ orphans' = orphans \cup left
       /\ \A r \in Runs : Holds(p, r) => r \in left
       /\ \A r \in left : Holds(p, r) \/ r \notin locks
LockMoves(p, c) == Kept(p, c) \/ Taken(p, c) \/ Released(p, c) \/ Left(p, c)

LEMMA LocksKept ==
  ASSUME StoreInv, NEW p \in Procs, NEW c \in CallType, calls' = [calls EXCEPT ![p] = c],
         LockMoves(p, c)
  PROVE  LocksAccounted' /\ locks' \subseteq Runs /\ orphans' \subseteq Runs
<1>1. /\ calls'[p] = c /\ \A q \in Procs \ {p} : calls'[q] = calls[q]
  BY DEF StoreInv, TypeOK
<1>2. \A r \in Runs : /\ Holds(p, r)' <=> c.at \in Locked /\ c.run = r
                      /\ \A q \in Procs \ {p} : Holds(q, r)' <=> Holds(q, r)
  BY <1>1 DEF Holds
<1>3. /\ \A q, s \in Procs, r \in Runs : Holds(q, r) /\ Holds(s, r) => q = s
      /\ \A r \in Runs : r \in locks <=> r \in orphans \/ \E q \in Procs : Holds(q, r)
      /\ \A r \in orphans, q \in Procs : ~Holds(q, r)
      /\ locks \subseteq Runs /\ orphans \subseteq Runs
  BY DEF StoreInv, LocksAccounted, TypeOK
<1>4. CASE Kept(p, c)
  <2>1. \A r \in Runs, q \in Procs : Holds(q, r)' <=> Holds(q, r)
    BY <1>2, <1>4 DEF Kept
  <2> QED
    BY <1>3, <1>4, <2>1 DEF Kept, LocksAccounted
<1>5. CASE Taken(p, c)
  <2>1. \A r \in Runs : ~Holds(p, r) /\ (Holds(p, r)' <=> r = c.run)
    BY <1>2, <1>5 DEF Taken, Holds
  <2>2. c.run \notin orphans /\ \A q \in Procs : ~Holds(q, c.run)
    BY <1>3, <1>5 DEF Taken
  <2> QED
    BY <1>2, <1>3, <1>5, <2>1, <2>2 DEF Taken, LocksAccounted
<1>6. CASE Released(p, c)
  <2>1. \A r \in Runs : ~Holds(p, r)' /\ (Holds(p, r) <=> r = calls[p].run)
    BY <1>2, <1>6 DEF Released, Holds
  <2> QED
    BY <1>2, <1>3, <1>6, <2>1 DEF Released, LocksAccounted
<1>7. CASE Left(p, c)
  <2>1. PICK left \in SUBSET Runs :
          /\ locks' = locks \cup left /\ orphans' = orphans \cup left
          /\ \A r \in Runs : Holds(p, r) => r \in left
          /\ \A r \in left : Holds(p, r) \/ r \notin locks
    BY <1>7 DEF Left
  <2>2. \A r \in Runs : ~Holds(p, r)'
    BY <1>2, <1>7 DEF Left
  <2>3. \A q, s \in Procs, r \in Runs : Holds(q, r)' /\ Holds(s, r)' => q = s
    BY <1>2, <1>3, <2>2
  <2>4. \A r \in Runs : r \in locks' <=> r \in orphans' \/ \E q \in Procs : Holds(q, r)'
    BY <1>2, <1>3, <2>1, <2>2
  <2>5. \A r \in orphans', q \in Procs : ~Holds(q, r)'
    BY <1>2, <1>3, <2>1, <2>2
  <2> QED
    BY <1>3, <2>1, <2>3, <2>4, <2>5 DEF LocksAccounted
<1> QED
  BY <1>4, <1>5, <1>6, <1>7 DEF LockMoves

(* A step that only moves p's call and its lock. *)
LEMMA QuietStep ==
  ASSUME StoreInv, NEW p \in Procs, NEW c \in CallType, calls' = [calls EXCEPT ![p] = c],
         UNCHANGED <<claims, runs, disk, acked>>, LockMoves(p, c),
         calls'[p] = c => CallOK(p)'
  PROVE  StoreInv'
<1>1. /\ claims' = claims /\ runs' = runs /\ diskClaims' = diskClaims /\ diskRuns' = diskRuns
      /\ acked' = acked
  BY DEF disk
<1>2. calls' \in [Procs -> CallType] /\ calls'[p] = c /\ \A q \in Procs \ {p} : calls'[q] = calls[q]
  BY DEF StoreInv, TypeOK, CallType
<1>3. LocksAccounted' /\ locks' \subseteq Runs /\ orphans' \subseteq Runs
  BY LocksKept
<1>4. TypeOK'
  BY <1>1, <1>2, <1>3 DEF StoreInv, TypeOK, CallType
<1>5. DiskBehind' /\ ClaimedFirst' /\ OneToOne(claims)' /\ AcknowledgedSurvives'
  BY <1>1 DEF StoreInv, DiskBehind, ClaimedFirst, OneToOne, AcknowledgedSurvives
<1>6. \A q \in Procs : CallOK(q)'
  BY <1>1, <1>2, CallKept
<1> QED
  BY <1>3, <1>4, <1>5, <1>6 DEF StoreInv

-----------------------------------------------------------------------------
(* The steps of a call that change no name another process sees *)

(* The position of p's call moves, its lock stays; what the new position relies on was just read. *)
LEMMA Moves ==
  ASSUME StoreInv, NEW p \in Procs, NEW at \in {"ready"} \cup Locked, Goto(p, at),
         UNCHANGED <<claims, runs, disk, locks, ghosts>>, calls[p].at \in Locked, at \in Locked,
         calls'[p] = [calls[p] EXCEPT !.at = at] => CallOK(p)'
  PROVE  StoreInv'
<1>1. calls[p] \in CallType
  BY CallFacts
<1>2. PICK c \in CallType : c = [calls[p] EXCEPT !.at = at]
  BY <1>1 DEF CallType
<1>3. calls' = [calls EXCEPT ![p] = c]
  BY <1>2 DEF Goto, StoreInv, TypeOK
<1>4. Kept(p, c) /\ UNCHANGED <<claims, runs, disk, acked>>
  BY <1>1, <1>2 DEF Kept, Holds, CallType, ghosts
<1> QED
  BY <1>2, <1>3, <1>4, QuietStep DEF LockMoves

(* A call that reads on in its own run's admission. *)
LEMMA CreateMoves ==
  ASSUME StoreInv, NEW p \in Procs,
         LoadNew(p) \/ NoAdmission(p) \/ RootPending(p) \/ AssertRootUnclaimed(p)
           \/ LinkLost(p) \/ SyncClaim(p)
  PROVE  StoreInv'
<1>1. calls[p] \in CallType /\ CallOK(p)
  BY CallFacts
<1> DEFINE To(at) == [calls[p] EXCEPT !.at = at]
<1>2. CASE LoadNew(p)
  <2>1. "admit" \in Locked /\ calls[p].at \in Locked
    BY <1>2 DEF LoadNew, Locked, Creating
  <2>2. ASSUME calls'[p] = To("admit") PROVE CallOK(p)'
    BY <1>1, <1>2, <2>1, <2>2 DEF LoadNew, CallOK, CallType, Unwritten, Locked, Creating
  <2> QED
    BY <1>2, <2>1, <2>2, Moves DEF LoadNew
<1>3. CASE NoAdmission(p)
  <2>1. "absent" \in Locked /\ calls[p].at \in Locked
    BY <1>3 DEF NoAdmission, Locked, Creating
  <2>2. ASSUME calls'[p] = To("absent") PROVE CallOK(p)'
    BY <1>1, <1>3, <2>1, <2>2 DEF NoAdmission, CallOK, CallType, Unwritten, Locked, Creating
  <2> QED
    BY <1>3, <2>1, <2>2, Moves DEF NoAdmission
<1>4. CASE RootPending(p)
  <2>1. "pending" \in Locked /\ calls[p].at \in Locked
    BY <1>4 DEF RootPending, Locked, Creating
  <2>2. ASSUME calls'[p] = To("pending") PROVE CallOK(p)'
    BY <1>1, <1>4, <2>1, <2>2 DEF RootPending, CallOK, CallType, Unwritten, Locked, Creating
  <2> QED
    BY <1>4, <2>1, <2>2, Moves DEF RootPending
<1>5. CASE AssertRootUnclaimed(p) /\ calls[p].at = "pending"
  <2>1. "sync_claim" \in Locked /\ calls[p].at \in Locked /\ AfterUnclaimed(p) = "sync_claim"
    BY <1>5 DEF AfterUnclaimed, Locked, Creating
  <2>2. ASSUME calls'[p] = To("sync_claim") PROVE CallOK(p)'
    BY <1>1, <1>5, <2>1, <2>2 DEF AssertRootUnclaimed, CallOK, CallType, Unwritten, Locked, Creating
  <2> QED
    BY <1>5, <2>1, <2>2, Moves DEF AssertRootUnclaimed
<1>6. CASE AssertRootUnclaimed(p) /\ calls[p].at = "absent"
  <2>1. "link" \in Locked /\ calls[p].at \in Locked /\ AfterUnclaimed(p) = "link"
    BY <1>6 DEF AfterUnclaimed, Locked, Creating
  <2>2. ASSUME calls'[p] = To("link") PROVE CallOK(p)'
    BY <1>1, <1>6, <2>1, <2>2
       DEF AssertRootUnclaimed, RootElsewhere, CallOK, CallType, Unwritten, Locked, Creating
  <2> QED
    BY <1>6, <2>1, <2>2, Moves DEF AssertRootUnclaimed
<1>7. CASE LinkLost(p)
  <2>1. "admit" \in Locked /\ calls[p].at \in Locked
    BY <1>7 DEF LinkLost, Locked, Creating
  <2>2. ASSUME calls'[p] = To("admit") PROVE CallOK(p)'
    BY <1>1, <1>7, <2>1, <2>2 DEF LinkLost, CallOK, CallType, Unwritten, Locked, Creating
  <2> QED
    BY <1>7, <2>1, <2>2, Moves DEF LinkLost
<1>8. CASE SyncClaim(p)
  <2>1. "write" \in Locked /\ calls[p].at \in Locked
    BY <1>8 DEF SyncClaim, Locked, Creating
  <2>2. ASSUME calls'[p] = To("write") PROVE CallOK(p)'
    BY <1>1, <1>8, <2>1, <2>2 DEF SyncClaim, CallOK, CallType, Unwritten, Locked, Creating, disk
  <2> QED
    BY <1>8, <2>1, <2>2, Moves DEF SyncClaim
<1> QED
  BY <1>2, <1>3, <1>4, <1>5, <1>6, <1>7, <1>8 DEF AssertRootUnclaimed

(* LoadCurrent reads the run it is about to replace, under its lock. *)
LEMMA ReplaceMoves ==
  ASSUME StoreInv, NEW p \in Procs, LoadCurrent(p)
  PROVE  StoreInv'
<1>1. calls[p] \in CallType /\ CallOK(p)
  BY CallFacts
<1>2. "rewrite" \in Locked /\ calls[p].at \in Locked
  BY DEF LoadCurrent, Locked, Replacing
<1>3. ASSUME calls'[p] = [calls[p] EXCEPT !.at = "rewrite"] PROVE CallOK(p)'
  BY <1>1, <1>2, <1>3
     DEF LoadCurrent, Current, CallOK, CallType, Unwritten, Locked, Creating, Replacing
<1> QED
  BY <1>2, <1>3, Moves DEF LoadCurrent

(* A call that throws releases its lock or, when that fails, leaves it. *)
LEMMA ThrowStep ==
  ASSUME StoreInv, NEW p \in Procs, Throw(p), calls[p].at \in Locked
  PROVE  StoreInv'
<1>1. "ready" \notin Locked /\ Ready.at = "ready"
  BY DEF Locked, Creating, Replacing, Ready, Call
<1>2. PICK c \in CallType : c = Ready
  <2>1. <<>> \in Seq(Procs)
    OBVIOUS
  <2> QED
    BY <2>1 DEF CallType, Ready, Call, Maybe
<1>3. calls' = [calls EXCEPT ![p] = c] /\ UNCHANGED <<claims, runs, disk, acked>>
  BY <1>2 DEF Throw, Release, ReleaseFails, Becomes
<1>4. Release(p) => LockMoves(p, c)
  BY <1>1, <1>2 DEF Release, Released, LockMoves
<1>5. ASSUME ReleaseFails(p) PROVE LockMoves(p, c)
  <2>1. CallOK(p) /\ calls[p].run \in locks
    BY CallFacts
  <2>2. PICK left \in SUBSET Runs : left = {calls[p].run}
    BY <2>1 DEF CallOK
  <2>3. /\ locks' = locks \cup left /\ orphans' = orphans \cup left
        /\ \A r \in Runs : Holds(p, r) <=> r \in left
    BY <1>5, <2>1, <2>2 DEF ReleaseFails, Holds
  <2>4. Left(p, c)
    BY <1>1, <1>2, <2>3 DEF Left
  <2> QED
    BY <2>4 DEF LockMoves
<1>6. ASSUME calls'[p] = c PROVE CallOK(p)'
  BY <1>1, <1>2, <1>6 DEF CallOK, Unwritten, Locked, Creating, Replacing, Ready, Call
<1> QED
  BY <1>2, <1>3, <1>4, <1>5, <1>6, QuietStep DEF Throw

LEMMA Throws ==
  ASSUME StoreInv, NEW p \in Procs,
         DuplicateRun(p) \/ SecondRunForChange(p) \/ RootOfAnotherChange(p) \/ StaleRun(p) \/ Fail(p)
  PROVE  StoreInv'
<1>1. Throw(p) /\ calls[p].at \in Locked
  BY DEF DuplicateRun, SecondRunForChange, RootOfAnotherChange, StaleRun, Fail, Locked, Creating,
         Replacing
<1> QED
  BY <1>1, ThrowStep

(* A step of a call without a lock: opening, reading, and the first step of a write. *)
LEMMA Unlocked ==
  ASSUME StoreInv, NEW p \in Procs, NEW c \in CallType, Becomes(p, c),
         UNCHANGED <<claims, runs, disk, locks, ghosts>>,
         calls[p].at \notin Locked, c.at \notin Locked,
         calls'[p] = c => CallOK(p)'
  PROVE  StoreInv'
<1>1. Kept(p, c) /\ UNCHANGED acked
  BY DEF Kept, Holds, ghosts
<1> QED
  BY <1>1, QuietStep DEF Becomes, LockMoves

LEMMA OpenSteps ==
  ASSUME StoreInv, NEW p \in Procs, OpenStep(p)
  PROVE  StoreInv'
<1>1. calls[p] \in CallType /\ CallOK(p)
  BY CallFacts
<1>2. /\ <<>> \in Seq(Procs) /\ None \notin Runs /\ {} \subseteq Changes
      /\ \A at \in {"ready", "scan_claims", "scan_runs", "closed", "built"} : at \notin Locked
      /\ "ready" \notin Opening /\ "scan_claims" \in Opening /\ "scan_runs" \in Opening
  BY RunStoreAssumption DEF Locked, Creating, Replacing, Opening
<1>3. CASE Open(p)
  <2>1. PICK c \in CallType : c = [Call("scan_claims", None, None) EXCEPT
                                     !.claims = {d \in Changes : claims[d] # None}]
    BY <1>2 DEF CallType, Call, Maybe
  <2>2. c.at = "scan_claims" /\ c.claims = {d \in Changes : claims[d] # None} /\ c.owners = {}
    BY <2>1 DEF Call
  <2>3. ASSUME calls'[p] = c PROVE CallOK(p)'
    BY <1>2, <1>3, <2>2, <2>3 DEF Open, CallOK, Unwritten
  <2>4. Becomes(p, c) /\ calls[p].at \notin Locked /\ c.at \notin Locked
    BY <1>2, <1>3, <2>1, <2>2 DEF Open
  <2> QED
    BY <1>3, <2>3, <2>4, Unlocked DEF Open
<1>4. ASSUME NEW d \in Changes, ScanClaim(p, d) PROVE StoreInv'
  <2>1. calls[p].at = "scan_claims" /\ d \in calls[p].claims /\ claims[d] # None
        /\ claims[d] \in Runs
    BY <1>1, <1>4 DEF ScanClaim, CallOK, StoreInv, TypeOK, Maybe
  <2>2. claims[d] \notin calls[p].owners
    BY <1>1, <2>1 DEF CallOK, StoreInv, OneToOne
  <2>3. ~(runs[claims[d]] # None /\ runs[claims[d]].change # d)
    BY <2>1, Rooted DEF IsRoot, StoreInv, OneToOne
  <2>4. PICK c \in CallType : c = [calls[p] EXCEPT !.claims = @ \ {d}, !.owners = @ \cup {claims[d]}]
    BY <1>1, <2>1 DEF CallType
  <2>5. Becomes(p, c)
    BY <1>4, <2>2, <2>3, <2>4 DEF ScanClaim, Becomes, StoreInv, TypeOK
  <2>6. c.at = "scan_claims" /\ c.claims = calls[p].claims \ {d}
        /\ c.owners = calls[p].owners \cup {claims[d]}
    BY <1>1, <2>1, <2>4 DEF CallType
  <2>7. ASSUME calls'[p] = c PROVE CallOK(p)'
    <3>1. claims' = claims
      BY <1>4 DEF ScanClaim
    <3>2. \A e \in c.claims : claims[e] # None
      BY <1>1, <2>1, <2>6 DEF CallOK
    <3>3. \A r \in c.owners : \E e \in Changes \ c.claims : claims[e] = r
      BY <1>1, <2>1, <2>6 DEF CallOK
    <3> QED
      BY <1>2, <2>6, <2>7, <3>1, <3>2, <3>3 DEF CallOK, Unwritten
  <2> QED
    BY <1>2, <1>4, <2>1, <2>5, <2>6, <2>7, Unlocked DEF ScanClaim
<1>5. CASE ScanRuns(p)
  <2>1. PICK c \in CallType : c = [Call("scan_runs", None, None) EXCEPT
                                     !.runs = {r \in Runs : runs[r] # None}]
    BY <1>2 DEF CallType, Call, Maybe
  <2>2. c.at = "scan_runs" /\ c.runs = {r \in Runs : runs[r] # None}
    BY <2>1 DEF Call
  <2>3. ASSUME calls'[p] = c PROVE CallOK(p)'
    BY <1>2, <1>5, <2>2, <2>3 DEF ScanRuns, CallOK, Unwritten
  <2>4. Becomes(p, c) /\ calls[p].at \notin Locked /\ c.at \notin Locked
    BY <1>2, <1>5, <2>1, <2>2 DEF ScanRuns
  <2> QED
    BY <1>5, <2>3, <2>4, Unlocked DEF ScanRuns
<1>6. ASSUME NEW r \in Runs, ScanRun(p, r) PROVE StoreInv'
  <2>1. calls[p].at = "scan_runs" /\ IsRoot(r)
    BY <1>1, <1>6, Rooted DEF ScanRun, CallOK
  <2>2. PICK c \in CallType : c = [calls[p] EXCEPT !.runs = @ \ {r}]
    BY <1>1 DEF CallType
  <2>3. Becomes(p, c)
    BY <1>6, <2>1, <2>2 DEF ScanRun, Becomes, StoreInv, TypeOK
  <2>4. c.at = "scan_runs" /\ c.runs = calls[p].runs \ {r}
    BY <1>1, <2>1, <2>2 DEF CallType
  <2>5. ASSUME calls'[p] = c PROVE CallOK(p)'
    BY <1>1, <1>2, <1>6, <2>1, <2>4, <2>5 DEF ScanRun, CallOK, Unwritten
  <2> QED
    BY <1>2, <1>6, <2>1, <2>3, <2>4, <2>5, Unlocked DEF ScanRun
<1>7. CASE Opened(p)
  <2>1. PICK c \in CallType : c = Ready
    BY <1>2 DEF CallType, Call, Maybe, Ready
  <2>2. c.at = "ready"
    BY <2>1 DEF Call, Ready
  <2>3. ASSUME calls'[p] = c PROVE CallOK(p)'
    BY <1>2, <2>2, <2>3 DEF CallOK, Unwritten
  <2>4. Becomes(p, c) /\ calls[p].at \notin Locked /\ c.at \notin Locked
    BY <1>2, <1>7, <2>1, <2>2 DEF Opened
  <2> QED
    BY <1>7, <2>3, <2>4, Unlocked DEF Opened
<1> QED
  BY <1>3, <1>4, <1>5, <1>6, <1>7 DEF OpenStep

LEMMA GetStep ==
  ASSUME StoreInv, NEW p \in Procs, NEW r \in Runs, Get(p, r)
  PROVE  StoreInv'
<1>1. calls[p] \in CallType /\ CallOK(p)
  BY CallFacts
<1>2. /\ <<>> \in Seq(Procs)
      /\ \A at \in {"ready", "built"} : at \notin Locked
  BY DEF Locked, Creating, Replacing
<1>3. runs[r] \in Stored /\ IsRoot(r) /\ runs[r] # None
  BY Rooted DEF Get, StoreInv, TypeOK, Maybe
<1>4. runs[r].audit \in Seq(Procs) /\ runs[r].change \in Changes
  BY <1>3 DEF Stored
<1>5. PICK built \in Seq(Procs) : built = Append(runs[r].audit, p) /\ built # <<>>
  BY <1>4, FrontOfAppend
<1>6. PICK c \in CallType : c = [Call("built", r, runs[r].change) EXCEPT !.built = built]
  BY <1>2, <1>4 DEF CallType, Call, Maybe
<1>7. c.at = "built" /\ c.run = r /\ c.change = runs[r].change /\ c.built = built
  BY <1>6 DEF Call
<1>8. ASSUME calls'[p] = c PROVE CallOK(p)'
  BY <1>2, <1>3, <1>4, <1>5, <1>7, <1>8 DEF Get, CallOK, Unwritten
<1>9. Becomes(p, c) /\ calls[p].at \notin Locked /\ c.at \notin Locked
  BY <1>2, <1>3, <1>5, <1>6, <1>7 DEF Get
<1> QED
  BY <1>8, <1>9, Unlocked DEF Get

(* A lock that is not taken, or is and left at once. *)
LEMMA LockFailsStep ==
  ASSUME StoreInv, NEW p \in Procs, NEW r \in Runs, LockFails(p, r)
  PROVE  StoreInv'
<1>1. "ready" \notin Locked /\ Ready.at = "ready" /\ calls[p].at \notin Locked
  BY DEF LockFails, Locked, Creating, Replacing, Ready, Call
<1>2. PICK c \in CallType : c = Ready
  <2>1. <<>> \in Seq(Procs)
    OBVIOUS
  <2> QED
    BY <2>1 DEF CallType, Ready, Call, Maybe
<1>3. calls' = [calls EXCEPT ![p] = c] /\ UNCHANGED <<claims, runs, disk, acked>>
  BY <1>2 DEF LockFails, Becomes
<1>4. PICK left \in SUBSET ({r} \ locks) :
        locks' = locks \cup left /\ orphans' = orphans \cup left
  BY DEF LockFails
<1>5. left \in SUBSET Runs /\ \A s \in Runs : ~Holds(p, s)
  BY <1>1, <1>4 DEF Holds
<1>6. Left(p, c)
  BY <1>1, <1>2, <1>4, <1>5 DEF Left
<1>7. ASSUME calls'[p] = c PROVE CallOK(p)'
  BY <1>1, <1>2, <1>7 DEF CallOK, Unwritten, Locked, Creating, Replacing, Ready, Call
<1> QED
  BY <1>2, <1>3, <1>6, <1>7, QuietStep DEF LockMoves

LEMMA LockSteps ==
  ASSUME StoreInv, NEW p \in Procs,
         (\E r \in Runs, d \in Changes : BeginCreate(p, r, d)) \/ BeginReplace(p)
  PROVE  StoreInv'
<1>1. calls[p] \in CallType /\ CallOK(p)
  BY CallFacts
<1>2. /\ <<>> \in Seq(Procs) /\ "create" \in Locked /\ "replace" \in Locked
      /\ \A at \in {"ready", "built"} : at \notin Locked
  BY DEF Locked, Creating, Replacing
<1>3. ASSUME NEW r \in Runs, NEW d \in Changes, BeginCreate(p, r, d) PROVE StoreInv'
  <2>1. PICK c \in CallType : c = Call("create", r, d)
    BY <1>2 DEF CallType, Call, Maybe
  <2>2. c.at = "create" /\ c.run = r /\ c.change = d
    BY <2>1 DEF Call
  <2>3. ASSUME calls'[p] = c PROVE CallOK(p)'
    BY <2>2, <2>3 DEF CallOK, Unwritten
  <2>4. calls' = [calls EXCEPT ![p] = c] /\ Taken(p, c) /\ UNCHANGED <<claims, runs, disk, acked>>
    BY <1>2, <1>3, <2>1, <2>2 DEF BeginCreate, Lock, Becomes, Taken, ghosts
  <2> QED
    BY <2>3, <2>4, QuietStep DEF LockMoves
<1>4. CASE BeginReplace(p)
  <2>1. PICK c \in CallType : c = [calls[p] EXCEPT !.at = "replace"]
    BY <1>1, <1>2 DEF CallType
  <2>2. c.at = "replace" /\ c.run = calls[p].run /\ c.change = calls[p].change
        /\ c.built = calls[p].built /\ calls[p].at = "built"
    BY <1>1, <1>4, <2>1 DEF CallType, BeginReplace
  <2>3. /\ calls' = [calls EXCEPT ![p] = c] /\ UNCHANGED <<claims, runs, disk, acked>>
        /\ c.run \notin locks /\ locks' = locks \cup {c.run} /\ orphans' = orphans
    BY <1>4, <2>1, <2>2 DEF BeginReplace, Lock, Becomes, ghosts
  <2>4. Taken(p, c)
    BY <1>1, <1>2, <2>2, <2>3 DEF Taken, CallOK
  <2>5. ASSUME calls'[p] = c PROVE CallOK(p)'
    BY <1>1, <1>2, <2>2, <2>3, <2>5 DEF CallOK, Unwritten
  <2> QED
    BY <2>3, <2>4, <2>5, QuietStep DEF LockMoves
<1> QED
  BY <1>3, <1>4

-----------------------------------------------------------------------------
(* The steps that write *)

(* A step of p's call that publishes a name: nothing another call relies on is undone. *)
LEMMA PublishStep ==
  ASSUME StoreInv, NEW p \in Procs, NEW c \in CallType, calls' = [calls EXCEPT ![p] = c],
         UNCHANGED <<disk, locks, ghosts>>, calls[p].at \in Locked, c.at \in Locked,
         c.run = calls[p].run,
         \A d \in Changes : claims[d] # None => claims'[d] = claims[d],
         \A d \in Changes : claims'[d] # claims[d] => claims'[d] = calls[p].run,
         \A r \in Runs : runs[r] # None => runs'[r] # None /\ runs'[r].change = runs[r].change,
         \A r \in Runs : runs'[r] # runs[r] => r = calls[p].run,
         claims' \in [Changes -> Maybe(Runs)], runs' \in [Runs -> Maybe(Stored)],
         DiskBehind', ClaimedFirst', OneToOne(claims)', calls'[p] = c => CallOK(p)'
  PROVE  StoreInv'
<1>1. /\ diskClaims' = diskClaims /\ diskRuns' = diskRuns /\ locks' = locks
      /\ acked' = acked /\ orphans' = orphans
  BY DEF disk, ghosts
<1>2. calls' \in [Procs -> CallType] /\ calls'[p] = c /\ \A q \in Procs \ {p} : calls'[q] = calls[q]
  BY DEF StoreInv, TypeOK, CallType
<1>3. Kept(p, c)
  BY <1>1 DEF Kept, Holds
<1>4. LocksAccounted' /\ locks' \subseteq Runs
  BY <1>3, LocksKept DEF LockMoves
<1>5. TypeOK'
  BY <1>1, <1>2, <1>4 DEF StoreInv, TypeOK, CallType
<1>6. AcknowledgedSurvives'
  BY <1>1 DEF StoreInv, AcknowledgedSurvives
<1>7. ASSUME NEW q \in Procs, q # p PROVE CallOK(q)'
  <2>1. calls[q].at \in Locked => calls[q].run # calls[p].run /\ calls[q].run \in Runs
    BY <1>7, CallFacts DEF CallOK
  <2>2. calls[q].at \in Locked => /\ runs'[calls[q].run] = runs[calls[q].run]
                                  /\ \A d \in Changes : claims'[d] = calls[q].run
                                                          => claims[d] = calls[q].run
    BY <2>1
  <2> QED
    BY <1>1, <1>2, <1>7, <2>2, CallKept
<1>8. \A q \in Procs : CallOK(q)'
  BY <1>2, <1>7
<1> QED
  BY <1>4, <1>5, <1>6, <1>8 DEF StoreInv

LEMMA LinkStep ==
  ASSUME StoreInv, NEW p \in Procs, Link(p)
  PROVE  StoreInv'
<1>1. calls[p] \in CallType /\ CallOK(p)
  BY CallFacts
<1>2. /\ calls[p].at = "link" /\ calls[p].at \in Locked /\ "sync_claim" \in Locked
      /\ claims[calls[p].change] = None
  BY DEF Link, Locked, Creating
<1>3. PICK c \in CallType : c = [calls[p] EXCEPT !.at = "sync_claim"]
  BY <1>1, <1>2 DEF CallType
<1>4. /\ calls' = [calls EXCEPT ![p] = c] /\ c.at = "sync_claim" /\ c.run = calls[p].run
      /\ c.change = calls[p].change
  BY <1>1, <1>3 DEF Link, Goto, StoreInv, TypeOK, CallType
<1>5. calls[p].run \in Runs /\ calls[p].change \in Changes /\ runs[calls[p].run] = None
      /\ \A d \in Changes \ {calls[p].change} : claims[d] # calls[p].run
  BY <1>1, <1>2 DEF CallOK, Unwritten
<1>6. /\ claims' = [claims EXCEPT ![calls[p].change] = calls[p].run] /\ runs' = runs
      /\ UNCHANGED <<disk, locks, ghosts>> /\ diskClaims' = diskClaims /\ diskRuns' = diskRuns
  BY DEF Link, disk
<1>7. claims' \in [Changes -> Maybe(Runs)] /\ runs' \in [Runs -> Maybe(Stored)]
  BY <1>5, <1>6 DEF StoreInv, TypeOK, Maybe
<1>8. /\ claims'[calls[p].change] = calls[p].run
      /\ \A d \in Changes \ {calls[p].change} : claims'[d] = claims[d]
  BY <1>5, <1>6 DEF StoreInv, TypeOK
<1>9. DiskBehind'
  BY <1>2, <1>5, <1>6, <1>8 DEF StoreInv, DiskBehind
<1>10. ClaimedFirst'
  BY <1>6 DEF StoreInv, ClaimedFirst
<1>11. OneToOne(claims)'
  BY <1>5, <1>8 DEF StoreInv, OneToOne
<1>12. ASSUME calls'[p] = c PROVE CallOK(p)'
  BY <1>4, <1>5, <1>6, <1>8, <1>12 DEF CallOK, Unwritten
<1>13. /\ \A d \in Changes : claims[d] # None => claims'[d] = claims[d]
       /\ \A d \in Changes : claims'[d] # claims[d] => claims'[d] = calls[p].run
       /\ \A r \in Runs : runs[r] # None => runs'[r] # None /\ runs'[r].change = runs[r].change
       /\ \A r \in Runs : runs'[r] # runs[r] => r = calls[p].run
  BY <1>2, <1>6, <1>8
<1>14. UNCHANGED <<disk, locks, ghosts>> /\ c.at \in Locked /\ calls[p].at \in Locked
  BY <1>2, <1>4, <1>6
<1> QED
  BY <1>3, <1>4, <1>7, <1>9, <1>10, <1>11, <1>12, <1>13, <1>14, PublishStep

LEMMA WriteStep ==
  ASSUME StoreInv, NEW p \in Procs, WriteNew(p) \/ Rewrite(p)
  PROVE  StoreInv'
<1> DEFINE r == calls[p].run
<1>1. calls[p] \in CallType /\ CallOK(p) /\ <<>> \in Seq(Procs)
  BY CallFacts
<1>2. /\ calls[p].at \in {"write", "rewrite"} /\ calls[p].at \in Locked /\ "sync_run" \in Locked
      /\ UNCHANGED <<disk, locks, ghosts>> /\ claims' = claims /\ Goto(p, "sync_run")
      /\ diskClaims' = diskClaims /\ diskRuns' = diskRuns
  BY DEF WriteNew, Rewrite, Locked, Creating, Replacing, disk
<1>3. PICK c \in CallType : c = [calls[p] EXCEPT !.at = "sync_run"]
  BY <1>1, <1>2 DEF CallType
<1>4. /\ calls' = [calls EXCEPT ![p] = c] /\ c.at = "sync_run" /\ c.run = r
      /\ c.change = calls[p].change
  BY <1>1, <1>2, <1>3 DEF Goto, StoreInv, TypeOK, CallType
<1>5. r \in Runs /\ calls[p].change \in Changes /\ calls[p].built \in Seq(Procs)
  BY <1>1, <1>2 DEF CallOK, CallType
<1>6. PICK audit \in Seq(Procs) :
        /\ runs' = [runs EXCEPT ![calls[p].run] = [change |-> calls[p].change, audit |-> audit]]
        /\ audit = IF calls[p].at = "write" THEN <<>> ELSE calls[p].built
  BY <1>1, <1>5 DEF WriteNew, Rewrite
<1>7. PICK new \in Stored : new = [change |-> calls[p].change, audit |-> audit]
  BY <1>5, <1>6 DEF Stored
<1>8. /\ new.change = calls[p].change /\ new.audit = audit /\ new # None /\ runs'[r] = new
      /\ \A s \in Runs \ {r} : runs'[s] = runs[s]
  <2>1. runs'[r] = new /\ \A s \in Runs \ {r} : runs'[s] = runs[s]
    BY <1>5, <1>6, <1>7 DEF StoreInv, TypeOK
  <2>2. new.change = calls[p].change /\ new.audit = audit
    BY <1>7
  <2>3. new # None
    BY RunStoreAssumption DEF Stored
  <2> QED
    BY <2>1, <2>2, <2>3
<1>9. claims' \in [Changes -> Maybe(Runs)] /\ runs' \in [Runs -> Maybe(Stored)]
  BY <1>2, <1>5, <1>6, <1>7 DEF StoreInv, TypeOK, Maybe
<1>10. CASE WriteNew(p)
  <2>1. runs[r] = None /\ diskRuns[r] = None /\ diskClaims[calls[p].change] = r
    BY <1>1, <1>5, <1>10 DEF WriteNew, CallOK, Unwritten, StoreInv, DiskBehind
  <2>2. DiskBehind' /\ ClaimedFirst' /\ OneToOne(claims)'
    BY <1>2, <1>8, <2>1 DEF StoreInv, DiskBehind, ClaimedFirst, OneToOne
  <2>3. ASSUME calls'[p] = c PROVE CallOK(p)'
    BY <1>2, <1>4, <1>5, <1>8, <2>3 DEF CallOK, Unwritten
  <2> QED
    BY <1>2, <1>3, <1>4, <1>8, <1>9, <2>1, <2>2, <2>3, PublishStep
<1>11. CASE Rewrite(p)
  <2>1. /\ runs[r] # None /\ runs[r].change = calls[p].change /\ audit # <<>>
        /\ runs[r].audit = Front(audit)
    BY <1>1, <1>6, <1>11 DEF Rewrite, CallOK, Current
  <2>2. IsPrefix(runs[r].audit, audit) /\ runs[r].audit \in Seq(Procs)
    BY <2>1, FrontIsPrefix
  <2>3. diskRuns[r] # None => IsPrefix(diskRuns[r].audit, audit)
    <3>1. SUFFICES ASSUME diskRuns[r] # None PROVE IsPrefix(diskRuns[r].audit, audit)
      OBVIOUS
    <3>2. diskRuns[r] \in Stored
      BY <1>5, <3>1 DEF StoreInv, TypeOK, Maybe
    <3>3. diskRuns[r].audit \in Seq(Procs) /\ IsPrefix(diskRuns[r].audit, runs[r].audit)
      BY <1>5, <3>1, <3>2 DEF Stored, StoreInv, DiskBehind
    <3> QED
      BY <2>2, <3>3, PrefixOrder
  <2>4. DiskBehind' /\ ClaimedFirst' /\ OneToOne(claims)'
    BY <1>2, <1>8, <2>1, <2>3 DEF StoreInv, DiskBehind, ClaimedFirst, OneToOne
  <2>5. ASSUME calls'[p] = c PROVE CallOK(p)'
    BY <1>2, <1>4, <1>5, <1>8, <2>5 DEF CallOK, Unwritten
  <2> QED
    BY <1>2, <1>3, <1>4, <1>8, <1>9, <2>1, <2>4, <2>5, PublishStep
<1> QED
  BY <1>10, <1>11

LEMMA ReturnStep ==
  ASSUME StoreInv, NEW p \in Procs, Return(p)
  PROVE  StoreInv'
<1>1. calls[p] \in CallType /\ CallOK(p)
  BY CallFacts
<1>2. /\ calls[p].at \in Locked /\ calls[p].at = "sync_run" /\ "ready" \notin Locked
      /\ Ready.at = "ready"
  BY DEF Return, Locked, Creating, Replacing, Ready, Call
<1>3. PICK c \in CallType : c = Ready
  <2>1. <<>> \in Seq(Procs)
    OBVIOUS
  <2> QED
    BY <2>1 DEF CallType, Ready, Call, Maybe
<1>4. calls' = [calls EXCEPT ![p] = c] /\ Released(p, c)
  BY <1>2, <1>3 DEF Return, Release, Becomes, Released
<1>5. /\ claims' = claims /\ runs' = runs /\ diskClaims' = diskClaims /\ diskRuns' = diskRuns
      /\ orphans' = orphans /\ diskRuns = runs
      /\ acked' = [acked EXCEPT ![calls[p].run] = runs[calls[p].run].audit]
  BY DEF Return, Release, RunSynced, disk
<1>6. LocksAccounted' /\ locks' \subseteq Runs
  BY <1>3, <1>4, LocksKept DEF LockMoves
<1>7. calls' \in [Procs -> CallType] /\ calls'[p] = c /\ \A q \in Procs \ {p} : calls'[q] = calls[q]
  BY <1>3, <1>4 DEF StoreInv, TypeOK, CallType
<1>8. calls[p].run \in Runs /\ runs[calls[p].run] # None
  BY <1>1, <1>2 DEF CallOK
<1>9. runs[calls[p].run] \in Stored
  BY <1>8 DEF StoreInv, TypeOK, Maybe
<1>10. PICK audit \in Seq(Procs) : audit = runs[calls[p].run].audit /\ IsPrefix(audit, audit)
  BY <1>9, PrefixOrder DEF Stored
<1>11. /\ acked' \in [Runs -> Maybe(Seq(Procs))] /\ acked'[calls[p].run] = audit
       /\ \A r \in Runs \ {calls[p].run} : acked'[r] = acked[r]
  BY <1>5, <1>8, <1>10 DEF StoreInv, TypeOK, Maybe
<1>12. TypeOK'
  BY <1>5, <1>6, <1>7, <1>11 DEF StoreInv, TypeOK, CallType
<1>13. AcknowledgedSurvives'
  BY <1>5, <1>8, <1>10, <1>11 DEF StoreInv, AcknowledgedSurvives
<1>14. DiskBehind' /\ ClaimedFirst' /\ OneToOne(claims)'
  BY <1>5 DEF StoreInv, DiskBehind, ClaimedFirst, OneToOne
<1>15. CallOK(p)'
  BY <1>2, <1>3, <1>7 DEF CallOK, Unwritten, Locked, Creating, Replacing
<1>16. \A q \in Procs \ {p} : CallOK(q)'
  BY <1>5, <1>7, CallKept
<1> QED
  BY <1>6, <1>12, <1>13, <1>14, <1>15, <1>16 DEF StoreInv

-----------------------------------------------------------------------------
(* The machine *)

LEMMA WriteBackStep ==
  ASSUME StoreInv,
         (\E c \in Changes : WriteBackClaim(c)) \/ (\E r \in Runs : WriteBackRun(r))
  PROVE  StoreInv'
<1>1. /\ claims' = claims /\ runs' = runs /\ locks' = locks /\ calls' = calls
      /\ acked' = acked /\ orphans' = orphans
  BY DEF WriteBackClaim, WriteBackRun, ghosts
<1>2. OneToOne(claims)' /\ LocksAccounted'
  BY <1>1 DEF StoreInv, OneToOne, LocksAccounted, Holds
<1>3. ASSUME NEW c \in Changes, WriteBackClaim(c) PROVE StoreInv'
  <2>1. /\ diskRuns' = diskRuns /\ diskClaims' = [diskClaims EXCEPT ![c] = claims[c]]
        /\ diskClaims[c] # claims[c]
    BY <1>3 DEF WriteBackClaim
  <2>2. TypeOK'
    BY <1>1, <2>1 DEF StoreInv, TypeOK, Maybe
  <2>3. diskClaims[c] = None /\ \A d \in Changes : diskClaims[d] # None => diskClaims'[d] = diskClaims[d]
    BY <2>1 DEF StoreInv, TypeOK, DiskBehind
  <2>4. DiskBehind'
    BY <1>1, <2>1 DEF StoreInv, TypeOK, DiskBehind
  <2>5. ClaimedFirst'
    <3>1. SUFFICES ASSUME NEW r \in Runs, runs[r] # None PROVE diskClaims'[runs[r].change] = r
      BY <1>1 DEF ClaimedFirst
    <3>2. runs[r].change \in Changes
      BY <3>1, Rooted
    <3>3. diskClaims[runs[r].change] = r /\ r # None
      BY <3>1, RunStoreAssumption DEF StoreInv, ClaimedFirst
    <3> QED
      BY <2>3, <3>2, <3>3
  <2>6. AcknowledgedSurvives'
    BY <1>1, <2>1 DEF StoreInv, AcknowledgedSurvives
  <2>7. \A q \in Procs : CallOK(q)'
    BY <1>1, <2>3, CallKept
  <2> QED
    BY <1>2, <2>2, <2>4, <2>5, <2>6, <2>7 DEF StoreInv
<1>4. ASSUME NEW r \in Runs, WriteBackRun(r) PROVE StoreInv'
  <2>1. /\ diskClaims' = diskClaims /\ diskRuns' = [diskRuns EXCEPT ![r] = runs[r]]
        /\ diskRuns[r] # runs[r]
    BY <1>4 DEF WriteBackRun
  <2>2. TypeOK'
    BY <1>1, <2>1 DEF StoreInv, TypeOK, Maybe
  <2>3. diskRuns'[r] = runs[r] /\ \A s \in Runs \ {r} : diskRuns'[s] = diskRuns[s]
    BY <2>1 DEF StoreInv, TypeOK
  <2>4. runs[r] # None => runs[r].audit \in Seq(Procs) /\ IsPrefix(runs[r].audit, runs[r].audit)
    BY PrefixOrder DEF StoreInv, TypeOK, Maybe, Stored
  <2>5. DiskBehind'
    BY <1>1, <2>1, <2>3, <2>4 DEF StoreInv, DiskBehind
  <2>6. ClaimedFirst'
    BY <1>1, <2>1 DEF StoreInv, ClaimedFirst
  <2>7. AcknowledgedSurvives'
    <3>1. SUFFICES ASSUME acked[r] # None
                   PROVE  runs[r] # None /\ IsPrefix(acked[r], runs[r].audit)
      BY <1>1, <2>3 DEF StoreInv, AcknowledgedSurvives
    <3>2. /\ diskRuns[r] # None /\ IsPrefix(acked[r], diskRuns[r].audit) /\ runs[r] # None
          /\ IsPrefix(diskRuns[r].audit, runs[r].audit)
      BY <3>1 DEF StoreInv, AcknowledgedSurvives, DiskBehind
    <3>3. diskRuns[r] \in Stored /\ runs[r] \in Stored /\ acked[r] \in Seq(Procs)
      BY <3>1, <3>2 DEF StoreInv, TypeOK, Maybe
    <3>4. diskRuns[r].audit \in Seq(Procs) /\ runs[r].audit \in Seq(Procs)
      BY <3>3 DEF Stored
    <3> QED
      BY <3>2, <3>3, <3>4, PrefixOrder
  <2>8. \A q \in Procs : CallOK(q)'
    BY <1>1, <2>1, CallKept
  <2> QED
    BY <1>2, <2>2, <2>5, <2>6, <2>7, <2>8 DEF StoreInv
<1> QED
  BY <1>3, <1>4

(* A process that dies leaves the lock of the call it was in. *)
LEMMA CrashStep ==
  ASSUME StoreInv, NEW p \in Procs, Crash(p)
  PROVE  StoreInv'
<1>1. /\ claims' = claims /\ runs' = runs /\ diskClaims' = diskClaims /\ diskRuns' = diskRuns
      /\ locks' = locks /\ acked' = acked /\ orphans' = orphans \cup {r \in Runs : Holds(p, r)}
      /\ calls' = [calls EXCEPT ![p] = Closed]
  BY DEF Crash, Becomes, disk
<1>2. PICK c \in CallType : c = Closed
  <2>1. <<>> \in Seq(Procs)
    OBVIOUS
  <2> QED
    BY <2>1 DEF CallType, Closed, Call, Maybe
<1>3. /\ calls' \in [Procs -> CallType] /\ calls'[p] = c
      /\ \A q \in Procs \ {p} : calls'[q] = calls[q]
  BY <1>1, <1>2 DEF StoreInv, TypeOK, CallType
<1>4. c.at = "closed" /\ "closed" \notin Locked
  BY <1>2 DEF Closed, Call, Locked, Creating, Replacing
<1>5. TypeOK'
  BY <1>1, <1>3 DEF StoreInv, TypeOK, CallType
<1>6. DiskBehind' /\ ClaimedFirst' /\ OneToOne(claims)' /\ AcknowledgedSurvives'
  BY <1>1 DEF StoreInv, DiskBehind, ClaimedFirst, OneToOne, AcknowledgedSurvives
<1>7. \A r \in Runs : /\ ~Holds(p, r)'
                      /\ \A q \in Procs \ {p} : Holds(q, r)' <=> Holds(q, r)
  BY <1>3, <1>4 DEF Holds
<1>8. LocksAccounted' /\ orphans' \subseteq Runs
  <2>1. {r \in Runs : Holds(p, r)} \in SUBSET Runs /\ locks' = locks \cup {r \in Runs : Holds(p, r)}
    BY <1>1 DEF StoreInv, LocksAccounted
  <2>2. Left(p, c)
    BY <1>1, <1>4, <2>1 DEF Left
  <2> QED
    BY <1>1, <1>2, <2>2, LocksKept DEF LockMoves
<1>9. CallOK(p)'
  BY <1>3, <1>4 DEF CallOK, Unwritten, Locked, Creating, Replacing
<1>10. \A q \in Procs \ {p} : CallOK(q)'
  BY <1>1, <1>3, CallKept
<1> QED
  BY <1>5, <1>6, <1>8, <1>9, <1>10 DEF StoreInv

LEMMA PowerLossStep ==
  ASSUME StoreInv, PowerLoss
  PROVE  StoreInv'
<1>1. /\ claims' = diskClaims /\ runs' = diskRuns /\ diskClaims' = diskClaims
      /\ diskRuns' = diskRuns /\ calls' = [q \in Procs |-> Closed] /\ acked' = acked
      /\ orphans' = locks'
  BY DEF PowerLoss, disk
<1>2. locks' \subseteq Runs
  BY DEF PowerLoss, StoreInv, TypeOK
<1>3. PICK c \in CallType : c = Closed
  <2>1. <<>> \in Seq(Procs)
    OBVIOUS
  <2> QED
    BY <2>1 DEF CallType, Closed, Call, Maybe
<1>4. c.at = "closed" /\ "closed" \notin Locked /\ calls' = [q \in Procs |-> c]
  BY <1>1, <1>3 DEF Closed, Call, Locked, Creating, Replacing
<1>5. TypeOK'
  BY <1>1, <1>2, <1>4 DEF StoreInv, TypeOK, CallType
<1>6. \A r \in Runs : diskRuns[r] # None =>
        diskRuns[r].audit \in Seq(Procs) /\ IsPrefix(diskRuns[r].audit, diskRuns[r].audit)
  BY PrefixOrder DEF StoreInv, TypeOK, Maybe, Stored
<1>7. DiskBehind' /\ AcknowledgedSurvives'
  BY <1>1, <1>6 DEF StoreInv, DiskBehind, AcknowledgedSurvives
<1>8. ClaimedFirst' /\ OneToOne(claims)'
  BY <1>1, Rooted DEF DiskIsIndexed, Indexed, OneToOne, ClaimedFirst
<1>9. \A q \in Procs : calls'[q].at = "closed"
  BY <1>4
<1>10. LocksAccounted'
  BY <1>1, <1>4, <1>9 DEF LocksAccounted, Holds
<1>11. \A q \in Procs : CallOK(q)'
  BY <1>9 DEF CallOK, Unwritten, Locked, Creating, Replacing
<1> QED
  BY <1>5, <1>7, <1>8, <1>10, <1>11 DEF StoreInv

LEMMA ClearStep ==
  ASSUME StoreInv, NEW s \in Runs, HumanClearsLock(s)
  PROVE  StoreInv'
<1>1. /\ claims' = claims /\ runs' = runs /\ diskClaims' = diskClaims /\ diskRuns' = diskRuns
      /\ calls' = calls /\ acked' = acked /\ locks' = locks \ {s} /\ orphans' = orphans \ {s}
      /\ \A q \in Procs : ~Holds(q, s)
  BY DEF HumanClearsLock, disk
<1>2. TypeOK'
  BY <1>1 DEF StoreInv, TypeOK
<1>3. DiskBehind' /\ ClaimedFirst' /\ OneToOne(claims)' /\ AcknowledgedSurvives'
  BY <1>1 DEF StoreInv, DiskBehind, ClaimedFirst, OneToOne, AcknowledgedSurvives
<1>4. \A q \in Procs, r \in Runs : Holds(q, r)' <=> Holds(q, r)
  BY <1>1 DEF Holds
<1>5. LocksAccounted'
  BY <1>1, <1>4 DEF StoreInv, LocksAccounted, TypeOK
<1>6. \A q \in Procs : CallOK(q)'
  BY <1>1, CallKept
<1> QED
  BY <1>2, <1>3, <1>5, <1>6 DEF StoreInv

-----------------------------------------------------------------------------
(* The theorems *)

LEMMA StoreInit == Init => StoreInv
<1> SUFFICES ASSUME Init PROVE StoreInv
  OBVIOUS
<1>1. <<>> \in Seq(Procs)
  OBVIOUS
<1>2. PICK c \in CallType : c = Closed
  BY <1>1 DEF CallType, Closed, Call, Maybe
<1>3. c.at = "closed" /\ "closed" \notin Locked /\ calls = [q \in Procs |-> c]
  BY <1>2 DEF Init, Closed, Call, Locked, Creating, Replacing
<1>4. TypeOK
  BY <1>3 DEF Init, TypeOK, CallType, Maybe
<1>5. DiskBehind /\ ClaimedFirst /\ OneToOne(claims) /\ AcknowledgedSurvives
  BY DEF Init, DiskBehind, ClaimedFirst, OneToOne, AcknowledgedSurvives
<1>6. LocksAccounted
  BY <1>3 DEF Init, LocksAccounted, Holds
<1>7. \A q \in Procs : CallOK(q)
  BY <1>3 DEF CallOK, Unwritten, Locked, Creating, Replacing
<1> QED
  BY <1>4, <1>5, <1>6, <1>7 DEF StoreInv

LEMMA StoreStutter == StoreInv /\ UNCHANGED vars => StoreInv'
<1> SUFFICES ASSUME StoreInv, UNCHANGED vars PROVE StoreInv'
  OBVIOUS
<1>1. /\ claims' = claims /\ runs' = runs /\ diskClaims' = diskClaims /\ diskRuns' = diskRuns
      /\ locks' = locks /\ calls' = calls /\ acked' = acked /\ orphans' = orphans
  BY DEF vars
<1>2. TypeOK' /\ DiskBehind' /\ ClaimedFirst' /\ OneToOne(claims)' /\ AcknowledgedSurvives'
  BY <1>1 DEF StoreInv, TypeOK, DiskBehind, ClaimedFirst, OneToOne, AcknowledgedSurvives
<1>3. LocksAccounted'
  BY <1>1 DEF StoreInv, LocksAccounted, Holds
<1>4. \A q \in Procs : CallOK(q)'
  BY <1>1, CallKept
<1> QED
  BY <1>2, <1>3, <1>4 DEF StoreInv

LEMMA StoreStep == StoreInv /\ [Next]_vars => StoreInv'
<1> SUFFICES ASSUME StoreInv, [Next]_vars PROVE StoreInv'
  OBVIOUS
<1>1. ASSUME NEW p \in Procs, CreateStep(p) PROVE StoreInv'
  BY <1>1, LockSteps, CreateMoves, Throws, LinkStep, WriteStep DEF CreateStep
<1>2. ASSUME NEW p \in Procs, ReplaceStep(p) PROVE StoreInv'
  BY <1>2, GetStep, LockSteps, ReplaceMoves, Throws, WriteStep DEF ReplaceStep
<1>3. ASSUME NEW p \in Procs,
             OpenStep(p) \/ Return(p) \/ Fail(p) \/ Crash(p) \/ \E r \in Runs : LockFails(p, r)
      PROVE  StoreInv'
  BY <1>3, OpenSteps, ReturnStep, Throws, CrashStep, LockFailsStep
<1>4. CASE MachineStep
  BY <1>4, WriteBackStep, PowerLossStep, ClearStep DEF MachineStep
<1> QED
  BY <1>1, <1>2, <1>3, <1>4, StoreStutter DEF Next

(* StoreInv is inductive, for any processes, changes and runs: through every  *)
(* interleaving of the file operations of #admit, #write and #locked, with    *)
(* failed operations, crashes and power losses.                               *)
THEOREM StoreChange == Spec => []StoreInv
BY StoreInit, StoreStep, PTL DEF Spec

(* The store's variables keep their types. *)
THEOREM StoreTypeCorrect == Spec => []TypeOK
<1>1. StoreInv => TypeOK
  BY DEF StoreInv
<1> QED
  BY <1>1, StoreChange, PTL

(* #admit gives a change one ROOT run and a run one change, and no visible    *)
(* run file is without the claim that admits it.                              *)
THEOREM RootsCorrect == Spec => []OneRootPerChange
<1>1. StoreInv => OneRootPerChange
  BY Rooted
<1> QED
  BY <1>1, StoreChange, PTL

(* The fsync of the claim before the run file is written: a power loss at any *)
(* moment leaves an indexed directory.                                        *)
THEOREM DiskCorrect == Spec => []DiskIsIndexed
<1>1. StoreInv => DiskIsIndexed
  BY Rooted
<1> QED
  BY <1>1, StoreChange, PTL

(* #assertIndexed and #assertRoot never meet a contradiction the store itself *)
(* wrote, whatever was being written while they read.                         *)
THEOREM OpensCorrect == Spec => []NeverRefusesItself
<1>1. StoreInv => NeverRefusesItself
  BY DEF StoreInv, CallOK, NeverRefusesItself
<1> QED
  BY <1>1, StoreChange, PTL

(* What #write reported as stored is on the disk, and stays there.            *)
THEOREM StoredSurvives == Spec => []AcknowledgedSurvives
<1>1. StoreInv => AcknowledgedSurvives
  BY DEF StoreInv
<1> QED
  BY <1>1, StoreChange, PTL

(* #locked: one writer of a run at a time, and none of a run whose lock was   *)
(* left, by a crash, a failed fstat or a failed release; no refusal leaves    *)
(* one, and no call removes a lock of another, left or in use.                *)
THEOREM LocksCorrect == Spec => []LocksAccounted
<1>1. StoreInv => LocksAccounted
  BY DEF StoreInv
<1> QED
  BY <1>1, StoreChange, PTL

-----------------------------------------------------------------------------
(* Updates *)

(* Outside a power loss a visible run only gains entries. *)
Gains ==
  \A r \in Runs : runs[r] # None /\ ~(\A p \in Procs : calls'[p] = Closed) =>
    runs'[r] # None /\ runs'[r].change = runs[r].change /\ IsPrefix(runs[r].audit, runs'[r].audit)

LEMMA GainsUnchanged ==
  ASSUME StoreInv, runs' = runs
  PROVE  Gains
<1>1. \A r \in Runs : runs[r] # None => runs[r].audit \in Seq(Procs)
  BY DEF StoreInv, TypeOK, Maybe, Stored
<1> QED
  BY <1>1, PrefixOrder DEF Gains

LEMMA GainsWrite ==
  ASSUME StoreInv, NEW p \in Procs, WriteNew(p) \/ Rewrite(p)
  PROVE  Gains
<1>1. calls[p] \in CallType /\ CallOK(p)
  BY CallFacts
<1>2. calls[p].run \in Runs /\ calls[p].built \in Seq(Procs)
  BY <1>1 DEF CallOK, CallType, WriteNew, Rewrite, Locked, Creating, Replacing
<1>3. \A r \in Runs \ {calls[p].run} : runs'[r] = runs[r]
  BY <1>2 DEF WriteNew, Rewrite, StoreInv, TypeOK
<1>4. \A r \in Runs : runs[r] # None => runs[r].audit \in Seq(Procs)
  BY DEF StoreInv, TypeOK, Maybe, Stored
<1>5. CASE WriteNew(p)
  <2>1. runs[calls[p].run] = None
    BY <1>1, <1>5 DEF WriteNew, CallOK, Unwritten
  <2> QED
    BY <1>3, <1>4, <2>1, PrefixOrder DEF Gains
<1>6. CASE Rewrite(p)
  <2>1. /\ runs[calls[p].run] # None /\ runs[calls[p].run].change = calls[p].change
        /\ calls[p].built # <<>> /\ runs[calls[p].run].audit = Front(calls[p].built)
        /\ calls[p].change \in Changes
    BY <1>1, <1>6 DEF Rewrite, CallOK, Current, Locked, Replacing
  <2>2. IsPrefix(runs[calls[p].run].audit, calls[p].built)
    BY <1>2, <2>1, FrontIsPrefix
  <2>3. runs'[calls[p].run] = [change |-> calls[p].change, audit |-> calls[p].built]
    BY <1>2, <1>6 DEF Rewrite, StoreInv, TypeOK
  <2>4. runs'[calls[p].run].change = calls[p].change /\ runs'[calls[p].run].audit = calls[p].built
    BY <2>3
  <2>5. runs'[calls[p].run] # None
    BY <1>2, <2>1, <2>3, RunStoreAssumption
  <2> QED
    BY <1>3, <1>4, <2>1, <2>2, <2>4, <2>5, PrefixOrder DEF Gains
<1> QED
  BY <1>5, <1>6

LEMMA StepGains == StoreInv /\ [Next]_vars => Gains
<1> SUFFICES ASSUME StoreInv, [Next]_vars PROVE Gains
  OBVIOUS
<1>1. CASE UNCHANGED vars
  BY <1>1, GainsUnchanged DEF vars
<1>2. ASSUME NEW p \in Procs,
             OpenStep(p) \/ Return(p) \/ Fail(p) \/ Crash(p) \/ \E r \in Runs : LockFails(p, r)
      PROVE  Gains
  <2>1. runs' = runs
    BY <1>2 DEF OpenStep, Open, ScanClaim, ScanRuns, ScanRun, Opened, Return, Fail, Throw, Crash,
                LockFails
  <2> QED
    BY <2>1, GainsUnchanged
<1>3. ASSUME NEW p \in Procs, CreateStep(p) PROVE Gains
  <2>1. runs' = runs \/ WriteNew(p)
    BY <1>3 DEF CreateStep, BeginCreate, Lock, LoadNew, DuplicateRun, NoAdmission, RootPending,
                SecondRunForChange, AssertRootUnclaimed, RootOfAnotherChange, Link, LinkLost,
                SyncClaim, Throw
  <2> QED
    BY <2>1, GainsUnchanged, GainsWrite
<1>4. ASSUME NEW p \in Procs, ReplaceStep(p) PROVE Gains
  <2>1. runs' = runs \/ Rewrite(p)
    BY <1>4 DEF ReplaceStep, Get, BeginReplace, Lock, LoadCurrent, StaleRun, Throw
  <2> QED
    BY <2>1, GainsUnchanged, GainsWrite
<1>5. CASE PowerLoss
  <2>1. \A p \in Procs : calls'[p] = Closed
    BY <1>5 DEF PowerLoss
  <2> QED
    BY <2>1 DEF Gains
<1>6. CASE MachineStep /\ ~PowerLoss
  <2>1. runs' = runs
    BY <1>6 DEF MachineStep, WriteBackClaim, WriteBackRun, HumanClearsLock
  <2> QED
    BY <2>1, GainsUnchanged
<1> QED
  BY <1>1, <1>2, <1>3, <1>4, <1>5, <1>6 DEF Next

(* replace under #locked: two writers of one run never lose each other's      *)
(* entry, because the trail is compared again inside the lock.                *)
THEOREM UpdatesKept == Spec => NoLostUpdate
<1>1. StoreInv /\ [Next]_vars =>
        [\A r \in Runs : runs[r] # None /\ ~(\A p \in Procs : calls'[p] = Closed) =>
           /\ runs'[r] # None
           /\ runs'[r].change = runs[r].change
           /\ IsPrefix(runs[r].audit, runs'[r].audit)]_vars
  BY StepGains DEF Gains
<1> QED
  BY <1>1, StoreChange, PTL DEF Spec, NoLostUpdate

-----------------------------------------------------------------------------
(* The disk is a registry *)

LEMMA ClaimAdmits ==
  ASSUME StoreInv, NEW c \in Changes, WriteBackClaim(c)
  PROVE  \E r \in Runs : Registry!Admit(c, r)
<1>1. /\ diskClaims' = [diskClaims EXCEPT ![c] = claims[c]] /\ diskRuns' = diskRuns
      /\ diskClaims[c] # claims[c]
  BY DEF WriteBackClaim
<1>2. diskClaims[c] = None /\ claims[c] # None
  BY <1>1 DEF StoreInv, DiskBehind
<1>3. PICK r \in Runs : r = claims[c]
  BY <1>2 DEF StoreInv, TypeOK, Maybe
<1>4. \A d \in Changes : diskClaims[d] # r
  BY <1>2, <1>3, RunStoreAssumption DEF StoreInv, DiskBehind, OneToOne
<1> QED
  BY <1>1, <1>2, <1>3, <1>4 DEF Registry!Admit

LEMMA RunStored ==
  ASSUME StoreInv, NEW r \in Runs, WriteBackRun(r)
  PROVE  Registry!Create(r) \/ Registry!Advance(r)
<1>1. /\ diskRuns' = [diskRuns EXCEPT ![r] = runs[r]] /\ diskClaims' = diskClaims
      /\ diskRuns[r] # runs[r] /\ diskRuns'[r] = runs[r]
  BY DEF WriteBackRun, StoreInv, TypeOK
<1>2. runs[r] # None /\ runs[r] \in Stored
  BY <1>1 DEF StoreInv, DiskBehind, TypeOK, Maybe
<1>3. diskClaims[runs[r].change] = r
  BY <1>2 DEF StoreInv, ClaimedFirst
<1>4. Registry!Stores(r)
  BY <1>1 DEF Registry!Stores
<1>5. CASE diskRuns[r] = None
  BY <1>1, <1>2, <1>3, <1>4, <1>5 DEF Registry!Create
<1>6. CASE diskRuns[r] # None
  <2>1. diskRuns[r] \in Stored /\ runs[r].change = diskRuns[r].change
        /\ IsPrefix(diskRuns[r].audit, runs[r].audit)
    BY <1>6 DEF StoreInv, DiskBehind, TypeOK, Maybe
  <2>2. diskRuns[r].audit # runs[r].audit
    BY <1>1, <1>2, <2>1 DEF Stored
  <2>3. Registry!IsStrictPrefix(diskRuns[r].audit, diskRuns'[r].audit)
    BY <1>1, <2>1, <2>2 DEF Registry!IsStrictPrefix, Registry!IsPrefix, IsPrefix
  <2>4. diskRuns'[r] # None /\ diskRuns'[r].change = diskRuns[r].change
    BY <1>1, <1>2, <2>1
  <2> QED
    BY <1>4, <1>6, <2>3, <2>4 DEF Registry!Advance
<1> QED
  BY <1>5, <1>6

LEMMA DiskKept ==
  ASSUME NEW p \in Procs,
         OpenStep(p) \/ CreateStep(p) \/ ReplaceStep(p) \/ Return(p) \/ Fail(p) \/ Crash(p)
           \/ \E r \in Runs : LockFails(p, r)
  PROVE  UNCHANGED <<diskClaims, diskRuns>>
<1>1. CASE OpenStep(p)
  BY <1>1 DEF OpenStep, Open, ScanClaim, ScanRuns, ScanRun, Opened, disk
<1>2. CASE CreateStep(p)
  BY <1>2 DEF CreateStep, BeginCreate, Lock, LoadNew, DuplicateRun, NoAdmission, RootPending,
              SecondRunForChange, AssertRootUnclaimed, RootOfAnotherChange, Link, LinkLost,
              SyncClaim, WriteNew, Throw, disk
<1>3. CASE ReplaceStep(p)
  BY <1>3 DEF ReplaceStep, Get, BeginReplace, Lock, LoadCurrent, StaleRun, Rewrite,
              Throw, disk
<1> QED
  BY <1>1, <1>2, <1>3 DEF Return, Fail, Throw, Crash, LockFails, disk

LEMMA RegistryStep ==
  ASSUME StoreInv, [Next]_vars
  PROVE  [Registry!Next]_<<diskClaims, diskRuns>>
<1>1. ASSUME NEW c \in Changes, WriteBackClaim(c) PROVE Registry!Next
  BY <1>1, ClaimAdmits DEF Registry!Next
<1>2. ASSUME NEW r \in Runs, WriteBackRun(r) PROVE Registry!Next
  BY <1>2, RunStored DEF Registry!Next
<1>3. CASE PowerLoss \/ (\E r \in Runs : HumanClearsLock(r))
  BY <1>3 DEF PowerLoss, HumanClearsLock, disk
<1>4. CASE UNCHANGED vars
  BY <1>4 DEF vars
<1> QED
  BY <1>1, <1>2, <1>3, <1>4, DiskKept DEF Next, MachineStep

(* The disk under the store, through every crash and power loss, is a         *)
(* RunRegistry (CHIEF-GOV/1): a write-back of a claim admits a ROOT, a        *)
(* write-back of a run file creates or advances it, and nothing else moves it.*)
THEOREM StoreImplementsRegistry == Spec => RegistrySpec
<1>1. Init => Registry!Init
  BY DEF Init, Registry!Init
<1>2. StoreInv /\ [Next]_vars => [Registry!Next]_<<diskClaims, diskRuns>>
  BY RegistryStep
<1> QED
  BY <1>1, <1>2, StoreChange, PTL DEF Spec, RegistrySpec, Registry!Spec

=============================================================================
