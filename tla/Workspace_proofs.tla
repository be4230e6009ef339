--------------------------- MODULE Workspace_proofs ---------------------------
(* Proofs about Workspace, for any requests, goals, runs and bounds.         *)
EXTENDS Workspace, SequenceTheorems, TLAPS

(* A history that every load accepts (validateQueue). *)
QueueOK(h) ==
  /\ h \in Seq(Events) /\ Len(h) <= MaxHistory
  /\ \A i \in DOMAIN h : Replays(SubSeq(h, 1, i - 1), h[i])

-----------------------------------------------------------------------------
(* One more event, or fewer *)

LEMMA AppendFacts ==
  ASSUME NEW h \in Seq(Events), NEW event \in Events
  PROVE  /\ Append(h, event) \in Seq(Events)
         /\ Len(Append(h, event)) = Len(h) + 1
         /\ \A i \in 1 .. Len(h) : Append(h, event)[i] = h[i]
         /\ Append(h, event)[Len(h) + 1] = event
         /\ \A n \in 0 .. Len(h) : SubSeq(Append(h, event), 1, n) = SubSeq(h, 1, n)
         /\ SubSeq(Append(h, event), 1, Len(h)) = h
<1>1. /\ Append(h, event) \in Seq(Events)
      /\ Len(Append(h, event)) = Len(h) + 1
      /\ \A i \in 1 .. Len(h) : Append(h, event)[i] = h[i]
      /\ Append(h, event)[Len(h) + 1] = event
  BY AppendProperties
<1>2. ASSUME NEW n \in 0 .. Len(h)
      PROVE  SubSeq(Append(h, event), 1, n) = SubSeq(h, 1, n)
  <2>1. Len(SubSeq(Append(h, event), 1, n)) = n /\ Len(SubSeq(h, 1, n)) = n
    BY <1>1, SubSeqProperties
  <2>2. \A i \in 1 .. n : SubSeq(Append(h, event), 1, n)[i] = SubSeq(h, 1, n)[i]
    BY <1>1, SubSeqProperties
  <2> QED
    BY <1>1, <2>1, <2>2, SeqEqual, SubSeqProperties
<1>3. SubSeq(h, 1, Len(h)) = h
  BY SubSeqFull
<1> QED
  BY <1>1, <1>2, <1>3

(* What was added and removed is what it was, and what the event says. *)
LEMMA AppendQueue ==
  ASSUME NEW h \in Seq(Events), NEW event \in Events
  PROVE  /\ Added(Append(h, event)) =
              Added(h) \cup (IF event.kind = "GOAL_ADDED" THEN event.goals ELSE {})
         /\ Removed(Append(h, event)) =
              Removed(h) \cup (IF event.kind = "GOAL_REMOVED" THEN event.goals ELSE {})
<1> DEFINE next == Append(h, event)
           Of(s, kind) == UNION {e.goals : e \in {s[i] : i \in {j \in DOMAIN s : s[j].kind = kind}}}
<1>1. /\ DOMAIN h = 1 .. Len(h) /\ DOMAIN next = 1 .. Len(h) + 1
      /\ \A i \in 1 .. Len(h) : next[i] = h[i]
      /\ next[Len(h) + 1] = event
  BY AppendFacts, LenProperties
<1>2. ASSUME NEW kind
      PROVE  Of(next, kind) = Of(h, kind) \cup (IF event.kind = kind THEN event.goals ELSE {})
  <2>1. ASSUME NEW g \in Of(next, kind)
        PROVE  g \in Of(h, kind) \cup (IF event.kind = kind THEN event.goals ELSE {})
    <3>1. PICK i \in DOMAIN next : next[i].kind = kind /\ g \in next[i].goals
      BY <2>1
    <3>2. CASE i = Len(h) + 1
      BY <1>1, <3>1, <3>2
    <3>3. CASE i # Len(h) + 1
      <4>1. i \in 1 .. Len(h)
        BY <1>1, <3>1, <3>3, LenProperties
      <4> QED
        BY <1>1, <3>1, <4>1
    <3> QED
      BY <3>2, <3>3
  <2>2. ASSUME NEW g \in Of(h, kind)
        PROVE  g \in Of(next, kind)
    <3>1. PICK i \in DOMAIN h : h[i].kind = kind /\ g \in h[i].goals
      BY <2>2
    <3>2. i \in DOMAIN next /\ next[i] = h[i]
      BY <1>1, <3>1, LenProperties
    <3> QED
      BY <3>1, <3>2
  <2>3. ASSUME event.kind = kind, NEW g \in event.goals
        PROVE  g \in Of(next, kind)
    <3>1. Len(h) + 1 \in DOMAIN next
      BY <1>1, LenProperties
    <3> QED
      BY <1>1, <2>3, <3>1
  <2> QED
    BY <2>1, <2>2, <2>3
<1>3. Of(next, "GOAL_ADDED") = Of(h, "GOAL_ADDED") \cup (IF event.kind = "GOAL_ADDED" THEN event.goals ELSE {})
  BY <1>2
<1>4. Of(next, "GOAL_REMOVED") = Of(h, "GOAL_REMOVED") \cup (IF event.kind = "GOAL_REMOVED" THEN event.goals ELSE {})
  BY <1>2
<1> QED
  BY <1>3, <1>4 DEF Added, Removed

(* A goal leaves the queue only by its own removal. *)
LEMMA AppendKeeps ==
  ASSUME NEW h \in Seq(Events), NEW event \in Events, NEW kept,
         Replays(h, event), event.kind = "GOAL_REMOVED" => event.goals \cap kept = {}
  PROVE  kept \cap Queued(h) \subseteq Queued(Append(h, event))
  BY AppendQueue DEF Queued

LEMMA AppendReplays ==
  ASSUME NEW h, QueueOK(h), NEW event \in Events, Replays(h, event), Len(h) < MaxHistory
  PROVE  QueueOK(Append(h, event))
<1>1. /\ h \in Seq(Events) /\ Len(h) \in Nat /\ MaxHistory \in Nat /\ DOMAIN h = 1 .. Len(h)
  BY GoalStoreAssumption, LenProperties DEF QueueOK
<1> DEFINE next == Append(h, event)
<1>2. /\ next \in Seq(Events) /\ Len(next) = Len(h) + 1
      /\ \A i \in 1 .. Len(h) : next[i] = h[i]
      /\ next[Len(h) + 1] = event
      /\ \A n \in 0 .. Len(h) : SubSeq(next, 1, n) = SubSeq(h, 1, n)
      /\ SubSeq(next, 1, Len(h)) = h
  BY <1>1, AppendFacts
<1>3. DOMAIN next = 1 .. Len(h) + 1
  BY <1>2, LenProperties
<1> HIDE DEF next
<1>4. ASSUME NEW i \in DOMAIN next
      PROVE  Replays(SubSeq(next, 1, i - 1), next[i])
  <2>1. CASE i = Len(h) + 1
    <3>1. i - 1 = Len(h)
      BY <1>1, <2>1
    <3>2. SubSeq(next, 1, i - 1) = h /\ next[i] = event
      BY <1>2, <2>1, <3>1
    <3> QED
      BY <3>2
  <2>2. CASE i \in 1 .. Len(h)
    <3>1. SubSeq(next, 1, i - 1) = SubSeq(h, 1, i - 1) /\ next[i] = h[i]
      BY <1>1, <1>2, <2>2
    <3> QED
      BY <1>1, <2>2, <3>1 DEF QueueOK
  <2> QED
    BY <1>1, <1>3, <2>1, <2>2
<1>5. QueueOK(next)
  BY <1>1, <1>2, <1>4 DEF QueueOK
<1> QED
  BY <1>5 DEF next

(* A power loss keeps a first part of the history. *)
LEMMA PrefixReplays ==
  ASSUME NEW h, QueueOK(h), NEW n \in 0 .. Len(h)
  PROVE  QueueOK(SubSeq(h, 1, n)) /\ Len(SubSeq(h, 1, n)) = n
<1>1. /\ h \in Seq(Events) /\ Len(h) \in Nat /\ MaxHistory \in Nat /\ DOMAIN h = 1 .. Len(h)
  BY GoalStoreAssumption, LenProperties DEF QueueOK
<1> DEFINE part == SubSeq(h, 1, n)
<1>2. /\ part \in Seq(Events) /\ Len(part) = n
      /\ \A i \in 1 .. n : part[i] = h[i]
  BY <1>1, SubSeqProperties
<1>3. DOMAIN part = 1 .. n
  BY <1>2, LenProperties
<1>4. ASSUME NEW i \in DOMAIN part
      PROVE  Replays(SubSeq(part, 1, i - 1), part[i])
  <2>1. i \in 1 .. n /\ i \in DOMAIN h /\ part[i] = h[i]
    BY <1>1, <1>2, <1>3, <1>4
  <2>2. SubSeq(part, 1, i - 1) = SubSeq(h, 1, i - 1)
    BY <1>1, <2>1, SubSeqOfSubSeq
  <2> QED
    BY <2>1, <2>2 DEF QueueOK
<1> QED
  BY <1>1, <1>2, <1>4 DEF QueueOK

-----------------------------------------------------------------------------
(* What is true of one request *)

GoalSteps == {"govern", "sync_mint", "admit", "claim", "create", "observe"}

GoalOf(call) == CHOOSE g \in Goals : call.goals = {g}

(* A change under way was built from the history as it is, and removes no    *)
(* governed goal.                                                            *)
Built(call) ==
  /\ call.at = "rename" =>
       \E event \in Events :
         /\ call.next = Append(history, event) /\ Replays(history, event)
         /\ Len(history) < MaxHistory
         /\ event.kind = "GOAL_REMOVED" => event.goals \cap minted = {}
  /\ call.at = "sync" => call.next = history

(* An action on a goal names one, and under the lock the goal is queued.     *)
OnItsGoal(call) ==
  /\ call.op \in {"govern", "admit"} => \E g \in Goals : call.goals = {g}
  /\ call.at \in GoalSteps => call.op \in {"govern", "admit"} /\ call.goals \subseteq Queued(history)
  /\ call.at \in {"sync_mint", "claim", "create", "observe"} => call.goals \subseteq minted

(* What it answered is true (AnswersAreTrue). *)
Answered(call) ==
  /\ call.result = "changed" => /\ Len(call.next) <= synced
                                /\ SubSeq(history, 1, Len(call.next)) = call.next
  /\ call.result \in {"governed", "admitted"} =>
       /\ call.op \in {"govern", "admit"}
       /\ call.goals \subseteq minted \cap Queued(history)
  /\ call.result = "admitted" => /\ root[GoalOf(call)] = RunOf[GoalOf(call)]
                                 /\ stored[RunOf[GoalOf(call)]] # None
                                 /\ stored[RunOf[GoalOf(call)]].change = GoalOf(call)

StoresOK ==
  /\ QueueOK(history) /\ synced \in 0 .. Len(history)
  /\ lock \in Procs \cup {"left", None}
  /\ diskMinted \subseteq minted /\ minted \subseteq Goals
  /\ root \in [Goals -> Runs \cup {None}]
  /\ \A r \in Runs : stored[r] # None => stored[r].change \in Goals
  /\ DOMAIN stored = Runs

UnderLock == \A p \in Procs : calls[p].at \notin {"none", "acquire"} => lock = p

CallOK(call) == Built(call) /\ OnItsGoal(call) /\ Answered(call)

WorkInv ==
  /\ StoresOK /\ calls \in [Procs -> CallType]
  /\ UnderLock
  /\ \A p \in Procs : CallOK(calls[p])

LEMMA InvImplies == WorkInv => TypeOK /\ AnswersAreTrue
<1> SUFFICES ASSUME WorkInv PROVE TypeOK /\ AnswersAreTrue
  OBVIOUS
<1>1. TypeOK
  BY DEF WorkInv, StoresOK, QueueOK, TypeOK
<1>2. \A p \in Procs : Goal(p) = GoalOf(calls[p])
  BY DEF Goal, GoalOf
<1>3. AnswersAreTrue
  BY <1>2 DEF WorkInv, CallOK, Answered, AnswersAreTrue
<1> QED
  BY <1>1, <1>3

-----------------------------------------------------------------------------
(* What a step may do to the stores, while the power holds *)

Grown ==
  \/ history' = history
  \/ \E event \in Events :
       /\ history' = Append(history, event) /\ Replays(history, event)
       /\ Len(history) < MaxHistory
       /\ event.kind = "GOAL_REMOVED" => event.goals \cap minted = {}

Monotone ==
  /\ Grown
  /\ synced' \in Nat /\ synced <= synced' /\ minted \subseteq minted'
  /\ \A g \in Goals : root[g] # None => root'[g] = root[g]
  /\ \A r \in Runs : stored[r] # None => stored'[r] # None /\ stored'[r].change = stored[r].change
  /\ \A g \in minted' \ minted : g \in Queued(history)
  /\ \A g \in Goals : root'[g] # root[g] /\ root'[g] = RunOf[g] => g \in minted \cap Queued(history)

(* The queue keeps what is governed, and its history only grows. *)
LEMMA GrownFacts ==
  ASSUME StoresOK, Grown
  PROVE  /\ QueueOK(history')
         /\ Len(history) <= Len(history')
         /\ \A n \in 0 .. Len(history) : SubSeq(history', 1, n) = SubSeq(history, 1, n)
         /\ minted \cap Queued(history) \subseteq Queued(history')
<1>1. history \in Seq(Events) /\ Len(history) \in Nat
  BY LenProperties DEF StoresOK, QueueOK
<1>2. CASE history' = history
  BY <1>1, <1>2 DEF StoresOK
<1>3. CASE history' # history
  <2>1. PICK event \in Events :
          /\ history' = Append(history, event) /\ Replays(history, event)
          /\ Len(history) < MaxHistory
          /\ event.kind = "GOAL_REMOVED" => event.goals \cap minted = {}
    BY <1>3 DEF Grown
  <2>2. QueueOK(history')
    BY <2>1, AppendReplays DEF StoresOK
  <2>3. /\ Len(history') = Len(history) + 1
        /\ \A n \in 0 .. Len(history) : SubSeq(history', 1, n) = SubSeq(history, 1, n)
    BY <1>1, <2>1, AppendFacts
  <2>4. minted \cap Queued(history) \subseteq Queued(history')
    BY <1>1, <2>1, AppendKeeps
  <2> QED
    BY <1>1, <2>2, <2>3, <2>4
<1> QED
  BY <1>2, <1>3

(* What was answered stays true. *)
LEMMA AnsweredStays ==
  ASSUME StoresOK, Monotone, NEW call \in CallType, OnItsGoal(call), Answered(call)
  PROVE  Answered(call)'
<1>1. /\ history \in Seq(Events) /\ Len(history) \in Nat
      /\ synced \in Nat /\ synced' \in Nat /\ synced <= synced'
      /\ synced <= Len(history)
  BY LenProperties DEF StoresOK, QueueOK, Monotone
<1>2. /\ \A n \in 0 .. Len(history) : SubSeq(history', 1, n) = SubSeq(history, 1, n)
      /\ minted \cap Queued(history) \subseteq Queued(history')
  BY GrownFacts DEF Monotone
<1>3. ASSUME call.result = "changed"
      PROVE  Len(call.next) <= synced' /\ SubSeq(history', 1, Len(call.next)) = call.next
  <2>1. Len(call.next) \in 0 .. Len(history)
    BY <1>1, <1>3, LenProperties DEF Answered, CallType
  <2>2. SubSeq(history', 1, Len(call.next)) = SubSeq(history, 1, Len(call.next))
    BY <1>2, <2>1
  <2>3. Len(call.next) <= synced /\ SubSeq(history, 1, Len(call.next)) = call.next
    BY <1>3 DEF Answered
  <2>4. Len(call.next) <= synced'
    BY <1>1, <2>1, <2>3
  <2> QED
    BY <2>2, <2>3, <2>4
<1>4. ASSUME call.result \in {"governed", "admitted"}
      PROVE  call.op \in {"govern", "admit"} /\ call.goals \subseteq minted' \cap Queued(history')
  BY <1>2, <1>4 DEF Answered, Monotone
<1>5. ASSUME call.result = "admitted"
      PROVE  /\ root'[GoalOf(call)] = RunOf[GoalOf(call)]
             /\ stored'[RunOf[GoalOf(call)]] # None
             /\ stored'[RunOf[GoalOf(call)]].change = GoalOf(call)
  <2>1. PICK g \in Goals : call.goals = {g}
    BY <1>5 DEF Answered, OnItsGoal
  <2>2. GoalOf(call) = g
    BY <2>1 DEF GoalOf
  <2>3. RunOf[g] \in Runs /\ None \notin Runs
    BY WorkspaceAssumption
  <2>4. root[g] # None /\ stored[RunOf[g]] # None
    BY <1>5, <2>2, <2>3 DEF Answered
  <2> QED
    BY <1>5, <2>2, <2>3, <2>4 DEF Answered, Monotone
<1> QED
  BY <1>3, <1>4, <1>5 DEF Answered, GoalOf

(* A request others' steps leave alone keeps what is true of it: while it    *)
(* holds the lock neither the queue nor the registry moves.                  *)
LEMMA OthersStay ==
  ASSUME StoresOK, Monotone, NEW call \in CallType, CallOK(call),
         call.at \notin {"none", "acquire"} => history' = history /\ minted' = minted
  PROVE  CallOK(call)'
<1>1. Built(call)'
  BY DEF CallOK, Built
<1>2. OnItsGoal(call)'
  BY DEF CallOK, OnItsGoal, GoalSteps
<1>3. Answered(call)'
  BY AnsweredStays DEF CallOK
<1> QED
  BY <1>1, <1>2, <1>3 DEF CallOK

(* One request moves to call, under the lock when it changes a file.         *)
LEMMA Moves ==
  ASSUME WorkInv, Monotone, StoresOK', NEW p \in Procs, NEW call \in CallType,
         calls' = [calls EXCEPT ![p] = call],
         CallOK(call)',
         call.at \notin {"none", "acquire"} => lock' = p,
         lock = p \/ lock = None \/ lock' = lock,
         lock = p \/ (history' = history /\ minted' = minted)
  PROVE  WorkInv'
<1>1. /\ calls \in [Procs -> CallType] /\ StoresOK /\ UnderLock
      /\ \A q \in Procs : CallOK(calls[q])
  BY DEF WorkInv
<1>2. /\ calls' \in [Procs -> CallType] /\ calls'[p] = call
      /\ \A q \in Procs \ {p} : calls'[q] = calls[q]
  BY <1>1
<1>3. None \notin Procs
  BY GoalStoreAssumption
<1>4. ASSUME NEW q \in Procs \ {p}, calls[q].at \notin {"none", "acquire"}
      PROVE  lock' = q /\ history' = history /\ minted' = minted
  BY <1>1, <1>3, <1>4 DEF UnderLock
<1>5. UnderLock'
  BY <1>2, <1>4 DEF UnderLock
<1>6. ASSUME NEW q \in Procs \ {p}
      PROVE  CallOK(calls[q])'
  <2> DEFINE other == calls[q]
  <2>1. other \in CallType /\ CallOK(other)
    BY <1>1, <1>6
  <2>2. PICK same \in CallType : same = other
    BY <2>1
  <2>3. CallOK(same)'
    BY <1>1, <1>4, <1>6, <2>1, <2>2, OthersStay
  <2>4. calls'[q] = same
    BY <1>2, <1>6, <2>2
  <2> QED
    BY <2>3, <2>4
<1> QED
  BY <1>2, <1>5, <1>6 DEF WorkInv

-----------------------------------------------------------------------------
(* How a request moves *)

Steps == {"none", "acquire", "load", "rename", "sync", "govern", "sync_mint", "admit",
          "claim", "create", "observe", "release"}

(* No file changes but the lock's. *)
LEMMA Still ==
  ASSUME StoresOK, UNCHANGED <<history, synced, registry, controllerStore>>,
         lock' \in Procs \cup {"left", None}
  PROVE  Monotone /\ StoresOK'
<1>1. /\ history' = history /\ synced' = synced /\ minted' = minted /\ diskMinted' = diskMinted
      /\ root' = root /\ stored' = stored
  BY DEF registry, controllerStore
<1>2. synced \in Nat
  BY LenProperties DEF StoresOK, QueueOK
<1>3. Monotone
  BY <1>1, <1>2 DEF Monotone, Grown
<1>4. StoresOK'
  BY <1>1 DEF StoresOK
<1> QED
  BY <1>3, <1>4

LEMMA GoesTo ==
  ASSUME WorkInv, Monotone, StoresOK', NEW p \in Procs, NEW step \in Steps \ {"rename"},
         Goto(p, step),
         step = "sync" => calls[p].next = history',
         step \in GoalSteps => calls[p].op \in {"govern", "admit"}
                               /\ calls[p].goals \subseteq Queued(history'),
         step \in {"sync_mint", "claim", "create", "observe"} => calls[p].goals \subseteq minted',
         step \notin {"none", "acquire"} => lock' = p,
         lock = p \/ lock = None \/ lock' = lock,
         lock = p \/ (history' = history /\ minted' = minted)
  PROVE  WorkInv'
<1>1. /\ calls \in [Procs -> CallType] /\ calls[p] \in CallType /\ StoresOK
      /\ CallOK(calls[p])
  BY DEF WorkInv
<1>2. PICK new \in CallType :
        /\ new = [calls[p] EXCEPT !.at = step]
        /\ new.at = step /\ new.op = calls[p].op /\ new.goals = calls[p].goals
        /\ new.next = calls[p].next /\ new.result = calls[p].result
  <2>1. [calls[p] EXCEPT !.at = step] \in CallType
    BY <1>1 DEF CallType, Steps
  <2> QED
    BY <1>1, <2>1 DEF CallType
<1>3. calls' = [calls EXCEPT ![p] = new]
  BY <1>1, <1>2 DEF Goto
<1>5. Answered(new)'
  <2>1. PICK old \in CallType : old = calls[p]
    BY <1>1
  <2>2. OnItsGoal(old) /\ Answered(old)
    BY <1>1, <2>1 DEF CallOK
  <2>3. Answered(old)'
    BY <1>1, <2>2, AnsweredStays
  <2>4. GoalOf(new) = GoalOf(old) /\ new.goals = old.goals /\ new.op = old.op
        /\ new.next = old.next /\ new.result = old.result
    BY <1>2, <2>1 DEF GoalOf
  <2> QED
    BY <2>3, <2>4 DEF Answered
<1>6. OnItsGoal(new)'
  BY <1>1, <1>2 DEF CallOK, OnItsGoal
<1>7. Built(new)'
  BY <1>2 DEF Built
<1>8. CallOK(new)'
  BY <1>5, <1>6, <1>7 DEF CallOK
<1> QED
  BY <1>2, <1>3, <1>8, Moves

LEMMA AnswersWith ==
  ASSUME WorkInv, Monotone, StoresOK', NEW p \in Procs, lock = p, lock' = p,
         NEW result \in {"changed", "governed", "admitted"},
         Answer(p, result),
         result = "changed" => /\ Len(calls[p].next) <= synced'
                               /\ SubSeq(history', 1, Len(calls[p].next)) = calls[p].next,
         result \in {"governed", "admitted"} =>
           /\ calls[p].op \in {"govern", "admit"}
           /\ calls[p].goals \subseteq minted' \cap Queued(history'),
         result = "admitted" =>
           /\ root'[Goal(p)] = RunOf[Goal(p)] /\ stored'[RunOf[Goal(p)]] # None
           /\ stored'[RunOf[Goal(p)]].change = Goal(p)
  PROVE  WorkInv'
<1>1. /\ calls \in [Procs -> CallType] /\ calls[p] \in CallType /\ CallOK(calls[p])
  BY DEF WorkInv
<1>2. PICK new \in CallType :
        /\ new = [calls[p] EXCEPT !.at = "release", !.result = result]
        /\ new.at = "release" /\ new.op = calls[p].op /\ new.goals = calls[p].goals
        /\ new.next = calls[p].next /\ new.result = result
  <2>1. [calls[p] EXCEPT !.at = "release", !.result = result] \in CallType
    BY <1>1 DEF CallType
  <2> QED
    BY <1>1, <2>1 DEF CallType
<1>3. calls' = [calls EXCEPT ![p] = new]
  BY <1>1, <1>2 DEF Answer
<1>4. GoalOf(new) = Goal(p)
  BY <1>2 DEF GoalOf, Goal
<1>5. Answered(new)'
  BY <1>2, <1>4 DEF Answered
<1>6. OnItsGoal(new)' /\ Built(new)'
  BY <1>1, <1>2 DEF CallOK, OnItsGoal, Built, GoalSteps
<1>7. CallOK(new)'
  BY <1>5, <1>6 DEF CallOK
<1>8. /\ new.at \notin {"none", "acquire"} => lock' = p
      /\ lock = p \/ lock = None \/ lock' = lock
      /\ lock = p \/ (history' = history /\ minted' = minted)
  OBVIOUS
<1> QED
  BY <1>3, <1>7, <1>8, Moves

LEMMA Refused ==
  ASSUME WorkInv, Monotone, StoresOK', NEW p \in Procs, NEW step \in {"none", "release"},
         Refuse(p, step),
         step = "release" => lock' = p,
         lock = p \/ lock = None \/ lock' = lock,
         lock = p \/ (history' = history /\ minted' = minted)
  PROVE  WorkInv'
<1>1. PICK new \in CallType :
        /\ new = [NoCall EXCEPT !.at = step]
        /\ new.at = step /\ new.op = "none" /\ new.result = "none"
  <2>1. <<>> \in Seq(Events)
    BY EmptySeq
  <2>2. [NoCall EXCEPT !.at = step] \in CallType
    BY <2>1 DEF CallType, NoCall
  <2> QED
    BY <2>2 DEF NoCall
<1>2. calls' = [calls EXCEPT ![p] = new]
  BY <1>1 DEF Refuse
<1>3. CallOK(new)'
  BY <1>1 DEF CallOK, Built, OnItsGoal, Answered, GoalSteps
<1> QED
  BY <1>1, <1>2, <1>3, Moves

(* The requests stay where they are. *)
LEMMA NobodyMoves ==
  ASSUME WorkInv, Monotone, StoresOK', calls' = calls,
         lock' = lock \/ lock \notin Procs,
         history' = history, minted' = minted
  PROVE  WorkInv'
<1>1. /\ calls \in [Procs -> CallType] /\ StoresOK /\ UnderLock
      /\ \A q \in Procs : CallOK(calls[q])
  BY DEF WorkInv
<1>2. ASSUME NEW q \in Procs
      PROVE  CallOK(calls[q])'
  <2>1. PICK same \in CallType : same = calls[q] /\ CallOK(same)
    BY <1>1
  <2>2. CallOK(same)'
    BY <1>1, <2>1, OthersStay
  <2> QED
    BY <2>1, <2>2
<1>3. UnderLock'
  BY <1>1 DEF UnderLock
<1> QED
  BY <1>1, <1>2, <1>3 DEF WorkInv

-----------------------------------------------------------------------------
(* The steps, one by one *)

LEMMA AddedTyped ==
  ASSUME NEW h \in Seq(Events)
  PROVE  Added(h) \subseteq Goals /\ Queued(h) \subseteq Goals
<1>1. \A i \in DOMAIN h : h[i] \in Events
  BY LenProperties
<1> QED
  BY <1>1 DEF Added, Queued, Events

LEMMA NoCallTyped ==
  NoCall \in CallType /\ NoCall.result = "none" /\ NoCall.op = "none" /\ NoCall.at = "none"
<1>1. <<>> \in Seq(Events)
  BY EmptySeq
<1> QED
  BY <1>1 DEF NoCall, CallType

LEMMA Requested ==
  ASSUME WorkInv, UNCHANGED <<registry, controllerStore>>,
         NEW p \in Procs, NEW op \in Changes \cup {"govern", "admit"},
         NEW goals \in SUBSET Goals, NEW expected \in Nat \cup {None},
         op \in {"govern", "admit"} => \E g \in Goals : goals = {g},
         Request(p, op, goals, expected)
  PROVE  Monotone /\ WorkInv'
<1>1. StoresOK /\ UNCHANGED <<history, synced, lock>>
  BY DEF WorkInv, Request, queue
<1>2. Monotone /\ StoresOK'
  BY <1>1, Still DEF StoresOK
<1>3. PICK new \in CallType :
        /\ new = [NoCall EXCEPT !.at = "acquire", !.op = op, !.goals = goals, !.expected = expected]
        /\ new.at = "acquire" /\ new.op = op /\ new.goals = goals /\ new.result = "none"
  <2>1. PICK none \in CallType : none = NoCall /\ none.result = "none"
    BY NoCallTyped
  <2>2. [none EXCEPT !.at = "acquire", !.op = op, !.goals = goals, !.expected = expected]
          \in CallType
    BY <2>1 DEF CallType
  <2> QED
    BY <2>1, <2>2 DEF CallType
<1>4. calls' = [calls EXCEPT ![p] = new]
  BY <1>3 DEF Request
<1>5. CallOK(new)'
  BY <1>3 DEF CallOK, Built, OnItsGoal, Answered, GoalSteps
<1>6. history' = history /\ minted' = minted /\ lock' = lock
  BY <1>1 DEF registry
<1> QED
  BY <1>2, <1>3, <1>4, <1>5, <1>6, Moves

LEMMA Requests ==
  ASSUME WorkInv, NEW p \in Procs, QueueRequest(p) \/ RequestOnGoal(p)
  PROVE  Monotone /\ WorkInv'
<1>1. /\ history \in Seq(Events) /\ Len(history) \in Nat
      /\ UNCHANGED <<registry, controllerStore>>
  BY LenProperties DEF WorkInv, StoresOK, QueueOK, QueueRequest, RequestOnGoal
<1>2. Added(history) \subseteq Goals /\ Queued(history) \subseteq Goals
  BY <1>1, AddedTyped
<1>3. CASE RequestAdd(p)
  BY <1>1, <1>3, Requested DEF RequestAdd, Changes
<1>4. CASE RequestReorder(p)
  BY <1>1, <1>2, <1>4, Requested DEF RequestReorder, Changes
<1>5. ASSUME NEW op \in {"remove", "govern", "admit"}, RequestOn(p, op)
      PROVE  Monotone /\ WorkInv'
  <2>1. PICK g \in Added(history) : Request(p, op, {g}, None)
    BY <1>5 DEF RequestOn
  <2> QED
    BY <1>1, <1>2, <1>5, <2>1, Requested DEF Changes
<1> QED
  BY <1>3, <1>4, <1>5 DEF QueueRequest, RequestOnGoal

LEMMA BuildStep ==
  ASSUME WorkInv, NEW p \in Procs, MayRemove(p), Build(p), UNCHANGED <<registry, controllerStore>>
  PROVE  Monotone /\ WorkInv'
<1>1. /\ StoresOK /\ UNCHANGED <<history, synced, lock>> /\ history \in Seq(Events)
      /\ lock = p /\ calls[p] \in CallType
  BY DEF WorkInv, Build, queue, UnderLock, At, StoresOK, QueueOK
<1>2. Monotone /\ StoresOK'
  BY <1>1, Still DEF StoresOK
<1>3. PICK event \in EventsOf(p) :
        /\ Replays(history, event)
        /\ calls' = [calls EXCEPT ![p] = [NoCall EXCEPT !.at = "rename",
                                                       !.next = Append(history, event)]]
  BY DEF Build
<1>4. /\ event \in Events
      /\ event.kind = "GOAL_REMOVED" => event.goals \cap minted = {}
  <2>1. calls[p].op \in Changes /\ calls[p].goals \in SUBSET Goals
    BY <1>1 DEF Build, CallType
  <2> QED
    BY <1>3, <2>1 DEF EventsOf, Events, Kinds, Changes, MayRemove
<1>5. PICK new \in CallType :
        /\ new = [NoCall EXCEPT !.at = "rename", !.next = Append(history, event)]
        /\ new.at = "rename" /\ new.op = "none" /\ new.next = Append(history, event)
        /\ new.result = "none"
  <2>1. Append(history, event) \in Seq(Events)
    BY <1>1, <1>4, AppendFacts
  <2>2. PICK none \in CallType : none = NoCall /\ none.result = "none" /\ none.op = "none"
    BY NoCallTyped
  <2>3. [none EXCEPT !.at = "rename", !.next = Append(history, event)] \in CallType
    BY <2>1, <2>2 DEF CallType
  <2> QED
    BY <2>1, <2>2, <2>3 DEF CallType
<1>6. calls' = [calls EXCEPT ![p] = new]
  BY <1>3, <1>5
<1>7. history' = history /\ minted' = minted /\ Len(history) < MaxHistory
  BY <1>1 DEF registry, Build
<1>8. Built(new)'
  BY <1>3, <1>4, <1>5, <1>7 DEF Built
<1>9. CallOK(new)'
  BY <1>5, <1>8 DEF CallOK, OnItsGoal, Answered, GoalSteps
<1> QED
  BY <1>1, <1>2, <1>6, <1>9, Moves

(* Whoever is past the lock holds it. *)
LEMMA Holding ==
  ASSUME WorkInv, NEW p \in Procs, calls[p].at \notin {"none", "acquire"}
  PROVE  lock = p
  BY DEF WorkInv, UnderLock

LEMMA AcquireStep ==
  ASSUME WorkInv, NEW p \in Procs, Acquire(p), UNCHANGED <<registry, controllerStore>>
  PROVE  Monotone /\ WorkInv'
<1>1. StoresOK /\ lock = None /\ lock' = p /\ UNCHANGED <<history, synced>> /\ Goto(p, "load")
  BY DEF WorkInv, Acquire, Unlocked
<1>2. Monotone /\ StoresOK'
  BY <1>1, Still
<1>3. history' = history /\ minted' = minted
  BY <1>1 DEF registry
<1> QED
  BY <1>1, <1>2, <1>3, GoesTo DEF Steps, GoalSteps

LEMMA ReleaseStep ==
  ASSUME WorkInv, NEW p \in Procs, Release(p), UNCHANGED <<registry, controllerStore>>
  PROVE  Monotone /\ WorkInv'
<1>1. StoresOK /\ lock = p /\ lock' = None /\ UNCHANGED <<history, synced>> /\ Goto(p, "none")
  BY Holding DEF WorkInv, Release, At
<1>2. Monotone /\ StoresOK'
  BY <1>1, Still
<1> QED
  BY <1>1, <1>2, GoesTo DEF Steps, GoalSteps

(* Every way a request is refused, fails or dies. *)
LEMMA RefusedStep ==
  ASSUME WorkInv, NEW p \in Procs,
         (Busy(p) /\ UNCHANGED <<registry, controllerStore>>) \/ Refuses(p) \/ Dies(p)
  PROVE  Monotone /\ WorkInv'
<1>1. StoresOK /\ lock \in Procs \cup {"left", None}
  BY DEF WorkInv, StoresOK
<1>2. /\ UNCHANGED <<history, synced, registry, controllerStore>>
      /\ history' = history /\ minted' = minted
  BY DEF Busy, Refuses, Dies, Fails, GoalFails, ReleaseFails, OpenFails, Crash, queue, registry
<1>3. /\ lock' \in Procs \cup {"left", None}
      /\ lock = p \/ lock = None \/ lock' = lock
      /\ \/ Refuse(p, "none")
         \/ Refuse(p, "release") /\ lock' = p
  <2>1. CASE Busy(p)
    BY <1>1, <2>1 DEF Busy, queue
  <2>2. CASE Fails(p) \/ GoalFails(p)
    <3>1. lock = p
      BY <2>2, Holding DEF Fails, GoalFails
    <3> QED
      BY <1>1, <2>2, <3>1 DEF Fails, GoalFails, queue
  <2>3. CASE ReleaseFails(p)
    BY <1>1, <2>3, Holding DEF ReleaseFails, At
  <2>4. CASE OpenFails(p)
    BY <1>1, <2>4 DEF OpenFails, Unlocked
  <2>5. CASE Crash(p)
    BY <1>1, <2>5 DEF Crash
  <2> QED
    BY <2>1, <2>2, <2>3, <2>4, <2>5 DEF Refuses, Dies
<1>4. Monotone /\ StoresOK'
  BY <1>1, <1>2, <1>3, Still
<1> QED
  BY <1>2, <1>3, <1>4, Refused

LEMMA RenameStep ==
  ASSUME WorkInv, NEW p \in Procs, Rename(p), UNCHANGED <<registry, controllerStore>>
  PROVE  Monotone /\ WorkInv'
<1>1. /\ StoresOK /\ Built(calls[p]) /\ calls[p].at = "rename" /\ lock = p
      /\ history' = calls[p].next /\ Goto(p, "sync")
      /\ synced' = synced /\ lock' = lock
  BY Holding DEF WorkInv, CallOK, Rename, At
<1>2. /\ UNCHANGED <<minted, diskMinted, root, stored>>
  BY DEF registry, controllerStore
<1>3. Grown
  BY <1>1 DEF Built, Grown
<1>4. QueueOK(history') /\ Len(history) <= Len(history')
  BY <1>1, <1>3, GrownFacts
<1>5. synced \in 0 .. Len(history) /\ Len(history) \in Nat /\ Len(history') \in Nat
  BY <1>1, <1>4, LenProperties DEF StoresOK, QueueOK
<1>6. StoresOK'
  BY <1>1, <1>2, <1>4, <1>5 DEF StoresOK
<1>7. Monotone
  BY <1>1, <1>2, <1>3, <1>5 DEF Monotone
<1> QED
  BY <1>1, <1>6, <1>7, GoesTo DEF Steps, GoalSteps

LEMMA SyncStep ==
  ASSUME WorkInv, NEW p \in Procs, SyncDirectory(p), UNCHANGED <<registry, controllerStore>>
  PROVE  Monotone /\ WorkInv'
<1>1. /\ StoresOK /\ Built(calls[p]) /\ calls[p].at = "sync" /\ lock = p
      /\ synced' = Len(history) /\ Answer(p, "changed")
      /\ history' = history /\ lock' = lock
  BY Holding DEF WorkInv, CallOK, SyncDirectory, At
<1>2. /\ UNCHANGED <<minted, diskMinted, root, stored>>
  BY DEF registry, controllerStore
<1>3. /\ history \in Seq(Events) /\ Len(history) \in Nat /\ synced \in 0 .. Len(history)
      /\ calls[p].next = history
  BY <1>1, LenProperties DEF StoresOK, QueueOK, Built
<1>4. StoresOK' /\ Monotone
  BY <1>1, <1>2, <1>3 DEF StoresOK, Monotone, Grown
<1>5. SubSeq(history, 1, Len(history)) = history
  BY <1>3, SubSeqFull
<1>6. Len(calls[p].next) <= synced' /\ SubSeq(history', 1, Len(calls[p].next)) = calls[p].next
  BY <1>1, <1>3, <1>5
<1> QED
  BY <1>1, <1>4, <1>6, AnswersWith

(* The one goal of an action on a goal. *)
LEMMA TheGoal ==
  ASSUME WorkInv, NEW p \in Procs, calls[p].op \in {"govern", "admit"}
  PROVE  Goal(p) \in Goals /\ calls[p].goals = {Goal(p)}
<1>1. PICK g \in Goals : calls[p].goals = {g}
  BY DEF WorkInv, CallOK, OnItsGoal
<1>2. Goal(p) = g
  BY <1>1 DEF Goal
<1> QED
  BY <1>1, <1>2

(* What holds while a bridge works on its goal. *)
LEMMA GoalHeld ==
  ASSUME WorkInv, NEW p \in Procs, calls[p].at \in GoalSteps
  PROVE  /\ lock = p /\ StoresOK
         /\ calls[p].op \in {"govern", "admit"}
         /\ Goal(p) \in Goals /\ calls[p].goals = {Goal(p)}
         /\ Goal(p) \in Queued(history)
         /\ calls[p].at \in {"sync_mint", "claim", "create", "observe"} => Goal(p) \in minted
         /\ RunOf[Goal(p)] \in Runs /\ RunOf[Goal(p)] # None
<1>1. /\ calls[p].op \in {"govern", "admit"} /\ calls[p].goals \subseteq Queued(history)
      /\ calls[p].at \in {"sync_mint", "claim", "create", "observe"} => calls[p].goals \subseteq minted
  BY DEF WorkInv, CallOK, OnItsGoal
<1>2. Goal(p) \in Goals /\ calls[p].goals = {Goal(p)}
  BY <1>1, TheGoal
<1>3. RunOf[Goal(p)] \in Runs /\ RunOf[Goal(p)] # None
  BY <1>2, WorkspaceAssumption
<1>4. lock = p /\ StoresOK
  BY Holding DEF GoalSteps, WorkInv
<1> QED
  BY <1>1, <1>2, <1>3, <1>4

LEMMA LoadStep ==
  ASSUME WorkInv, NEW p \in Procs, LoadGoal(p)
  PROVE  Monotone /\ WorkInv'
<1>1. /\ StoresOK /\ lock = p /\ calls[p].at = "load"
      /\ UNCHANGED <<history, synced, lock, registry, controllerStore>>
      /\ Goto(p, calls[p].op) /\ calls[p].op \in {"govern", "admit"}
      /\ Goal(p) \in Queued(history)
  BY Holding DEF WorkInv, LoadGoal, At, Held, queue
<1>2. calls[p].goals = {Goal(p)}
  BY <1>1, TheGoal
<1>3. Monotone /\ StoresOK'
  BY <1>1, Still DEF StoresOK
<1>4. history' = history /\ minted' = minted
  BY <1>1 DEF registry
<1>5. PICK step \in {"govern", "admit"} : step = calls[p].op
  BY <1>1
<1> QED
  BY <1>1, <1>2, <1>3, <1>4, <1>5, GoesTo DEF Steps, GoalSteps

(* Steps that only read the stores, and answer or go on. *)
LEMMA ReadStep ==
  ASSUME WorkInv, NEW p \in Procs,
         \/ AlreadyMinted(p) \/ AlreadyAdmitted(p) \/ StartAdmission(p)
         \/ CreateThrows(p) \/ Observe(p)
  PROVE  Monotone /\ WorkInv'
<1>1. /\ calls[p].at \in GoalSteps
      /\ UNCHANGED <<history, synced, lock, registry, controllerStore>>
      /\ history' = history /\ minted' = minted /\ root' = root /\ stored' = stored /\ lock' = lock
  BY DEF AlreadyMinted, AlreadyAdmitted, StartAdmission, CreateThrows, Observe, At, GoalSteps,
         queue, registry, controllerStore
<1>2. /\ lock = p /\ StoresOK
      /\ calls[p].op \in {"govern", "admit"}
      /\ Goal(p) \in Goals /\ calls[p].goals = {Goal(p)}
      /\ Goal(p) \in Queued(history)
      /\ calls[p].at \in {"sync_mint", "claim", "create", "observe"} => Goal(p) \in minted
      /\ RunOf[Goal(p)] \in Runs /\ RunOf[Goal(p)] # None
  BY <1>1, GoalHeld
<1>3. Monotone /\ StoresOK'
  BY <1>1, <1>2, Still DEF StoresOK
<1>4. CASE AlreadyMinted(p)
  <2>1. Answer(p, "governed") /\ Goal(p) \in minted
    BY <1>4 DEF AlreadyMinted
  <2> QED
    BY <1>1, <1>2, <1>3, <2>1, AnswersWith
<1>5. CASE AlreadyAdmitted(p) \/ Observe(p)
  <2>1. /\ Answer(p, "admitted") /\ Goal(p) \in minted
        /\ root[Goal(p)] = RunOf[Goal(p)] /\ Fresh(RunOf[Goal(p)], Goal(p))
    BY <1>2, <1>5 DEF AlreadyAdmitted, Observe, Governed, At
  <2>2. stored[RunOf[Goal(p)]] # None /\ stored[RunOf[Goal(p)]].change = Goal(p)
    BY <1>2, <2>1, WorkspaceAssumption DEF Fresh
  <2> QED
    BY <1>1, <1>2, <1>3, <2>1, <2>2, AnswersWith
<1>6. CASE StartAdmission(p) \/ CreateThrows(p)
  <2>1. PICK step \in {"claim", "create", "observe"} : Goto(p, step)
    BY <1>6 DEF StartAdmission, CreateThrows
  <2>2. Goal(p) \in minted
    BY <1>2, <1>6 DEF StartAdmission, CreateThrows, Governed
  <2> QED
    BY <1>1, <1>2, <1>3, <2>1, <2>2, GoesTo DEF Steps, GoalSteps
<1> QED
  BY <1>4, <1>5, <1>6

LEMMA MintStep ==
  ASSUME WorkInv, NEW p \in Procs, Mint(p) \/ SyncMint(p)
  PROVE  Monotone /\ WorkInv'
<1>1. /\ calls[p].at \in GoalSteps
      /\ history' = history /\ synced' = synced /\ root' = root /\ stored' = stored /\ lock' = lock
  BY DEF Mint, SyncMint, At, GoalSteps, queue, controllerStore
<1>2. /\ lock = p /\ StoresOK
      /\ calls[p].op \in {"govern", "admit"}
      /\ Goal(p) \in Goals /\ calls[p].goals = {Goal(p)}
      /\ Goal(p) \in Queued(history)
      /\ calls[p].at = "sync_mint" => Goal(p) \in minted
  BY <1>1, GoalHeld
<1>3. synced \in Nat
  BY <1>2, LenProperties DEF StoresOK, QueueOK
<1>4. CASE Mint(p)
  <2>1. minted' = minted \cup {Goal(p)} /\ diskMinted' = diskMinted /\ Goto(p, "sync_mint")
    BY <1>4 DEF Mint
  <2>2. Monotone /\ StoresOK'
    BY <1>1, <1>2, <1>3, <2>1 DEF Monotone, Grown, StoresOK
  <2> QED
    BY <1>1, <1>2, <2>1, <2>2, GoesTo DEF Steps, GoalSteps
<1>5. CASE SyncMint(p)
  <2>1. minted' = minted /\ diskMinted' = minted /\ Answer(p, "governed") /\ calls[p].at = "sync_mint"
    BY <1>5 DEF SyncMint, At
  <2>2. Monotone /\ StoresOK'
    BY <1>1, <1>2, <1>3, <2>1 DEF Monotone, Grown, StoresOK
  <2> QED
    BY <1>1, <1>2, <2>1, <2>2, AnswersWith
<1> QED
  BY <1>4, <1>5

LEMMA ClaimStep ==
  ASSUME WorkInv, NEW p \in Procs, Claim(p) \/ CreateRun(p)
  PROVE  Monotone /\ WorkInv'
<1>1. /\ calls[p].at \in {"claim", "create"}
      /\ history' = history /\ synced' = synced /\ lock' = lock
      /\ minted' = minted /\ diskMinted' = diskMinted
  BY DEF Claim, CreateRun, At, queue, registry
<1>2. /\ lock = p /\ StoresOK
      /\ calls[p].op \in {"govern", "admit"}
      /\ Goal(p) \in Goals /\ calls[p].goals = {Goal(p)}
      /\ Goal(p) \in Queued(history) /\ Goal(p) \in minted
      /\ RunOf[Goal(p)] \in Runs /\ RunOf[Goal(p)] # None
  BY <1>1, GoalHeld DEF GoalSteps
<1>3. synced \in Nat
  BY <1>2, LenProperties DEF StoresOK, QueueOK
<1>4. CASE Claim(p)
  <2>1. /\ root[Goal(p)] = None /\ root' = [root EXCEPT ![Goal(p)] = RunOf[Goal(p)]]
        /\ stored' = stored /\ Goto(p, "create")
    BY <1>4 DEF Claim, Controller!Admit
  <2>2. Monotone /\ StoresOK'
    <3>1. \A g \in Goals : root'[g] # root[g] => g = Goal(p)
      BY <1>2, <2>1 DEF StoresOK
    <3> QED
      BY <1>1, <1>2, <1>3, <2>1, <3>1, WorkspaceAssumption DEF Monotone, Grown, StoresOK
  <2> QED
    BY <1>1, <1>2, <2>1, <2>2, GoesTo DEF Steps, GoalSteps
<1>5. CASE CreateRun(p)
  <2> DEFINE r == RunOf[Goal(p)]
  <2>1. /\ stored' = [stored EXCEPT ![r] = [change |-> Goal(p), audit |-> <<>>]]
        /\ stored[r] = None /\ stored'[r] # None
        /\ root' = root /\ Goto(p, "observe")
    BY <1>5 DEF CreateRun, Controller!Create, Controller!Stores
  <2>2. /\ DOMAIN stored' = Runs /\ stored'[r].change = Goal(p)
        /\ \A other \in Runs \ {r} : stored'[other] = stored[other]
    BY <1>2, <2>1 DEF StoresOK
  <2>3. Monotone /\ StoresOK'
    <3>1. \A s1 \in Runs : stored[s1] # None => stored'[s1] # None /\ stored'[s1].change = stored[s1].change
      BY <2>1, <2>2
    <3>2. \A s1 \in Runs : stored'[s1] # None => stored'[s1].change \in Goals
      BY <1>2, <2>1, <2>2 DEF StoresOK
    <3> QED
      BY <1>1, <1>2, <1>3, <2>1, <2>2, <3>1, <3>2 DEF Monotone, Grown, StoresOK
  <2> QED
    BY <1>1, <1>2, <2>1, <2>3, GoesTo DEF Steps, GoalSteps
<1> QED
  BY <1>4, <1>5

LEMMA OthersStep ==
  ASSUME WorkInv, OthersAdmit \/ OthersAdvance \/ PersonClears
  PROVE  Monotone /\ WorkInv'
<1>1. /\ history' = history /\ synced' = synced /\ calls' = calls
      /\ minted' = minted /\ diskMinted' = diskMinted
      /\ lock' = lock \/ (lock' = None /\ lock = "left")
  BY DEF OthersAdmit, OthersAdvance, PersonClears, ClearLock, queue, registry
<1>2. StoresOK /\ synced \in Nat /\ lock' \in Procs \cup {"left", None}
  BY <1>1, LenProperties DEF WorkInv, StoresOK, QueueOK
<1>3. Monotone /\ StoresOK'
  <2>1. CASE OthersAdmit
    <3>1. PICK g \in Goals, r \in Runs :
            (\A h \in Goals : RunOf[h] # r) /\ root[g] = None /\ root' = [root EXCEPT ![g] = r]
            /\ stored' = stored
      BY <2>1 DEF OthersAdmit, Controller!Admit
    <3>2. \A h \in Goals : root'[h] # root[h] => h = g /\ root'[h] = r
      BY <1>2, <3>1 DEF StoresOK
    <3>3. root' \in [Goals -> Runs \cup {None}]
      BY <1>2, <3>1 DEF StoresOK
    <3> QED
      BY <1>1, <1>2, <3>1, <3>2, <3>3 DEF Monotone, Grown, StoresOK
  <2>2. CASE OthersAdvance
    <3>1. PICK r \in Runs :
            /\ stored' = [stored EXCEPT ![r] = stored'[r]]
            /\ stored[r] # None /\ stored'[r] # None /\ stored'[r].change = stored[r].change
            /\ root' = root
      BY <2>2 DEF OthersAdvance, Controller!Advance, Controller!Stores
    <3>2. DOMAIN stored' = Runs /\ \A other \in Runs \ {r} : stored'[other] = stored[other]
      BY <1>2, <3>1 DEF StoresOK
    <3>3. \A s1 \in Runs : stored[s1] # None => stored'[s1] # None /\ stored'[s1].change = stored[s1].change
      BY <3>1, <3>2
    <3>4. \A s1 \in Runs : stored'[s1] # None => stored'[s1].change \in Goals
      BY <1>2, <3>1, <3>2 DEF StoresOK
    <3> QED
      BY <1>1, <1>2, <3>1, <3>2, <3>3, <3>4 DEF Monotone, Grown, StoresOK
  <2>3. CASE PersonClears
    <3>1. UNCHANGED <<history, synced, registry, controllerStore>>
      BY <2>3 DEF PersonClears, ClearLock
    <3> QED
      BY <1>2, <3>1, Still
  <2> QED
    BY <2>1, <2>2, <2>3
<1>4. lock' = lock \/ lock \notin Procs
  BY <1>1, GoalStoreAssumption
<1> QED
  BY <1>1, <1>3, <1>4, NobodyMoves

LEMMA PowerLossStep == ASSUME WorkInv, PowerLoss PROVE WorkInv'
<1>1. PICK kept \in synced .. Len(history) : history' = SubSeq(history, 1, kept) /\ synced' = kept
  BY DEF PowerLoss, LosePower
<1>2. /\ lock' \in {None, "left"} /\ calls' = [p \in Procs |-> NoCall]
      /\ root' = root /\ stored' = stored /\ StoresOK
  BY DEF PowerLoss, LosePower, controllerStore, WorkInv
<1>3. synced \in 0 .. Len(history) /\ Len(history) \in Nat
  BY <1>2, LenProperties DEF StoresOK, QueueOK
<1>4. QueueOK(history') /\ Len(history') = kept /\ kept \in Nat
  BY <1>1, <1>2, <1>3, PrefixReplays DEF StoresOK
<1>5. diskMinted' = minted' /\ minted' \subseteq minted
  BY <1>2 DEF PowerLoss, StoresOK
<1>6. StoresOK'
  BY <1>1, <1>2, <1>4, <1>5 DEF StoresOK
<1>7. calls' \in [Procs -> CallType] /\ \A p \in Procs : calls'[p] = NoCall
  BY <1>2, NoCallTyped
<1>8. CallOK(NoCall)'
  BY NoCallTyped DEF CallOK, Built, OnItsGoal, Answered, GoalSteps, NoCall
<1>9. \A p \in Procs : CallOK(calls[p])'
  BY <1>7, <1>8
<1>10. UnderLock'
  BY <1>7, NoCallTyped DEF UnderLock
<1> QED
  BY <1>6, <1>7, <1>9, <1>10 DEF WorkInv

-----------------------------------------------------------------------------
(* The theorems *)

LEMMA InitInv == Init => WorkInv
<1> SUFFICES ASSUME Init PROVE WorkInv
  OBVIOUS
<1>1. /\ history = <<>> /\ synced = 0 /\ lock = None /\ minted = {} /\ diskMinted = {}
      /\ calls = [p \in Procs |-> NoCall]
      /\ root = [g \in Goals |-> None] /\ stored = [r \in Runs |-> None]
  BY DEF Init, Controller!Init
<1>2. QueueOK(history) /\ Len(history) = 0
  BY <1>1, EmptySeq, GoalStoreAssumption DEF QueueOK
<1>3. StoresOK
  BY <1>1, <1>2 DEF StoresOK
<1>4. calls \in [Procs -> CallType] /\ \A p \in Procs : calls[p] = NoCall
  BY <1>1, NoCallTyped
<1>5. CallOK(NoCall)
  BY NoCallTyped DEF CallOK, Built, OnItsGoal, Answered, GoalSteps, NoCall
<1>6. UnderLock
  BY <1>4, NoCallTyped DEF UnderLock
<1> QED
  BY <1>3, <1>4, <1>5, <1>6 DEF WorkInv

LEMMA StutterStep == ASSUME WorkInv, UNCHANGED vars PROVE Monotone /\ WorkInv'
<1>1. /\ UNCHANGED <<history, synced, registry, controllerStore>> /\ lock' = lock /\ calls' = calls
      /\ history' = history /\ minted' = minted
  BY DEF vars, queue, registry
<1>2. Monotone /\ StoresOK'
  BY <1>1, Still DEF WorkInv, StoresOK
<1> QED
  BY <1>1, <1>2, NobodyMoves

LEMMA StepInv == ASSUME WorkInv, [Next]_vars PROVE WorkInv' /\ (Monotone \/ PowerLoss)
<1>1. CASE UNCHANGED vars
  BY <1>1, StutterStep
<1>2. CASE PowerLoss
  BY <1>2, PowerLossStep
<1>3. CASE OthersAdmit \/ OthersAdvance \/ PersonClears
  BY <1>3, OthersStep
<1>4. ASSUME NEW p \in Procs,
             \/ QueueRequest(p) \/ RequestOnGoal(p) \/ QueueStep(p) \/ GoalStep(p)
             \/ CreateThrows(p) \/ Refuses(p) \/ Dies(p)
      PROVE  Monotone /\ WorkInv'
  <2>1. CASE QueueRequest(p) \/ RequestOnGoal(p)
    BY <2>1, Requests
  <2>2. CASE QueueStep(p)
    BY <2>2, AcquireStep, RefusedStep, ReleaseStep, BuildStep, RenameStep, SyncStep DEF QueueStep
  <2>3. CASE GoalStep(p)
    BY <2>3, LoadStep, ReadStep, MintStep, ClaimStep DEF GoalStep
  <2>4. CASE CreateThrows(p)
    BY <2>4, ReadStep
  <2>5. CASE Refuses(p) \/ Dies(p)
    BY <2>5, RefusedStep
  <2> QED
    BY <1>4, <2>1, <2>2, <2>3, <2>4, <2>5
<1> QED
  BY <1>1, <1>2, <1>3, <1>4 DEF Next

(* Goal store, registry, runs and requests stay consistent through every     *)
(* interleaving, failure, crash and power loss.                              *)
THEOREM WorkspaceCorrect == Spec => []WorkInv
<1>1. WorkInv /\ [Next]_vars => WorkInv'
  BY StepInv
<1> QED
  BY InitInv, <1>1, PTL DEF Spec

(* The queue file always passes the replay every load demands of it          *)
(* (validateQueue): the store never refuses what it wrote.                   *)
THEOREM QueueAlwaysReplays == Spec => []TypeOK
<1>1. WorkInv => TypeOK
  BY InvImplies
<1> QED
  BY WorkspaceCorrect, <1>1, PTL

(* What a request answered is true and, of the queue, durable.               *)
THEOREM AnswersCorrect == Spec => []AnswersAreTrue
<1>1. WorkInv => AnswersAreTrue
  BY InvImplies
<1> QED
  BY WorkspaceCorrect, <1>1, PTL

(* No writer of the queue loses another's change (FileGoalStore.#append).    *)
THEOREM ChangesKept == Spec => HistoryOnlyGrows
<1> DEFINE Grows == \/ PowerLoss
                    \/ history' = history
                    \/ Len(history') = Len(history) + 1 /\ IsPrefix(history, history')
<1>1. ASSUME WorkInv, [Next]_vars
      PROVE  Grows
  <2>1. CASE PowerLoss
    BY <2>1
  <2>2. CASE Monotone
    <3>1. StoresOK /\ Grown /\ history \in Seq(Events) /\ Len(history) \in Nat
      BY <1>1, <2>2, LenProperties DEF WorkInv, Monotone, StoresOK, QueueOK
    <3>2. ASSUME NEW event \in Events, history' = Append(history, event)
          PROVE  Len(history') = Len(history) + 1 /\ IsPrefix(history, history')
      <4>1. /\ Len(history') = Len(history) + 1
            /\ SubSeq(history', 1, Len(history)) = history
            /\ SubSeq(history, 1, Len(history)) = history
        BY <3>1, <3>2, AppendFacts, SubSeqFull
      <4> QED
        BY <3>1, <4>1 DEF IsPrefix
    <3> QED
      BY <3>1, <3>2 DEF Grown
  <2> QED
    BY <1>1, <2>1, <2>2, StepInv
<1>2. WorkInv /\ [Next]_vars => [Grows]_vars
  BY <1>1
<1> QED
  BY WorkspaceCorrect, <1>2, PTL DEF Spec, HistoryOnlyGrows

(* Governance and removal exclude each other, and a run is admitted only     *)
(* for a goal that is queued and governed (the bridges, server.ts DELETE).   *)
THEOREM SourcesKept == Spec => GovernanceKeepsItsSource
<1> DEFINE Keeps ==
      \/ PowerLoss
      \/ \A g \in Goals :
           /\ g \in minted' \ minted => g \in Queued(history)
           /\ g \in minted \cap Queued(history) => g \in Queued(history')
           /\ root'[g] # root[g] /\ root'[g] = RunOf[g] => g \in minted \cap Queued(history)
<1>1. ASSUME WorkInv, [Next]_vars
      PROVE  Keeps
  <2>1. CASE PowerLoss
    BY <2>1
  <2>2. CASE Monotone
    <3>1. minted \cap Queued(history) \subseteq Queued(history')
      BY <1>1, <2>2, GrownFacts DEF WorkInv, Monotone
    <3> QED
      BY <2>2, <3>1 DEF Monotone
  <2> QED
    BY <1>1, <2>1, <2>2, StepInv
<1>2. WorkInv /\ [Next]_vars => [Keeps]_vars
  BY <1>1
<1> QED
  BY WorkspaceCorrect, <1>2, PTL DEF Spec, GovernanceKeepsItsSource

=============================================================================
