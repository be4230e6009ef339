--------------------------- MODULE InvocationJournal ---------------------------
(***************************************************************************)
(* The invocation journal of src/automation/invocation-journal.ts and      *)
(* file-invocation-journal.ts: one record per external actor call of a     *)
(* run, shared by every runner of that run.                                *)
(*                                                                         *)
(* Every write holds the one journal lock, so each operation is one step   *)
(* here.  A call is identified by the audit entry that opened it, its      *)
(* occurrence; the actor kind is a property of that entry.  Of a record's  *)
(* history the model keeps what is read back: its last state, whether it   *)
(* ever was STARTED, and its stored result.                                *)
(***************************************************************************)
EXTENDS Integers, FiniteSets

CONSTANTS
  Occurrences,    \* positions of the audit trail that may open a call
  Packets,        \* packetIds
  Outcomes,       \* what an actor call can produce
  MaxCalls,       \* providerCallAuthorization.maxCalls of every packet
  None

ASSUME JournalAssumption ==
  /\ Occurrences \subseteq Nat
  /\ IsFiniteSet(Occurrences)
  /\ MaxCalls \in Nat
  /\ None \notin Outcomes

VARIABLE journal

Final == {"APPLIED", "UNCERTAIN", "ABANDONED"}
InvocationStates == {"PREPARED", "STARTED", "COMPLETED"} \cup Final

Transitions == {<<"PREPARED", "STARTED">>, <<"PREPARED", "ABANDONED">>,
                <<"STARTED", "COMPLETED">>, <<"STARTED", "UNCERTAIN">>,
                <<"COMPLETED", "APPLIED">>, <<"COMPLETED", "ABANDONED">>}

InvocationRecord == [state: InvocationStates, started: BOOLEAN, packet: Packets,
                     result: Outcomes \cup {None}]

ASSUME NoneAssumption == None \notin InvocationRecord

(* parseInvocationRecord: a result is there once the call completed. *)
Consistent(record) ==
  /\ record.state = "PREPARED" => ~record.started
  /\ record.state \in {"STARTED", "COMPLETED", "UNCERTAIN", "APPLIED"} => record.started
  /\ record.state \in {"COMPLETED", "APPLIED"} => record.result # None
  /\ record.state = "ABANDONED" /\ record.started => record.result # None
  /\ record.result # None => record.started /\ record.state \notin {"STARTED", "UNCERTAIN"}

-----------------------------------------------------------------------------
(* The operations, as the journal they leave *)

May(s, state) == journal[s] # None /\ <<journal[s].state, state>> \in Transitions

(* Mutant of Prepared: the record does not bind its packet. *)
PreparedUnbound(s, packet) ==
  [journal EXCEPT ![s] = [state |-> "PREPARED", started |-> FALSE, packet |-> None,
                          result |-> None]]

Prepared(s, packet) ==
  [journal EXCEPT ![s] = [state |-> "PREPARED", started |-> FALSE, packet |-> packet,
                          result |-> None]]
Started(s) == [journal EXCEPT ![s].state = "STARTED", ![s].started = TRUE]
Completed(s, outcome) == [journal EXCEPT ![s].state = "COMPLETED", ![s].result = outcome]
Settled(s, state) == [journal EXCEPT ![s].state = state]

(* Every call of the packet that ever started counts, whatever became of it. *)
CallsOf(packet) == {s \in Occurrences : /\ journal[s] # None
                                        /\ journal[s].packet = packet
                                        /\ journal[s].started}

BudgetLeft(packet) == Cardinality(CallsOf(packet)) < MaxCalls

MayStart(s) == journal[s] # None /\ journal[s].state = "PREPARED"

-----------------------------------------------------------------------------

Prepare(s, packet) == journal[s] = None /\ journal' = Prepared(s, packet)
Start(s) == MayStart(s) /\ BudgetLeft(journal[s].packet) /\ journal' = Started(s)
Complete(s, outcome) == May(s, "COMPLETED") /\ journal' = Completed(s, outcome)
Settle(s, state) == May(s, state) /\ journal' = Settled(s, state)

JournalInit == journal = [s \in Occurrences |-> None]
JournalNext ==
  \E s \in Occurrences :
    \/ \E packet \in Packets : Prepare(s, packet)
    \/ Start(s)
    \/ \E outcome \in Outcomes : Complete(s, outcome)
    \/ \E state \in Final : Settle(s, state)
JournalSpec == JournalInit /\ [][JournalNext]_journal

-----------------------------------------------------------------------------
(* Properties *)

JournalTypeOK == journal \in [Occurrences -> InvocationRecord \cup {None}]

(* Every stored record passes its own integrity check. *)
RecordsConsistent == \A s \in Occurrences : journal[s] # None => Consistent(journal[s])

(* However many runners start calls of a packet, and whatever becomes of    *)
(* them, no more than its call budget ever start.                           *)
CallBudgetHeld == \A packet \in Packets : Cardinality(CallsOf(packet)) <= MaxCalls

=============================================================================
