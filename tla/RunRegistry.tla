----------------------------- MODULE RunRegistry -----------------------------
(***************************************************************************)
(* What FileControllerStore promises of the disk it writes to (CHIEF-GOV/1 *)
(* in AUTOMATION_GOVERNANCE_CONTRACT.md 3.1): a change gets one ROOT run,   *)
(* ever; a run is the ROOT of one change; a run is stored only once it is  *)
(* the ROOT of its change, and from then on its audit trail only grows.    *)
(* Nothing here is ever undone, by a crash of a writer or of the machine.  *)
(***************************************************************************)
EXTENDS SequencesExt

CONSTANTS Changes, Runs, None

VARIABLES
  root,      \* the ROOT run of a change, or None
  stored     \* a run's change and audit trail, or None

Init ==
  /\ root = [c \in Changes |-> None]
  /\ stored = [r \in Runs |-> None]

Admit(c, r) ==
  /\ root[c] = None
  /\ \A d \in Changes : root[d] # r
  /\ root' = [root EXCEPT ![c] = r]
  /\ UNCHANGED stored

(* Only the file of r changes. *)
Stores(r) == stored' = [stored EXCEPT ![r] = stored'[r]] /\ UNCHANGED root

Create(r) ==
  /\ stored[r] = None
  /\ Stores(r)
  /\ stored'[r] # None
  /\ root[stored'[r].change] = r

Advance(r) ==
  /\ stored[r] # None
  /\ Stores(r)
  /\ stored'[r] # None
  /\ stored'[r].change = stored[r].change
  /\ IsStrictPrefix(stored[r].audit, stored'[r].audit)

Next ==
  \/ \E c \in Changes, r \in Runs : Admit(c, r)
  \/ \E r \in Runs : Create(r) \/ Advance(r)

Spec == Init /\ [][Next]_<<root, stored>>

=============================================================================
