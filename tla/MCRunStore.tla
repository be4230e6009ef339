----------------------------- MODULE MCRunStore -----------------------------
(* A small instance of RunStore for TLC. *)
EXTENDS RunStore, TLC

CONSTANT MaxAudit

Symmetry == Permutations(Procs) \cup Permutations(Changes) \cup Permutations(Runs)

(* Audit trails are cut off at MaxAudit entries. *)
ShortTrails == \A r \in Runs : runs[r] # None => Len(runs[r].audit) <= MaxAudit
BoundedNext == Next /\ ShortTrails'
BoundedSpec == Init /\ [][BoundedNext]_vars

=============================================================================
