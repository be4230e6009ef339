-------------------------------- MODULE MCRunner --------------------------------
(* TLC instances of Runner: two runners, each with its own architect principal *)
(* or both with the fixed review actor.                                        *)
EXTENDS Runner

CONSTANTS A, B, ArchitectA, ArchitectB

OwnPrincipals == (A :> ArchitectA) @@ (B :> ArchitectB)
OnePrincipal == [w \in Runners |-> ArchitectA]

(* The two runners, with their principals, may be exchanged. *)
Symmetry == {f \in Permutations({A, B, ArchitectA, ArchitectB}) :
               \A w \in {A, B} : f[w] \in {A, B} /\ f[OwnPrincipals[w]] = OwnPrincipals[f[w]]}
RunnerSymmetry == Permutations(Runners)

Trail3 == 1..3
Trail4 == 1..4
Trail5 == 1..5
Trail6 == 1..6

=============================================================================
