----------------------------- MODULE MCWorkspace -----------------------------
EXTENDS Workspace

CONSTANTS g1, r1, other

OneGoal == {g1}
ItsRun == (g1 :> r1)
TwoRuns == {r1, other}
=============================================================================
