--------------------------- MODULE MCRouteExecution ---------------------------
EXTENDS RouteExecution, TLC

CONSTANTS q1, q2, rev

TwoQuestions == {q1, q2}
Inputs == {<<"CONTEXT_GAP", 1>>, <<"EVIDENCE_GAP", 1>>, <<"COVERAGE_GAP", 1>>,
           <<"DECISION_SENSITIVE_CONFLICT", 1>>, <<"DECISION_SENSITIVE_CONFLICT", 2>>}
Budgets == {[cost |-> 1, latency |-> 3], [cost |-> 2, latency |-> 3]}
OneReviewer == {rev}
QuestionSymmetry == Permutations(TwoQuestions)
=============================================================================
