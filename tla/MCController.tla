---------------------------- MODULE MCController ----------------------------
(* A small instance of Controller for TLC. *)
EXTENDS Controller, TLC

CONSTANTS base, a, b, MaxAudit, MaxStops

Packet(id, version, iterations, failures) ==
  [id |-> id, version |-> version, base |-> base, maxIterations |-> iterations,
   maxFailures |-> failures, maxRuntime |-> 1]

OnePacket == {Packet("P1", 1, 3, 2)}
TwoPackets == {Packet("P1", 1, 3, 3), Packet("P2", 2, 2, 2)}

Symmetry == Permutations({a, b}) \cup Permutations(GrantIds)

ToAuditBound == 1..MaxAudit

(* Runs are cut off at MaxStops entries into a stop, and at MaxAudit audit entries less two for *)
(* each of them: a stop and its resume are not at the cost of a round of work.                  *)
VARIABLE stops

StopsBegun == stops + (IF run.state \notin Stops /\ run'.state \in Stops THEN 1 ELSE 0)
Room(length, stopped) == length + 2 * stopped <= MaxAudit

BoundedInit == Init /\ stops = 0
BoundedNext ==
  /\ Room(run.audit.length + 1, stops)
  /\ Next
  /\ stops' = StopsBegun
  /\ stops' <= MaxStops
  /\ Room(run'.audit.length, stops')
BoundedSpec == BoundedInit /\ [][BoundedNext]_<<vars, stops>>

=============================================================================
