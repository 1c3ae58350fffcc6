---------------------------- MODULE MCScenarios ----------------------------
(* One intent with two revisions of one policy, as buildSpec makes them.   *)
EXTENDS Scenarios

CONSTANTS r1, r2, k1, k2

OneIntent == [r \in {r1, r2} |-> 1]
SameKey == [r \in {r1, r2} |-> k1]
=============================================================================
