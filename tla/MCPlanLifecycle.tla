-------------------------- MODULE MCPlanLifecycle --------------------------
(* Small instances of PlanLifecycle: the shapes of revisions the runs use. *)
EXTENDS PlanLifecycle, TLC

CONSTANTS r1, r2, k1, k2

\* One intent, two revisions of one policy.
OneIntent == [r \in {r1, r2} |-> 1]
SameKey == [r \in {r1, r2} |-> k1]

\* Two revisions of one kind are told apart by nothing, and two requests too.
Alike == Permutations(Revisions) \cup Permutations(Calls)

\* A call that fails or a process that dies, not one after the other.
OneFailure == errors + crashes <= 1
=============================================================================
