-------------------------- MODULE MCDriftReconcile --------------------------
(* The second plan is of another revision of the first plan's intent, with *)
(* the same policy, or of another intent with a policy in a namespace of   *)
(* its own. A reconcile is of the near namespace, or a dry run over all.   *)
(* The first revision has a TTL.                                           *)
EXTENDS DriftReconcile

CONSTANTS
    r1, r2, r3, k1, k2, near, dry,
    MaxFaults  \* bound on failing calls and crashes together

MCIntentOf == [r \in {r1, r2, r3} |-> IF r = r3 THEN 2 ELSE 1]
MCKeyOf == [r \in {r1, r2, r3} |-> IF r = r3 THEN k2 ELSE k1]
Namespaces == [t \in {near, dry} |-> IF t = near THEN {k1} ELSE {k1, k2}]

\* While there is one plan, its expiry and faults within the handlers of the
\* lifecycle are part of the run, and so is what they leave for a reconcile.
OnePlan == revOf'[2] = None
Expired == \E r \in Revisions : deadline'[r] = "passed"
NewFault == errors + crashes < errors' + crashes'

Bounds ==
    /\ errors' + crashes' <= MaxFaults
    /\ revOf'[1] \in {None, r1} /\ revOf'[2] \in {None, r2, r3}
    /\ \/ OnePlan
       \/ ~Expired /\ (NewFault => \A w \in Workers : pc[w] = "idle")
    /\ Expired => errors' + crashes' + tampers' <= 1
    /\ (\E j \in RecJobIds : recPayload'[j] \in DryRuns) => errors' + crashes' = 0

MCSpec == DriftInit /\ [][DriftNext /\ Bounds]_dvars /\ DriftFairness
=============================================================================
