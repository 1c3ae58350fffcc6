-------------------------- MODULE DriftReconcile --------------------------
(***************************************************************************)
(* Drift on top of the plan lifecycle: the DriftWorker compares the        *)
(* cluster with the applied plans (drift_worker.go), a reconcile_drift job *)
(* makes the cluster what they say (reconcile_drift_worker.go), and people *)
(* change the cluster with kubectl. Of POST /drift/reconcile only the job  *)
(* that it queues is here: ReconcileRequests, which implements JobPool, is *)
(* about the rest.                                                         *)
(*                                                                         *)
(* The Runner of a worker process executes jobs of all kinds, one at a     *)
(* time: it leases the oldest due one, which of the two pools is left open.*)
(* Audit entries about drift are left out: nothing reads them.             *)
(***************************************************************************)
EXTENDS PlanLifecycle

CONSTANTS
    Targets,         \* scope, namespace and dryRun of a reconcile
    RecJobIds,       \* bound on reconcile jobs
    KeysOf,          \* the policies in the namespace of a target
    DryRuns,         \* the targets with dryRun
    DriftKeys,       \* the policies in the namespace of the DriftWorker
    ReconcileLimit,  \* the 500 asked for, of which the repository makes 50
    DriftLimit,      \* 200
    MaxTampers       \* bound on changes by hand

ASSUME DriftAssumption ==
    /\ KeysOf \in [Targets -> SUBSET Keys]
    /\ DryRuns \subseteq Targets /\ DriftKeys \subseteq Keys
    /\ ReconcileLimit \in Nat \ {0} /\ DriftLimit \in Nat \ {0} /\ MaxTampers \in Nat
    /\ RecJobIds \subseteq Nat /\ None \notin RecJobIds \cup Targets

VARIABLES
    recStatus, recAttempts, recPayload, recLease,  \* the reconcile_drift jobs
    rpc,       \* where each Runner is in ReconcileDriftWorker.Handle
    want,      \* the plans it still has to apply
    extra,     \* the policies it has observed, then those it still has to delete
    ticking,   \* whether a DriftWorker is between its two reads
    observed,  \* the policies it has read
    snapshot,  \* drift_snapshots: the status of the last one
    tampers    \* changes by hand so far

recVars == <<recStatus, recAttempts, recPayload, recLease>>
handlerVars == <<rpc, want, extra>>
driftVars == <<ticking, observed, snapshot>>
dvars == <<vars, recVars, handlerVars, driftVars, tampers>>

Recs == INSTANCE JobPool WITH
    JobIds <- RecJobIds, Payloads <- Targets, jobStatus <- recStatus,
    attempts <- recAttempts, payload <- recPayload, lease <- recLease

\* Every variable of the two workers has a value of its type, and a Runner is
\* in one handler at a time.
DriftTypeOK ==
    /\ TypeOK /\ Recs!TypeOK
    /\ rpc \in [Workers -> {"idle", "observe", "list", "repair", "ok", "err"}]
    /\ want \in [Workers -> SUBSET PlanIds]
    /\ extra \in [Workers -> SUBSET Keys]
    /\ ticking \in [Workers -> BOOLEAN]
    /\ observed \in [Workers -> [DriftKeys -> Revisions \cup {None}]]
    /\ snapshot \in {"none", "ok", "drift", "unknown"}
    /\ tampers \in 0..MaxTampers
    /\ \A w \in Workers :
        /\ rpc[w] = "idle" <=> recLease[w] = None
        /\ rpc[w] # "idle" => pc[w] = "idle"

NothingObserved == [k \in DriftKeys |-> None]

DriftInit ==
    /\ Init /\ Recs!Init
    /\ rpc = [w \in Workers |-> "idle"]
    /\ want = [w \in Workers |-> {}]
    /\ extra = [w \in Workers |-> {}]
    /\ ticking = [w \in Workers |-> FALSE]
    /\ observed = [w \in Workers |-> NothingObserved]
    /\ snapshot = "none" /\ tampers = 0

-----------------------------------------------------------------------------
\* What the applied plans say.

\* WHERE status='applied' ORDER BY created_at DESC LIMIT n
LatestAppliedPlans(n) ==
    LET applied == {p \in PlanIds : status[p] = "applied"}
    IN  {p \in applied : Cardinality({q \in applied : q > p}) < n}

\* Of the plans that render to one policy the newest counts.
Desired(n, keys) ==
    {p \in LatestAppliedPlans(n) :
        /\ KeyOfPlan(p) \in keys
        /\ \A q \in LatestAppliedPlans(n) : KeyOfPlan(q) = KeyOfPlan(p) => q <= p}

KeysOfPlans(plans) == {KeyOfPlan(p) : p \in plans}

\* What a policy says: the artifact of a plan is a function of its revision.
Content(k) == IF cluster[k] = None THEN None ELSE revOf[cluster[k]]

DesiredContent(n, keys) ==
    [k \in keys |->
        IF k \in KeysOfPlans(Desired(n, keys))
        THEN revOf[CHOOSE p \in Desired(n, keys) : KeyOfPlan(p) = k] ELSE None]

-----------------------------------------------------------------------------
\* ReconcileDriftWorker.Handle.

\* The transaction of a request that found no active job commits; requests
\* that race may queue several.
RequestReconcile(j, t) ==
    /\ \A i \in RecJobIds : i < j => recStatus[i] # "none"
    /\ Recs!Enqueue(j, t)
    /\ UNCHANGED <<vars, handlerVars, driftVars, tampers>>

Free(w) == pc[w] = "idle" /\ rpc[w] = "idle"
TargetOf(w) == recPayload[recLease[w]]
GotoRec(w, next) == rpc' = [rpc EXCEPT ![w] = next]

TakeReconcile(w) ==
    /\ Free(w)
    /\ \E j \in RecJobIds : Recs!LeaseNext(w, j)
    /\ GotoRec(w, "observe")
    /\ UNCHANGED <<vars, want, extra, driftVars, tampers>>

ReconcileLost(w) ==
    /\ Free(w)
    /\ ProcessFails
    /\ \E j \in RecJobIds : Recs!LeaseLost(w, j)
    /\ UNCHANGED <<planVars, deadline, cluster, call, runVars, ttlVars, audit, poolVars,
                   handlerVars, driftVars, tampers>>

Present(keys) == {k \in keys : cluster[k] # None}

\* Mutant of ObservePolicies: the managed policies of all namespaces.
ObserveAllPolicies(w) ==
    /\ rpc[w] = "observe"
    /\ extra' = [extra EXCEPT ![w] = Present(Keys)]
    /\ GotoRec(w, "list")
    /\ UNCHANGED <<vars, recVars, want, driftVars, tampers>>

ObservePolicies(w) ==
    /\ rpc[w] = "observe"
    /\ extra' = [extra EXCEPT ![w] = Present(KeysOf[TargetOf(w)])]
    /\ GotoRec(w, "list")
    /\ UNCHANGED <<vars, recVars, want, driftVars, tampers>>

\* Mutant of ListDesired: of the plans of one policy the newest does not win.
ListAllApplied(w) ==
    /\ rpc[w] = "list"
    /\ LET plans == {p \in LatestAppliedPlans(ReconcileLimit) :
                       KeyOfPlan(p) \in KeysOf[TargetOf(w)]} IN
         /\ want' = [want EXCEPT ![w] = plans]
         /\ extra' = [extra EXCEPT ![w] = @ \ KeysOfPlans(plans)]
    /\ GotoRec(w, "repair")
    /\ UNCHANGED <<vars, recVars, driftVars, tampers>>

ListDesired(w) ==
    /\ rpc[w] = "list"
    /\ LET desired == Desired(ReconcileLimit, KeysOf[TargetOf(w)]) IN
         /\ want' = [want EXCEPT ![w] = desired]
         /\ extra' = [extra EXCEPT ![w] = @ \ KeysOfPlans(desired)]
    /\ GotoRec(w, "repair")
    /\ UNCHANGED <<vars, recVars, driftVars, tampers>>

\* A call with dryRun changes nothing in the cluster.
Write(w, k, p) ==
    IF TargetOf(w) \in DryRuns THEN UNCHANGED cluster
    ELSE cluster' = [cluster EXCEPT ![k] = p]

\* In the order of a map: any.
ApplyDesired(w, p) ==
    /\ rpc[w] = "repair" /\ p \in want[w]
    /\ Write(w, KeyOfPlan(p), p)
    /\ want' = [want EXCEPT ![w] = @ \ {p}]
    /\ UNCHANGED <<planVars, deadline, call, runVars, ttlVars, audit, failVars, poolVars,
                   recVars, rpc, extra, driftVars, tampers>>

\* Kubernetes answers NotFound, an error, when somebody else has deleted it.
DeleteExtra(w, k) ==
    /\ rpc[w] = "repair" /\ want[w] = {} /\ k \in extra[w]
    /\ Write(w, k, None)
    /\ extra' = [extra EXCEPT ![w] = @ \ {k}]
    /\ IF cluster[k] = None THEN GotoRec(w, "err") ELSE UNCHANGED rpc
    /\ UNCHANGED <<planVars, deadline, call, runVars, ttlVars, audit, failVars, poolVars,
                   recVars, want, driftVars, tampers>>

Repaired(w) ==
    /\ rpc[w] = "repair" /\ want[w] = {} /\ extra[w] = {}
    /\ GotoRec(w, "ok")
    /\ UNCHANGED <<vars, recVars, want, extra, driftVars, tampers>>

\* Any call of the handler fails, perhaps with its effect.
ReconcileFails(w) ==
    /\ rpc[w] \in {"observe", "list", "repair"}
    /\ CallFails
    /\ GotoRec(w, "err")
    /\ \/ UNCHANGED cluster
       \/ rpc[w] = "repair" /\ \E p \in want[w] : Write(w, KeyOfPlan(p), p)
       \/ rpc[w] = "repair" /\ want[w] = {} /\ \E k \in extra[w] : Write(w, k, None)
    /\ UNCHANGED <<planVars, deadline, call, runVars, ttlVars, audit, poolVars,
                   recVars, want, extra, driftVars, tampers>>

LeaveHandler(w) ==
    /\ GotoRec(w, "idle")
    /\ want' = [want EXCEPT ![w] = {}]
    /\ extra' = [extra EXCEPT ![w] = {}]

MarkReconcile(w) ==
    /\ \/ rpc[w] = "ok" /\ Recs!MarkDone(w)
       \/ rpc[w] = "err" /\ Recs!MarkFailed(w)
    /\ LeaveHandler(w)
    /\ UNCHANGED <<vars, driftVars, tampers>>

MarkReconcileLost(w) ==
    /\ rpc[w] \in {"ok", "err"}
    /\ ProcessFails
    /\ Recs!Forget(w)
    /\ LeaveHandler(w)
    /\ UNCHANGED <<planVars, deadline, cluster, call, runVars, ttlVars, audit, poolVars,
                   driftVars, tampers>>

-----------------------------------------------------------------------------
\* The DriftWorker of a worker process: one tick at a time.

DriftObserve(w) ==
    /\ ~ticking[w]
    /\ ticking' = [ticking EXCEPT ![w] = TRUE]
    /\ observed' = [observed EXCEPT ![w] = [k \in DriftKeys |-> Content(k)]]
    /\ UNCHANGED <<vars, recVars, handlerVars, snapshot, tampers>>

\* Mutant of DriftStatus: missing and extra policies count, changed ones do not.
DriftStatusByKey(seen) ==
    IF \A k \in DriftKeys :
        (seen[k] = None) <=> (DesiredContent(DriftLimit, DriftKeys)[k] = None)
    THEN "ok" ELSE "drift"

\* diffKeys finds a policy missing, extra or changed. Its lists are cut to 50
\* before the status is decided: that never makes one of them empty.
DriftStatus(seen) ==
    IF seen = DesiredContent(DriftLimit, DriftKeys) THEN "ok" ELSE "drift"

EndTick(w) ==
    /\ ticking' = [ticking EXCEPT ![w] = FALSE]
    /\ observed' = [observed EXCEPT ![w] = NothingObserved]

DriftCompare(w) ==
    /\ ticking[w]
    /\ snapshot' = DriftStatus(observed[w])
    /\ EndTick(w)
    /\ UNCHANGED <<vars, recVars, handlerVars, tampers>>

\* Either read fails, which is recorded as unknown, or the insert does.
DriftTickFails(w) ==
    /\ CallFails
    /\ EndTick(w)
    /\ snapshot' = "unknown" \/ (ticking[w] /\ UNCHANGED snapshot)
    /\ UNCHANGED <<planVars, deadline, cluster, call, runVars, ttlVars, audit, poolVars,
                   recVars, handlerVars, tampers>>

-----------------------------------------------------------------------------
\* The process dies: the plan lifecycle's part of it, and the rest.
ProcessDies(w) ==
    \/ /\ rpc[w] = "idle" /\ Crash(w)
       /\ UNCHANGED <<recVars, handlerVars>>
    \/ /\ rpc[w] # "idle" /\ ProcessFails
       /\ Recs!Forget(w) /\ LeaveHandler(w)
       /\ pending' = [pending EXCEPT ![w] = {}]
       /\ expiring' = [expiring EXCEPT ![w] = None]
       /\ UNCHANGED <<planVars, deadline, cluster, call, runVars, audit, poolVars>>

CrashAll(w) ==
    /\ ProcessDies(w)
    /\ EndTick(w)
    /\ UNCHANGED <<snapshot, tampers>>

\* kubectl delete, and kubectl apply of the YAML that the API gives for a plan.
Tamper(k, p) ==
    /\ tampers < MaxTampers /\ tampers' = tampers + 1
    /\ cluster[k] # p
    /\ cluster' = [cluster EXCEPT ![k] = p]
    /\ UNCHANGED <<planVars, deadline, call, runVars, ttlVars, audit, failVars, poolVars,
                   recVars, handlerVars, driftVars>>

DeleteByHand(k) == Tamper(k, None)
ApplyByHand(p) == Exists(p) /\ revOf[p] \notin Unrenderable /\ Tamper(KeyOfPlan(p), p)

-----------------------------------------------------------------------------
ReconcileStep(w) ==
    \/ TakeReconcile(w) \/ ReconcileLost(w)
    \/ ObservePolicies(w) \/ ListDesired(w)
    \/ \E p \in PlanIds : ApplyDesired(w, p)
    \/ \E k \in Keys : DeleteExtra(w, k)
    \/ Repaired(w) \/ ReconcileFails(w)
    \/ MarkReconcile(w) \/ MarkReconcileLost(w)

DriftStep(w) == DriftObserve(w) \/ DriftCompare(w) \/ DriftTickFails(w)

\* Mutant of LifecycleRunner: the Runner does not wait for the handler.
RunnerUnserialised(w) == RunnerStep(w)

\* The Runner takes a job of the lifecycle only between two reconciles.
LifecycleRunner(w) == rpc[w] = "idle" /\ RunnerStep(w)

LifecycleStep ==
    /\ \/ ApiStep
       \/ \E w \in Workers : LifecycleRunner(w) \/ TickStep(w)
       \/ \E r \in Revisions : DeadlinePasses(r)
    /\ UNCHANGED <<recVars, handlerVars, driftVars, tampers>>

DriftNext ==
    \/ LifecycleStep
    \/ \E j \in RecJobIds, t \in Targets : RequestReconcile(j, t)
    \/ \E w \in Workers : ReconcileStep(w) \/ DriftStep(w) \/ CrashAll(w)
    \/ \E k \in Keys : DeleteByHand(k)
    \/ \E p \in PlanIds : ApplyByHand(p)

DriftSpec == DriftInit /\ [][DriftNext]_dvars

RunnerLoop(w) ==
    \/ ReconcileStep(w)
    \/ LifecycleRunner(w) /\ UNCHANGED <<recVars, handlerVars, driftVars, tampers>>

TickLoop(w) ==
    TickStep(w) /\ UNCHANGED <<recVars, handlerVars, driftVars, tampers>>

\* The three loops of a worker process never stop for good.
DriftFairness ==
    \A w \in Workers :
        WF_dvars(RunnerLoop(w)) /\ WF_dvars(TickLoop(w)) /\ WF_dvars(DriftStep(w))

FairDriftSpec == DriftSpec /\ DriftFairness

-----------------------------------------------------------------------------
\* The cluster has what the newest n applied plans say, and nothing else.
InSync(n, keys) == \A k \in keys : Content(k) = DesiredContent(n, keys)[k]

\* Nothing but a reconcile is about to change the cluster or the plans: no
\* request is in flight, and no job of the lifecycle is queued or in a handler.
\* A running job that no Runner holds stays as it is (Orphan of JobPool).
Quiet ==
    /\ \A c \in Calls : call[c] = None
    /\ \A j \in JobIds : Active(j) => Pool!Orphan(j)

\* A queued reconcile is done with the namespace in sync, whatever an apply,
\* an expiry or a change by hand that came before it has left behind, those
\* included that failed halfway or whose process died: unless something else
\* changes meanwhile, its attempts are used up, or it is left running by a
\* process that dies or by a lost answer and nobody takes it again.
ReconcileConverges ==
    \A t \in Targets \ DryRuns, j \in RecJobIds, n \in 0..MaxTampers :
        (recStatus[j] = "queued" /\ recPayload[j] = t /\ tampers = n)
        ~> (\/ recStatus[j] = "done" /\ InSync(ReconcileLimit, KeysOf[t])
            \/ ~Quiet \/ tampers # n
            \/ recStatus[j] = "failed" \/ Recs!Orphan(j))

\* With one worker, and no more plans than a reconcile lists, it deletes no
\* policy that an applied plan wants, in any namespace, although it observes
\* the cluster before it lists the plans, and requests, ticks and people act
\* in between.
DeleteStep ==
    \A k \in Keys :
        /\ \E w \in Workers : rpc[w] = "repair"
        /\ tampers' = tampers
        /\ cluster[k] # None /\ cluster'[k] = None
        => k \notin KeysOfPlans({p \in PlanIds : status[p] = "applied"})

DeletesOnlyExtra == [][DeleteStep]_dvars

\* A drift that lasts is reported, and so is its end: again and again the
\* last snapshot says what is so.
SnapshotFollows ==
    []<>(snapshot = IF InSync(DriftLimit, DriftKeys) THEN "ok" ELSE "drift")
=============================================================================
