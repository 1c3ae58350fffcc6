------------------------ MODULE DriftReconcileProofs ------------------------
(***************************************************************************)
(* Theorems about DriftReconcile for any numbers of plans, workers, jobs,  *)
(* policies and failures: its types, that the plan lifecycle keeps its     *)
(* promises under drift, reconciles and changes by hand, and that one      *)
(* worker deletes no policy that is wanted.                                *)
(***************************************************************************)
EXTENDS DriftReconcile, PlanLifecycleProofs, FiniteSetTheorems, WellFoundedInduction

\* The theorems about the pool, for the reconcile jobs.
RecThm == INSTANCE JobPoolProofs WITH
    JobIds <- RecJobIds, Payloads <- Targets, jobStatus <- recStatus,
    attempts <- recAttempts, payload <- recPayload, lease <- recLease

RecInv == Recs!TypeOK /\ Recs!ExclusiveLease /\ Recs!RetryBudget

\* A reconcile job that has a row is about a target: without it the handler
\* could look up the namespace of nothing.
RowInv == \A j \in RecJobIds : recStatus[j] # "none" => recPayload[j] \in Targets

DInv == DriftTypeOK /\ IInv /\ RecInv /\ RowInv

-----------------------------------------------------------------------------
\* The types of the reconcile jobs and of the handlers.
LEMMA DriftTyped ==
    ASSUME DInv
    PROVE  /\ recStatus \in [RecJobIds -> {"none", "queued", "running", "done", "failed"}]
           /\ recPayload \in [RecJobIds -> Targets \cup {None}]
           /\ recLease \in [Workers -> RecJobIds \cup {None}]
           /\ \A w \in Workers : recLease[w] # None => recStatus[recLease[w]] = "running"
           /\ rpc \in [Workers -> {"idle", "observe", "list", "repair", "ok", "err"}]
           /\ want \in [Workers -> SUBSET PlanIds]
           /\ extra \in [Workers -> SUBSET Keys]
           /\ None \notin RecJobIds /\ None \notin Targets /\ None \notin PlanIds
BY DriftAssumption, LifecycleAssumption
   DEF DInv, DriftTypeOK, RecInv, Recs!TypeOK, Recs!JobStatuses, Recs!ExclusiveLease

\* A Runner in the handler has a job about a target.
LEMMA HandlerHasTarget ==
    ASSUME DInv, NEW w \in Workers, rpc[w] # "idle"
    PROVE  /\ recLease[w] \in RecJobIds /\ recStatus[recLease[w]] = "running"
           /\ TargetOf(w) \in Targets
<1>1. recLease[w] # None
    BY DEF DInv, DriftTypeOK
<1> QED BY <1>1, DriftTyped DEF DInv, RowInv, TargetOf

\* What happens to the reconcile jobs is what the pool allows.
LEMMA StepsOfRecs == DInv /\ [DriftNext]_dvars => [Recs!Next]_recVars
<1> SUFFICES ASSUME DInv, [DriftNext]_dvars PROVE Recs!Next \/ UNCHANGED recVars
    OBVIOUS
<1>1. ASSUME NEW j \in RecJobIds, NEW t \in Targets, RequestReconcile(j, t) PROVE Recs!Next
    BY <1>1 DEF RequestReconcile, Recs!Next
<1>2. ASSUME NEW w \in Workers, TakeReconcile(w) \/ ReconcileLost(w) PROVE Recs!Next
    BY <1>2 DEF TakeReconcile, ReconcileLost, Recs!Next, Recs!Step
<1>3. ASSUME NEW w \in Workers, MarkReconcile(w) \/ MarkReconcileLost(w) PROVE Recs!Next
    BY <1>3 DEF MarkReconcile, MarkReconcileLost, Recs!Next, Recs!Step
<1>4. ASSUME NEW w \in Workers, CrashAll(w) PROVE Recs!Next \/ UNCHANGED recVars
    BY <1>4 DEF CrashAll, ProcessDies, Recs!Next, Recs!Step
<1>5. ASSUME NEW w \in Workers,
             \/ ObservePolicies(w) \/ ListDesired(w) \/ Repaired(w) \/ ReconcileFails(w)
             \/ (\E p \in PlanIds : ApplyDesired(w, p))
             \/ (\E k \in Keys : DeleteExtra(w, k)) \/ DriftStep(w)
      PROVE  UNCHANGED recVars
    BY <1>5 DEF ObservePolicies, ListDesired, Repaired, ReconcileFails, ApplyDesired,
                DeleteExtra, DriftStep, DriftObserve, DriftCompare, DriftTickFails
<1>6. ASSUME \/ LifecycleStep \/ (\E k \in Keys : DeleteByHand(k))
             \/ (\E p \in PlanIds : ApplyByHand(p)) \/ UNCHANGED dvars
      PROVE  UNCHANGED recVars
    BY <1>6 DEF LifecycleStep, DeleteByHand, ApplyByHand, Tamper, dvars
<1> QED BY <1>1, <1>2, <1>3, <1>4, <1>5, <1>6 DEF DriftNext, ReconcileStep

\* The invariant of their pool comes from the theorems of JobPoolProofs.
LEMMA RecStep == RecInv /\ [Recs!Next]_recVars => RecInv'
<1>1. MaxAttempts \in Nat \ {0} /\ None \notin RecJobIds /\ None \notin Targets
    BY LifecycleAssumption, DriftAssumption
<1>2. Recs!Next => RecThm!Next
    BY DEF Recs!Next, RecThm!Next, Recs!Step, RecThm!Step,
           Recs!Enqueue, RecThm!Enqueue, Recs!LeaseNext, RecThm!LeaseNext,
           Recs!LeaseLost, RecThm!LeaseLost, Recs!MarkDone, RecThm!MarkDone,
           Recs!MarkFailed, RecThm!MarkFailed, Recs!GivenUp, RecThm!GivenUp,
           Recs!Forget, RecThm!Forget
<1>3. RecInv <=> RecThm!PoolInv
    BY DEF RecInv, RecThm!PoolInv, Recs!TypeOK, RecThm!TypeOK,
           Recs!JobStatuses, RecThm!JobStatuses,
           Recs!ExclusiveLease, RecThm!ExclusiveLease,
           Recs!RetryBudget, RecThm!RetryBudget
<1>4. RecInv' <=> RecThm!PoolInv'
    BY DEF RecInv, RecThm!PoolInv, Recs!TypeOK, RecThm!TypeOK,
           Recs!JobStatuses, RecThm!JobStatuses,
           Recs!ExclusiveLease, RecThm!ExclusiveLease,
           Recs!RetryBudget, RecThm!RetryBudget
<1>5. RecThm!PoolInv /\ [RecThm!Next]_RecThm!poolVars => RecThm!PoolInv'
    BY <1>1, RecThm!PoolStep
<1>6. UNCHANGED recVars => UNCHANGED RecThm!poolVars
    BY DEF recVars, RecThm!poolVars
<1> QED BY <1>2, <1>3, <1>4, <1>5, <1>6

\* A reconcile job stays, and stays about its target; a new one is about one.
LEMMA RecRowsStay ==
    ASSUME DInv, [DriftNext]_dvars, NEW j \in RecJobIds
    PROVE  /\ recStatus[j] # "none" => recStatus'[j] # "none" /\ recPayload'[j] = recPayload[j]
           /\ recStatus[j] = "none" /\ recStatus'[j] # "none" => recPayload'[j] \in Targets
<1> DEFINE Goal ==
       /\ recStatus[j] # "none" => recStatus'[j] # "none" /\ recPayload'[j] = recPayload[j]
       /\ recStatus[j] = "none" /\ recStatus'[j] # "none" => recPayload'[j] \in Targets
<1>1. ASSUME NEW i \in RecJobIds, NEW t \in Targets, Recs!Enqueue(i, t) PROVE Goal
    BY <1>1, DriftTyped DEF Recs!Enqueue
<1>2. ASSUME NEW w \in Workers, Recs!Step(w) PROVE Goal
    BY <1>2, DriftTyped DEF Recs!Step, Recs!LeaseNext, Recs!LeaseLost, Recs!MarkDone,
                            Recs!MarkFailed, Recs!Forget
<1>3. CASE UNCHANGED recVars
    BY <1>3 DEF recVars
<1> QED BY <1>1, <1>2, <1>3, StepsOfRecs DEF Recs!Next

-----------------------------------------------------------------------------
\* To the lifecycle of plans, drift is what changes the cluster, uses up
\* failures and makes a process forget its tick.
OutsideStep ==
    /\ UNCHANGED <<planVars, deadline, call, runVars, audit, poolVars>>
    /\ cluster' \in [Keys -> PlanIds \cup {None}]
    /\ errors' \in 0..MaxErrors /\ crashes' \in 0..MaxCrashes
    /\ pending' \in [Workers -> SUBSET PlanIds]
    /\ \A w \in Workers : pending'[w] \subseteq pending[w]
    /\ expiring' \in [Workers -> PlanIds \cup {None}]
    /\ \A w \in Workers : expiring'[w] \in {expiring[w], None}

\* Such a step breaks none of its invariants.
LEMMA OutsideInv == IInv /\ OutsideStep => IInv'
<1> SUFFICES ASSUME IInv, OutsideStep PROVE IInv'
    OBVIOUS
<1> USE DEF IInv, OutsideStep, planVars, runVars, poolVars
<1>1. TypeOK'
    BY DEF TypeOK, Pool!TypeOK
<1>2. PoolInv'
    BY DEF PoolInv, Pool!TypeOK, Pool!ExclusiveLease, Pool!RetryBudget
<1>3. JobsInv' /\ CallInv'
    BY DEF JobsInv, CallInv, Exists
<1>4. RunnerInv'
    BY DEF RunnerInv, RunnerAt, Kind, Exists
<1>5. OwnInv'
    BY DEF OwnInv, ApplyJobIsOwn, About
<1>6. \A p \in PlanIds : Expirable(p) => Expirable(p)'
    BY DEF Expirable, Exists, KeyOfPlan
<1>7. ExpiryInv'
  <2>1. \A w \in Workers : \A p \in pending'[w] : Expirable(p)'
      BY <1>6 DEF ExpiryInv
  <2>2. ASSUME NEW w \in Workers, expiring'[w] # None PROVE Expirable(expiring[w])'
    <3>1. expiring'[w] = expiring[w] /\ expiring'[w] \in PlanIds
        BY <2>2
    <3>2. Expirable(expiring[w])
        BY <2>2, <3>1 DEF ExpiryInv
    <3> QED BY <3>1, <3>2 DEF Expirable, Exists, KeyOfPlan
  <2>3. \A j \in JobIds, p \in PlanIds : About(j, "expire_ttl", p)' => Expirable(p)'
      BY <1>6 DEF ExpiryInv, About
  <2>4. /\ \A p \in PlanIds : status'[p] = "applied" => appliedRef'[p] = KeyOfPlan(p)'
        /\ \A p \in PlanIds : status'[p] = "expired" => deadline'[revOf'[p]] = "passed"
      BY DEF ExpiryInv, KeyOfPlan
  <2> QED BY <2>1, <2>2, <2>3, <2>4 DEF ExpiryInv
<1>8. ApplyingIsOwed'
  <2> SUFFICES ASSUME NEW p \in PlanIds, status'[p] = "applying"
               PROVE  \E j \in JobIds :
                          /\ About(j, "apply_plan", p)'
                          /\ jobStatus'[j] # "done"
                          /\ \A w \in Workers : lease'[w] = j => ~Recorded(w)'
      BY DEF ApplyingIsOwed
  <2>1. PICK j \in JobIds : /\ About(j, "apply_plan", p)
                            /\ jobStatus[j] # "done"
                            /\ \A w \in Workers : lease[w] = j => ~Recorded(w)
      BY DEF ApplyingIsOwed
  <2>2. About(j, "apply_plan", p)' /\ jobStatus'[j] # "done"
      BY <2>1 DEF About
  <2>3. \A w \in Workers : Recorded(w)' => Recorded(w)
      BY DEF Recorded
  <2> QED BY <2>1, <2>2, <2>3
<1> QED BY <1>1, <1>2, <1>3, <1>4, <1>5, <1>7, <1>8

\* A write into the cluster leaves it a cluster.
LEMMA WriteTyped ==
    ASSUME DInv, NEW w \in Workers, NEW k, NEW p \in PlanIds \cup {None}, Write(w, k, p)
    PROVE  cluster' \in [Keys -> PlanIds \cup {None}]
BY DEF DInv, DriftTypeOK, TypeOK, Write

\* Every step is one of the lifecycle or an outside step.
LEMMA LifecycleOrOutside == DInv /\ [DriftNext]_dvars => [Next]_vars \/ OutsideStep
<1> SUFFICES ASSUME DInv, [DriftNext]_dvars PROVE [Next]_vars \/ OutsideStep
    OBVIOUS
<1>a. TypeOK
    BY DEF DInv, DriftTypeOK
<1>b. /\ cluster \in [Keys -> PlanIds \cup {None}]
      /\ errors \in 0..MaxErrors /\ crashes \in 0..MaxCrashes
      /\ pending \in [Workers -> SUBSET PlanIds]
      /\ expiring \in [Workers -> PlanIds \cup {None}]
      /\ MaxErrors \in Nat /\ MaxCrashes \in Nat
    BY <1>a, LifecycleAssumption DEF TypeOK
<1>1. CASE LifecycleStep
    BY <1>1 DEF LifecycleStep, LifecycleRunner, Next
<1>2. CASE UNCHANGED dvars \/ \E j \in RecJobIds, t \in Targets : RequestReconcile(j, t)
    BY <1>2 DEF dvars, RequestReconcile
<1>3. ASSUME NEW w \in Workers,
             \/ TakeReconcile(w) \/ ObservePolicies(w) \/ ListDesired(w) \/ Repaired(w)
             \/ MarkReconcile(w) \/ DriftObserve(w) \/ DriftCompare(w)
      PROVE  UNCHANGED vars
    BY <1>3 DEF TakeReconcile, ObservePolicies, ListDesired, Repaired, MarkReconcile,
                DriftObserve, DriftCompare
<1>4. ASSUME NEW w \in Workers, ReconcileLost(w) \/ MarkReconcileLost(w) \/ DriftTickFails(w)
      PROVE  OutsideStep
    BY <1>4, <1>b DEF ReconcileLost, MarkReconcileLost, DriftTickFails, OutsideStep,
                      CallFails, ProcessFails, ttlVars
<1>5. ASSUME NEW w \in Workers, NEW p \in PlanIds, ApplyDesired(w, p) PROVE OutsideStep
    BY <1>5, <1>b, WriteTyped DEF ApplyDesired, OutsideStep, ttlVars, failVars
<1>6. ASSUME NEW w \in Workers, NEW k \in Keys, DeleteExtra(w, k) PROVE OutsideStep
    BY <1>6, <1>b, WriteTyped DEF DeleteExtra, OutsideStep, ttlVars, failVars
<1>7. ASSUME NEW w \in Workers, ReconcileFails(w) PROVE OutsideStep
  <2>1. cluster' \in [Keys -> PlanIds \cup {None}]
    <3>1. \A p \in want[w] : p \in PlanIds
        BY DriftTyped
    <3> QED BY <1>7, <1>b, <3>1, WriteTyped DEF ReconcileFails
  <2> QED BY <1>7, <1>b, <2>1 DEF ReconcileFails, OutsideStep, CallFails, ttlVars
<1>8. ASSUME NEW w \in Workers, CrashAll(w) PROVE [Next]_vars \/ OutsideStep
  <2>1. CASE rpc[w] = "idle"
      BY <1>8, <2>1 DEF CrashAll, ProcessDies, Next
  <2>2. CASE rpc[w] # "idle"
      BY <1>8, <1>b, <2>2 DEF CrashAll, ProcessDies, OutsideStep, ProcessFails
  <2> QED BY <2>1, <2>2
<1>9. ASSUME NEW k \in Keys, DeleteByHand(k) PROVE OutsideStep
    BY <1>9, <1>b DEF DeleteByHand, Tamper, OutsideStep, ttlVars, failVars
<1>10. ASSUME NEW p \in PlanIds, ApplyByHand(p) PROVE OutsideStep
    BY <1>10, <1>b DEF ApplyByHand, Tamper, OutsideStep, ttlVars, failVars
<1> QED BY <1>1, <1>2, <1>3, <1>4, <1>5, <1>6, <1>7, <1>8, <1>9, <1>10
        DEF DriftNext, ReconcileStep, DriftStep

\* Hence the invariant of the lifecycle survives.
LEMMA LifecycleKept == DInv /\ [DriftNext]_dvars => IInv'
BY LifecycleOrOutside, OutsideInv, IInvStep DEF DInv

-----------------------------------------------------------------------------
\* The initial states satisfy the invariant.
LEMMA DriftInitInv == DriftInit => DInv
<1> SUFFICES ASSUME DriftInit PROVE DInv
    OBVIOUS
<1>1. IInv
    BY InitInv DEF DriftInit
<1> USE LifecycleAssumption, DriftAssumption DEF DriftInit, Recs!Init
<1>2. Recs!TypeOK
    BY DEF Recs!TypeOK, Recs!JobStatuses
<1>3. RecInv
    BY <1>2 DEF RecInv, Recs!ExclusiveLease, Recs!RetryBudget
<1>4. RowInv
    BY DEF RowInv
<1>5. pc = [w \in Workers |-> "idle"]
    BY DEF Init
<1>6. DriftTypeOK
    BY <1>1, <1>2, <1>5 DEF DriftTypeOK, IInv, NothingObserved
<1> QED BY <1>1, <1>3, <1>4, <1>6 DEF DInv

\* Where a Runner is in the handler says whether it holds a reconcile job, and
\* it is in no handler of the lifecycle meanwhile.
HandlerAt(w) ==
    /\ rpc[w] = "idle" <=> recLease[w] = None
    /\ rpc[w] # "idle" => pc[w] = "idle"

\* A step that leaves the handlers alone and makes busy only a free Runner.
LEMMA HandlersStay ==
    ASSUME DInv, rpc' = rpc, recLease' = recLease, NEW w \in Workers,
           rpc[w] # "idle" => pc'[w] = pc[w]
    PROVE  HandlerAt(w)'
BY DEF DInv, DriftTypeOK, HandlerAt

\* Every step of the lifecycle leaves the Runners in reconciles where they are.
LEMMA LifecycleLeavesHandlers ==
    ASSUME DInv, LifecycleStep, NEW w \in Workers
    PROVE  HandlerAt(w)'
<1>a. IInv
    BY DEF DInv
<1>1. rpc' = rpc /\ recLease' = recLease
    BY DEF LifecycleStep, handlerVars, recVars
<1>2. ASSUME rpc[w] # "idle" PROVE pc'[w] = pc[w]
  <2>1. ASSUME NEW v \in Workers, LifecycleRunner(v) \/ TickStep(v) PROVE pc'[w] = pc[w]
    <3>1. CASE v = w
        BY <1>2, <2>1, <3>1 DEF LifecycleRunner, TickStep, TickList, TickFind, TickEnqueue,
                                runVars
    <3>2. CASE v # w
        BY <1>a, <2>1, <3>2, OtherRunners DEF LifecycleRunner
    <3> QED BY <3>1, <3>2
  <2>2. ASSUME ApiStep \/ \E r \in Revisions : DeadlinePasses(r) PROVE pc'[w] = pc[w]
      BY <2>2 DEF ApiStep, PlanIntent, ApplyPlanRead, ApplyPlanWrite, ApplyPlanAbort,
                  DeadlinePasses, runVars
  <2> QED BY <2>1, <2>2 DEF LifecycleStep
<1> QED BY <1>1, <1>2, HandlersStay

\* Every step leaves a Runner in one handler at a time.
LEMMA HandlerStep ==
    ASSUME DInv, [DriftNext]_dvars, NEW w \in Workers
    PROVE  HandlerAt(w)'
<1>a. HandlerAt(w)
    BY DEF DInv, DriftTypeOK, HandlerAt
<1>b. /\ pc \in [Workers -> RunnerStates] /\ recLease \in [Workers -> RecJobIds \cup {None}]
      /\ rpc \in [Workers -> {"idle", "observe", "list", "repair", "ok", "err"}]
      /\ None \notin RecJobIds
    BY DriftTyped DEF DInv, DriftTypeOK, TypeOK
<1> USE <1>b DEF GotoRec, LeaveHandler, vars, runVars, recVars, handlerVars
<1>1. CASE LifecycleStep
    BY <1>1, LifecycleLeavesHandlers
<1>2. ASSUME \/ \E j \in RecJobIds, t \in Targets : RequestReconcile(j, t)
             \/ \E v \in Workers : ReconcileLost(v) \/ DriftStep(v)
             \/ \E k \in Keys : DeleteByHand(k)
             \/ \E p \in PlanIds : ApplyByHand(p)
             \/ UNCHANGED dvars
      PROVE  HandlerAt(w)'
  <2>1. rpc' = rpc /\ recLease' = recLease /\ pc' = pc
      BY <1>2 DEF RequestReconcile, Recs!Enqueue, ReconcileLost, Recs!LeaseLost, DriftStep,
                  DriftObserve, DriftCompare, DriftTickFails, DeleteByHand, ApplyByHand,
                  Tamper, dvars
  <2> QED BY <2>1, HandlersStay
<1>3. ASSUME NEW v \in Workers, TakeReconcile(v) PROVE HandlerAt(w)'
  <2>1. PICK j \in RecJobIds : recLease' = [recLease EXCEPT ![v] = j]
      BY <1>3 DEF TakeReconcile, Recs!LeaseNext
  <2>2. /\ rpc' = [rpc EXCEPT ![v] = "observe"] /\ pc' = pc
        /\ pc[v] = "idle"
      BY <1>3 DEF TakeReconcile, Free
  <2> QED BY <1>a, <2>1, <2>2 DEF HandlerAt
<1>4. ASSUME NEW v \in Workers,
             \/ ObservePolicies(v) \/ ListDesired(v) \/ Repaired(v) \/ ReconcileFails(v)
             \/ (\E p \in PlanIds : ApplyDesired(v, p))
             \/ (\E k \in Keys : DeleteExtra(v, k))
      PROVE  HandlerAt(w)'
  <2>1. /\ recLease' = recLease /\ pc' = pc /\ rpc[v] # "idle"
        /\ rpc' = rpc \/ \E s \in {"list", "repair", "ok", "err"} : rpc' = [rpc EXCEPT ![v] = s]
      BY <1>4 DEF ObservePolicies, ListDesired, Repaired, ReconcileFails, ApplyDesired,
                  DeleteExtra
  <2> QED BY <1>a, <2>1 DEF HandlerAt
<1>5. ASSUME NEW v \in Workers, MarkReconcile(v) \/ MarkReconcileLost(v) PROVE HandlerAt(w)'
  <2>1. /\ rpc' = [rpc EXCEPT ![v] = "idle"] /\ pc' = pc
        /\ recLease' = [recLease EXCEPT ![v] = None]
      BY <1>5 DEF MarkReconcile, MarkReconcileLost, Recs!MarkDone, Recs!MarkFailed, Recs!Forget
  <2> QED BY <1>a, <2>1 DEF HandlerAt
<1>6. ASSUME NEW v \in Workers, CrashAll(v) PROVE HandlerAt(w)'
  <2>1. CASE rpc[v] = "idle"
    <3>1. /\ rpc' = rpc /\ recLease' = recLease
          /\ pc' = [pc EXCEPT ![v] = "idle"]
        BY <1>6, <2>1 DEF CrashAll, ProcessDies, Crash
    <3> QED BY <1>a, <3>1 DEF HandlerAt
  <2>2. CASE rpc[v] # "idle"
    <3>1. /\ rpc' = [rpc EXCEPT ![v] = "idle"] /\ pc' = pc
          /\ recLease' = [recLease EXCEPT ![v] = None]
        BY <1>6, <2>2 DEF CrashAll, ProcessDies, Recs!Forget
    <3> QED BY <1>a, <3>1 DEF HandlerAt
  <2> QED BY <2>1, <2>2
<1> QED BY <1>1, <1>2, <1>3, <1>4, <1>5, <1>6 DEF DriftNext, ReconcileStep

\* The variables of the two workers, apart from the pools.
WorkersTyped ==
    /\ rpc \in [Workers -> {"idle", "observe", "list", "repair", "ok", "err"}]
    /\ want \in [Workers -> SUBSET PlanIds]
    /\ extra \in [Workers -> SUBSET Keys]
    /\ ticking \in [Workers -> BOOLEAN]
    /\ observed \in [Workers -> [DriftKeys -> Revisions \cup {None}]]
    /\ snapshot \in {"none", "ok", "drift", "unknown"}
    /\ tampers \in 0..MaxTampers

\* Every step keeps their types.
LEMMA WorkersStep == DInv /\ [DriftNext]_dvars => WorkersTyped'
<1> SUFFICES ASSUME DInv, [DriftNext]_dvars PROVE WorkersTyped'
    OBVIOUS
<1>a. WorkersTyped /\ MaxTampers \in Nat
    BY DriftAssumption DEF DInv, DriftTypeOK, WorkersTyped
<1> USE <1>a DEF WorkersTyped, GotoRec, LeaveHandler, handlerVars, driftVars
<1>1. ASSUME LifecycleStep \/ UNCHANGED dvars
             \/ \E j \in RecJobIds, t \in Targets : RequestReconcile(j, t)
      PROVE  WorkersTyped'
    BY <1>1 DEF LifecycleStep, dvars, RequestReconcile
<1>2. ASSUME NEW w \in Workers,
             \/ TakeReconcile(w) \/ ReconcileLost(w) \/ Repaired(w)
             \/ ReconcileFails(w) \/ MarkReconcile(w) \/ MarkReconcileLost(w)
      PROVE  WorkersTyped'
    BY <1>2 DEF TakeReconcile, ReconcileLost, Repaired, ReconcileFails, MarkReconcile,
                MarkReconcileLost
<1>3. ASSUME NEW w \in Workers, ObservePolicies(w) PROVE WorkersTyped'
  <2>1. TargetOf(w) \in Targets
      BY <1>3, HandlerHasTarget DEF ObservePolicies
  <2>2. Present(KeysOf[TargetOf(w)]) \subseteq Keys
      BY <2>1, DriftAssumption DEF Present
  <2> QED BY <1>3, <2>2 DEF ObservePolicies
<1>4. ASSUME NEW w \in Workers, ListDesired(w) PROVE WorkersTyped'
  <2>1. Desired(ReconcileLimit, KeysOf[TargetOf(w)]) \subseteq PlanIds
      BY DEF Desired, LatestAppliedPlans
  <2> HIDE DEF Desired
  <2> QED BY <1>4, <2>1 DEF ListDesired
<1>5. ASSUME NEW w \in Workers, NEW p \in PlanIds, ApplyDesired(w, p) PROVE WorkersTyped'
    BY <1>5 DEF ApplyDesired
<1>6. ASSUME NEW w \in Workers, NEW k \in Keys, DeleteExtra(w, k) PROVE WorkersTyped'
    BY <1>6 DEF DeleteExtra
<1>7. ASSUME NEW w \in Workers, DriftObserve(w) PROVE WorkersTyped'
  <2>1. \A k \in DriftKeys : Content(k) \in Revisions \cup {None}
    <3>1. cluster \in [Keys -> PlanIds \cup {None}] /\ revOf \in [PlanIds -> Revisions \cup {None}]
        BY DEF DInv, DriftTypeOK, TypeOK
    <3> QED BY <3>1, DriftAssumption DEF Content
  <2> QED BY <1>7, <2>1 DEF DriftObserve
<1>8. \A w \in Workers : EndTick(w) => /\ ticking' \in [Workers -> BOOLEAN]
                                     /\ observed' \in [Workers -> [DriftKeys -> Revisions \cup {None}]]
    BY DEF EndTick, NothingObserved
<1>9. ASSUME NEW w \in Workers, DriftCompare(w) PROVE WorkersTyped'
    BY <1>8, <1>9 DEF DriftCompare, DriftStatus
<1>10. ASSUME NEW w \in Workers, DriftTickFails(w) PROVE WorkersTyped'
    BY <1>8, <1>10 DEF DriftTickFails
<1>11. ASSUME NEW w \in Workers, CrashAll(w) PROVE WorkersTyped'
    BY <1>8, <1>11 DEF CrashAll, ProcessDies
<1>12. ASSUME \/ \E k \in Keys : DeleteByHand(k)
              \/ \E p \in PlanIds : ApplyByHand(p)
       PROVE  WorkersTyped'
    BY <1>12 DEF DeleteByHand, ApplyByHand, Tamper
<1> QED BY <1>1, <1>2, <1>3, <1>4, <1>5, <1>6, <1>7, <1>9, <1>10, <1>11, <1>12
        DEF DriftNext, ReconcileStep, DriftStep

\* The invariant is inductive.
LEMMA DInvStep == DInv /\ [DriftNext]_dvars => DInv'
<1> SUFFICES ASSUME DInv, [DriftNext]_dvars PROVE DInv'
    OBVIOUS
<1>1. IInv'
    BY LifecycleKept
<1>2. RecInv'
    BY StepsOfRecs, RecStep DEF DInv
<1>3. RowInv'
    BY RecRowsStay DEF DInv, RowInv
<1>4. DriftTypeOK'
    BY <1>1, <1>2, WorkersStep, HandlerStep
       DEF DriftTypeOK, IInv, RecInv, WorkersTyped, HandlerAt
<1> QED BY <1>1, <1>2, <1>3, <1>4 DEF DInv

\* The invariant holds in every reachable state.
LEMMA DriftIsSafe == DriftSpec => []DInv
BY DriftInitInv, DInvStep, PTL DEF DriftSpec

\* Types, and one handler at a time in each Runner, whatever fails.
THEOREM DriftTypesHold == DriftSpec => []DriftTypeOK
<1>1. DInv => DriftTypeOK
    BY DEF DInv
<1> QED BY <1>1, DriftIsSafe, PTL

\* Reconciles, drift ticks, changes by hand and crashes leave the promises of
\* the plan lifecycle as they are: a plan's job is its own, nothing expires
\* before its deadline or without its policy's name, and an applying plan is
\* owed an answer (ReconcileDriftWorker and DriftWorker write no plans).
THEOREM LifecycleSurvivesDrift ==
    DriftSpec => [](ApplyJobIsOwn /\ ExpiryAfterDeadline /\ ExpiryHasRef /\ ApplyingIsOwed)
<1>1. DInv => ApplyJobIsOwn /\ ExpiryAfterDeadline /\ ExpiryHasRef /\ ApplyingIsOwed
    BY DEF DInv, IInv, OwnInv, ExpiryInv, ExpiryAfterDeadline, ExpiryHasRef, Expirable
<1> QED BY <1>1, DriftIsSafe, PTL

-----------------------------------------------------------------------------
\* What a reconcile deletes.

\* A set of plans has a newest one: of the sets of plans newer than one of
\* them, one has none below it.
LEMMA NewestPlan ==
    ASSUME NEW S, S \subseteq PlanIds, S # {}
    PROVE  \E m \in S : \A q \in S : q <= m
<1> DEFINE newer(p) == {q \in S : q > p}
           T == {newer(p) : p \in S}
           R == StrictSubsetOrdering(PlanIds)
<1>a. PlanIds \subseteq Int /\ IsFiniteSet(PlanIds)
    BY LifecycleAssumption, FS_Interval DEF PlanIds
<1>1. T \subseteq FiniteSubsetsOf(PlanIds) /\ T # {}
  <2>1. \A p \in S : newer(p) \in SUBSET PlanIds
      OBVIOUS
  <2>2. \A p \in S : newer(p) \in FiniteSubsetsOf(PlanIds)
      BY <1>a, <2>1, FS_Subset DEF FiniteSubsetsOf
  <2> QED BY <2>2
<1>2. PICK t \in T : \A u \in T : <<u, t>> \notin R
  <2>1. IsWellFoundedOn(R, FiniteSubsetsOf(PlanIds))
      BY FS_StrictSubsetOrderingWellFounded
  <2> HIDE DEF T, R
  <2> QED BY <1>1, <2>1, WFMin
<1>3. PICK m \in S : t = newer(m)
    OBVIOUS
<1>4. ASSUME NEW q \in S, q > m PROVE FALSE
  <2>1. /\ newer(q) \subseteq newer(m) /\ newer(q) # newer(m)
        /\ newer(q) \in SUBSET PlanIds /\ newer(m) \in SUBSET PlanIds
    <3>1. q \in newer(m) /\ q \notin newer(q)
        BY <1>4, <1>a
    <3>2. ASSUME NEW x \in newer(q) PROVE x \in newer(m)
      <4>1. x \in Int /\ q \in Int /\ m \in Int
          BY <1>a
      <4>2. x \in S /\ x > q
          OBVIOUS
      <4> QED BY <1>4, <4>1, <4>2
    <3> QED BY <3>1, <3>2
  <2>2. newer(q) \in T
      OBVIOUS
  <2> HIDE DEF newer
  <2>3. <<newer(q), newer(m)>> \in R
      BY <2>1 DEF StrictSubsetOrdering
  <2> QED BY <1>2, <1>3, <2>2, <2>3
<1> QED BY <1>4, <1>a

Applied == {p \in PlanIds : status[p] = "applied"}

\* With no more plans than the limit, the limit hides none.
LEMMA LimitHidesNone ==
    ASSUME MaxPlans <= ReconcileLimit
    PROVE  LatestAppliedPlans(ReconcileLimit) = Applied
<1> SUFFICES ASSUME NEW p \in Applied
             PROVE  Cardinality({q \in Applied : q > p}) < ReconcileLimit
    BY DEF LatestAppliedPlans, Applied
<1> DEFINE newer == {q \in Applied : q > p}
<1>1. /\ p \in PlanIds /\ MaxPlans \in Nat /\ ReconcileLimit \in Nat
      /\ IsFiniteSet(PlanIds) /\ Cardinality(PlanIds) = MaxPlans
    BY LifecycleAssumption, DriftAssumption, FS_Interval DEF PlanIds, Applied
<1>2. /\ IsFiniteSet(PlanIds \ {p})
      /\ Cardinality(PlanIds \ {p}) = MaxPlans - 1
    BY <1>1, FS_RemoveElement
<1>3. newer \in SUBSET (PlanIds \ {p})
    BY <1>1 DEF Applied, PlanIds
<1> HIDE DEF newer
<1>4. IsFiniteSet(newer) /\ Cardinality(newer) <= Cardinality(PlanIds \ {p})
    BY <1>2, <1>3, FS_Subset
<1>5. Cardinality(newer) \in Nat
    BY <1>4, FS_CardinalityType
<1> QED BY <1>1, <1>2, <1>4, <1>5 DEF newer

\* What is left to delete is in the namespace that was listed, and no applied
\* plan wants it.
ExtraInv ==
    \A w \in Workers :
        /\ rpc[w] = "list" => extra[w] \subseteq KeysOf[TargetOf(w)]
        /\ rpc[w] = "repair" => \A p \in Applied : KeyOfPlan(p) \notin extra[w]

\* No plan that an extra policy belongs to becomes applied meanwhile: the
\* only Runner is busy.
LEMMA AppliedShrinks ==
    ASSUME DInv, [DriftNext]_dvars, NEW w \in Workers, Workers = {w}, rpc[w] # "idle"
    PROVE  \A p \in PlanIds : status'[p] = "applied" =>
               p \in Applied /\ revOf'[p] = revOf[p]
<1>a. IInv /\ pc[w] = "idle"
    BY DEF DInv, DriftTypeOK
<1> SUFFICES ASSUME NEW p \in PlanIds, status'[p] = "applied"
             PROVE  status[p] = "applied" /\ revOf'[p] = revOf[p]
    BY DEF Applied
<1>1. CASE OutsideStep
    BY <1>1 DEF OutsideStep, planVars
<1>2. CASE [Next]_vars
  <2>1. status[p] = "applied"
      BY <1>a, <1>2, StatusChanges DEF StatusChanged
  <2>2. revOf'[p] = revOf[p]
      BY <1>a, <1>2, <2>1, PlansStay DEF Exists
  <2> QED BY <2>1, <2>2
<1> QED BY <1>1, <1>2, LifecycleOrOutside

\* How a Runner comes to be about to delete.
LEMMA HandlerMoves ==
    ASSUME DInv, [DriftNext]_dvars, NEW w \in Workers
    PROVE  /\ rpc'[w] = "list" =>
                 \/ ObservePolicies(w)
                 \/ rpc[w] = "list" /\ extra'[w] = extra[w] /\ recLease'[w] = recLease[w]
           /\ rpc'[w] = "repair" =>
                 \/ ListDesired(w)
                 \/ rpc[w] = "repair" /\ extra'[w] \subseteq extra[w]
<1> DEFINE Goal ==
       /\ rpc'[w] = "list" =>
             \/ ObservePolicies(w)
             \/ rpc[w] = "list" /\ extra'[w] = extra[w] /\ recLease'[w] = recLease[w]
       /\ rpc'[w] = "repair" =>
             \/ ListDesired(w)
             \/ rpc[w] = "repair" /\ extra'[w] \subseteq extra[w]
<1> USE DriftTyped DEF GotoRec, LeaveHandler, handlerVars, recVars, driftVars
<1>1. ASSUME \/ LifecycleStep \/ UNCHANGED dvars
             \/ \E k \in Keys : DeleteByHand(k)
             \/ \E p \in PlanIds : ApplyByHand(p)
             \/ \E v \in Workers : DriftStep(v)
      PROVE  Goal
    BY <1>1 DEF LifecycleStep, dvars, DeleteByHand, ApplyByHand, Tamper, DriftStep,
                DriftObserve, DriftCompare, DriftTickFails
<1>2. ASSUME NEW j \in RecJobIds, NEW t \in Targets, RequestReconcile(j, t) PROVE Goal
    BY <1>2 DEF RequestReconcile, Recs!Enqueue
<1>3. ASSUME NEW v \in Workers, TakeReconcile(v) PROVE Goal
    BY <1>3 DEF TakeReconcile, Recs!LeaseNext
<1>4. ASSUME NEW v \in Workers, ReconcileLost(v) PROVE Goal
    BY <1>4 DEF ReconcileLost, Recs!LeaseLost
<1>5. ASSUME NEW v \in Workers, ObservePolicies(v) \/ ListDesired(v) PROVE Goal
    BY <1>5 DEF ObservePolicies, ListDesired
<1>6. ASSUME NEW v \in Workers,
             \/ Repaired(v) \/ ReconcileFails(v)
             \/ (\E p \in PlanIds : ApplyDesired(v, p))
             \/ (\E k \in Keys : DeleteExtra(v, k))
      PROVE  Goal
    BY <1>6 DEF Repaired, ReconcileFails, ApplyDesired, DeleteExtra
<1>7. ASSUME NEW v \in Workers, MarkReconcile(v) \/ MarkReconcileLost(v) PROVE Goal
    BY <1>7 DEF MarkReconcile, MarkReconcileLost, Recs!MarkDone, Recs!MarkFailed, Recs!Forget
<1>8. ASSUME NEW v \in Workers, CrashAll(v) PROVE Goal
    BY <1>8 DEF CrashAll, ProcessDies, Recs!Forget
<1> QED BY <1>1, <1>2, <1>3, <1>4, <1>5, <1>6, <1>7, <1>8 DEF DriftNext, ReconcileStep

\* With one worker no step makes a reconcile delete what an applied plan wants.
LEMMA ExtraStep ==
    ASSUME NEW w \in Workers, Workers = {w}, MaxPlans <= ReconcileLimit,
           DInv, ExtraInv, [DriftNext]_dvars
    PROVE  ExtraInv'
<1>1. ASSUME rpc'[w] = "list" PROVE (extra[w] \subseteq KeysOf[TargetOf(w)])'
  <2>1. CASE ObservePolicies(w)
    <3>1. TargetOf(w)' = TargetOf(w)
        BY <2>1 DEF ObservePolicies, TargetOf, recVars
    <3> QED BY <2>1, <3>1, DriftTyped DEF ObservePolicies, Present
  <2>2. CASE rpc[w] = "list" /\ extra'[w] = extra[w] /\ recLease'[w] = recLease[w]
    <3>1. TargetOf(w)' = TargetOf(w)
        BY <2>2, HandlerHasTarget, RecRowsStay DEF TargetOf
    <3> QED BY <2>2, <3>1 DEF ExtraInv
  <2> QED BY <1>1, <2>1, <2>2, HandlerMoves
<1>2. ASSUME rpc'[w] = "repair", NEW p \in PlanIds, status'[p] = "applied"
      PROVE  KeyOfPlan(p)' \notin extra'[w]
  <2>1. rpc[w] # "idle"
      BY <1>2, HandlerMoves DEF ListDesired
  <2>2. p \in Applied /\ KeyOfPlan(p)' = KeyOfPlan(p)
      BY <1>2, <2>1, AppliedShrinks DEF KeyOfPlan
  <2>3. CASE rpc[w] = "repair" /\ extra'[w] \subseteq extra[w]
      BY <2>2, <2>3 DEF ExtraInv
  <2>4. CASE ListDesired(w)
    <3> DEFINE keys == KeysOf[TargetOf(w)]
               desired == Desired(ReconcileLimit, keys)
               rivals == {q \in Applied : KeyOfPlan(q) = KeyOfPlan(p)}
    <3>1. extra'[w] = extra[w] \ KeysOfPlans(desired) /\ extra[w] \subseteq keys
        BY <2>4, DriftTyped DEF ListDesired, ExtraInv
    <3>2. PICK m \in rivals : \A q \in rivals : q <= m
      <4>1. rivals \subseteq PlanIds /\ rivals # {}
          BY <2>2 DEF Applied
      <4> HIDE DEF rivals
      <4> QED BY <4>1, NewestPlan
    <3>3. CASE KeyOfPlan(p) \in keys
      <4>1. m \in desired
          BY <3>2, <3>3, LimitHidesNone DEF Desired
      <4>2. KeyOfPlan(p) \in KeysOfPlans(desired)
          BY <3>2, <4>1 DEF KeysOfPlans
      <4> QED BY <2>2, <3>1, <4>2
    <3>4. CASE KeyOfPlan(p) \notin keys
        BY <2>2, <3>1, <3>4
    <3> QED BY <3>3, <3>4
  <2> QED BY <1>2, <2>3, <2>4, HandlerMoves
<1> QED BY <1>1, <1>2 DEF ExtraInv, Applied

\* While the only Runner is in a reconcile, a policy that goes was extra.
LEMMA DeletedWasExtra ==
    ASSUME NEW w \in Workers, Workers = {w}, DInv, [DriftNext]_dvars,
           NEW k \in Keys, rpc[w] = "repair", tampers' = tampers,
           cluster[k] # None, cluster'[k] = None
    PROVE  k \in extra[w]
<1>a. /\ cluster \in [Keys -> PlanIds \cup {None}] /\ None \notin PlanIds
      /\ want[w] \subseteq PlanIds /\ tampers \in Int
    BY DriftTyped, DriftAssumption DEF DInv, DriftTypeOK, TypeOK
<1>1. ASSUME NEW i, NEW p \in PlanIds, Write(w, i, p) PROVE FALSE
    BY <1>1, <1>a DEF Write
<1>2. ASSUME NEW i, Write(w, i, None) PROVE i = k
    BY <1>2, <1>a DEF Write
<1>3. ASSUME LifecycleStep PROVE FALSE
    BY <1>3 DEF LifecycleStep, LifecycleRunner, ApiStep, PlanIntent, ApplyPlanRead,
                ApplyPlanWrite, ApplyPlanAbort, TickStep, TickList, TickFind, TickEnqueue,
                DeadlinePasses
<1>4. ASSUME \/ \E j \in RecJobIds, t \in Targets : RequestReconcile(j, t)
             \/ UNCHANGED dvars
             \/ TakeReconcile(w) \/ ReconcileLost(w) \/ ObservePolicies(w) \/ ListDesired(w)
             \/ Repaired(w) \/ MarkReconcile(w) \/ MarkReconcileLost(w)
             \/ DriftStep(w)
      PROVE  FALSE
    BY <1>4 DEF dvars, vars, RequestReconcile, TakeReconcile, ReconcileLost, ObservePolicies,
                ListDesired, Repaired, MarkReconcile, MarkReconcileLost, DriftStep,
                DriftObserve, DriftCompare, DriftTickFails
<1>5. ASSUME NEW p \in PlanIds, ApplyDesired(w, p) PROVE FALSE
    BY <1>1, <1>5 DEF ApplyDesired
<1>6. ASSUME NEW i \in Keys, DeleteExtra(w, i) PROVE k \in extra[w]
    BY <1>2, <1>6 DEF DeleteExtra
<1>7. ASSUME ReconcileFails(w) PROVE k \in extra[w]
    BY <1>1, <1>2, <1>7, <1>a DEF ReconcileFails
<1>8. ASSUME CrashAll(w) PROVE FALSE
    BY <1>8 DEF CrashAll, ProcessDies
<1>9. ASSUME \/ \E i \in Keys : DeleteByHand(i)
             \/ \E p \in PlanIds : ApplyByHand(p)
      PROVE  FALSE
    BY <1>9, <1>a DEF DeleteByHand, ApplyByHand, Tamper
<1> QED BY <1>3, <1>4, <1>5, <1>6, <1>7, <1>8, <1>9 DEF DriftNext, ReconcileStep

\* One worker that lists all plans deletes no policy that an applied plan
\* wants (ReconcileDriftWorker.Handle, which observes first and lists later).
THEOREM OneWorkerDeletesOnlyExtra ==
    ASSUME NEW w \in Workers, Workers = {w}, MaxPlans <= ReconcileLimit
    PROVE  DriftSpec => DeletesOnlyExtra
<1>1. DriftInit => ExtraInv
    BY DEF DriftInit, ExtraInv
<1>2. DInv /\ ExtraInv /\ [DriftNext]_dvars => ExtraInv'
    BY ExtraStep
<1>3. DInv /\ ExtraInv /\ [DriftNext]_dvars => [DeleteStep]_dvars
  <2> SUFFICES ASSUME DInv, ExtraInv, [DriftNext]_dvars, NEW k \in Keys,
                      \E v \in Workers : rpc[v] = "repair",
                      tampers' = tampers, cluster[k] # None, cluster'[k] = None
               PROVE  k \notin KeysOfPlans({p \in PlanIds : status[p] = "applied"})
      BY DEF DeleteStep
  <2>1. rpc[w] = "repair" /\ k \in extra[w]
      BY DeletedWasExtra
  <2> QED BY <2>1 DEF ExtraInv, Applied, KeysOfPlans
<1> QED BY <1>1, <1>2, <1>3, DriftIsSafe, PTL DEF DriftSpec, DeletesOnlyExtra
=============================================================================
