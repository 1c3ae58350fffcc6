------------------------ MODULE PlanLifecycleProofs ------------------------
(***************************************************************************)
(* Theorems about PlanLifecycle for any numbers of plans, jobs, requests,  *)
(* workers and failures: its types, and that the life of a plan follows    *)
(* its job and its deadline. The second half is about one worker process,  *)
(* which is what is deployed: the statuses of plans, the cluster and the   *)
(* audit trail agree.                                                      *)
(***************************************************************************)
EXTENDS PlanLifecycle, TLAPS

\* The theorems about the pool, with this module's payloads.
PoolThm == INSTANCE JobPoolProofs

\* A row of the jobs table exists from Enqueue on and is about a plan.
JobsInv ==
    \A j \in JobIds :
        /\ jobStatus[j] = "none" <=> payload[j] = None
        /\ payload[j] # None => Exists(payload[j].plan)

\* A Runner is busy while it holds a job, and it is where a handler of that
\* kind of job can be.
RunnerAt(w) ==
    /\ pc[w] = "idle" <=> lease[w] = None
    /\ pc[w] \in {"commit", "record", "arm"} => Kind(w) = "apply_plan"
    /\ pc[w] \in {"audit_expired", "list", "restore", "delete",
                  "audit_rollback", "audit_deleted"} => Kind(w) = "expire_ttl"
    /\ pc[w] = "restore" => target[w] # None /\ Exists(target[w])

RunnerInv == \A w \in Workers : RunnerAt(w)

CallInv == \A c \in Calls : call[c] # None => Exists(call[c])

\* What the TTLWorker has checked of a plan stays true of it.
Expirable(p) ==
    /\ Exists(p)
    /\ applyJob[p] # None
    /\ deadline[revOf[p]] = "passed"
    /\ appliedRef[p] = KeyOfPlan(p)

ExpiryInv ==
    /\ \A p \in PlanIds : status[p] = "applied" => appliedRef[p] = KeyOfPlan(p)
    /\ \A p \in PlanIds : status[p] = "expired" => deadline[revOf[p]] = "passed"
    /\ \A w \in Workers : \A p \in pending[w] : Expirable(p)
    /\ \A w \in Workers : expiring[w] # None => Expirable(expiring[w])
    /\ \A j \in JobIds, p \in PlanIds : About(j, "expire_ttl", p) => Expirable(p)

OwnInv ==
    /\ ApplyJobIsOwn
    /\ \A j \in JobIds, p \in PlanIds : About(j, "apply_plan", p) => applyJob[p] # None

PoolInv == Pool!TypeOK /\ Pool!ExclusiveLease /\ Pool!RetryBudget

IInv ==
    /\ TypeOK /\ PoolInv /\ JobsInv /\ RunnerInv /\ CallInv
    /\ OwnInv /\ ExpiryInv /\ ApplyingIsOwed

-----------------------------------------------------------------------------
\* The pool: its invariants come from the theorems of JobPoolProofs.

\* Every step of the pool keeps its invariant.
LEMMA PoolStep == PoolInv /\ [Pool!Next]_poolVars => PoolInv'
<1>1. MaxAttempts \in Nat \ {0} /\ None \notin JobIds /\ None \notin Payloads
    BY LifecycleAssumption
<1>2. Pool!Next => PoolThm!Next
    BY DEF Pool!Next, PoolThm!Next, Pool!Step, PoolThm!Step,
           Pool!Enqueue, PoolThm!Enqueue, Pool!LeaseNext, PoolThm!LeaseNext,
           Pool!LeaseLost, PoolThm!LeaseLost, Pool!MarkDone, PoolThm!MarkDone,
           Pool!MarkFailed, PoolThm!MarkFailed, Pool!GivenUp, PoolThm!GivenUp,
           Pool!Forget, PoolThm!Forget
<1>3. PoolInv <=> PoolThm!PoolInv
    BY DEF PoolInv, PoolThm!PoolInv, Pool!TypeOK, PoolThm!TypeOK,
           Pool!JobStatuses, PoolThm!JobStatuses,
           Pool!ExclusiveLease, PoolThm!ExclusiveLease,
           Pool!RetryBudget, PoolThm!RetryBudget
<1>4. PoolInv' <=> PoolThm!PoolInv'
    BY DEF PoolInv, PoolThm!PoolInv, Pool!TypeOK, PoolThm!TypeOK,
           Pool!JobStatuses, PoolThm!JobStatuses,
           Pool!ExclusiveLease, PoolThm!ExclusiveLease,
           Pool!RetryBudget, PoolThm!RetryBudget
<1>5. PoolThm!PoolInv /\ [PoolThm!Next]_PoolThm!poolVars => PoolThm!PoolInv'
    BY <1>1, PoolThm!PoolStep
<1>6. UNCHANGED poolVars => UNCHANGED PoolThm!poolVars
    BY DEF poolVars, PoolThm!poolVars
<1> QED BY <1>2, <1>3, <1>4, <1>5, <1>6

\* A job drawn by NewJob has no row yet.
LEMMA NewJobIsNew ==
    RoomForJob => NewJob \in JobIds /\ jobStatus[NewJob] = "none"
BY DEF RoomForJob, NewJob

\* What a Runner holds: a running job about an existing plan.
LEMMA HeldJob ==
    ASSUME IInv, NEW w \in Workers, pc[w] # "idle"
    PROVE  /\ lease[w] \in JobIds
           /\ jobStatus[lease[w]] = "running"
           /\ payload[lease[w]] \in Payloads
           /\ payload[lease[w]] = [kind |-> Kind(w), plan |-> PlanOf(w)]
           /\ Kind(w) \in Kinds
           /\ PlanOf(w) \in PlanIds
           /\ Exists(PlanOf(w))
           /\ revOf[PlanOf(w)] \in Revisions
           /\ KeyOfPlan(PlanOf(w)) \in Keys
<1> USE LifecycleAssumption DEF IInv
<1>1. lease[w] \in JobIds /\ lease[w] # None
    BY DEF RunnerInv, RunnerAt, PoolInv, Pool!TypeOK
<1>2. jobStatus[lease[w]] = "running"
    BY <1>1 DEF PoolInv, Pool!ExclusiveLease
<1>3. payload[lease[w]] \in Payloads
    BY <1>1, <1>2 DEF PoolInv, Pool!TypeOK, JobsInv
<1>4. /\ Kind(w) \in Kinds /\ PlanOf(w) \in PlanIds
      /\ payload[lease[w]] = [kind |-> Kind(w), plan |-> PlanOf(w)]
    BY <1>3 DEF Payloads, Kind, PlanOf
<1>5. Exists(PlanOf(w))
    BY <1>1, <1>3, <1>4 DEF JobsInv, PlanOf
<1>6. revOf[PlanOf(w)] \in Revisions
    BY <1>4, <1>5 DEF TypeOK, Exists
<1> QED BY <1>1, <1>2, <1>3, <1>4, <1>5, <1>6 DEF KeyOfPlan

\* Every action is a step of the pool or leaves it alone.
LEMMA StepsOfPool == IInv /\ [Next]_vars => [Pool!Next]_poolVars
<1> SUFFICES ASSUME IInv, [Next]_vars, ~ UNCHANGED poolVars PROVE Pool!Next
    BY DEF poolVars
<1> USE DEF Pool!Next, Pool!Step
<1>1. ASSUME NEW c \in Calls, ApplyPlanWrite(c) PROVE Pool!Next
  <2>1. call[c] \in PlanIds
      BY <1>1 DEF ApplyPlanWrite, IInv, TypeOK
  <2>2. [kind |-> "apply_plan", plan |-> call[c]] \in Payloads
      BY <2>1 DEF Payloads, Kinds
  <2> QED BY <1>1, <2>2, NewJobIsNew DEF ApplyPlanWrite
<1>2. ASSUME NEW w \in Workers, TickEnqueue(w) PROVE Pool!Next
  <2>1. expiring[w] \in PlanIds
      BY <1>2 DEF TickEnqueue, IInv, TypeOK
  <2>2. [kind |-> "expire_ttl", plan |-> expiring[w]] \in Payloads
      BY <2>1 DEF Payloads, Kinds
  <2> QED BY <1>2, <2>2, NewJobIsNew DEF TickEnqueue, poolVars
<1>3. ASSUME NEW w \in Workers, LeaseNext(w) \/ LeaseLost(w) PROVE Pool!Next
    BY <1>3 DEF LeaseNext, LeaseLost
<1>4. ASSUME NEW w \in Workers, MarkJob(w) \/ MarkLost(w) PROVE Pool!Next
    BY <1>4 DEF MarkJob, MarkLost
<1>5. ASSUME NEW w \in Workers, Crash(w) PROVE Pool!Next
  <2>1. CASE lease[w] = None
    <3>1. lease' = lease
        BY <1>5, <2>1 DEF Crash, IInv, PoolInv, Pool!TypeOK
    <3> QED BY <1>5, <3>1 DEF Crash, poolVars
  <2>2. CASE lease[w] # None
      BY <1>5, <2>2 DEF Crash, Pool!Forget
  <2> QED BY <2>1, <2>2
<1>6. ASSUME NEW c \in Calls, ApplyPlanAbort(c) \/ \E p \in PlanIds : ApplyPlanRead(c, p)
      PROVE  FALSE
    BY <1>6 DEF ApplyPlanAbort, ApplyPlanRead
<1>7. ASSUME NEW r \in Revisions, PlanIntent(r) \/ DeadlinePasses(r) PROVE FALSE
    BY <1>7 DEF PlanIntent, DeadlinePasses
<1>8. ASSUME NEW w \in Workers,
             \/ GetPlanFails(w) \/ ApplyPolicy(w) \/ ApplyPolicyFails(w)
             \/ CommitApplied(w) \/ CommitAppliedFails(w) \/ RecordFailure(w)
             \/ ArmDeadline(w) \/ MarkPlanExpiredOnce(w) \/ MarkPlanExpiredFails(w)
             \/ AppendAudit(w) \/ ListAppliedPlans(w) \/ RestorePolicy(w)
             \/ DeletePolicy(w) \/ CleanupFails(w)
      PROVE  FALSE
    BY <1>8 DEF GetPlanFails, ApplyPolicy, ApplyPolicyFails, CommitApplied,
                CommitAppliedFails, RecordFailure, ArmDeadline, MarkPlanExpiredOnce,
                MarkPlanExpiredFails, AppendAudit, ListAppliedPlans, RestorePolicy,
                DeletePolicy, CleanupFails
<1>9. ASSUME NEW w \in Workers, TickList(w) \/ \E p \in PlanIds : TickFind(w, p)
      PROVE  FALSE
    BY <1>9 DEF TickList, TickFind
<1>10. CASE UNCHANGED vars
    BY <1>10 DEF vars, poolVars
<1> QED BY <1>1, <1>2, <1>3, <1>4, <1>5, <1>6, <1>7, <1>8, <1>9, <1>10
        DEF Next, ApiStep, RunnerStep, TickStep

-----------------------------------------------------------------------------
\* Initially.

\* The initial states satisfy the invariant.
LEMMA InitInv == Init => IInv
<1> SUFFICES ASSUME Init PROVE IInv
    OBVIOUS
<1> USE LifecycleAssumption DEF Init, Pool!Init
<1>1. TypeOK
    BY DEF TypeOK, Pool!TypeOK, Pool!JobStatuses, Statuses, RunnerStates
<1>2. PoolInv
    BY <1>1 DEF PoolInv, TypeOK, Pool!ExclusiveLease, Pool!RetryBudget
<1>3. JobsInv /\ CallInv
    BY DEF JobsInv, CallInv
<1>4. RunnerInv
    BY DEF RunnerInv, RunnerAt
<1>5. \A j \in JobIds, k \in Kinds, p \in PlanIds : ~About(j, k, p)
  <2> SUFFICES ASSUME NEW j \in JobIds, NEW k \in Kinds, NEW p \in PlanIds
               PROVE  None # [kind |-> k, plan |-> p]
      BY DEF About
  <2> QED BY DEF Payloads
<1>6. OwnInv
    BY <1>5 DEF OwnInv, ApplyJobIsOwn, Kinds
<1>7. ExpiryInv
    BY <1>5 DEF ExpiryInv, Kinds
<1>8. ApplyingIsOwed
    BY DEF ApplyingIsOwed
<1> QED BY <1>1, <1>2, <1>3, <1>4, <1>6, <1>7, <1>8 DEF IInv

-----------------------------------------------------------------------------
\* Types.

\* Every step keeps the types.
LEMMA TypeStep == IInv /\ [Next]_vars => TypeOK'
<1> SUFFICES ASSUME IInv, [Next]_vars PROVE TypeOK'
    OBVIOUS
<1>a. TypeOK /\ Pool!TypeOK'
    BY StepsOfPool, PoolStep DEF IInv, PoolInv
<1> USE <1>a, LifecycleAssumption
    DEF TypeOK, Statuses, RunnerStates, AuditActions, Exists, Goto, SetStatus, Audited,
        CallFails, ProcessFails, planVars, ttlVars, runVars, failVars
<1>1. ASSUME NEW r \in Revisions, PlanIntent(r) PROVE TypeOK'
    BY <1>1 DEF PlanIntent
<1>2. ASSUME NEW c \in Calls, NEW p \in PlanIds, ApplyPlanRead(c, p) PROVE TypeOK'
    BY <1>2 DEF ApplyPlanRead
<1>3. ASSUME NEW c \in Calls, ApplyPlanWrite(c) PROVE TypeOK'
  <2>1. call[c] \in PlanIds /\ NewJob \in JobIds /\ Exists(call[c])
      BY <1>3, NewJobIsNew DEF ApplyPlanWrite, IInv, CallInv
  <2> QED BY <1>3, <2>1 DEF ApplyPlanWrite, SetApplyJobOnce
<1>4. ASSUME NEW c \in Calls, ApplyPlanAbort(c) PROVE TypeOK'
    BY <1>4 DEF ApplyPlanAbort
<1>5. ASSUME NEW w \in Workers, LeaseNext(w) \/ LeaseLost(w) \/ MarkJob(w) \/ MarkLost(w)
      PROVE  TypeOK'
    BY <1>5 DEF LeaseNext, LeaseLost, MarkJob, MarkLost
<1>6. ASSUME NEW w \in Workers, Crash(w) PROVE TypeOK'
    BY <1>6 DEF Crash
<1>7. ASSUME NEW w \in Workers, GetPlanFails(w) \/ ApplyPolicy(w) \/ ApplyPolicyFails(w)
      PROVE  TypeOK'
  <2>1. PlanOf(w) \in PlanIds /\ KeyOfPlan(PlanOf(w)) \in Keys
      BY <1>7, HeldJob DEF GetPlanFails, ApplyPolicy, ApplyPolicyFails, Applying
  <2> QED BY <1>7, <2>1 DEF GetPlanFails, ApplyPolicy, ApplyPolicyFails, Applying,
                            ApplyNetworkPolicy
<1>8. ASSUME NEW w \in Workers, CommitApplied(w) \/ CommitAppliedFails(w) PROVE TypeOK'
  <2>1. /\ PlanOf(w) \in PlanIds /\ KeyOfPlan(PlanOf(w)) \in Keys
        /\ status[PlanOf(w)] # "absent"
      BY <1>8, HeldJob DEF CommitApplied, CommitAppliedFails
  <2> QED BY <1>8, <2>1 DEF CommitApplied, CommitAppliedFails, SetApplied
<1>9. ASSUME NEW w \in Workers, RecordFailure(w) \/ ArmDeadline(w) PROVE TypeOK'
  <2>1. PlanOf(w) \in PlanIds /\ status[PlanOf(w)] # "absent"
      BY <1>9, HeldJob DEF RecordFailure, ArmDeadline
  <2> QED BY <1>9, <2>1 DEF RecordFailure, ArmDeadline, SetNotAfterOnFirstApply
<1>10. ASSUME NEW w \in Workers, MarkPlanExpiredOnce(w) \/ MarkPlanExpiredFails(w)
       PROVE  TypeOK'
  <2>1. PlanOf(w) \in PlanIds /\ status[PlanOf(w)] # "absent"
      BY <1>10, HeldJob DEF MarkPlanExpiredOnce, MarkPlanExpiredFails, Expiring
  <2> QED BY <1>10, <2>1 DEF MarkPlanExpiredOnce, MarkPlanExpiredFails
<1>11. ASSUME NEW w \in Workers, AppendAudit(w) PROVE TypeOK'
  <2>1. PlanOf(w) \in PlanIds
      BY <1>11, HeldJob DEF AppendAudit, AuditSteps
  <2> QED BY <1>11, <2>1 DEF AppendAudit, AuditSteps
<1>12. ASSUME NEW w \in Workers, ListAppliedPlans(w) PROVE TypeOK'
    BY <1>12 DEF ListAppliedPlans
<1>13. ASSUME NEW w \in Workers, RestorePolicy(w) \/ DeletePolicy(w) \/ CleanupFails(w)
       PROVE  TypeOK'
  <2>1. /\ PlanOf(w) \in PlanIds /\ PolicyOf(PlanOf(w)) \in Keys
      BY <1>13, HeldJob DEF RestorePolicy, DeletePolicy, CleanupFails, PolicyOf
  <2>2. pc[w] = "restore" => target[w] \in PlanIds /\ KeyOfPlan(target[w]) \in Keys
      BY DEF IInv, RunnerInv, RunnerAt, KeyOfPlan
  <2> QED BY <1>13, <2>1, <2>2 DEF RestorePolicy, DeletePolicy, CleanupFails,
                            ApplyNetworkPolicy, DeleteNetworkPolicy
<1>14. ASSUME NEW w \in Workers,
              TickList(w) \/ TickEnqueue(w) \/ \E p \in PlanIds : TickFind(w, p)
       PROVE  TypeOK'
    BY <1>14 DEF TickList, TickFind, TickEnqueue, LatestApplied
<1>15. ASSUME NEW r \in Revisions, DeadlinePasses(r) PROVE TypeOK'
    BY <1>15 DEF DeadlinePasses
<1>16. CASE UNCHANGED vars
    BY <1>16 DEF vars
<1> QED BY <1>1, <1>2, <1>3, <1>4, <1>5, <1>6, <1>7, <1>8, <1>9, <1>10, <1>11, <1>12,
           <1>13, <1>14, <1>15, <1>16
        DEF Next, ApiStep, RunnerStep, TickStep

-----------------------------------------------------------------------------
\* What no step undoes: a plan and its revision, a job and what it is about,
\* the job of a plan, a deadline that has passed, the policy of a plan.

\* Actions that leave the plans, their jobs and their deadlines alone.
LEMMA Frames ==
    ASSUME Next
    PROVE  \/ UNCHANGED planVars /\ UNCHANGED deadline
           \/ \E r \in Revisions : PlanIntent(r) \/ DeadlinePasses(r)
           \/ \E c \in Calls : ApplyPlanWrite(c)
           \/ \E w \in Workers :
                \/ CommitApplied(w) \/ CommitAppliedFails(w) \/ RecordFailure(w)
                \/ ArmDeadline(w) \/ MarkPlanExpiredOnce(w) \/ MarkPlanExpiredFails(w)
<1>1. ASSUME NEW c \in Calls, ApplyPlanAbort(c) \/ \E p \in PlanIds : ApplyPlanRead(c, p)
      PROVE  UNCHANGED planVars /\ UNCHANGED deadline
    BY <1>1 DEF ApplyPlanAbort, ApplyPlanRead
<1>2. ASSUME NEW w \in Workers,
             \/ LeaseNext(w) \/ LeaseLost(w) \/ GetPlanFails(w) \/ MarkJob(w)
             \/ MarkLost(w) \/ Crash(w) \/ ApplyPolicy(w) \/ ApplyPolicyFails(w)
             \/ AppendAudit(w) \/ ListAppliedPlans(w) \/ RestorePolicy(w)
             \/ DeletePolicy(w) \/ CleanupFails(w) \/ TickStep(w)
      PROVE  UNCHANGED planVars /\ UNCHANGED deadline
    BY <1>2 DEF LeaseNext, LeaseLost, GetPlanFails, MarkJob, MarkLost, Crash, ApplyPolicy,
                ApplyPolicyFails, AppendAudit, ListAppliedPlans, RestorePolicy,
                DeletePolicy, CleanupFails, TickStep, TickList, TickFind, TickEnqueue
<1> QED BY <1>1, <1>2 DEF Next, ApiStep, RunnerStep

\* A plan stays, and stays a plan of its revision.
LEMMA PlansStay ==
    IInv /\ [Next]_vars =>
        \A p \in PlanIds : Exists(p) => Exists(p)' /\ revOf'[p] = revOf[p]
<1> SUFFICES ASSUME IInv, [Next]_vars, NEW p \in PlanIds, Exists(p)
             PROVE  Exists(p)' /\ revOf'[p] = revOf[p]
    OBVIOUS
<1>a. /\ status \in [PlanIds -> Statuses] /\ revOf \in [PlanIds -> Revisions \cup {None}]
    BY DEF IInv, TypeOK
<1> USE <1>a DEF Exists, SetStatus, planVars
<1>1. ASSUME NEW r \in Revisions, PlanIntent(r) PROVE Exists(p)' /\ revOf'[p] = revOf[p]
    BY <1>1 DEF PlanIntent
<1>2. ASSUME NEW c \in Calls, ApplyPlanWrite(c) PROVE Exists(p)' /\ revOf'[p] = revOf[p]
    BY <1>2 DEF ApplyPlanWrite
<1>3. ASSUME NEW w \in Workers,
             \/ CommitApplied(w) \/ CommitAppliedFails(w) \/ RecordFailure(w)
             \/ MarkPlanExpiredOnce(w) \/ MarkPlanExpiredFails(w)
      PROVE  Exists(p)' /\ revOf'[p] = revOf[p]
    BY <1>3 DEF CommitApplied, CommitAppliedFails, SetApplied, RecordFailure,
                MarkPlanExpiredOnce, MarkPlanExpiredFails
<1>4. ASSUME \/ UNCHANGED planVars \/ UNCHANGED vars
             \/ \E r \in Revisions : DeadlinePasses(r)
             \/ \E w \in Workers : ArmDeadline(w)
      PROVE  Exists(p)' /\ revOf'[p] = revOf[p]
    BY <1>4 DEF DeadlinePasses, ArmDeadline, vars
<1> QED BY <1>1, <1>2, <1>3, <1>4, Frames

\* A job stays, and stays about what it was queued for.
LEMMA JobsStay ==
    IInv /\ [Next]_vars =>
        \A j \in JobIds : jobStatus[j] # "none" =>
            jobStatus'[j] # "none" /\ payload'[j] = payload[j]
<1> SUFFICES ASSUME IInv, [Next]_vars, NEW i \in JobIds, jobStatus[i] # "none"
             PROVE  jobStatus'[i] # "none" /\ payload'[i] = payload[i]
    OBVIOUS
<1>a. [Pool!Next]_poolVars /\ Pool!TypeOK
    BY StepsOfPool DEF IInv, PoolInv
<1> QED BY <1>a DEF Pool!TypeOK, Pool!JobStatuses, poolVars, Pool!Next, Pool!Step,
           Pool!Enqueue, Pool!LeaseNext, Pool!LeaseLost, Pool!MarkDone,
           Pool!MarkFailed, Pool!Forget

\* The job of a plan and a deadline that has passed are never unset.
LEMMA MarksStay ==
    IInv /\ [Next]_vars =>
        /\ \A p \in PlanIds : applyJob[p] # None => applyJob'[p] = applyJob[p]
        /\ \A r \in Revisions : deadline[r] = "passed" => deadline'[r] = "passed"
<1> SUFFICES ASSUME IInv, [Next]_vars
             PROVE  /\ \A p \in PlanIds : applyJob[p] # None => applyJob'[p] = applyJob[p]
                    /\ \A r \in Revisions : deadline[r] = "passed" => deadline'[r] = "passed"
    OBVIOUS
<1> USE DEF IInv, TypeOK, planVars
<1>1. ASSUME NEW r \in Revisions, PlanIntent(r) \/ DeadlinePasses(r)
      PROVE  /\ applyJob' = applyJob
             /\ \A s \in Revisions : deadline[s] = "passed" => deadline'[s] = "passed"
    BY <1>1 DEF PlanIntent, DeadlinePasses
<1>2. ASSUME NEW c \in Calls, ApplyPlanWrite(c)
      PROVE  /\ \A p \in PlanIds : applyJob[p] # None => applyJob'[p] = applyJob[p]
             /\ deadline' = deadline
    BY <1>2 DEF ApplyPlanWrite, SetApplyJobOnce
<1>3. ASSUME NEW w \in Workers,
             \/ CommitApplied(w) \/ CommitAppliedFails(w) \/ RecordFailure(w)
             \/ MarkPlanExpiredOnce(w) \/ MarkPlanExpiredFails(w)
      PROVE  UNCHANGED <<applyJob, deadline>>
    BY <1>3 DEF CommitApplied, CommitAppliedFails, RecordFailure,
                MarkPlanExpiredOnce, MarkPlanExpiredFails
<1>4. ASSUME NEW w \in Workers, ArmDeadline(w)
      PROVE  /\ applyJob' = applyJob
             /\ \A s \in Revisions : deadline[s] = "passed" => deadline'[s] = "passed"
    BY <1>4 DEF ArmDeadline, SetNotAfterOnFirstApply
<1>5. CASE UNCHANGED vars \/ (UNCHANGED planVars /\ UNCHANGED deadline)
    BY <1>5 DEF vars
<1> QED BY <1>1, <1>2, <1>3, <1>4, <1>5, Frames

\* The policy recorded for a plan is the one its revision renders to, for good.
LEMMA RefsStay ==
    IInv /\ [Next]_vars =>
        \A p \in PlanIds :
            Exists(p) /\ appliedRef[p] = KeyOfPlan(p)
            => appliedRef'[p] = appliedRef[p] /\ KeyOfPlan(p)' = KeyOfPlan(p)
<1> SUFFICES ASSUME IInv, [Next]_vars, NEW p \in PlanIds, Exists(p),
                    appliedRef[p] = KeyOfPlan(p)
             PROVE  appliedRef'[p] = appliedRef[p] /\ KeyOfPlan(p)' = KeyOfPlan(p)
    OBVIOUS
<1>1. KeyOfPlan(p)' = KeyOfPlan(p)
    BY PlansStay DEF KeyOfPlan
<1> USE DEF IInv, TypeOK, planVars
<1>2. ASSUME NEW w \in Workers, CommitApplied(w) \/ CommitAppliedFails(w)
      PROVE  appliedRef'[p] = appliedRef[p]
    BY <1>2 DEF CommitApplied, CommitAppliedFails, SetApplied
<1>3. ASSUME NEW w \in Workers,
             \/ RecordFailure(w) \/ ArmDeadline(w)
             \/ MarkPlanExpiredOnce(w) \/ MarkPlanExpiredFails(w)
      PROVE  appliedRef' = appliedRef
    BY <1>3 DEF RecordFailure, ArmDeadline, MarkPlanExpiredOnce, MarkPlanExpiredFails
<1>4. ASSUME \/ \E r \in Revisions : PlanIntent(r) \/ DeadlinePasses(r)
             \/ \E c \in Calls : ApplyPlanWrite(c)
             \/ UNCHANGED vars \/ UNCHANGED planVars
      PROVE  appliedRef' = appliedRef
    BY <1>4 DEF PlanIntent, DeadlinePasses, ApplyPlanWrite, vars
<1> QED BY <1>1, <1>2, <1>3, <1>4, Frames

\* The three facts the TTLWorker has checked of a plan are stable.
LEMMA ExpirableStays ==
    IInv /\ [Next]_vars => \A p \in PlanIds : Expirable(p) => Expirable(p)'
<1> SUFFICES ASSUME IInv, [Next]_vars, NEW p \in PlanIds, Expirable(p) PROVE Expirable(p)'
    OBVIOUS
<1>1. Exists(p) /\ revOf[p] \in Revisions
    BY DEF Expirable, Exists, IInv, TypeOK
<1>2. Exists(p)' /\ revOf'[p] = revOf[p]
    BY <1>1, PlansStay
<1>3. applyJob'[p] # None /\ deadline'[revOf[p]] = "passed"
    BY <1>1, MarksStay DEF Expirable
<1>4. appliedRef'[p] = KeyOfPlan(p)'
    BY <1>1, RefsStay DEF Expirable
<1> QED BY <1>2, <1>3, <1>4 DEF Expirable

\* Only ApplyPlan and the TTLWorker insert jobs, about plans they know of.
Inserted(j) ==
    /\ jobStatus'[j] = "queued"
    /\ \/ \E c \in Calls :
            /\ ApplyPlanWrite(c)
            /\ payload'[j] = [kind |-> "apply_plan", plan |-> call[c]]
            /\ applyJob'[call[c]] # None
       \/ \E w \in Workers :
            /\ TickEnqueue(w) /\ expiring[w] # None
            /\ payload'[j] = [kind |-> "expire_ttl", plan |-> expiring[w]]

\* A row appears only as Inserted says.
LEMMA NewRows ==
    IInv /\ [Next]_vars =>
        \A j \in JobIds : jobStatus[j] = "none" =>
            (jobStatus'[j] = "none" /\ payload'[j] = payload[j]) \/ Inserted(j)
<1> SUFFICES ASSUME IInv, [Next]_vars, NEW i \in JobIds, jobStatus[i] = "none"
             PROVE  (jobStatus'[i] = "none" /\ payload'[i] = payload[i]) \/ Inserted(i)
    OBVIOUS
<1>a. Pool!TypeOK /\ \A w \in Workers : lease[w] # None => lease[w] # i
    BY DEF IInv, PoolInv, Pool!ExclusiveLease
<1>b. applyJob \in [PlanIds -> JobIds \cup {None}] /\ call \in [Calls -> PlanIds \cup {None}]
    BY DEF IInv, TypeOK
<1> USE <1>a DEF Pool!TypeOK, Pool!JobStatuses, poolVars
<1>1. ASSUME NEW c \in Calls, ApplyPlanWrite(c)
      PROVE  (jobStatus'[i] = "none" /\ payload'[i] = payload[i]) \/ Inserted(i)
  <2>1. call[c] \in PlanIds /\ NewJob \in JobIds /\ NewJob # None
      BY <1>1, <1>b, NewJobIsNew, LifecycleAssumption DEF ApplyPlanWrite
  <2>2. applyJob'[call[c]] # None
      BY <1>1, <1>b, <2>1 DEF ApplyPlanWrite, SetApplyJobOnce
  <2>3. Pool!Enqueue(NewJob, [kind |-> "apply_plan", plan |-> call[c]])
      BY <1>1 DEF ApplyPlanWrite
  <2>4. CASE i = NewJob
    <3>1. /\ jobStatus'[i] = "queued"
          /\ payload'[i] = [kind |-> "apply_plan", plan |-> call[c]]
        BY <2>3, <2>4 DEF Pool!Enqueue
    <3> QED BY <1>1, <2>2, <3>1 DEF Inserted
  <2>5. CASE i # NewJob
      BY <2>1, <2>3, <2>5 DEF Pool!Enqueue
  <2> QED BY <2>4, <2>5
<1>2. ASSUME NEW w \in Workers, TickEnqueue(w)
      PROVE  (jobStatus'[i] = "none" /\ payload'[i] = payload[i]) \/ Inserted(i)
  <2>1. CASE UNCHANGED poolVars
      BY <2>1
  <2>2. CASE /\ RoomForJob
             /\ Pool!Enqueue(NewJob, [kind |-> "expire_ttl", plan |-> expiring[w]])
    <3>1. CASE i = NewJob
      <4>1. /\ jobStatus'[i] = "queued"
            /\ payload'[i] = [kind |-> "expire_ttl", plan |-> expiring[w]]
          BY <2>2, <3>1 DEF Pool!Enqueue
      <4> QED BY <1>2, <4>1 DEF Inserted, TickEnqueue
    <3>2. CASE i # NewJob
        BY <2>2, <3>2, NewJobIsNew DEF Pool!Enqueue
    <3> QED BY <3>1, <3>2
  <2> QED BY <1>2, <2>1, <2>2 DEF TickEnqueue
<1>3. ASSUME NEW w \in Workers,
             LeaseNext(w) \/ LeaseLost(w) \/ MarkJob(w) \/ MarkLost(w) \/ Crash(w)
      PROVE  jobStatus'[i] = "none" /\ payload'[i] = payload[i]
    BY <1>3 DEF LeaseNext, LeaseLost, MarkJob, MarkLost, Crash, Pool!LeaseNext,
                Pool!LeaseLost, Pool!MarkDone, Pool!MarkFailed, Pool!Forget
<1>4. ASSUME NEW w \in Workers,
             \/ GetPlanFails(w) \/ ApplyPolicy(w) \/ ApplyPolicyFails(w)
             \/ CommitApplied(w) \/ CommitAppliedFails(w) \/ RecordFailure(w)
             \/ ArmDeadline(w) \/ MarkPlanExpiredOnce(w) \/ MarkPlanExpiredFails(w)
             \/ AppendAudit(w) \/ ListAppliedPlans(w) \/ RestorePolicy(w)
             \/ DeletePolicy(w) \/ CleanupFails(w)
             \/ TickList(w) \/ \E p \in PlanIds : TickFind(w, p)
      PROVE  UNCHANGED poolVars
    BY <1>4 DEF GetPlanFails, ApplyPolicy, ApplyPolicyFails, CommitApplied,
                CommitAppliedFails, RecordFailure, ArmDeadline, MarkPlanExpiredOnce,
                MarkPlanExpiredFails, AppendAudit, ListAppliedPlans, RestorePolicy,
                DeletePolicy, CleanupFails, TickList, TickFind
<1>5. ASSUME \/ \E r \in Revisions : PlanIntent(r) \/ DeadlinePasses(r)
             \/ \E c \in Calls : \/ ApplyPlanAbort(c)
                                 \/ \E p \in PlanIds : ApplyPlanRead(c, p)
             \/ UNCHANGED vars
      PROVE  UNCHANGED poolVars
    BY <1>5 DEF PlanIntent, DeadlinePasses, ApplyPlanAbort, ApplyPlanRead, vars
<1> QED BY <1>1, <1>2, <1>3, <1>4, <1>5 DEF Next, ApiStep, RunnerStep, TickStep

-----------------------------------------------------------------------------
\* The supporting invariants.

\* Rows and payloads appear together, about existing plans.
LEMMA JobsStep == IInv /\ [Next]_vars => JobsInv'
<1> SUFFICES ASSUME IInv, [Next]_vars, NEW j \in JobIds
             PROVE  /\ jobStatus'[j] = "none" <=> payload'[j] = None
                    /\ payload'[j] # None => status'[payload'[j].plan] # "absent"
    BY DEF JobsInv, Exists
<1>a. /\ jobStatus[j] = "none" <=> payload[j] = None
      /\ payload[j] # None => payload[j] \in Payloads /\ Exists(payload[j].plan)
    BY DEF IInv, JobsInv, PoolInv, Pool!TypeOK
<1>1. CASE jobStatus[j] # "none"
  <2>1. payload[j].plan \in PlanIds
      BY <1>1, <1>a DEF Payloads
  <2> QED BY <1>1, <1>a, <2>1, JobsStay, PlansStay DEF Exists
<1>2. CASE jobStatus'[j] = "none" /\ payload'[j] = payload[j] /\ jobStatus[j] = "none"
    BY <1>2, <1>a
<1>3. CASE Inserted(j)
  <2>1. ASSUME NEW c \in Calls, ApplyPlanWrite(c),
               payload'[j] = [kind |-> "apply_plan", plan |-> call[c]]
        PROVE  payload'[j] \in Payloads /\ status'[payload'[j].plan] # "absent"
    <3>1. call[c] \in PlanIds /\ Exists(call[c])
        BY <2>1 DEF ApplyPlanWrite, IInv, CallInv, TypeOK
    <3> QED BY <2>1, <3>1, PlansStay DEF Exists, Payloads, Kinds
  <2>2. ASSUME NEW w \in Workers, expiring[w] # None,
               payload'[j] = [kind |-> "expire_ttl", plan |-> expiring[w]]
        PROVE  payload'[j] \in Payloads /\ status'[payload'[j].plan] # "absent"
    <3>1. expiring[w] \in PlanIds /\ Exists(expiring[w])
        BY <2>2 DEF IInv, ExpiryInv, Expirable, TypeOK
    <3> QED BY <2>2, <3>1, PlansStay DEF Exists, Payloads, Kinds
  <2>3. None \notin Payloads
      BY LifecycleAssumption
  <2> QED BY <1>3, <2>1, <2>2, <2>3 DEF Inserted
<1> QED BY <1>1, <1>2, <1>3, NewRows

\* A request holds on to an existing plan.
LEMMA CallStep == IInv /\ [Next]_vars => CallInv'
<1> SUFFICES ASSUME IInv, [Next]_vars, NEW c \in Calls, call'[c] # None
             PROVE  status'[call'[c]] # "absent"
    BY DEF CallInv, Exists
<1>a. call \in [Calls -> PlanIds \cup {None}] /\ (call[c] # None => Exists(call[c]))
    BY DEF IInv, TypeOK, CallInv
<1>1. CASE call'[c] = call[c]
    BY <1>1, <1>a, PlansStay DEF Exists
<1>2. ASSUME NEW d \in Calls, NEW p \in PlanIds, ApplyPlanRead(d, p), call'[c] # call[c]
      PROVE  status'[call'[c]] # "absent"
  <2>1. call'[c] = p /\ Exists(p)
      BY <1>2, <1>a DEF ApplyPlanRead
  <2> QED BY <2>1, PlansStay DEF Exists
<1>3. ASSUME NEW d \in Calls, ApplyPlanWrite(d) \/ ApplyPlanAbort(d) PROVE call'[c] = call[c]
    BY <1>3, <1>a DEF ApplyPlanWrite, ApplyPlanAbort
<1>4. ASSUME \/ \E r \in Revisions : PlanIntent(r) \/ DeadlinePasses(r)
             \/ \E w \in Workers : TickStep(w) \/ Crash(w)
             \/ UNCHANGED vars
      PROVE  call' = call
    BY <1>4 DEF PlanIntent, DeadlinePasses, TickStep, TickList, TickFind, TickEnqueue,
                Crash, vars
<1>5. ASSUME NEW w \in Workers, RunnerStep(w) PROVE call' = call
    BY <1>5 DEF RunnerStep, LeaseNext, LeaseLost, GetPlanFails, MarkJob, MarkLost, ApplyPolicy,
                ApplyPolicyFails, CommitApplied, CommitAppliedFails, RecordFailure,
                ArmDeadline, MarkPlanExpiredOnce, MarkPlanExpiredFails, AppendAudit,
                ListAppliedPlans, RestorePolicy, DeletePolicy, CleanupFails
<1> QED BY <1>1, <1>2, <1>3, <1>4, <1>5 DEF Next, ApiStep

\* A job in hand keeps its kind and its plan.
LEMMA KindStays ==
    ASSUME IInv, [Next]_vars, NEW w \in Workers, pc[w] # "idle", lease'[w] = lease[w]
    PROVE  Kind(w)' = Kind(w) /\ PlanOf(w)' = PlanOf(w)
BY HeldJob, JobsStay DEF Kind, PlanOf

\* A step of one worker leaves the Runners of the others where they are.
LEMMA OtherRunners ==
    ASSUME IInv, NEW w \in Workers, NEW v \in Workers, v # w,
           RunnerStep(w) \/ TickStep(w) \/ Crash(w)
    PROVE  pc'[v] = pc[v] /\ lease'[v] = lease[v] /\ target'[v] = target[v]
<1>a. /\ pc \in [Workers -> RunnerStates] /\ lease \in [Workers -> JobIds \cup {None}]
      /\ target \in [Workers -> PlanIds \cup {None}]
    BY DEF IInv, TypeOK, PoolInv, Pool!TypeOK
<1> USE <1>a DEF Goto, runVars, poolVars
<1>1. CASE TickStep(w) \/ Crash(w)
    BY <1>1 DEF TickStep, TickList, TickFind, TickEnqueue, Crash, Pool!Enqueue
<1>2. CASE LeaseNext(w) \/ LeaseLost(w) \/ MarkJob(w) \/ MarkLost(w) \/ GetPlanFails(w)
    BY <1>2 DEF LeaseNext, LeaseLost, MarkJob, MarkLost, GetPlanFails, Pool!LeaseNext,
                Pool!LeaseLost, Pool!MarkDone, Pool!MarkFailed, Pool!Forget
<1>3. CASE \/ ApplyPolicy(w) \/ ApplyPolicyFails(w) \/ CommitApplied(w)
           \/ CommitAppliedFails(w) \/ RecordFailure(w) \/ ArmDeadline(w)
    BY <1>3 DEF ApplyPolicy, ApplyPolicyFails, CommitApplied, CommitAppliedFails,
                RecordFailure, ArmDeadline
<1>4. CASE \/ MarkPlanExpiredOnce(w) \/ MarkPlanExpiredFails(w) \/ AppendAudit(w)
           \/ ListAppliedPlans(w) \/ RestorePolicy(w) \/ DeletePolicy(w) \/ CleanupFails(w)
    BY <1>4 DEF MarkPlanExpiredOnce, MarkPlanExpiredFails, AppendAudit, ListAppliedPlans,
                RestorePolicy, DeletePolicy, CleanupFails
<1> QED BY <1>1, <1>2, <1>3, <1>4 DEF RunnerStep

\* Every step leaves every Runner at a place of its handler.
LEMMA RunnerStepInv == IInv /\ [Next]_vars => RunnerInv'
<1> SUFFICES ASSUME IInv, [Next]_vars, NEW w \in Workers PROVE RunnerAt(w)'
    BY DEF RunnerInv
<1>a. /\ pc \in [Workers -> RunnerStates] /\ lease \in [Workers -> JobIds \cup {None}]
      /\ target \in [Workers -> PlanIds \cup {None}] /\ None \notin JobIds
      /\ RunnerAt(w)
    BY LifecycleAssumption DEF IInv, TypeOK, RunnerInv, PoolInv, Pool!TypeOK
<1>b. pc[w] # "idle" /\ lease'[w] = lease[w] => Kind(w)' = Kind(w)
    BY KindStays
<1>1. CASE pc'[w] = pc[w] /\ lease'[w] = lease[w] /\ target'[w] = target[w]
  <2>1. pc[w] = "restore" => status'[target'[w]] # "absent"
      BY <1>1, <1>a, PlansStay DEF RunnerAt, Exists
  <2> QED BY <1>1, <1>a, <1>b, <2>1 DEF RunnerAt, Exists
<1>2. ASSUME NEW v \in Workers, v # w, RunnerStep(v) \/ TickStep(v) \/ Crash(v)
      PROVE  RunnerAt(w)'
    BY <1>1, <1>2, OtherRunners
<1>3. ASSUME \/ \E r \in Revisions : PlanIntent(r) \/ DeadlinePasses(r)
             \/ \E c \in Calls : \/ ApplyPlanAbort(c) \/ ApplyPlanWrite(c)
                                 \/ \E p \in PlanIds : ApplyPlanRead(c, p)
             \/ TickStep(w) \/ UNCHANGED vars
      PROVE  RunnerAt(w)'
  <2>1. UNCHANGED <<pc, lease, target>>
      BY <1>3 DEF PlanIntent, DeadlinePasses, ApplyPlanAbort, ApplyPlanWrite, ApplyPlanRead,
                  TickStep, TickList, TickFind, TickEnqueue, vars, runVars, poolVars,
                  Pool!Enqueue
  <2> QED BY <1>1, <2>1
<1> USE <1>a DEF Goto, runVars, poolVars, RunnerAt
<1>4. CASE LeaseNext(w)
    BY <1>4 DEF LeaseNext, Pool!LeaseNext
<1>5. CASE LeaseLost(w)
    BY <1>1, <1>5 DEF LeaseLost, Pool!LeaseLost
<1>6. CASE MarkJob(w) \/ MarkLost(w) \/ Crash(w)
    BY <1>6 DEF MarkJob, MarkLost, Crash, Pool!MarkDone, Pool!MarkFailed, Pool!Forget
<1>7. CASE GetPlanFails(w) \/ RecordFailure(w) \/ ArmDeadline(w) \/ CleanupFails(w)
    BY <1>7 DEF GetPlanFails, RecordFailure, ArmDeadline, CleanupFails
<1>8. CASE ApplyPolicy(w) \/ ApplyPolicyFails(w)
    BY <1>8, <1>b DEF ApplyPolicy, ApplyPolicyFails, Applying
<1>9. CASE CommitApplied(w) \/ CommitAppliedFails(w)
    BY <1>9, <1>b DEF CommitApplied, CommitAppliedFails
<1>10. CASE MarkPlanExpiredOnce(w) \/ MarkPlanExpiredFails(w)
    BY <1>10, <1>b DEF MarkPlanExpiredOnce, MarkPlanExpiredFails, Expiring
<1>11. CASE AppendAudit(w)
    BY <1>11, <1>b DEF AppendAudit, AuditSteps
<1>12. CASE ListAppliedPlans(w)
  <2>1. CASE pc'[w] = "delete"
      BY <1>12, <1>b, <2>1 DEF ListAppliedPlans
  <2>2. CASE pc'[w] # "delete"
    <3>1. PICK t \in PlanIds : /\ t \in AppliedPlans(IntentOfPlan(PlanOf(w)))
                               /\ pc'[w] = "restore" /\ target'[w] = t
        BY <1>12, <2>2 DEF ListAppliedPlans, IsNewest
    <3>2. status[t] = "applied" /\ status' = status
        BY <1>12, <3>1 DEF ListAppliedPlans, AppliedPlans, planVars
    <3>3. t # None
        BY LifecycleAssumption
    <3> QED BY <1>12, <1>b, <3>1, <3>2, <3>3 DEF ListAppliedPlans, Exists
  <2> QED BY <2>1, <2>2
<1>13. CASE RestorePolicy(w) \/ DeletePolicy(w)
    BY <1>13, <1>b DEF RestorePolicy, DeletePolicy
<1> QED BY <1>2, <1>3, <1>4, <1>5, <1>6, <1>7, <1>8, <1>9, <1>10, <1>11, <1>12, <1>13
        DEF Next, ApiStep, RunnerStep

-----------------------------------------------------------------------------
\* The life of a plan.

\* Who changes the status of a plan: PlanIntent, ApplyPlan, or the Runner that
\* executes a job about it.
StatusChanged(p) ==
    \/ status'[p] = "planned"
    \/ status'[p] = "applying" /\ \E c \in Calls : ApplyPlanWrite(c) /\ call[c] = p
    \/ \E w \in Workers :
         /\ pc[w] # "idle" /\ PlanOf(w) = p
         /\ \/ /\ Kind(w) = "apply_plan"
               /\ \/ status'[p] = "applied" /\ appliedRef'[p] = KeyOfPlan(p)
                  \/ status'[p] = "apply_failed"
            \/ Kind(w) = "expire_ttl" /\ status'[p] = "expired"

\* Whoever changes the status of a plan, it is as StatusChanged says.
LEMMA StatusChanges ==
    ASSUME IInv, [Next]_vars, NEW p \in PlanIds, status'[p] # status[p]
    PROVE  StatusChanged(p)
<1>a. /\ status \in [PlanIds -> Statuses] /\ appliedRef \in [PlanIds -> Keys \cup {None}]
      /\ call \in [Calls -> PlanIds \cup {None}] /\ RunnerInv
    BY DEF IInv, TypeOK
<1> USE <1>a DEF SetStatus
<1>1. ASSUME NEW r \in Revisions, PlanIntent(r) PROVE StatusChanged(p)
    BY <1>1 DEF PlanIntent, StatusChanged
<1>2. ASSUME NEW c \in Calls, ApplyPlanWrite(c) PROVE StatusChanged(p)
    BY <1>2 DEF ApplyPlanWrite, StatusChanged
<1>3. ASSUME NEW w \in Workers, CommitApplied(w) \/ CommitAppliedFails(w)
      PROVE  StatusChanged(p)
  <2>1. pc[w] # "idle" /\ Kind(w) = "apply_plan"
      BY <1>3 DEF CommitApplied, CommitAppliedFails, RunnerInv, RunnerAt
  <2>2. SetApplied(PlanOf(w))
      BY <1>3 DEF CommitApplied, CommitAppliedFails
  <2>3. /\ p = PlanOf(w) /\ status'[p] = "applied"
        /\ appliedRef'[p] = KeyOfPlan(p)
      BY <2>2 DEF SetApplied
  <2> QED BY <2>1, <2>3 DEF StatusChanged
<1>4. ASSUME NEW w \in Workers, RecordFailure(w) PROVE StatusChanged(p)
  <2>1. pc[w] # "idle" /\ Kind(w) = "apply_plan"
      BY <1>4 DEF RecordFailure, RunnerInv, RunnerAt
  <2>2. p = PlanOf(w) /\ status'[p] = "apply_failed"
      BY <1>4 DEF RecordFailure
  <2> QED BY <2>1, <2>2 DEF StatusChanged
<1>5. ASSUME NEW w \in Workers, MarkPlanExpiredOnce(w) \/ MarkPlanExpiredFails(w)
      PROVE  StatusChanged(p)
  <2>1. pc[w] # "idle" /\ Kind(w) = "expire_ttl"
      BY <1>5 DEF MarkPlanExpiredOnce, MarkPlanExpiredFails, Expiring
  <2>2. p = PlanOf(w) /\ status'[p] = "expired"
      BY <1>5 DEF MarkPlanExpiredOnce, MarkPlanExpiredFails
  <2> QED BY <2>1, <2>2 DEF StatusChanged
<1>6. ASSUME \/ \E r \in Revisions : DeadlinePasses(r)
             \/ \E w \in Workers : ArmDeadline(w)
             \/ UNCHANGED planVars \/ UNCHANGED vars
      PROVE  FALSE
    BY <1>6 DEF DeadlinePasses, ArmDeadline, planVars, vars
<1> QED BY <1>1, <1>2, <1>3, <1>4, <1>5, <1>6, Frames

\* A job that is about something has a row, and stays about it.
LEMMA AboutStays ==
    ASSUME IInv, [Next]_vars, NEW j \in JobIds, NEW k \in Kinds, NEW p \in PlanIds
    PROVE  /\ About(j, k, p) => jobStatus[j] # "none" /\ About(j, k, p)'
           /\ About(j, k, p)' => About(j, k, p) \/ Inserted(j)
<1>1. [kind |-> k, plan |-> p] # None
    BY LifecycleAssumption DEF Payloads
<1>2. jobStatus[j] = "none" <=> payload[j] = None
    BY DEF IInv, JobsInv
<1>3. CASE jobStatus[j] # "none"
    BY <1>3, JobsStay DEF About
<1>4. CASE jobStatus[j] = "none"
    BY <1>1, <1>2, <1>4, NewRows DEF About
<1> QED BY <1>3, <1>4

\* Every step keeps the plan and its job about each other.
LEMMA OwnStep == IInv /\ [Next]_vars => OwnInv'
<1> SUFFICES ASSUME IInv, [Next]_vars, NEW p \in PlanIds
             PROVE  /\ applyJob'[p] # None => About(applyJob[p], "apply_plan", p)'
                    /\ status'[p] \notin {"absent", "planned"} => applyJob'[p] # None
                    /\ \A j \in JobIds : About(j, "apply_plan", p)' => applyJob'[p] # None
    BY DEF OwnInv, ApplyJobIsOwn
<1>a. /\ applyJob \in [PlanIds -> JobIds \cup {None}] /\ status \in [PlanIds -> Statuses]
      /\ call \in [Calls -> PlanIds \cup {None}] /\ OwnInv
    BY DEF IInv, TypeOK
<1>b. {"apply_plan", "expire_ttl"} \subseteq Kinds
    BY DEF Kinds
<1>1. applyJob'[p] # None => About(applyJob[p], "apply_plan", p)'
  <2>1. CASE applyJob[p] # None
    <3>1. applyJob'[p] = applyJob[p] /\ applyJob[p] \in JobIds
        BY <2>1, <1>a, MarksStay
    <3>2. About(applyJob[p], "apply_plan", p)
        BY <2>1, <1>a DEF OwnInv, ApplyJobIsOwn
    <3> QED BY <3>1, <3>2, <1>b, AboutStays DEF About
  <2>2. ASSUME NEW c \in Calls, ApplyPlanWrite(c), applyJob[p] = None, applyJob'[p] # None
        PROVE  About(applyJob[p], "apply_plan", p)'
    <3>1. p = call[c] /\ applyJob'[p] = NewJob /\ NewJob \in JobIds
        BY <2>2, <1>a, NewJobIsNew DEF ApplyPlanWrite, SetApplyJobOnce
    <3>2. payload'[NewJob] = [kind |-> "apply_plan", plan |-> p]
        BY <2>2, <3>1 DEF ApplyPlanWrite, Pool!Enqueue, IInv, PoolInv, Pool!TypeOK
    <3> QED BY <3>1, <3>2 DEF About
  <2>3. ASSUME applyJob[p] = None, applyJob'[p] # None
        PROVE  \E c \in Calls : ApplyPlanWrite(c)
      BY <2>3, Frames
      DEF PlanIntent, DeadlinePasses, CommitApplied, CommitAppliedFails, RecordFailure,
          ArmDeadline, MarkPlanExpiredOnce, MarkPlanExpiredFails, planVars, vars
  <2> QED BY <2>1, <2>2, <2>3
<1>2. status'[p] \notin {"absent", "planned"} => applyJob'[p] # None
  <2>1. CASE status'[p] = status[p]
      BY <2>1, <1>a, MarksStay DEF OwnInv, ApplyJobIsOwn
  <2>2. ASSUME NEW c \in Calls, ApplyPlanWrite(c), call[c] = p PROVE applyJob'[p] # None
    <3>1. NewJob # None
        BY <2>2, NewJobIsNew, LifecycleAssumption DEF ApplyPlanWrite
    <3> QED BY <2>2, <3>1, <1>a DEF ApplyPlanWrite, SetApplyJobOnce
  <2>3. ASSUME NEW w \in Workers, pc[w] # "idle", PlanOf(w) = p PROVE applyJob'[p] # None
    <3>1. About(lease[w], Kind(w), p) /\ lease[w] \in JobIds /\ Kind(w) \in Kinds
        BY <2>3, HeldJob DEF About
    <3>2. applyJob[p] # None
        BY <3>1, <1>a DEF Kinds, OwnInv, IInv, ExpiryInv, Expirable
    <3> QED BY <3>2, MarksStay
  <2> QED BY <2>1, <2>2, <2>3, StatusChanges DEF StatusChanged
<1>3. ASSUME NEW j \in JobIds, About(j, "apply_plan", p)' PROVE applyJob'[p] # None
  <2>1. CASE About(j, "apply_plan", p)
      BY <2>1, <1>a, MarksStay DEF OwnInv
  <2>2. CASE Inserted(j)
    <3>1. ASSUME NEW w \in Workers, payload'[j] = [kind |-> "expire_ttl", plan |-> expiring[w]]
          PROVE  FALSE
        BY <3>1, <1>3 DEF About
    <3>2. ASSUME NEW c \in Calls, payload'[j] = [kind |-> "apply_plan", plan |-> call[c]]
          PROVE  call[c] = p
        BY <3>2, <1>3 DEF About
    <3> QED BY <2>2, <3>1, <3>2 DEF Inserted
  <2> QED BY <2>1, <2>2, <1>3, <1>b, AboutStays
<1> QED BY <1>1, <1>2, <1>3

\* Only the TTLWorkers and their restarts change what a tick has in hand.
LEMMA TickFrames ==
    ASSUME [Next]_vars, ~UNCHANGED ttlVars
    PROVE  \E w \in Workers : TickStep(w) \/ Crash(w)
<1>1. ASSUME \/ \E r \in Revisions : PlanIntent(r) \/ DeadlinePasses(r)
             \/ \E c \in Calls : \/ ApplyPlanAbort(c) \/ ApplyPlanWrite(c)
                                 \/ \E p \in PlanIds : ApplyPlanRead(c, p)
             \/ UNCHANGED vars
      PROVE  UNCHANGED ttlVars
    BY <1>1 DEF PlanIntent, DeadlinePasses, ApplyPlanAbort, ApplyPlanWrite, ApplyPlanRead, vars
<1>2. ASSUME NEW w \in Workers, RunnerStep(w) PROVE UNCHANGED ttlVars
    BY <1>2 DEF RunnerStep, LeaseNext, LeaseLost, GetPlanFails, MarkJob, MarkLost, ApplyPolicy,
                ApplyPolicyFails, CommitApplied, CommitAppliedFails, RecordFailure,
                ArmDeadline, MarkPlanExpiredOnce, MarkPlanExpiredFails, AppendAudit,
                ListAppliedPlans, RestorePolicy, DeletePolicy, CleanupFails, runVars, ttlVars
<1> QED BY <1>1, <1>2 DEF Next, ApiStep

\* Every step keeps expiries after the deadline and the apply.
LEMMA ExpiryStep == IInv /\ [Next]_vars => ExpiryInv'
<1> SUFFICES ASSUME IInv, [Next]_vars PROVE ExpiryInv'
    OBVIOUS
<1>a. TypeOK /\ OwnInv /\ ExpiryInv
    BY DEF IInv
<1>b. {"apply_plan", "expire_ttl"} \subseteq Kinds
    BY DEF Kinds
<1>1. ASSUME NEW p \in PlanIds, status'[p] = "applied"
      PROVE  appliedRef'[p] = KeyOfPlan(p)'
  <2>1. CASE status[p] = "applied"
      BY <2>1, <1>a, RefsStay DEF ExpiryInv, Exists
  <2>2. CASE status[p] # "applied"
    <3>1. appliedRef'[p] = KeyOfPlan(p) /\ Exists(p)
        BY <1>1, <2>2, StatusChanges, HeldJob DEF StatusChanged
    <3> QED BY <3>1, PlansStay DEF KeyOfPlan
  <2> QED BY <2>1, <2>2
<1>2. ASSUME NEW p \in PlanIds, status'[p] = "expired"
      PROVE  deadline'[revOf'[p]] = "passed"
  <2>1. Exists(p) /\ revOf[p] \in Revisions /\ deadline[revOf[p]] = "passed"
    <3>1. CASE status[p] = "expired"
        BY <3>1, <1>a DEF ExpiryInv, Exists, TypeOK
    <3>2. CASE status[p] # "expired"
      <4>1. PICK w \in Workers : pc[w] # "idle" /\ PlanOf(w) = p /\ Kind(w) = "expire_ttl"
          BY <1>2, <3>2, StatusChanges DEF StatusChanged
      <4>2. About(lease[w], "expire_ttl", p) /\ lease[w] \in JobIds /\ revOf[p] \in Revisions
          BY <4>1, HeldJob DEF About
      <4> QED BY <4>2, <1>a DEF ExpiryInv, Expirable
    <3> QED BY <3>1, <3>2
  <2> QED BY <2>1, PlansStay, MarksStay
<1>3. ASSUME NEW w \in Workers, NEW p \in PlanIds, p \in pending'[w] PROVE Expirable(p)'
  <2>1. CASE p \in pending[w]
      BY <2>1, <1>a, ExpirableStays DEF ExpiryInv
  <2>2. ASSUME TickList(w), p \notin pending[w] PROVE Expirable(p)
    <3>1. p \in LatestApplied /\ deadline[revOf[p]] = "passed"
        BY <2>2, <1>3, <1>a DEF TickList, TypeOK
    <3>2. status[p] = "applied"
        BY <3>1 DEF LatestApplied, IsNewest, AppliedPlans
    <3> QED BY <3>1, <3>2, <1>a DEF Expirable, Exists, OwnInv, ApplyJobIsOwn, ExpiryInv
  <2>3. ASSUME p \notin pending[w] PROVE TickList(w)
    <3>1. pending' # pending /\ pending \in [Workers -> SUBSET PlanIds]
        BY <2>3, <1>3, <1>a DEF TypeOK
    <3>2. PICK v \in Workers : TickStep(v) \/ Crash(v)
        BY <3>1, TickFrames DEF ttlVars
    <3> QED BY <2>3, <3>1, <3>2, <1>3 DEF TickStep, TickList, TickFind, TickEnqueue, Crash
  <2> QED BY <2>1, <2>2, <2>3, ExpirableStays
<1>4. ASSUME NEW w \in Workers, expiring'[w] # None
      PROVE  expiring'[w] \in PlanIds /\ Expirable(expiring'[w])
  <2>1. CASE expiring'[w] = expiring[w]
      BY <2>1, <1>4, <1>a DEF ExpiryInv, TypeOK
  <2>2. CASE expiring'[w] # expiring[w]
    <3>1. expiring' # expiring /\ expiring \in [Workers -> PlanIds \cup {None}]
        BY <2>2, <1>a DEF TypeOK
    <3>2. PICK v \in Workers : TickStep(v) \/ Crash(v)
        BY <3>1, TickFrames DEF ttlVars
    <3>3. PICK p \in PlanIds : TickFind(v, p)
        BY <3>1, <3>2, <2>2, <1>4 DEF TickStep, TickList, TickEnqueue, Crash
    <3>4. p \in pending[v] /\ expiring'[w] = p
        BY <3>1, <3>3, <2>2, <1>4 DEF TickFind
    <3> QED BY <3>4, <1>a DEF ExpiryInv
  <2> QED BY <2>1, <2>2
<1>5. ASSUME NEW j \in JobIds, NEW p \in PlanIds, About(j, "expire_ttl", p)'
      PROVE  Expirable(p)
  <2>1. CASE About(j, "expire_ttl", p)
      BY <2>1, <1>a DEF ExpiryInv
  <2>2. CASE Inserted(j)
    <3>1. PICK w \in Workers : /\ expiring[w] # None
                               /\ payload'[j] = [kind |-> "expire_ttl", plan |-> expiring[w]]
      <4>1. ASSUME NEW c \in Calls, payload'[j] = [kind |-> "apply_plan", plan |-> call[c]]
            PROVE  FALSE
          BY <4>1, <1>5 DEF About
      <4> QED BY <2>2, <4>1 DEF Inserted
    <3>2. p = expiring[w]
        BY <3>1, <1>5 DEF About
    <3> QED BY <3>1, <3>2, <1>a DEF ExpiryInv
  <2> QED BY <2>1, <2>2, <1>5, <1>b, AboutStays
<1>6. \A w \in Workers : expiring'[w] # None => Expirable(expiring[w])'
  <2> SUFFICES ASSUME NEW w \in Workers, expiring'[w] # None PROVE Expirable(expiring[w])'
      OBVIOUS
  <2>1. \A p \in PlanIds : Expirable(p) => Expirable(p)'
      BY ExpirableStays
  <2>2. \A p \in PlanIds : p = expiring'[w] /\ Expirable(p)' => Expirable(expiring[w])'
      BY DEF Expirable, Exists, KeyOfPlan
  <2> QED BY <1>4, <2>1, <2>2
<1>7. \A w \in Workers : pending'[w] \subseteq PlanIds
    BY TypeStep DEF TypeOK
<1>8. \A w \in Workers : \A p \in pending'[w] : Expirable(p)'
    BY <1>3, <1>7
<1>9. \A j \in JobIds, p \in PlanIds : About(j, "expire_ttl", p)' => Expirable(p)'
    BY <1>5, ExpirableStays
<1> QED BY <1>1, <1>2, <1>6, <1>8, <1>9 DEF ExpiryInv

\* Only a Runner that has recorded its outcome makes a job done.
LEMMA DoneIsRecorded ==
    ASSUME IInv, [Next]_vars, NEW j \in JobIds, jobStatus[j] # "done", jobStatus'[j] = "done"
    PROVE  \E w \in Workers : lease[w] = j /\ Recorded(w)
<1>a. Pool!TypeOK
    BY DEF IInv, PoolInv
<1> USE <1>a DEF Pool!TypeOK
<1>1. ASSUME NEW w \in Workers, MarkJob(w) PROVE lease[w] = j /\ Recorded(w)
    BY <1>1 DEF MarkJob, Pool!MarkDone, Pool!MarkFailed, Recorded
<1>2. ASSUME NEW w \in Workers, RunnerStep(w), ~MarkJob(w) PROVE FALSE
    BY <1>2 DEF RunnerStep, LeaseNext, LeaseLost, GetPlanFails, MarkLost, ApplyPolicy,
                ApplyPolicyFails, CommitApplied, CommitAppliedFails, RecordFailure,
                ArmDeadline, MarkPlanExpiredOnce, MarkPlanExpiredFails, AppendAudit,
                ListAppliedPlans, RestorePolicy, DeletePolicy, CleanupFails, poolVars,
                Pool!LeaseNext, Pool!LeaseLost, Pool!Forget
<1>3. ASSUME \/ \E r \in Revisions : PlanIntent(r) \/ DeadlinePasses(r)
             \/ \E c \in Calls : \/ ApplyPlanAbort(c) \/ ApplyPlanWrite(c)
                                 \/ \E p \in PlanIds : ApplyPlanRead(c, p)
             \/ \E w \in Workers : TickStep(w) \/ Crash(w)
             \/ UNCHANGED vars
      PROVE  FALSE
    BY <1>3 DEF PlanIntent, DeadlinePasses, ApplyPlanAbort, ApplyPlanWrite, ApplyPlanRead,
                TickStep, TickList, TickFind, TickEnqueue, Crash, vars, poolVars, Pool!Enqueue
<1> QED BY <1>1, <1>2, <1>3 DEF Next, ApiStep

\* A Runner comes to have recorded an outcome of an apply job in CommitApplied.
LEMMA RecordedByCommit ==
    ASSUME IInv, [Next]_vars, NEW w \in Workers, Recorded(w)'
    PROVE  /\ pc[w] # "idle" /\ lease'[w] = lease[w]
           /\ Recorded(w) \/ CommitApplied(w) \/ Kind(w) = "expire_ttl"
<1>a. /\ pc \in [Workers -> RunnerStates] /\ lease \in [Workers -> JobIds \cup {None}]
      /\ RunnerAt(w)
    BY DEF IInv, TypeOK, RunnerInv, PoolInv, Pool!TypeOK
<1> DEFINE Goal == /\ pc[w] # "idle" /\ lease'[w] = lease[w]
                   /\ Recorded(w) \/ CommitApplied(w) \/ Kind(w) = "expire_ttl"
<1>1. CASE pc'[w] = pc[w] /\ lease'[w] = lease[w]
    BY <1>1 DEF Recorded
<1>2. ASSUME NEW v \in Workers, v # w, RunnerStep(v) \/ TickStep(v) \/ Crash(v) PROVE Goal
    BY <1>1, <1>2, OtherRunners
<1>3. ASSUME \/ \E r \in Revisions : PlanIntent(r) \/ DeadlinePasses(r)
             \/ \E c \in Calls : \/ ApplyPlanAbort(c) \/ ApplyPlanWrite(c)
                                 \/ \E p \in PlanIds : ApplyPlanRead(c, p)
             \/ TickStep(w) \/ UNCHANGED vars
      PROVE  Goal
  <2>1. UNCHANGED <<pc, lease>>
      BY <1>3 DEF PlanIntent, DeadlinePasses, ApplyPlanAbort, ApplyPlanWrite, ApplyPlanRead,
                  TickStep, TickList, TickFind, TickEnqueue, vars, runVars, poolVars,
                  Pool!Enqueue
  <2> QED BY <1>1, <2>1
<1> USE <1>a DEF Goto, poolVars, RunnerAt, Recorded
<1>4. CASE \/ LeaseNext(w) \/ MarkJob(w) \/ MarkLost(w) \/ Crash(w) \/ GetPlanFails(w)
           \/ ApplyPolicy(w) \/ ApplyPolicyFails(w) \/ CommitAppliedFails(w)
           \/ RecordFailure(w) \/ MarkPlanExpiredFails(w) \/ ListAppliedPlans(w)
           \/ RestorePolicy(w) \/ DeletePolicy(w) \/ CleanupFails(w)
    BY <1>4 DEF LeaseNext, MarkJob, MarkLost, Crash, GetPlanFails, ApplyPolicy,
                ApplyPolicyFails, CommitAppliedFails, RecordFailure, MarkPlanExpiredFails,
                ListAppliedPlans, RestorePolicy, DeletePolicy, CleanupFails
<1>5. CASE LeaseLost(w)
    BY <1>1, <1>5 DEF LeaseLost, Pool!LeaseLost, runVars
<1>6. CASE CommitApplied(w) \/ ArmDeadline(w)
    BY <1>6 DEF CommitApplied, ArmDeadline
<1>7. CASE MarkPlanExpiredOnce(w)
    BY <1>7 DEF MarkPlanExpiredOnce, Expiring
<1>8. CASE AppendAudit(w)
    BY <1>8 DEF AppendAudit, AuditSteps
<1> QED BY <1>2, <1>3, <1>4, <1>5, <1>6, <1>7, <1>8 DEF Next, ApiStep, RunnerStep

\* Every step leaves an applying plan owed an answer.
LEMMA OwedStep == IInv /\ [Next]_vars => ApplyingIsOwed'
<1> SUFFICES ASSUME IInv, [Next]_vars, NEW p \in PlanIds, status'[p] = "applying"
             PROVE  \E j \in JobIds :
                        /\ About(j, "apply_plan", p)'
                        /\ jobStatus'[j] # "done"
                        /\ \A w \in Workers : lease'[w] = j => ~Recorded(w)'
    BY DEF ApplyingIsOwed
<1>b. {"apply_plan", "expire_ttl"} \subseteq Kinds /\ status \in [PlanIds -> Statuses]
    BY DEF Kinds, IInv, TypeOK
<1>1. CASE status[p] = "applying"
  <2>1. PICK j \in JobIds : /\ About(j, "apply_plan", p)
                            /\ jobStatus[j] # "done"
                            /\ \A w \in Workers : lease[w] = j => ~Recorded(w)
      BY <1>1 DEF IInv, ApplyingIsOwed
  <2>2. About(j, "apply_plan", p)'
      BY <2>1, <1>b, AboutStays
  <2>3. jobStatus'[j] # "done"
      BY <2>1, DoneIsRecorded
  <2>4. ASSUME NEW w \in Workers, lease'[w] = j, Recorded(w)' PROVE FALSE
    <3>1. lease[w] = j /\ (CommitApplied(w) \/ Kind(w) = "expire_ttl")
        BY <2>1, <2>4, RecordedByCommit
    <3>2. Kind(w) = "apply_plan" /\ PlanOf(w) = p
        BY <2>1, <3>1 DEF About, Kind, PlanOf
    <3>3. CommitApplied(w)
        BY <3>1, <3>2
    <3> QED BY <3>2, <3>3, <1>b DEF CommitApplied, SetApplied, SetStatus
  <2> QED BY <2>2, <2>3, <2>4
<1>2. CASE status[p] # "applying"
  <2>1. PICK c \in Calls : ApplyPlanWrite(c) /\ call[c] = p
      BY <1>2, StatusChanges DEF StatusChanged
  <2>2. NewJob \in JobIds /\ jobStatus[NewJob] = "none" /\ None \notin JobIds
      BY <2>1, NewJobIsNew, LifecycleAssumption DEF ApplyPlanWrite
  <2>3. Pool!Enqueue(NewJob, [kind |-> "apply_plan", plan |-> p])
      BY <2>1 DEF ApplyPlanWrite
  <2>4. /\ jobStatus'[NewJob] = "queued" /\ lease' = lease
        /\ payload'[NewJob] = [kind |-> "apply_plan", plan |-> p]
      BY <2>2, <2>3 DEF Pool!Enqueue, IInv, PoolInv, Pool!TypeOK
  <2>5. \A w \in Workers : lease[w] # NewJob
      BY <2>2 DEF IInv, PoolInv, Pool!ExclusiveLease
  <2> QED BY <2>2, <2>4, <2>5 DEF About
<1> QED BY <1>1, <1>2

-----------------------------------------------------------------------------
\* The inductive invariant and what follows from it.

\* The invariant is inductive.
LEMMA IInvStep == IInv /\ [Next]_vars => IInv'
BY TypeStep, StepsOfPool, PoolStep, JobsStep, RunnerStepInv, CallStep, OwnStep, ExpiryStep,
   OwedStep DEF IInv

\* The invariant holds in every reachable state.
LEMMA LifecycleIsSafe == Spec => []IInv
BY InitInv, IInvStep, PTL DEF Spec

\* Types: every column, local variable and policy keeps a value of its type,
\* whatever fails (all of PlanLifecycle).
THEOREM TypesHold == Spec => []TypeOK
<1>1. IInv => TypeOK
    BY DEF IInv
<1> QED BY <1>1, LifecycleIsSafe, PTL

\* The apply_job_id of a plan names an apply job about that very plan, and no
\* plan is applied, failed or expired that was never queued (ApplyPlan).
THEOREM ApplyJobsAreOwn == Spec => []ApplyJobIsOwn
<1>1. IInv => ApplyJobIsOwn
    BY DEF IInv, OwnInv
<1> QED BY <1>1, LifecycleIsSafe, PTL

\* Once a plan has its job it keeps it, however many requests race to queue
\* it (SetApplyJobOnce).
THEOREM ApplyJobIsChosenOnce == Spec => ApplyJobOnce
<1>1. IInv /\ [Next]_vars => [JobChosenStep]_vars
    BY MarksStay DEF JobChosenStep
<1> QED BY <1>1, LifecycleIsSafe, PTL DEF Spec, ApplyJobOnce

\* No plan is expired, and no expiry queued, before the deadline of its
\* revision, whatever applies, ticks, retries and crashes interleave
\* (SetNotAfterOnFirstApply, TTLWorker.tick, ExpireTTLWorker.Handle).
THEOREM ExpiryIsAfterDeadline == Spec => []ExpiryAfterDeadline
<1>1. IInv => ExpiryAfterDeadline
    BY DEF IInv, ExpiryInv, ExpiryAfterDeadline, Expirable
<1> QED BY <1>1, LifecycleIsSafe, PTL

\* An expiry always finds the policy its plan was applied to: the fallbacks of
\* ExpireTTLWorker.Handle for a missing name are never taken.
THEOREM ExpiryFindsItsPolicy == Spec => []ExpiryHasRef
<1>1. IInv => ExpiryHasRef
    BY DEF IInv, ExpiryInv, ExpiryHasRef, Expirable
<1> QED BY <1>1, LifecycleIsSafe, PTL

\* A plan is never left "applying" with all its jobs done, though ApplyPlan
\* tests the status in one transaction and writes it in another.
THEOREM ApplyingPlansAreOwed == Spec => []ApplyingIsOwed
<1>1. IInv => ApplyingIsOwed
    BY DEF IInv
<1> QED BY <1>1, LifecycleIsSafe, PTL

\* Whatever the API, the handlers and the ticks do to the jobs table is what a
\* pool of jobs does: what holds of the pool holds here (that no two Runners
\* hold a job, the retry budget, that an outcome is final).
THEOREM LifecycleUsesPool == Spec => Pool!Spec
<1>1. Init => Pool!Init
    BY DEF Init
<1>2. IInv /\ [Next]_vars => [Pool!Next]_Pool!poolVars
    BY StepsOfPool DEF poolVars, Pool!poolVars
<1> QED BY <1>1, <1>2, LifecycleIsSafe, PTL DEF Spec, Pool!Spec
-----------------------------------------------------------------------------
\* One worker process: the policies of applied plans.

\* Each policy is of one intent, and each intent writes one policy.
OneIntentPerPolicy ==
    \A r, s \in Revisions : KeyOf[r] = KeyOf[s] => IntentOf[r] = IntentOf[s]

OnePolicyPerIntent ==
    \A r, s \in Revisions : IntentOf[r] = IntentOf[s] => KeyOf[r] = KeyOf[s]

Renderable(p) == revOf[p] \notin Unrenderable

\* What a Runner knows of the policy it is about to record, or to delete.
HandlerEnforces(w) ==
    /\ pc[w] = "commit" => cluster[KeyOfPlan(PlanOf(w))] # None
    /\ pc[w] \in {"audit_expired", "list", "delete"} => status[PlanOf(w)] # "applied"
    /\ pc[w] = "delete" => AppliedPlans(IntentOfPlan(PlanOf(w))) = {}

EnforcedInv ==
    /\ AppliedIsEnforced
    /\ \A w \in Workers : HandlerEnforces(w)

-----------------------------------------------------------------------------
\* Requests, ticks, the clock and lost leases: no Runner moves, the cluster
\* stays, and of the statuses they only write "planned" and "applying".
QuietStep ==
    /\ UNCHANGED <<pc, target, lease, cluster>>
    /\ \A p \in PlanIds : status'[p] = status[p] \/ status'[p] \in {"planned", "applying"}
    /\ \A p \in PlanIds : audit[p] \subseteq audit'[p]

\* Every step is quiet, or a move of a Runner or the end of its process.
LEMMA Moves ==
    ASSUME IInv, [Next]_vars
    PROVE  QuietStep \/ \E w \in Workers : (RunnerStep(w) /\ ~LeaseLost(w)) \/ Crash(w)
<1>a. /\ status \in [PlanIds -> Statuses] /\ audit \in [PlanIds -> SUBSET AuditActions]
      /\ call \in [Calls -> PlanIds \cup {None}]
    BY DEF IInv, TypeOK
<1> USE <1>a DEF QuietStep, SetStatus, Audited, planVars, runVars, poolVars
<1>1. ASSUME NEW r \in Revisions, PlanIntent(r) \/ DeadlinePasses(r) PROVE QuietStep
    BY <1>1 DEF PlanIntent, DeadlinePasses
<1>2. ASSUME NEW c \in Calls, ApplyPlanAbort(c) \/ \E p \in PlanIds : ApplyPlanRead(c, p)
      PROVE  QuietStep
    BY <1>2 DEF ApplyPlanAbort, ApplyPlanRead
<1>3. ASSUME NEW c \in Calls, ApplyPlanWrite(c) PROVE QuietStep
    BY <1>3 DEF ApplyPlanWrite, Pool!Enqueue
<1>4. ASSUME NEW w \in Workers, TickStep(w) PROVE QuietStep
    BY <1>4 DEF TickStep, TickList, TickFind, TickEnqueue, Pool!Enqueue
<1>5. ASSUME NEW w \in Workers, LeaseLost(w) PROVE QuietStep
    BY <1>5 DEF LeaseLost, Pool!LeaseLost
<1>6. CASE UNCHANGED vars
    BY <1>6 DEF vars
<1> QED BY <1>1, <1>2, <1>3, <1>4, <1>5, <1>6 DEF Next, ApiStep

\* What the job in hand of a Runner is about does not change under it.
LEMMA InHandStays ==
    ASSUME IInv, [Next]_vars, NEW w \in Workers, pc[w] # "idle", lease'[w] = lease[w]
    PROVE  /\ PlanOf(w)' = PlanOf(w) /\ Kind(w)' = Kind(w)
           /\ PlanOf(w) \in PlanIds /\ Exists(PlanOf(w))
           /\ KeyOfPlan(PlanOf(w))' = KeyOfPlan(PlanOf(w)) /\ KeyOfPlan(PlanOf(w)) \in Keys
           /\ IntentOfPlan(PlanOf(w))' = IntentOfPlan(PlanOf(w))
<1>1. /\ PlanOf(w)' = PlanOf(w) /\ Kind(w)' = Kind(w)
      /\ PlanOf(w) \in PlanIds /\ Exists(PlanOf(w)) /\ KeyOfPlan(PlanOf(w)) \in Keys
    BY HeldJob, KindStays
<1>2. revOf'[PlanOf(w)] = revOf[PlanOf(w)]
    BY <1>1, PlansStay
<1> QED BY <1>1, <1>2 DEF KeyOfPlan, IntentOfPlan

\* The policy an expiry deletes is the one its plan renders to.
LEMMA DeletesOwnPolicy ==
    ASSUME IInv, NEW w \in Workers, pc[w] = "delete"
    PROVE  PolicyOf(PlanOf(w)) = KeyOfPlan(PlanOf(w))
<1>1. /\ About(lease[w], "expire_ttl", PlanOf(w)) /\ lease[w] \in JobIds
      /\ PlanOf(w) \in PlanIds /\ KeyOfPlan(PlanOf(w)) \in Keys
    BY HeldJob DEF About, IInv, RunnerInv, RunnerAt
<1>2. appliedRef[PlanOf(w)] = KeyOfPlan(PlanOf(w))
    BY <1>1 DEF IInv, ExpiryInv, Expirable
<1> QED BY <1>2 DEF PolicyOf

-----------------------------------------------------------------------------
\* One worker: no step leaves an applied plan without its policy.
LEMMA EnforcedStep ==
    ASSUME NEW w \in Workers, Workers = {w}, OneIntentPerPolicy,
           IInv, EnforcedInv, [Next]_vars
    PROVE  EnforcedInv'
<1>a. /\ status \in [PlanIds -> Statuses] /\ pc \in [Workers -> RunnerStates]
      /\ cluster \in [Keys -> PlanIds \cup {None}] /\ None \notin PlanIds
      /\ revOf \in [PlanIds -> Revisions \cup {None}]
      /\ \A p \in PlanIds : Exists(p) => revOf[p] \in Revisions /\ KeyOfPlan(p) \in Keys
    BY LifecycleAssumption DEF IInv, TypeOK, Exists, KeyOfPlan
<1>b. /\ \A p \in PlanIds : status[p] = "applied" => cluster[KeyOfPlan(p)] # None
      /\ HandlerEnforces(w)
    BY DEF EnforcedInv, AppliedIsEnforced
<1>c. \A p \in PlanIds : Exists(p) =>
          KeyOfPlan(p)' = KeyOfPlan(p) /\ IntentOfPlan(p)' = IntentOfPlan(p)
    BY PlansStay DEF KeyOfPlan, IntentOfPlan
<1> SUFFICES /\ \A p \in PlanIds : status'[p] = "applied" => cluster'[KeyOfPlan(p)'] # None
             /\ HandlerEnforces(w)'
    BY DEF EnforcedInv, AppliedIsEnforced
<1> DEFINE Goal ==
       /\ \A p \in PlanIds : status'[p] = "applied" => cluster'[KeyOfPlan(p)'] # None
       /\ HandlerEnforces(w)'
\* Steps that apply no plan and delete no policy, and that take no Runner to
\* a place HandlerEnforces is about.
<1> DEFINE Harmless ==
       /\ \A p \in PlanIds : status'[p] = "applied" => status[p] = "applied"
       /\ \A k \in Keys : cluster[k] # None => cluster'[k] # None
<1>d. ASSUME Harmless PROVE \A p \in PlanIds : status'[p] = "applied" =>
                                cluster'[KeyOfPlan(p)'] # None
    BY <1>a, <1>b, <1>c, <1>d DEF Exists
<1>e. ASSUME Harmless, pc'[w] \notin {"commit", "audit_expired", "list", "delete"} PROVE Goal
    BY <1>d, <1>e DEF HandlerEnforces
<1>f. ASSUME pc[w] = "delete", DeleteNetworkPolicy(PlanOf(w)), UNCHANGED planVars
      PROVE  \A p \in PlanIds : status'[p] = "applied" => cluster'[KeyOfPlan(p)'] # None
  <2> SUFFICES ASSUME NEW p \in PlanIds, status[p] = "applied" PROVE cluster'[KeyOfPlan(p)] # None
      BY <1>f DEF planVars, KeyOfPlan
  <2>1. /\ PlanOf(w) \in PlanIds /\ Exists(PlanOf(w))
        /\ PolicyOf(PlanOf(w)) = KeyOfPlan(PlanOf(w))
      BY <1>f, HeldJob, DeletesOwnPolicy
  <2>2. IntentOfPlan(p) # IntentOfPlan(PlanOf(w))
      BY <1>b, <1>f DEF HandlerEnforces, AppliedPlans
  <2>3. KeyOfPlan(p) # KeyOfPlan(PlanOf(w)) /\ KeyOfPlan(p) \in Keys
      BY <1>a, <2>1, <2>2 DEF OneIntentPerPolicy, KeyOfPlan, IntentOfPlan, Exists
  <2> QED BY <1>a, <1>b, <1>f, <2>1, <2>3 DEF DeleteNetworkPolicy
<1>1. CASE QuietStep
  <2>1. Harmless
      BY <1>1, <1>a DEF QuietStep
  <2>2. CASE pc[w] = "idle"
      BY <1>1, <1>e, <2>1, <2>2 DEF QuietStep
  <2>3. CASE pc[w] # "idle"
    <3>1. /\ PlanOf(w)' = PlanOf(w) /\ PlanOf(w) \in PlanIds
          /\ KeyOfPlan(PlanOf(w))' = KeyOfPlan(PlanOf(w))
          /\ IntentOfPlan(PlanOf(w))' = IntentOfPlan(PlanOf(w))
        BY <1>1, <2>3, InHandStays DEF QuietStep
    <3>2. ASSUME NEW p \in PlanIds, status'[p] = "applied"
          PROVE  status[p] = "applied" /\ IntentOfPlan(p)' = IntentOfPlan(p)
        BY <2>1, <3>2, <1>c DEF Exists
    <3>3. HandlerEnforces(w)'
        BY <1>1, <1>b, <3>1, <3>2 DEF HandlerEnforces, QuietStep, AppliedPlans
    <3> QED BY <1>d, <2>1, <3>3
  <2> QED BY <2>2, <2>3
<1> USE <1>a DEF Goto, SetStatus, planVars, runVars
<1>2. CASE \/ LeaseNext(w) \/ GetPlanFails(w) \/ MarkJob(w) \/ MarkLost(w) \/ Crash(w)
           \/ RecordFailure(w) \/ ArmDeadline(w) \/ MarkPlanExpiredFails(w)
  <2>1. /\ Harmless
        /\ pc'[w] \notin {"commit", "audit_expired", "list", "delete"}
      BY <1>2 DEF LeaseNext, GetPlanFails, MarkJob, MarkLost, Crash, RecordFailure,
                  ArmDeadline, MarkPlanExpiredFails
  <2> QED BY <1>e, <2>1
<1>3. CASE ApplyPolicy(w) \/ ApplyPolicyFails(w)
  <2>1. PlanOf(w) \in PlanIds /\ KeyOfPlan(PlanOf(w)) \in Keys /\ pc[w] # "idle"
      BY <1>3, HeldJob DEF ApplyPolicy, ApplyPolicyFails, Applying
  <2>2. Harmless
      BY <1>3, <2>1 DEF ApplyPolicy, ApplyPolicyFails, ApplyNetworkPolicy
  <2>3. CASE pc'[w] # "commit"
      BY <1>3, <1>e, <2>2, <2>3 DEF ApplyPolicy, ApplyPolicyFails
  <2>4. CASE pc'[w] = "commit"
    <3>1. ApplyPolicy(w)
        BY <1>3, <2>4 DEF ApplyPolicyFails
    <3>2. /\ PlanOf(w)' = PlanOf(w) /\ KeyOfPlan(PlanOf(w))' = KeyOfPlan(PlanOf(w))
        BY <2>1, <3>1, InHandStays DEF ApplyPolicy, poolVars
    <3>3. cluster'[KeyOfPlan(PlanOf(w))] # None
        BY <2>1, <3>1 DEF ApplyPolicy, ApplyNetworkPolicy
    <3> QED BY <1>d, <2>2, <2>4, <3>2, <3>3 DEF HandlerEnforces
  <2> QED BY <2>3, <2>4
<1>4. CASE CommitApplied(w) \/ CommitAppliedFails(w)
  <2>1. /\ PlanOf(w) \in PlanIds /\ Exists(PlanOf(w)) /\ pc[w] = "commit"
      BY <1>4, HeldJob DEF CommitApplied, CommitAppliedFails
  <2>2. cluster[KeyOfPlan(PlanOf(w))] # None /\ cluster' = cluster
      BY <1>4, <1>b, <2>1 DEF HandlerEnforces, CommitApplied, CommitAppliedFails
  <2>3. ASSUME NEW p \in PlanIds, status'[p] = "applied" PROVE cluster'[KeyOfPlan(p)'] # None
    <3>1. CASE p = PlanOf(w)
        BY <1>c, <2>1, <2>2, <3>1
    <3>2. CASE p # PlanOf(w)
      <4>1. status[p] = "applied" /\ cluster' = cluster
          BY <1>4, <2>3, <3>2 DEF CommitApplied, CommitAppliedFails, SetApplied
      <4> QED BY <4>1, <1>b, <1>c DEF Exists
    <3> QED BY <3>1, <3>2
  <2>4. pc'[w] \in {"arm", "record"}
      BY <1>4 DEF CommitApplied, CommitAppliedFails
  <2> QED BY <2>3, <2>4 DEF HandlerEnforces
<1>5. CASE MarkPlanExpiredOnce(w)
  <2>1. Harmless
      BY <1>5 DEF MarkPlanExpiredOnce
  <2>2. /\ PlanOf(w) \in PlanIds /\ pc[w] # "idle" /\ lease'[w] = lease[w]
      BY <1>5, HeldJob DEF MarkPlanExpiredOnce, Expiring, poolVars
  <2>3. PlanOf(w)' = PlanOf(w)
      BY <2>2, InHandStays
  <2>4. status'[PlanOf(w)] # "applied" /\ pc'[w] \notin {"commit", "delete"}
      BY <1>5, <2>2 DEF MarkPlanExpiredOnce
  <2> QED BY <1>d, <2>1, <2>3, <2>4 DEF HandlerEnforces
<1>6. CASE AppendAudit(w)
  <2>1. Harmless
      BY <1>6 DEF AppendAudit
  <2>2. pc[w] # "idle" /\ lease'[w] = lease[w] /\ pc'[w] \in {"list", "ok"}
      BY <1>6 DEF AppendAudit, AuditSteps, poolVars
  <2>3. PlanOf(w)' = PlanOf(w)
      BY <2>2, InHandStays
  <2>4. pc'[w] = "list" => pc[w] = "audit_expired"
      BY <1>6 DEF AppendAudit, AuditSteps
  <2>5. status' = status
      BY <1>6 DEF AppendAudit
  <2> QED BY <1>b, <1>d, <2>1, <2>2, <2>3, <2>4, <2>5 DEF HandlerEnforces
<1>7. CASE ListAppliedPlans(w)
  <2>1. Harmless
      BY <1>7 DEF ListAppliedPlans
  <2>2. pc[w] = "list" /\ lease'[w] = lease[w] /\ pc'[w] \in {"delete", "restore"}
      BY <1>7 DEF ListAppliedPlans, poolVars
  <2>3. /\ PlanOf(w)' = PlanOf(w) /\ PlanOf(w) \in PlanIds
        /\ IntentOfPlan(PlanOf(w))' = IntentOfPlan(PlanOf(w))
      BY <2>2, InHandStays
  <2>4. status'[PlanOf(w)] # "applied" /\ status' = status
      BY <1>7, <1>b, <2>2 DEF HandlerEnforces, ListAppliedPlans
  <2>5. CASE pc'[w] = "delete"
    <3>1. AppliedPlans(IntentOfPlan(PlanOf(w))) \ {PlanOf(w)} = {}
        BY <1>7, <2>5 DEF ListAppliedPlans
    <3>2. AppliedPlans(IntentOfPlan(PlanOf(w))) = {}
        BY <2>4, <3>1 DEF AppliedPlans
    <3>3. AppliedPlans(IntentOfPlan(PlanOf(w)))' = {}
        BY <1>7, <2>3, <2>4, <3>2 DEF AppliedPlans, ListAppliedPlans, IntentOfPlan
    <3> QED BY <1>d, <2>1, <2>3, <2>4, <2>5, <3>3 DEF HandlerEnforces
  <2>6. CASE pc'[w] = "restore"
      BY <1>e, <2>1, <2>6
  <2> QED BY <2>2, <2>5, <2>6
<1>8. CASE RestorePolicy(w) \/ CleanupFails(w)
  <2>1. pc'[w] \in {"audit_rollback", "err"} /\ status' = status
      BY <1>8 DEF RestorePolicy, CleanupFails
  <2>2. target[w] \in PlanIds \/ pc[w] # "restore"
      BY DEF IInv, TypeOK, RunnerInv, RunnerAt
  <2>3. CASE pc[w] # "delete"
    <3>1. Harmless
        BY <1>8, <2>1, <2>2, <2>3 DEF RestorePolicy, CleanupFails, ApplyNetworkPolicy
    <3> QED BY <1>e, <2>1, <3>1
  <2>4. CASE pc[w] = "delete" /\ CleanupFails(w) /\ cluster' = cluster
      BY <1>e, <2>1, <2>4
  <2>5. CASE pc[w] = "delete" /\ CleanupFails(w) /\ DeleteNetworkPolicy(PlanOf(w))
      BY <1>f, <2>1, <2>5 DEF HandlerEnforces, CleanupFails
  <2> QED BY <1>8, <2>3, <2>4, <2>5 DEF RestorePolicy, CleanupFails
<1>9. CASE DeletePolicy(w)
    BY <1>9, <1>f DEF DeletePolicy, HandlerEnforces
<1> QED BY <1>1, <1>2, <1>3, <1>4, <1>5, <1>6, <1>7, <1>8, <1>9, Moves DEF RunnerStep

\* Initially no plan is applied.
LEMMA EnforcedInit == Init => EnforcedInv
BY DEF Init, EnforcedInv, AppliedIsEnforced, HandlerEnforces

\* With one worker, a plan that is recorded as applied has a policy in the
\* cluster, whatever fails and whenever the worker dies: the apply job writes
\* the policy before the status, and an expiry deletes one only after it has
\* found the intent without another applied plan (ApplyWorker.Handle,
\* ExpireTTLWorker.Handle). It needs that no two intents write the same policy.
THEOREM AppliedIsAlwaysEnforced ==
    ASSUME NEW w \in Workers, Workers = {w}, OneIntentPerPolicy
    PROVE  Spec => []AppliedIsEnforced
<1>1. Init => EnforcedInv
    BY EnforcedInit
<1>2. IInv /\ EnforcedInv /\ [Next]_vars => EnforcedInv'
    BY EnforcedStep
<1>3. EnforcedInv => AppliedIsEnforced
    BY DEF EnforcedInv
<1> QED BY <1>1, <1>2, <1>3, LifecycleIsSafe, PTL DEF Spec

-----------------------------------------------------------------------------
\* One worker, as long as no call has failed; the worker may die, and leases
\* and marks may be lost. What each status and each policy owes to the jobs.

\* If a Runner holds j, it has come no further than these places.
Within(j, places) == \A w \in Workers : lease[w] = j => pc[w] \in places

\* An apply job of p has yet to record its outcome.
Owed(p) ==
    \E j \in JobIds : /\ About(j, "apply_plan", p) /\ Active(j)
                      /\ Within(j, {"handle", "commit"})

\* An expire job of p was begun and is in these places, or was lost there.
Begun(p, places) ==
    \E j \in JobIds : /\ About(j, "expire_ttl", p) /\ jobStatus[j] = "running"
                      /\ Within(j, places)

Cleanup == {"audit_expired", "list", "restore", "delete"}
ToTell == Cleanup \cup {"audit_rollback", "audit_deleted"}

Told(p) ==
    /\ "ttl_expired" \in audit[p]
    /\ audit[p] \cap {"rollback_done", "ttl_deleted"} # {}

StatusOwes(p) ==
    /\ status[p] \in {"absent", "planned"} => applyJob[p] = None
    /\ status[p] = "apply_failed" => ~Renderable(p)
    /\ status[p] = "expired" => Renderable(p)
    /\ appliedRef[p] # None => Exists(p) /\ Renderable(p)
    /\ status[p] = "applying" /\ Renderable(p) => Owed(p)
    /\ status[p] = "expired" => Told(p) \/ Owed(p) \/ Begun(p, ToTell)

\* The policy k is of a plan that writes it, and that is applied unless a job
\* is about to say or to undo so.
PolicyOwes(k) ==
    cluster[k] # None =>
        /\ Exists(cluster[k]) /\ KeyOfPlan(cluster[k]) = k /\ Renderable(cluster[k])
        /\ status[cluster[k]] = "applied" \/ Owed(cluster[k]) \/ Begun(cluster[k], Cleanup)

RunnerOwes(w) ==
    /\ pc[w] = "commit" => Renderable(PlanOf(w))
    /\ pc[w] = "record" => ~Renderable(PlanOf(w))
    /\ pc[w] = "restore" =>
         /\ Renderable(target[w]) /\ IntentOfPlan(target[w]) = IntentOfPlan(PlanOf(w))
         /\ status[target[w]] = "applied" \/ Owed(target[w])
    /\ pc[w] \in {"audit_expired", "list", "delete"} =>
         cluster[KeyOfPlan(PlanOf(w))] # None \/ Told(PlanOf(w)) \/ Owed(PlanOf(w))
    /\ pc[w] \in ToTell \ {"audit_expired"} => "ttl_expired" \in audit[PlanOf(w)]

DuesInv ==
    /\ \A p \in PlanIds : StatusOwes(p)
    /\ \A w \in Workers : RunnerOwes(w)

PoliciesInv == \A k \in Keys : PolicyOwes(k)

\* A call that has failed is not forgotten.
LEMMA NoErrorYet == IInv /\ [Next]_vars /\ errors' = 0 => errors = 0
<1> SUFFICES ASSUME IInv, [Next]_vars, errors' = 0 PROVE errors = 0
    OBVIOUS
<1>1. errors \in Nat
    BY DEF IInv, TypeOK
<1>2. errors' = errors \/ errors' = errors + 1
    BY DEF Next, ApiStep, RunnerStep, TickStep, vars, failVars, CallFails, ProcessFails,
           PlanIntent, DeadlinePasses, ApplyPlanAbort, ApplyPlanWrite, ApplyPlanRead,
           TickList, TickFind, TickEnqueue, LeaseNext, LeaseLost, GetPlanFails, MarkJob, MarkLost,
           ApplyPolicy, ApplyPolicyFails, CommitApplied, CommitAppliedFails, RecordFailure,
           ArmDeadline, MarkPlanExpiredOnce, MarkPlanExpiredFails, AppendAudit,
           ListAppliedPlans, RestorePolicy, DeletePolicy, CleanupFails, Crash
<1> QED BY <1>1, <1>2

\* The steps of a failed call are not taken.
LEMMA NoCallFails ==
    ASSUME IInv, errors' = 0, NEW w \in Workers
    PROVE  /\ ~GetPlanFails(w) /\ ~CommitAppliedFails(w)
           /\ ~MarkPlanExpiredFails(w) /\ ~CleanupFails(w)
           /\ ApplyPolicyFails(w) => ~Renderable(PlanOf(w)) /\ UNCHANGED cluster
           /\ RecordFailure(w) => /\ SetStatus(PlanOf(w), "apply_failed")
                                  /\ Audited(PlanOf(w), "apply_failed")
           /\ AppendAudit(w) => Audited(PlanOf(w), AuditSteps[pc[w]][1])
<1>1. ~CallFails
    BY DEF IInv, TypeOK, CallFails
<1> QED BY <1>1 DEF GetPlanFails, CommitAppliedFails, MarkPlanExpiredFails, CleanupFails,
                    ApplyPolicyFails, RecordFailure, AppendAudit, Renderable

\* What the audit trail tells it tells for good.
LEMMA AuditGrows ==
    IInv /\ [Next]_vars => \A p \in PlanIds : audit[p] \subseteq audit'[p]
<1> SUFFICES ASSUME IInv, [Next]_vars PROVE \A p \in PlanIds : audit[p] \subseteq audit'[p]
    OBVIOUS
<1>a. audit \in [PlanIds -> SUBSET AuditActions]
    BY DEF IInv, TypeOK
<1>1. ASSUME NEW w \in Workers, RunnerStep(w) \/ Crash(w)
      PROVE  \A p \in PlanIds : audit[p] \subseteq audit'[p]
    BY <1>1, <1>a DEF RunnerStep, LeaseNext, LeaseLost, GetPlanFails, MarkJob, MarkLost, ApplyPolicy,
                ApplyPolicyFails, CommitApplied, CommitAppliedFails, SetApplied, RecordFailure,
                ArmDeadline, MarkPlanExpiredOnce, MarkPlanExpiredFails, AppendAudit,
                ListAppliedPlans, RestorePolicy, DeletePolicy, CleanupFails, Crash, Audited
<1> QED BY <1>1, Moves DEF QuietStep

\* A plan that exists keeps its policy, and Kubernetes its opinion of it.
LEMMA RenderableStays ==
    IInv /\ [Next]_vars =>
        \A p \in PlanIds : Exists(p) =>
            /\ Renderable(p)' = Renderable(p) /\ KeyOfPlan(p)' = KeyOfPlan(p)
            /\ IntentOfPlan(p)' = IntentOfPlan(p)
BY PlansStay DEF Renderable, KeyOfPlan, IntentOfPlan

\* Without failed calls, the status of a plan changes like this.
LEMMA CalmStatus ==
    ASSUME IInv, errors' = 0, [Next]_vars, NEW p \in PlanIds, status'[p] # status[p]
    PROVE  \/ status[p] = "absent" /\ status'[p] = "planned"
           \/ status'[p] = "applying" /\ \E c \in Calls : ApplyPlanWrite(c) /\ call[c] = p
           \/ \E w \in Workers :
                /\ PlanOf(w) = p /\ pc[w] # "idle" /\ lease' = lease
                /\ \/ CommitApplied(w) /\ status'[p] = "applied"
                   \/ RecordFailure(w) /\ status'[p] = "apply_failed"
                   \/ /\ MarkPlanExpiredOnce(w) /\ status'[p] = "expired"
                      /\ pc'[w] = "audit_expired"
<1>a. status \in [PlanIds -> Statuses] /\ pc \in [Workers -> RunnerStates]
    BY DEF IInv, TypeOK
<1> USE <1>a DEF SetStatus, Goto, poolVars
<1>1. ASSUME NEW r \in Revisions, PlanIntent(r)
      PROVE  status[p] = "absent" /\ status'[p] = "planned"
    BY <1>1 DEF PlanIntent, Exists
<1>2. ASSUME NEW c \in Calls, ApplyPlanWrite(c)
      PROVE  status'[p] = "applying" /\ call[c] = p
    BY <1>2 DEF ApplyPlanWrite
<1>3. ASSUME NEW w \in Workers,
             \/ CommitApplied(w) \/ CommitAppliedFails(w) \/ RecordFailure(w)
             \/ MarkPlanExpiredOnce(w) \/ MarkPlanExpiredFails(w)
      PROVE  /\ PlanOf(w) = p /\ pc[w] # "idle" /\ lease' = lease
             /\ \/ CommitApplied(w) /\ status'[p] = "applied"
                \/ RecordFailure(w) /\ status'[p] = "apply_failed"
                \/ /\ MarkPlanExpiredOnce(w) /\ status'[p] = "expired"
                   /\ pc'[w] = "audit_expired"
  <2>1. CASE CommitApplied(w)
      BY <2>1 DEF CommitApplied, SetApplied
  <2>2. CASE RecordFailure(w)
      BY <2>2, NoCallFails DEF RecordFailure
  <2>3. CASE MarkPlanExpiredOnce(w)
      BY <2>3 DEF MarkPlanExpiredOnce, Expiring
  <2> QED BY <1>3, <2>1, <2>2, <2>3, NoCallFails
<1>4. ASSUME \/ \E r \in Revisions : DeadlinePasses(r)
             \/ \E w \in Workers : ArmDeadline(w)
             \/ UNCHANGED planVars \/ UNCHANGED vars
      PROVE  FALSE
    BY <1>4 DEF DeadlinePasses, ArmDeadline, planVars, vars
<1> QED BY <1>1, <1>2, <1>3, <1>4, Frames

\* ... and the cluster like this.
LEMMA CalmCluster ==
    ASSUME IInv, errors' = 0, [Next]_vars, cluster' # cluster
    PROVE  \E w \in Workers : ApplyPolicy(w) \/ RestorePolicy(w) \/ DeletePolicy(w)
<1>1. ASSUME NEW w \in Workers,
             \/ LeaseNext(w) \/ MarkJob(w) \/ MarkLost(w) \/ CommitApplied(w) \/ RecordFailure(w)
             \/ ArmDeadline(w) \/ MarkPlanExpiredOnce(w) \/ AppendAudit(w)
             \/ ListAppliedPlans(w) \/ ApplyPolicyFails(w) \/ Crash(w)
      PROVE  cluster' = cluster
    BY <1>1, NoCallFails DEF LeaseNext, MarkJob, MarkLost, CommitApplied, RecordFailure,
          ArmDeadline, MarkPlanExpiredOnce, AppendAudit, ListAppliedPlans, Crash
<1> QED BY <1>1, Moves, NoCallFails DEF QuietStep, RunnerStep

\* Only its own steps, and its end, move a Runner.
LEMMA OwnMoves ==
    ASSUME IInv, [Next]_vars, NEW w \in Workers, pc'[w] # pc[w] \/ lease'[w] # lease[w]
    PROVE  RunnerStep(w) \/ Crash(w)
<1>1. ASSUME NEW v \in Workers, RunnerStep(v) \/ Crash(v), v # w PROVE FALSE
    BY <1>1, OtherRunners
<1> QED BY <1>1, Moves DEF QuietStep

\* A job that is queued or running stays so until its Runner marks it, and
\* only a queued job is leased.
LEMMA JobMoves ==
    ASSUME IInv, [Next]_vars, NEW j \in JobIds
    PROVE  /\ Active(j) => Active(j)' \/ \E w \in Workers : MarkJob(w) /\ lease[w] = j
           /\ jobStatus[j] = "running" =>
                jobStatus'[j] = "running" \/ \E w \in Workers : MarkJob(w) /\ lease[w] = j
           /\ \A w \in Workers :
                lease'[w] = j => lease[w] = j \/ (jobStatus[j] = "queued" /\ pc'[w] = "handle")
<1>a. /\ Pool!TypeOK /\ pc \in [Workers -> RunnerStates] /\ None \notin JobIds
    BY LifecycleAssumption DEF IInv, TypeOK, PoolInv
<1> USE <1>a DEF Active, Pool!TypeOK
<1>1. ASSUME NEW w \in Workers, LeaseNext(w), lease'[w] = j
      PROVE  lease[w] = j \/ (jobStatus[j] = "queued" /\ pc'[w] = "handle")
    BY <1>1 DEF LeaseNext, Pool!LeaseNext, Goto
<1>2. ASSUME NEW w \in Workers, RunnerStep(w) \/ Crash(w), ~LeaseNext(w), lease'[w] = j
      PROVE  lease[w] = j
    BY <1>2 DEF RunnerStep, LeaseLost, GetPlanFails, MarkJob, MarkLost, ApplyPolicy,
                ApplyPolicyFails, CommitApplied, CommitAppliedFails, RecordFailure,
                ArmDeadline, MarkPlanExpiredOnce, MarkPlanExpiredFails, AppendAudit,
                ListAppliedPlans, RestorePolicy, DeletePolicy, CleanupFails, Crash, poolVars,
                Pool!LeaseLost, Pool!Forget, Pool!MarkDone, Pool!MarkFailed
<1>3. ASSUME NEW w \in Workers, lease'[w] = j
      PROVE  lease[w] = j \/ (jobStatus[j] = "queued" /\ pc'[w] = "handle")
    BY <1>1, <1>2, <1>3, OwnMoves
<1>4. ASSUME NEW w \in Workers, RunnerStep(w) \/ Crash(w), ~MarkJob(w)
      PROVE  /\ Active(j) => Active(j)'
             /\ jobStatus[j] = "running" => jobStatus'[j] = "running"
    BY <1>4 DEF RunnerStep, LeaseNext, LeaseLost, GetPlanFails, MarkLost, ApplyPolicy,
                ApplyPolicyFails, CommitApplied, CommitAppliedFails, RecordFailure,
                ArmDeadline, MarkPlanExpiredOnce, MarkPlanExpiredFails, AppendAudit,
                ListAppliedPlans, RestorePolicy, DeletePolicy, CleanupFails, Crash, poolVars,
                Pool!LeaseNext, Pool!LeaseLost, Pool!Forget
<1>5. ASSUME NEW w \in Workers, MarkJob(w), lease[w] # j PROVE jobStatus'[j] = jobStatus[j]
    BY <1>5 DEF MarkJob, Pool!MarkDone, Pool!MarkFailed
<1>6. ASSUME \/ \E r \in Revisions : PlanIntent(r) \/ DeadlinePasses(r)
             \/ \E c \in Calls : \/ ApplyPlanAbort(c) \/ ApplyPlanWrite(c)
                                 \/ \E p \in PlanIds : ApplyPlanRead(c, p)
             \/ \E w \in Workers : TickStep(w)
             \/ UNCHANGED vars
      PROVE  /\ Active(j) => Active(j)'
             /\ jobStatus[j] = "running" => jobStatus'[j] = "running"
    BY <1>6 DEF PlanIntent, DeadlinePasses, ApplyPlanAbort, ApplyPlanWrite, ApplyPlanRead,
                TickStep, TickList, TickFind, TickEnqueue, vars, poolVars, Pool!Enqueue
<1> QED BY <1>3, <1>4, <1>5, <1>6 DEF Next, ApiStep

\* A plan stays owed until its apply is recorded, or Kubernetes refuses it.
LEMMA OwedLasts ==
    ASSUME IInv, errors' = 0, [Next]_vars, NEW p \in PlanIds, Owed(p)
    PROVE  \/ Owed(p)' \/ ~Renderable(p)
           \/ \E w \in Workers : CommitApplied(w) /\ PlanOf(w) = p
<1> SUFFICES ASSUME Renderable(p), \A w \in Workers : ~(CommitApplied(w) /\ PlanOf(w) = p)
             PROVE  Owed(p)'
    OBVIOUS
<1>1. PICK j \in JobIds : /\ About(j, "apply_plan", p) /\ Active(j)
                          /\ Within(j, {"handle", "commit"})
    BY DEF Owed
<1>2. About(j, "apply_plan", p)'
    BY <1>1, AboutStays DEF Kinds
<1>3. Active(j)'
    BY <1>1, JobMoves DEF Within, MarkJob
<1>4. ASSUME NEW w \in Workers, lease'[w] = j PROVE pc'[w] \in {"handle", "commit"}
  <2>1. CASE lease[w] # j
      BY <1>4, <2>1, JobMoves
  <2>2. CASE lease[w] = j /\ pc'[w] # pc[w]
    <3>1. Kind(w) = "apply_plan" /\ PlanOf(w) = p /\ pc[w] \in {"handle", "commit"}
        BY <1>1, <2>2 DEF About, Kind, PlanOf, Within
    <3>2. RunnerStep(w) \/ Crash(w)
        BY <2>2, OwnMoves
    <3>3. ~Crash(w)
        BY <1>4, LifecycleAssumption DEF Crash, IInv, PoolInv, Pool!TypeOK
    <3>4. ApplyPolicy(w)
        BY <3>1, <3>2, <3>3, NoCallFails
        DEF RunnerStep, LeaseNext, LeaseLost, MarkJob, MarkLost,
            RecordFailure, ArmDeadline, MarkPlanExpiredOnce, Expiring, AppendAudit, AuditSteps,
            ListAppliedPlans, RestorePolicy, DeletePolicy
    <3> QED BY <3>4 DEF ApplyPolicy, Goto, IInv, TypeOK
  <2>3. CASE lease[w] = j /\ pc'[w] = pc[w]
      BY <1>1, <2>3 DEF Within
  <2> QED BY <2>1, <2>2, <2>3
<1> QED BY <1>2, <1>3, <1>4 DEF Owed, Within

\* Queueing its job makes a plan owed.
LEMMA WriteOwes ==
    ASSUME IInv, NEW c \in Calls, NEW p \in PlanIds, ApplyPlanWrite(c), call[c] = p
    PROVE  Owed(p)'
<1>1. NewJob \in JobIds /\ jobStatus[NewJob] = "none" /\ None \notin JobIds
    BY NewJobIsNew, LifecycleAssumption DEF ApplyPlanWrite
<1>2. /\ jobStatus'[NewJob] = "queued" /\ lease' = lease
      /\ payload'[NewJob] = [kind |-> "apply_plan", plan |-> call[c]]
    BY <1>1 DEF ApplyPlanWrite, Pool!Enqueue, IInv, PoolInv, Pool!TypeOK
<1>3. \A w \in Workers : lease[w] # NewJob
    BY <1>1 DEF IInv, PoolInv, Pool!ExclusiveLease
<1> QED BY <1>1, <1>2, <1>3 DEF Owed, About, Active, Within

\* An expiry stays begun until it leaves these places.
LEMMA BegunLasts ==
    ASSUME IInv, [Next]_vars, NEW p \in PlanIds, NEW places \in SUBSET ToTell, Begun(p, places)
    PROVE  \/ Begun(p, places)'
           \/ \E w \in Workers : /\ PlanOf(w) = p /\ RunnerStep(w)
                                 /\ pc[w] \in places /\ pc'[w] \notin places
<1>1. PICK j \in JobIds : /\ About(j, "expire_ttl", p) /\ jobStatus[j] = "running"
                          /\ Within(j, places)
    BY DEF Begun
<1>2. About(j, "expire_ttl", p)'
    BY <1>1, AboutStays DEF Kinds
<1>3. jobStatus'[j] = "running"
    BY <1>1, JobMoves DEF Within, MarkJob, ToTell, Cleanup
<1>4. ASSUME NEW w \in Workers, lease'[w] = j, pc'[w] \notin places
      PROVE  PlanOf(w) = p /\ RunnerStep(w) /\ pc[w] \in places
  <2>1. lease[w] = j
      BY <1>1, <1>4, JobMoves
  <2>2. PlanOf(w) = p /\ pc[w] \in places
      BY <1>1, <2>1 DEF About, PlanOf, Within
  <2>3. RunnerStep(w) \/ Crash(w)
      BY <1>4, <2>2, OwnMoves
  <2>4. ~Crash(w)
      BY <1>4, LifecycleAssumption DEF Crash, IInv, PoolInv, Pool!TypeOK
  <2> QED BY <2>2, <2>3, <2>4
<1> QED BY <1>2, <1>3, <1>4 DEF Begun, Within

-----------------------------------------------------------------------------
\* Each part of the invariants is kept.

\* What an expire job is about has been applied, so Kubernetes accepted it.
LEMMA ExpiringRenders ==
    ASSUME IInv, \A p \in PlanIds : StatusOwes(p),
           NEW w \in Workers, pc[w] # "idle", Kind(w) = "expire_ttl"
    PROVE  /\ Renderable(PlanOf(w))
           /\ status[PlanOf(w)] \in {"applying", "applied", "expired"}
           /\ status[PlanOf(w)] = "applying" => Owed(PlanOf(w))
<1>1. About(lease[w], "expire_ttl", PlanOf(w)) /\ lease[w] \in JobIds /\ PlanOf(w) \in PlanIds
      /\ KeyOfPlan(PlanOf(w)) \in Keys
    BY HeldJob DEF About
<1>2. Expirable(PlanOf(w))
    BY <1>1 DEF IInv, ExpiryInv
<1>3. appliedRef[PlanOf(w)] # None /\ applyJob[PlanOf(w)] # None
    BY <1>1, <1>2, LifecycleAssumption DEF Expirable
<1>4. StatusOwes(PlanOf(w)) /\ status[PlanOf(w)] \in Statuses
    BY <1>1 DEF IInv, TypeOK
<1> QED BY <1>3, <1>4 DEF StatusOwes, Statuses

\* A job about p that is in the hands of a Runner here is begun here.
LEMMA BegunHere ==
    ASSUME IInv, [Next]_vars, NEW w \in Workers, NEW places \in SUBSET ToTell,
           lease' = lease, Kind(w) = "expire_ttl", pc[w] \notin {"idle", "ok", "err"},
           pc'[w] \in places
    PROVE  \A p \in PlanIds : p = PlanOf(w) => Begun(p, places)'
<1> SUFFICES ASSUME NEW p \in PlanIds, p = PlanOf(w) PROVE Begun(p, places)'
    OBVIOUS
<1>1. /\ About(lease[w], "expire_ttl", p) /\ lease[w] \in JobIds
      /\ jobStatus[lease[w]] = "running"
    BY HeldJob DEF About
<1>2. About(lease[w], "expire_ttl", p)'
    BY <1>1, AboutStays DEF Kinds, About
<1>3. jobStatus'[lease[w]] = "running"
  <2>1. ASSUME NEW v \in Workers, MarkJob(v), lease[v] = lease[w] PROVE FALSE
    <3>1. v = w
        BY <1>1, <2>1, LifecycleAssumption DEF IInv, PoolInv, Pool!ExclusiveLease
    <3> QED BY <2>1, <3>1 DEF MarkJob
  <2> QED BY <1>1, <2>1, JobMoves
<1>4. \A v \in Workers : lease'[v] = lease[w] => v = w
    BY <1>1, LifecycleAssumption DEF IInv, PoolInv, Pool!ExclusiveLease
<1> QED BY <1>1, <1>2, <1>3, <1>4 DEF Begun, Within, About

\* What a plan has been told or owed carries over a step, unless its apply is
\* recorded by it.
LEMMA DuesLast ==
    ASSUME IInv, errors' = 0, [Next]_vars, NEW p \in PlanIds, Renderable(p),
           Told(p) \/ Owed(p)
    PROVE  Told(p)' \/ Owed(p)' \/ \E w \in Workers : CommitApplied(w) /\ PlanOf(w) = p
<1>1. CASE Told(p)
    BY <1>1, AuditGrows DEF Told
<1>2. CASE Owed(p)
    BY <1>2, OwedLasts
<1> QED BY <1>1, <1>2

\* Every step keeps what the statuses owe.
LEMMA StatusOwesStep ==
    ASSUME IInv, DuesInv, errors' = 0, [Next]_vars, NEW p \in PlanIds
    PROVE  StatusOwes(p)'
<1>a. /\ StatusOwes(p) /\ \A w \in Workers : RunnerOwes(w)
      /\ status \in [PlanIds -> Statuses] /\ appliedRef \in [PlanIds -> Keys \cup {None}]
      /\ applyJob \in [PlanIds -> JobIds \cup {None}] /\ audit \in [PlanIds -> SUBSET AuditActions]
    BY DEF DuesInv, IInv, TypeOK
<1>b. Exists(p) => Renderable(p)' = Renderable(p)
    BY RenderableStays
<1>1. ASSUME status'[p] \in {"absent", "planned"} PROVE applyJob'[p] = None
  <2>1. ASSUME applyJob'[p] # applyJob[p] PROVE status'[p] = "applying"
    <3>1. PICK c \in Calls : ApplyPlanWrite(c)
        BY <2>1, Frames
        DEF PlanIntent, DeadlinePasses, CommitApplied, CommitAppliedFails, RecordFailure,
            ArmDeadline, MarkPlanExpiredOnce, MarkPlanExpiredFails, planVars, vars
    <3> QED BY <2>1, <3>1, <1>a DEF ApplyPlanWrite, SetApplyJobOnce, SetStatus
  <2>2. status[p] \in {"absent", "planned"}
      BY <1>1, CalmStatus
  <2> QED BY <1>1, <1>a, <2>1, <2>2 DEF StatusOwes
<1>2. ASSUME appliedRef'[p] # None PROVE Exists(p)' /\ Renderable(p)'
  <2>1. CASE appliedRef[p] # None
      BY <2>1, <1>a, <1>b, PlansStay DEF StatusOwes
  <2>2. CASE appliedRef[p] = None
    <3>1. PICK w \in Workers : CommitApplied(w)
        BY <1>2, <2>2, Frames, NoCallFails
        DEF PlanIntent, DeadlinePasses, ApplyPlanWrite, RecordFailure, ArmDeadline,
            MarkPlanExpiredOnce, planVars, vars
    <3>2. PlanOf(w) = p /\ pc[w] = "commit"
        BY <1>2, <2>2, <3>1 DEF CommitApplied, SetApplied
    <3>3. Exists(p) /\ Renderable(p)
        BY <1>a, <3>2, HeldJob DEF RunnerOwes
    <3> QED BY <1>b, <3>3, PlansStay
  <2> QED BY <2>1, <2>2
<1>3. ASSUME status'[p] = "apply_failed" PROVE ~Renderable(p)'
  <2>1. CASE status[p] = "apply_failed"
      BY <2>1, <1>a, <1>b DEF StatusOwes, Exists
  <2>2. CASE status[p] # "apply_failed"
    <3>1. PICK w \in Workers : PlanOf(w) = p /\ RecordFailure(w)
        BY <1>3, <2>2, CalmStatus
    <3>2. Exists(p) /\ ~Renderable(p)
        BY <1>a, <3>1, HeldJob DEF RunnerOwes, RecordFailure
    <3> QED BY <1>b, <3>2
  <2> QED BY <2>1, <2>2
<1>4. ASSUME status'[p] = "expired" PROVE Renderable(p)'
  <2>1. CASE status[p] = "expired"
      BY <2>1, <1>a, <1>b DEF StatusOwes, Exists
  <2>2. CASE status[p] # "expired"
    <3>1. PICK w \in Workers : PlanOf(w) = p /\ MarkPlanExpiredOnce(w)
        BY <1>4, <2>2, CalmStatus
    <3>2. Exists(p) /\ Renderable(p)
        BY <3>1, HeldJob, ExpiringRenders DEF DuesInv, MarkPlanExpiredOnce, Expiring
    <3> QED BY <1>b, <3>2
  <2> QED BY <2>1, <2>2
<1>5. ASSUME status'[p] = "applying", Renderable(p)' PROVE Owed(p)'
  <2>1. CASE status[p] = "applying"
    <3>1. Owed(p) /\ Renderable(p)
        BY <1>5, <2>1, <1>a, <1>b DEF StatusOwes, Exists
    <3>2. ASSUME NEW w \in Workers, CommitApplied(w), PlanOf(w) = p PROVE FALSE
        BY <1>5, <3>2, <1>a DEF CommitApplied, SetApplied, SetStatus
    <3> QED BY <3>1, <3>2, OwedLasts
  <2>2. CASE status[p] # "applying"
      BY <1>5, <2>2, CalmStatus, WriteOwes
  <2> QED BY <2>1, <2>2
<1>6. ASSUME status'[p] = "expired" PROVE Told(p)' \/ Owed(p)' \/ Begun(p, ToTell)'
  <2>1. CASE status[p] # "expired"
    <3>1. PICK w \in Workers : /\ PlanOf(w) = p /\ MarkPlanExpiredOnce(w) /\ lease' = lease
                               /\ pc'[w] = "audit_expired"
        BY <1>6, <2>1, CalmStatus
    <3>2. Kind(w) = "expire_ttl" /\ pc[w] = "handle"
        BY <3>1 DEF MarkPlanExpiredOnce, Expiring
    <3> QED BY <3>1, <3>2, BegunHere DEF ToTell, Cleanup
  <2>2. CASE status[p] = "expired" /\ (Told(p) \/ Owed(p))
    <3>1. ASSUME NEW w \in Workers, CommitApplied(w), PlanOf(w) = p PROVE FALSE
        BY <1>6, <3>1, <1>a DEF CommitApplied, SetApplied, SetStatus
    <3> QED BY <2>2, <3>1, <1>a, DuesLast DEF StatusOwes
  <2>3. CASE status[p] = "expired" /\ Begun(p, ToTell) /\ ~(Told(p) \/ Owed(p))
    <3> SUFFICES ASSUME NEW w \in Workers, PlanOf(w) = p, RunnerStep(w),
                        pc[w] \in ToTell, pc'[w] \notin ToTell
                 PROVE  Told(p)'
        BY <2>3, BegunLasts
    <3>1. RunnerOwes(w) /\ pc \in [Workers -> RunnerStates]
        BY <1>a DEF IInv, TypeOK
    <3>2. AppendAudit(w) \/ (DeletePolicy(w) /\ cluster[PolicyOf(p)] = None)
        BY <3>1, NoCallFails
        DEF RunnerStep, LeaseNext, LeaseLost, MarkJob, MarkLost, ApplyPolicy, ApplyPolicyFails,
            Applying, CommitApplied, RecordFailure, ArmDeadline, MarkPlanExpiredOnce, Expiring,
            ListAppliedPlans, RestorePolicy, DeletePolicy, ToTell, Cleanup, Goto, runVars
    <3>3. CASE AppendAudit(w)
      <4>1. pc[w] \in {"audit_rollback", "audit_deleted"}
          BY <3>1, <3>3 DEF AppendAudit, AuditSteps, ToTell, Cleanup, Goto
      <4>2. "ttl_expired" \in audit[p]
          BY <3>1, <4>1 DEF RunnerOwes, ToTell, Cleanup
      <4>3. audit'[p] = audit[p] \cup {AuditSteps[pc[w]][1]}
          BY <3>3, <1>a, NoCallFails DEF Audited
      <4> QED BY <4>1, <4>2, <4>3 DEF Told, AuditSteps
    <3>4. CASE DeletePolicy(w) /\ cluster[PolicyOf(p)] = None
        BY <2>3, <3>1, <3>4, DeletesOwnPolicy DEF RunnerOwes, DeletePolicy
    <3> QED BY <3>2, <3>3, <3>4
  <2> QED BY <2>1, <2>2, <2>3, <1>a DEF StatusOwes
<1> QED BY <1>1, <1>2, <1>3, <1>4, <1>5, <1>6 DEF StatusOwes

\* Writing the policy of a plan leaves it owed its commit.
LEMMA OwedHere ==
    ASSUME IInv, [Next]_vars, NEW w \in Workers, ApplyPolicy(w)
    PROVE  \A p \in PlanIds : p = PlanOf(w) => Owed(p)'
<1> SUFFICES ASSUME NEW p \in PlanIds, p = PlanOf(w) PROVE Owed(p)'
    OBVIOUS
<1>1. /\ About(lease[w], "apply_plan", p) /\ lease[w] \in JobIds
      /\ jobStatus[lease[w]] = "running"
    BY HeldJob DEF About, ApplyPolicy, Applying
<1>2. About(lease[w], "apply_plan", p)' /\ pc'[w] = "commit"
    BY <1>1, AboutStays DEF Kinds, About, ApplyPolicy, Goto, poolVars, IInv, TypeOK
<1>3. /\ jobStatus'[lease[w]] = "running" /\ lease' = lease
      /\ \A v \in Workers : lease[v] = lease[w] => v = w
    BY <1>1, LifecycleAssumption DEF ApplyPolicy, poolVars, IInv, PoolInv, Pool!ExclusiveLease
<1> QED BY <1>1, <1>2, <1>3 DEF Owed, Within, About, Active

\* A plan that is applied, or owed its apply, stays so until it is expired.
LEMMA EnforcedLasts ==
    ASSUME IInv, DuesInv, errors' = 0, [Next]_vars, NEW p \in PlanIds,
           Exists(p), Renderable(p), status[p] = "applied" \/ Owed(p)
    PROVE  status'[p] = "applied" \/ Owed(p)' \/ Begun(p, Cleanup)'
<1>a. status \in [PlanIds -> Statuses] /\ \A w \in Workers : RunnerOwes(w)
    BY DEF DuesInv, IInv, TypeOK
<1>1. CASE status[p] = "applied" /\ status'[p] # "applied"
  <2>1. ASSUME NEW w \in Workers, PlanOf(w) = p, RecordFailure(w) PROVE FALSE
      BY <2>1, <1>a DEF RunnerOwes, RecordFailure
  <2>2. ASSUME NEW w \in Workers, PlanOf(w) = p, MarkPlanExpiredOnce(w), lease' = lease,
               pc'[w] = "audit_expired"
        PROVE  Begun(p, Cleanup)'
      BY <2>2, BegunHere DEF MarkPlanExpiredOnce, Expiring, ToTell, Cleanup
  <2> QED BY <1>1, <2>1, <2>2, CalmStatus, WriteOwes
<1>2. CASE Owed(p)
  <2>1. ASSUME NEW w \in Workers, CommitApplied(w), PlanOf(w) = p PROVE status'[p] = "applied"
      BY <2>1, <1>a DEF CommitApplied, SetApplied, SetStatus
  <2> QED BY <1>2, <2>1, OwedLasts
<1> QED BY <1>1, <1>2

\* Every step keeps what the policies owe.
LEMMA PolicyOwesStep ==
    ASSUME OnePolicyPerIntent, IInv, DuesInv, PoliciesInv, errors' = 0, [Next]_vars, NEW k \in Keys
    PROVE  PolicyOwes(k)'
<1>a. /\ PolicyOwes(k) /\ \A w \in Workers : RunnerOwes(w) /\ RunnerAt(w)
      /\ cluster \in [Keys -> PlanIds \cup {None}] /\ None \notin PlanIds
      /\ revOf \in [PlanIds -> Revisions \cup {None}] /\ target \in [Workers -> PlanIds \cup {None}]
      /\ \A p \in PlanIds : Exists(p) => revOf[p] \in Revisions
    BY LifecycleAssumption DEF DuesInv, PoliciesInv, IInv, RunnerInv, TypeOK, Exists
<1> SUFFICES ASSUME NEW q \in PlanIds, cluster'[k] = q
             PROVE  /\ Exists(q)' /\ KeyOfPlan(q)' = k /\ Renderable(q)'
                    /\ status'[q] = "applied" \/ Owed(q)' \/ Begun(q, Cleanup)'
  <2>1. cluster'[k] \in PlanIds \cup {None}
      BY TypeStep DEF TypeOK
  <2>2. \A q \in PlanIds : q = cluster'[k] =>
            /\ (Exists(q) /\ KeyOfPlan(q) = k /\ Renderable(q))'
                 => (Exists(cluster[k]) /\ KeyOfPlan(cluster[k]) = k /\ Renderable(cluster[k]))'
            /\ (status'[q] = "applied" \/ Owed(q)' \/ Begun(q, Cleanup)')
                 => (status[cluster[k]] = "applied" \/ Owed(cluster[k]) \/ Begun(cluster[k], Cleanup))'
      BY DEF Exists, KeyOfPlan, Renderable, Owed, Begun, About
  <2> QED BY <2>1, <2>2 DEF PolicyOwes
<1> SUFFICES /\ Exists(q) /\ KeyOfPlan(q) = k /\ Renderable(q)
             /\ status'[q] = "applied" \/ Owed(q)' \/ Begun(q, Cleanup)'
    BY PlansStay, RenderableStays
\* A restore writes the policy of its own intent, which is the policy it undoes.
<1>1. ASSUME NEW w \in Workers, RestorePolicy(w)
      PROVE  /\ target[w] \in PlanIds /\ Exists(target[w]) /\ Renderable(target[w])
             /\ KeyOfPlan(target[w]) = KeyOfPlan(PlanOf(w)) /\ KeyOfPlan(target[w]) \in Keys
             /\ status[target[w]] = "applied" \/ Owed(target[w])
             /\ cluster' = [cluster EXCEPT ![KeyOfPlan(target[w])] = target[w]]
  <2>1. /\ target[w] \in PlanIds /\ Exists(target[w]) /\ Renderable(target[w])
        /\ IntentOfPlan(target[w]) = IntentOfPlan(PlanOf(w))
        /\ status[target[w]] = "applied" \/ Owed(target[w])
      BY <1>1, <1>a DEF RestorePolicy, RunnerOwes, RunnerAt
  <2>2. revOf[target[w]] \in Revisions /\ revOf[PlanOf(w)] \in Revisions
      BY <1>1, <1>a, <2>1, HeldJob DEF RestorePolicy
  <2>3. KeyOfPlan(target[w]) = KeyOfPlan(PlanOf(w)) /\ KeyOfPlan(target[w]) \in Keys
      BY <2>1, <2>2, LifecycleAssumption DEF OnePolicyPerIntent, KeyOfPlan, IntentOfPlan
  <2> QED BY <1>1, <2>1, <2>3 DEF RestorePolicy, ApplyNetworkPolicy
<1>2. ASSUME NEW w \in Workers, DeletePolicy(w)
      PROVE  KeyOfPlan(PlanOf(w)) \in Keys /\ cluster' = [cluster EXCEPT ![KeyOfPlan(PlanOf(w))] = None]
    BY <1>2, HeldJob, DeletesOwnPolicy DEF DeletePolicy, DeleteNetworkPolicy
<1>3. CASE cluster'[k] # cluster[k]
  <2>1. PICK w \in Workers : ApplyPolicy(w) \/ RestorePolicy(w) \/ DeletePolicy(w)
      BY <1>3, CalmCluster
  <2>2. CASE ApplyPolicy(w)
    <3>1. q = PlanOf(w) /\ KeyOfPlan(q) = k
        BY <1>3, <1>a, <2>2 DEF ApplyPolicy, ApplyNetworkPolicy
    <3>2. Exists(q) /\ Renderable(q)
        BY <2>2, <3>1, HeldJob DEF ApplyPolicy, Applying, Renderable
    <3> QED BY <2>2, <3>1, <3>2, OwedHere
  <2>3. CASE RestorePolicy(w)
    <3>1. q = target[w] /\ KeyOfPlan(q) = k
        BY <1>1, <1>3, <1>a, <2>3
    <3> QED BY <1>1, <2>3, <3>1, EnforcedLasts
  <2>4. CASE DeletePolicy(w)
      BY <1>2, <1>3, <1>a, <2>4
  <2> QED BY <2>1, <2>2, <2>3, <2>4
<1>4. CASE cluster'[k] = cluster[k]
  <2>1. /\ Exists(q) /\ KeyOfPlan(q) = k /\ Renderable(q)
        /\ status[q] = "applied" \/ Owed(q) \/ Begun(q, Cleanup)
      BY <1>4, <1>a DEF PolicyOwes
  <2>2. ASSUME NEW w \in Workers, PlanOf(w) = q, RunnerStep(w), pc[w] \in Cleanup,
               pc'[w] \notin Cleanup
        PROVE  status[q] = "applied" \/ Owed(q)
    <3>1. RestorePolicy(w) \/ DeletePolicy(w)
        BY <2>2, NoCallFails
        DEF RunnerStep, LeaseNext, LeaseLost, MarkJob, MarkLost, ApplyPolicy, ApplyPolicyFails,
            Applying, CommitApplied, RecordFailure, ArmDeadline, MarkPlanExpiredOnce, Expiring,
            AppendAudit, AuditSteps, ListAppliedPlans, Cleanup, Goto, runVars, IInv, TypeOK
    <3>2. CASE RestorePolicy(w)
        BY <1>1, <1>a, <2>1, <2>2, <3>2
    <3>3. CASE DeletePolicy(w)
        BY <1>2, <1>a, <2>1, <2>2, <3>3
    <3> QED BY <3>1, <3>2, <3>3
  <2>3. CASE status[q] = "applied" \/ Owed(q)
      BY <2>1, <2>3, EnforcedLasts
  <2>4. CASE Begun(q, Cleanup) /\ ~(status[q] = "applied" \/ Owed(q))
    <3>1. Cleanup \in SUBSET ToTell
        BY DEF ToTell
    <3> QED BY <2>1, <2>2, <2>4, <3>1, BegunLasts
  <2> QED BY <2>1, <2>3, <2>4
<1> QED BY <1>3, <1>4

\* Every step of the one worker keeps what its Runner owes.
LEMMA RunnerOwesStep ==
    ASSUME NEW w \in Workers, Workers = {w},
           IInv, EnforcedInv, DuesInv, errors' = 0, [Next]_vars
    PROVE  RunnerOwes(w)'
<1>a. /\ RunnerOwes(w) /\ RunnerAt(w) /\ HandlerEnforces(w) /\ \A p \in PlanIds : StatusOwes(p)
      /\ pc \in [Workers -> RunnerStates] /\ status \in [PlanIds -> Statuses]
      /\ audit \in [PlanIds -> SUBSET AuditActions] /\ target \in [Workers -> PlanIds \cup {None}]
    BY DEF DuesInv, EnforcedInv, IInv, RunnerInv, TypeOK
<1>b. ASSUME NEW p \in PlanIds, Exists(p)
      PROVE  /\ Renderable(p)' = Renderable(p) /\ KeyOfPlan(p)' = KeyOfPlan(p)
             /\ IntentOfPlan(p)' = IntentOfPlan(p)
    BY <1>b, RenderableStays
\* A Runner that goes to none of these places owes nothing.
<1> DEFINE Places == {"commit", "record"} \cup ToTell
<1>c. pc'[w] \notin Places => RunnerOwes(w)'
    BY DEF RunnerOwes, ToTell, Cleanup
<1>d. \/ QuietStep
      \/ LeaseNext(w) \/ MarkJob(w) \/ MarkLost(w) \/ Crash(w) \/ ArmDeadline(w)
      \/ RecordFailure(w) \/ CommitApplied(w) \/ DeletePolicy(w) \/ RestorePolicy(w)
      \/ ApplyPolicy(w) \/ ApplyPolicyFails(w) \/ MarkPlanExpiredOnce(w) \/ AppendAudit(w)
      \/ ListAppliedPlans(w)
    BY Moves, NoCallFails DEF RunnerStep
<1> SUFFICES ASSUME pc'[w] \in Places PROVE RunnerOwes(w)'
    BY <1>c
<1> USE <1>a DEF Goto, ToTell, Cleanup, AuditSteps
<1>e. pc[w] # "idle" /\ lease'[w] = lease[w]
    BY <1>d DEF QuietStep, LeaseNext, MarkJob, MarkLost, Crash, ArmDeadline, RecordFailure,
                CommitApplied, DeletePolicy, RestorePolicy, ApplyPolicy, ApplyPolicyFails, Applying,
                MarkPlanExpiredOnce, Expiring, AppendAudit, ListAppliedPlans, poolVars
<1> SUFFICES ASSUME NEW p \in PlanIds, p = PlanOf(w), PlanOf(w)' = p, Exists(p),
                    KeyOfPlan(p)' = KeyOfPlan(p), IntentOfPlan(p)' = IntentOfPlan(p),
                    Renderable(p)' = Renderable(p)
             PROVE  RunnerOwes(w)'
    BY <1>b, <1>e, InHandStays
<1>1. ASSUME pc'[w] = "commit" PROVE Renderable(p)
    BY <1>1, <1>d DEF QuietStep, LeaseNext, MarkJob, MarkLost, Crash, ArmDeadline, RecordFailure,
                CommitApplied, DeletePolicy, RestorePolicy, ApplyPolicy, ApplyPolicyFails,
                MarkPlanExpiredOnce, AppendAudit, ListAppliedPlans, RunnerOwes, Renderable
<1>2. ASSUME pc'[w] = "record" PROVE ~Renderable(p)
  <2>1. QuietStep \/ ApplyPolicyFails(w)
      BY <1>2, <1>d DEF LeaseNext, MarkJob, MarkLost, Crash, ArmDeadline, RecordFailure,
                CommitApplied, DeletePolicy, RestorePolicy, ApplyPolicy,
                MarkPlanExpiredOnce, AppendAudit, ListAppliedPlans
  <2> QED BY <1>2, <2>1, NoCallFails DEF QuietStep, RunnerOwes
<1>3. ASSUME pc'[w] = "restore", NEW t \in PlanIds, t = target'[w]
      PROVE  /\ Renderable(t)' /\ IntentOfPlan(t)' = IntentOfPlan(p)
             /\ status'[t] = "applied" \/ Owed(t)'
  <2>1. QuietStep \/ ListAppliedPlans(w)
      BY <1>3, <1>d DEF LeaseNext, MarkJob, MarkLost, Crash, ArmDeadline, RecordFailure,
                CommitApplied, DeletePolicy, RestorePolicy, ApplyPolicy, ApplyPolicyFails,
                MarkPlanExpiredOnce, AppendAudit
  <2>2. CASE QuietStep
    <3>1. pc[w] = "restore" /\ t = target[w]
        BY <1>3, <2>2 DEF QuietStep
    <3>2. /\ Exists(t) /\ Renderable(t) /\ IntentOfPlan(t) = IntentOfPlan(p)
          /\ status[t] = "applied" \/ Owed(t)
        BY <3>1 DEF RunnerOwes, RunnerAt
    <3>3. status[t] = "applied" => status'[t] = "applied" \/ Owed(t)'
        BY <2>2, CalmStatus, WriteOwes DEF QuietStep
    <3>4. Owed(t) => Owed(t)'
        BY <3>1, <3>2, OwedLasts DEF CommitApplied
    <3> QED BY <1>b, <3>2, <3>3, <3>4
  <2>3. CASE ListAppliedPlans(w)
    <3>1. status[t] = "applied" /\ IntentOfPlan(t) = IntentOfPlan(p) /\ status' = status
        BY <1>3, <2>3 DEF ListAppliedPlans, IsNewest, AppliedPlans, planVars
    <3>2. Exists(t) /\ appliedRef[t] = KeyOfPlan(t) /\ KeyOfPlan(t) \in Keys
        BY <3>1, LifecycleAssumption DEF IInv, ExpiryInv, TypeOK, Exists, KeyOfPlan
    <3>3. Renderable(t)
        BY <3>2, LifecycleAssumption DEF StatusOwes
    <3> QED BY <1>b, <3>1, <3>2, <3>3
  <2> QED BY <2>1, <2>2, <2>3
<1>4. ASSUME pc'[w] \in {"audit_expired", "list", "delete"}
      PROVE  cluster'[KeyOfPlan(p)] # None \/ Told(p)' \/ Owed(p)'
  <2>1. QuietStep \/ MarkPlanExpiredOnce(w) \/ AppendAudit(w) \/ ListAppliedPlans(w)
      BY <1>4, <1>d DEF LeaseNext, MarkJob, MarkLost, Crash, ArmDeadline, RecordFailure,
                CommitApplied, DeletePolicy, RestorePolicy, ApplyPolicy, ApplyPolicyFails
  <2>2. cluster' = cluster /\ ~CommitApplied(w) /\ Kind(w) = "expire_ttl"
      BY <1>4, <2>1 DEF QuietStep, MarkPlanExpiredOnce, AppendAudit, ListAppliedPlans, Expiring,
                CommitApplied, RunnerAt
  <2>3. Renderable(p)
      BY <1>e, <2>2, ExpiringRenders
  <2>4. cluster[KeyOfPlan(p)] # None \/ Told(p) \/ Owed(p)
    <3>1. CASE MarkPlanExpiredOnce(w)
      <4>1. status[p] # "expired"
          BY <1>4, <3>1 DEF MarkPlanExpiredOnce
      <4> QED BY <1>e, <2>2, <4>1, ExpiringRenders DEF EnforcedInv, AppliedIsEnforced
    <3>2. CASE QuietStep \/ AppendAudit(w) \/ ListAppliedPlans(w)
        BY <1>4, <3>2 DEF QuietStep, AppendAudit, ListAppliedPlans, RunnerOwes
    <3> QED BY <2>1, <3>1, <3>2
  <2> QED BY <2>2, <2>3, <2>4, DuesLast
<1>5. ASSUME pc'[w] \in ToTell \ {"audit_expired"} PROVE "ttl_expired" \in audit'[p]
  <2>1. CASE AppendAudit(w) /\ pc[w] = "audit_expired"
      BY <2>1, NoCallFails DEF Audited
  <2>2. CASE ~(AppendAudit(w) /\ pc[w] = "audit_expired")
    <3>1. "ttl_expired" \in audit[p]
        BY <1>5, <1>d, <2>2
        DEF QuietStep, LeaseNext, MarkJob, MarkLost, Crash, ArmDeadline, RecordFailure,
            CommitApplied, DeletePolicy, RestorePolicy, ApplyPolicy, ApplyPolicyFails,
            MarkPlanExpiredOnce, AppendAudit, ListAppliedPlans, RunnerOwes
    <3> QED BY <3>1, AuditGrows
  <2> QED BY <2>1, <2>2
<1>6. pc'[w] = "restore" => target'[w] \in PlanIds
    BY RunnerStepInv, TypeStep DEF RunnerInv, RunnerAt, TypeOK
<1>7. \A t \in PlanIds : t = target'[w] /\ Renderable(t)' /\ IntentOfPlan(t)' = IntentOfPlan(p)
                         /\ (status'[t] = "applied" \/ Owed(t)')
          => /\ Renderable(target[w])' /\ IntentOfPlan(target[w])' = IntentOfPlan(PlanOf(w))'
             /\ (status[target[w]] = "applied" \/ Owed(target[w]))'
  <2>1. IntentOfPlan(PlanOf(w))' = IntentOfPlan(p)'
      BY DEF IntentOfPlan
  <2> QED BY <2>1 DEF Renderable, IntentOfPlan, Owed, About
<1>8. /\ Renderable(PlanOf(w))' = Renderable(p)' /\ KeyOfPlan(PlanOf(w))' = KeyOfPlan(p)'
      /\ Told(PlanOf(w))' = Told(p)' /\ Owed(PlanOf(w))' = Owed(p)'
    BY DEF Renderable, KeyOfPlan, Told, Owed, About
<1> QED BY <1>1, <1>2, <1>3, <1>4, <1>5, <1>6, <1>7, <1>8 DEF RunnerOwes

\* Initially nothing is planned, written or in hand.
LEMMA DuesInit == Init => DuesInv /\ PoliciesInv
<1> SUFFICES ASSUME Init PROVE DuesInv /\ PoliciesInv
    OBVIOUS
<1>1. \A p \in PlanIds : StatusOwes(p)
    BY DEF Init, StatusOwes
<1>2. \A k \in Keys : PolicyOwes(k)
    BY DEF Init, PolicyOwes
<1>3. \A w \in Workers : RunnerOwes(w)
    BY DEF Init, RunnerOwes, ToTell, Cleanup
<1> QED BY <1>1, <1>2, <1>3 DEF DuesInv, PoliciesInv

\* What is owed by statuses and Runners is kept up until a call fails.
LEMMA DuesAreKept ==
    ASSUME NEW w \in Workers, Workers = {w}, OneIntentPerPolicy
    PROVE  Spec => [](IInv /\ (errors = 0 => DuesInv))
<1>1. Init => EnforcedInv /\ DuesInv
    BY EnforcedInit, DuesInit
<1>2. IInv /\ EnforcedInv /\ [Next]_vars => EnforcedInv'
    BY EnforcedStep
<1>3. IInv /\ EnforcedInv /\ (errors = 0 => DuesInv) /\ [Next]_vars => (errors = 0 => DuesInv)'
  <2> SUFFICES ASSUME IInv, EnforcedInv, errors = 0 => DuesInv, [Next]_vars, errors' = 0
               PROVE  DuesInv'
      OBVIOUS
  <2>1. DuesInv
      BY NoErrorYet
  <2>2. \A p \in PlanIds : StatusOwes(p)'
      BY <2>1, StatusOwesStep
  <2>3. RunnerOwes(w)'
      BY <2>1, RunnerOwesStep
  <2> QED BY <2>2, <2>3 DEF DuesInv
<1> QED BY <1>1, <1>2, <1>3, LifecycleIsSafe, PTL DEF Spec

\* Once no job about a policy is active, nothing about its plans is owed.
LEMMA NothingOwed ==
    ASSUME NEW p \in PlanIds, Settled(KeyOfPlan(p)), NEW places
    PROVE  ~Owed(p) /\ ~Begun(p, places)
BY DEF Settled, Owed, Begun, About, Active

\* With one worker, as long as no call has failed, the audit trail of an expired
\* plan says that it expired and what became of its policy, once no job about
\* the policy is active, whenever the worker dies (the audit transactions of
\* ExpireTTLWorker.Handle, which follow the status in transactions of their
\* own). It needs that no two intents write a policy of one name, which the code
\* does not enforce: else the delete of the second to expire gets NotFound, the
\* retry stops at the gate, and what became of its policy is never audited.
THEOREM ExpiriesAreAudited ==
    ASSUME NEW w \in Workers, Workers = {w}, OneIntentPerPolicy
    PROVE  Spec => []ExpiryIsAudited
<1>1. (errors = 0 => DuesInv) => ExpiryIsAudited
  <2> SUFFICES ASSUME DuesInv, NEW p \in PlanIds, status[p] = "expired", Settled(KeyOfPlan(p))
               PROVE  Told(p)
      BY DEF ExpiryIsAudited, Told
  <2> QED BY NothingOwed DEF DuesInv, StatusOwes
<1> QED BY <1>1, DuesAreKept, PTL

\* With one worker, as long as no call has failed, a policy that no job is about
\* is the policy of an applied plan, through every order of requests, retries,
\* expiries and rollbacks, and whenever the worker dies: nothing enforces a plan
\* that is expired, failed or not yet applied (ApplyWorker.Handle,
\* ExpireTTLWorker.Handle). It needs that the revisions of an intent write one
\* policy: a rollback to another one leaves the expired policy behind.
THEOREM EnforcedPlansAreApplied ==
    ASSUME NEW w \in Workers, Workers = {w}, OneIntentPerPolicy, OnePolicyPerIntent
    PROVE  Spec => []EnforcedIsApplied
<1>1. Init => PoliciesInv
    BY DuesInit
<1>2. /\ IInv /\ (errors = 0 => DuesInv) /\ (errors = 0 => PoliciesInv) /\ [Next]_vars
      => (errors = 0 => PoliciesInv)'
    BY NoErrorYet, PolicyOwesStep DEF PoliciesInv
<1>3. IInv /\ (errors = 0 => PoliciesInv) => EnforcedIsApplied
  <2> SUFFICES ASSUME IInv, PoliciesInv, NEW k \in Keys, Settled(k), cluster[k] # None
               PROVE  status[cluster[k]] = "applied"
      BY DEF EnforcedIsApplied
  <2>1. cluster[k] \in PlanIds /\ PolicyOwes(k)
      BY DEF PoliciesInv, IInv, TypeOK
  <2> QED BY <2>1, NothingOwed DEF PolicyOwes
<1> QED BY <1>1, <1>2, <1>3, DuesAreKept, PTL DEF Spec
=============================================================================
