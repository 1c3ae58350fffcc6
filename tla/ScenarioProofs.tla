--------------------------- MODULE ScenarioProofs ---------------------------
(***************************************************************************)
(* Theorems about the end-to-end scenarios beside any number of workers:   *)
(* how one can fail, and that the result of one that is ok stands.         *)
(***************************************************************************)
EXTENDS Scenarios, PlanLifecycleProofs

\* Some step of the script s before its step m does op with the plan p.
EarlierStep(s, m, op, p) ==
    \E n \in 1..Len(s) : n < m /\ s[n].op = op /\ s[n].plan = p

\* ... makes the plan p of the revision r.
EarlierPlan(s, m, p, r) ==
    \E n \in 1..Len(s) : n < m /\ s[n].op = "plan" /\ s[n].plan = p /\ s[n].arg = r

\* A script numbers its plans as the system does, and looks back at steps that
\* it has made.
WellMade(s) ==
    \A m \in 1..Len(s) :
        LET p == s[m].plan IN
        /\ s[m].op # "plan" => EarlierStep(s, m, "plan", p)
        /\ s[m].op = "plan" =>
             /\ p \in Nat \ {0} /\ s[m].arg \in {Base, Brief}
             /\ \A q \in Nat : EarlierStep(s, m, "plan", q) <=> q \in 1..(p - 1)
        /\ s[m].op = "force" => s[m].arg = Brief
        /\ s[m].op = "has_deadline" =>
             s[m].arg = Brief /\ EarlierStep(s, m, "applied", p) /\ EarlierPlan(s, m, p, Brief)
        /\ s[m].op \in {"remember", "compare"} => EarlierStep(s, m, "applied", p)
        /\ s[m].op = "compare" => EarlierStep(s, m, "remember", p) /\ EarlierPlan(s, m, p, Base)
        /\ s[m].op = "remember" => \A n \in 1..Len(s) : s[n].op = "remember" => n = m

\* At its end a script has seen every plan applied, and those with a TTL
\* expired and cleaned up.
WellEnded(s) ==
    \A m \in 1..Len(s) : s[m].op = "plan" =>
        LET p == s[m].plan IN
        /\ EarlierStep(s, Len(s) + 1, "applied", p)
        /\ s[m].arg = Brief =>
             /\ EarlierStep(s, Len(s) + 1, "expired", p)
             /\ \E n \in 1..Len(s) : /\ s[n].op = "audited" /\ s[n].plan = p
                                     /\ s[n].arg \in {"rollback_done", "ttl_deleted"}

Well(s) == WellMade(s) /\ WellEnded(s) /\ Len(s) \in Nat \ {0}

\* The fields of a step.
LEMMA StepFields == \A op, p, arg :
    Step(op, p, arg).op = op /\ Step(op, p, arg).plan = p /\ Step(op, p, arg).arg = arg
BY DEF Step

\* happy is well made and well ended; so are the other three.
LEMMA HappyWell == Well(Happy)
<1>1. /\ Len(Happy) = 5
      /\ Happy[1] = Step("plan", 1, Base) /\ Happy[2] = Step("apply", 1, None)
      /\ Happy[3] = Step("applied", 1, None) /\ Happy[4] = Step("exposed", 1, Base)
      /\ Happy[5] = Step("audited", 1, "apply_done")
    BY DEF Happy, CreateAndApply
<1>2. Base # Brief
    BY ScenarioAssumption
<1>3. WellMade(Happy)
    BY <1>1, StepFields DEF WellMade, EarlierStep, EarlierPlan
<1>4. WellEnded(Happy)
    BY <1>1, <1>2, StepFields DEF WellEnded, EarlierStep
<1> QED BY <1>1, <1>3, <1>4 DEF Well

\* ttl-delete passes its deadline before it waits for the expiry.
LEMMA DeleteWell == Well(TTLDelete)
<1>1. /\ Len(TTLDelete) = 9
      /\ TTLDelete[1] = Step("plan", 1, Brief) /\ TTLDelete[2] = Step("apply", 1, None)
      /\ TTLDelete[3] = Step("applied", 1, None) /\ TTLDelete[4] = Step("has_deadline", 1, Brief)
      /\ TTLDelete[5] = Step("force", 1, Brief) /\ TTLDelete[6] = Step("expired", 1, None)
      /\ TTLDelete[7] = Step("deleted", 1, None) /\ TTLDelete[8] = Step("audited", 1, "ttl_expired")
      /\ TTLDelete[9] = Step("audited", 1, "ttl_deleted")
    BY DEF TTLDelete, CreateAndApply
<1>3. WellMade(TTLDelete)
    BY <1>1, StepFields DEF WellMade, EarlierStep, EarlierPlan
<1>4. WellEnded(TTLDelete)
    BY <1>1, StepFields DEF WellEnded, EarlierStep
<1> QED BY <1>1, <1>3, <1>4 DEF Well

\* ttl-rollback makes its second plan once the first is applied.
LEMMA RollbackWell == Well(TTLRollback)
<1>1. /\ Len(TTLRollback) = 13
      /\ TTLRollback[1] = Step("plan", 1, Base) /\ TTLRollback[2] = Step("apply", 1, None)
      /\ TTLRollback[3] = Step("applied", 1, None) /\ TTLRollback[4] = Step("exposed", 1, Base)
      /\ TTLRollback[5] = Step("plan", 2, Brief) /\ TTLRollback[6] = Step("apply", 2, None)
      /\ TTLRollback[7] = Step("applied", 2, None) /\ TTLRollback[8] = Step("exposed", 2, Brief)
      /\ TTLRollback[9] = Step("force", 2, Brief) /\ TTLRollback[10] = Step("expired", 2, None)
      /\ TTLRollback[11] = Step("exposed", 2, Base) /\ TTLRollback[12] = Step("unexposed", 2, Brief)
      /\ TTLRollback[13] = Step("audited", 2, "rollback_done")
    BY DEF TTLRollback, CreateAndApply
<1>2. Base # Brief
    BY ScenarioAssumption
<1>3. WellMade(TTLRollback)
    BY <1>1, StepFields DEF WellMade, EarlierStep, EarlierPlan
<1>4. WellEnded(TTLRollback)
    BY <1>1, <1>2, StepFields DEF WellEnded, EarlierStep
<1> QED BY <1>1, <1>3, <1>4 DEF Well

\* idempotency compares what it has remembered of the same plan.
LEMMA IdempotencyWell == Well(Idempotency)
<1>1. /\ Len(Idempotency) = 7
      /\ Idempotency[1] = Step("plan", 1, Base) /\ Idempotency[2] = Step("apply", 1, None)
      /\ Idempotency[3] = Step("applied", 1, None) /\ Idempotency[4] = Step("remember", 1, None)
      /\ Idempotency[5] = Step("apply", 1, None) /\ Idempotency[6] = Step("compare", 1, None)
      /\ Idempotency[7] = Step("exposed", 1, Base)
    BY DEF Idempotency, CreateAndApply
<1>2. Base # Brief
    BY ScenarioAssumption
<1>3. WellMade(Idempotency)
    BY <1>1, StepFields DEF WellMade, EarlierStep, EarlierPlan
<1>4. WellEnded(Idempotency)
    BY <1>1, <1>2, StepFields DEF WellEnded, EarlierStep
<1> QED BY <1>1, <1>3, <1>4 DEF Well

\* Whichever scenario runs, its script is well made and well ended.
LEMMA ScriptsWell == \A s \in Scripts : Well(s)
BY HappyWell, DeleteWell, RollbackWell, IdempotencyWell DEF Scripts
-----------------------------------------------------------------------------
\* The step m of the script has been made.
Done(m) == m < at \/ result = "ok"

DoneStep(op, p) ==
    \E m \in 1..Len(script) : Done(m) /\ script[m].op = op /\ script[m].plan = p

Over == {"applied", "expired"}

\* A worker has applied p and is about to write its deadline.
Arming(p) == \E w \in Workers : pc[w] = "arm" /\ PlanOf(w) = p

CleanedUp(p) == audit[p] \cap {"rollback_done", "ttl_deleted"} # {}

ScriptInv ==
    /\ script \in Scripts /\ at \in 1..Len(script)
    /\ result \in {"running", "ok", "failed"}

\* The plans that exist are the plans that the script has made.
MadeInv ==
    /\ \A p \in PlanIds : Exists(p) <=> DoneStep("plan", p)
    /\ \A m \in 1..Len(script) : Done(m) /\ script[m].op = "plan" =>
         script[m].plan \in PlanIds /\ revOf[script[m].plan] = script[m].arg

\* The driver makes one call at a time, so a plan has one apply job.
OneJobInv ==
    /\ \A c \in Calls : call[c] # None =>
         c = Client /\ Doing("apply") /\ call[c] = Plan /\ applyJob[call[c]] = None
    /\ \A j \in JobIds, p \in PlanIds : About(j, "apply_plan", p) => applyJob[p] = j

\* What the driver remembers or has seen audited is so.
SeenInv ==
    \A m \in 1..Len(script), p \in PlanIds : Done(m) /\ script[m].plan = p =>
        /\ script[m].op = "remember" => applyJob[p] # None /\ before = Observed(p)
        /\ script[m].op = "audited" => script[m].arg \in audit[p]

DeadlineInv == \A r \in Revisions : deadline[r] # "unset" => r \in TtlRevisions

ScenarioInv == IInv /\ ScriptInv /\ MadeInv /\ OneJobInv /\ SeenInv /\ DeadlineInv

\* As long as no call has failed: what a plan has become it stays, with its
\* apply job past the commit, or becomes expired.
CalmPlan(p) ==
    /\ status[p] # "apply_failed"
    /\ appliedRef[p] # None => status[p] \in Over
    /\ status[p] \in Over =>
         \A j \in JobIds : About(j, "apply_plan", p) =>
             jobStatus[j] # "queued" /\ Within(j, {"arm", "ok"})
    /\ status[p] = "applied" /\ revOf[p] \in TtlRevisions =>
         deadline[revOf[p]] # "unset" \/ Arming(p)
    /\ DoneStep("applied", p) => status[p] \in Over
    /\ DoneStep("expired", p) => status[p] = "expired"
    /\ CleanedUp(p) =>
         status[p] = "expired" /\ \A w \in Workers : pc[w] \in ToTell => PlanOf(w) # p

\* ... and one Runner at most cleans up after it.
CalmRunner(w) ==
    /\ pc[w] # "record"
    /\ pc[w] \in ToTell =>
         /\ status[PlanOf(w)] = "expired"
         /\ \A v \in Workers : pc[v] \in ToTell /\ PlanOf(v) = PlanOf(w) => v = w

CalmInv ==
    /\ \A p \in PlanIds : CalmPlan(p)
    /\ \A w \in Workers : CalmRunner(w)

-----------------------------------------------------------------------------
\* The steps of the driver, and those of the workers.

\* The script is well made, and the driver plans only its two revisions.
LEMMA ScriptIs ==
    ASSUME ScriptInv
    PROVE  /\ WellMade(script) /\ WellEnded(script) /\ Len(script) \in Nat /\ at \in 1..Len(script)
           /\ Doing("plan") => Arg \in Revisions \ Unrenderable /\ Plan \in Nat \ {0}
<1>1. Well(script) /\ at \in 1..Len(script)
    BY ScriptsWell DEF ScriptInv
<1>2. /\ at \in 1..Len(script) /\ WellMade(script)
    BY <1>1 DEF Well
<1>3. script[at].op = "plan" => script[at].arg \in {Base, Brief} /\ script[at].plan \in Nat \ {0}
    BY <1>2 DEF WellMade
<1>4. Doing("plan") => Arg \in Revisions \ Unrenderable /\ Plan \in Nat \ {0}
    BY <1>3, ScenarioAssumption, LifecycleAssumption DEF Doing, Arg, Plan
<1> QED BY <1>1, <1>4 DEF Well

\* The driver makes a plan before it does anything with it.
LEMMA PlanIsMade ==
    ASSUME ScenarioInv, result = "running", script[at].op # "plan"
    PROVE  Plan \in PlanIds /\ Exists(Plan)
<1>1. EarlierStep(script, at, "plan", Plan)
    BY ScriptIs DEF WellMade, Plan, ScenarioInv
<1> QED BY <1>1 DEF EarlierStep, ScenarioInv, MadeInv, DoneStep, Done

\* The driver moves no Runner and writes no policy. Its steps are steps of
\* PlanLifecycle, apart from the deadline it forces.
LEMMA DriverLeaves ==
    ASSUME ScenarioInv, ClientStep
    PROVE  /\ UNCHANGED <<pc, target, lease, cluster, appliedRef, errors>>
           /\ result = "running"
           /\ ForceExpired \/ (Next /\ UNCHANGED deadline) \/ UNCHANGED vars
           /\ \A p \in PlanIds : CleanedUp(p)' = CleanedUp(p)
<1>a. audit \in [PlanIds -> SUBSET AuditActions]
    BY DEF ScenarioInv, IInv, TypeOK
<1> USE <1>a DEF CleanedUp, Audited, planVars, runVars, poolVars, failVars, Doing
<1>1. CASE CreatePlan
  <2>1. Arg \in Revisions /\ PlanIntent(Arg) /\ result = "running"
      BY <1>1, ScriptIs DEF CreatePlan, ScenarioInv
  <2>2. /\ UNCHANGED <<pc, target, lease, cluster, appliedRef, errors, deadline>>
        /\ \A p \in PlanIds : CleanedUp(p)' = CleanedUp(p)
      BY <2>1 DEF PlanIntent
  <2> QED BY <2>1, <2>2 DEF Next, ApiStep
<1>2. CASE Apply
  <2>1. CASE UNCHANGED vars
      BY <1>2, <2>1 DEF Apply, vars
  <2>2. CASE ApplyPlanRead(Client, Plan)
    <3>1. /\ UNCHANGED <<pc, target, lease, cluster, appliedRef, errors, deadline, audit>>
        BY <2>2 DEF ApplyPlanRead
    <3>2. Plan \in PlanIds
      <4>1. result = "running" /\ script[at].op # "plan"
          BY <1>2 DEF Apply
      <4> QED BY <4>1, PlanIsMade
    <3>3. Next
        BY <2>2, <3>2, ScenarioAssumption DEF Next, ApiStep
    <3> QED BY <1>2, <3>1, <3>3 DEF Apply
  <2>3. CASE ApplyPlanWrite(Client)
    <3>1. UNCHANGED <<pc, target, lease, cluster, appliedRef, errors, deadline>>
        BY <2>3 DEF ApplyPlanWrite, Pool!Enqueue
    <3>2. \A p \in PlanIds : CleanedUp(p)' = CleanedUp(p)
        BY <2>3 DEF ApplyPlanWrite
    <3> QED BY <1>2, <2>3, <3>1, <3>2, ScenarioAssumption DEF Next, ApiStep, Apply
  <2> QED BY <1>2, <2>1, <2>2, <2>3 DEF Apply
<1>3. CASE ForceExpired
    BY <1>3 DEF ForceExpired
<1>4. CASE WaitApplied \/ WaitExpired \/ WaitPolicy \/ WaitAudit \/ CheckDeadline
           \/ Remember \/ Compare
  <2>1. UNCHANGED vars /\ result = "running"
      BY <1>4 DEF WaitApplied, WaitExpired, WaitPolicy, WaitAudit, CheckDeadline, Remember, Compare
  <2> QED BY <2>1 DEF vars
<1> QED BY <1>1, <1>2, <1>3, <1>4 DEF ClientStep

\* The worker plans nothing, queues no apply and holds no request, and a
\* deadline that it writes is one of a revision with a TTL.
LEMMA WorkerLeaves ==
    ASSUME IInv, NEW w \in Workers, WorkerStep(w)
    PROVE  /\ Next /\ UNCHANGED scriptVars
           /\ UNCHANGED <<revOf, applyJob, call>>
           /\ \A p \in PlanIds : Exists(p)' <=> Exists(p)
           /\ \A r \in Revisions : /\ deadline[r] # "unset" => deadline'[r] # "unset"
                                   /\ deadline'[r] # "unset" => deadline[r] # "unset" \/ r \in TtlRevisions
           /\ \A c \in Calls : ~ApplyPlanWrite(c)
<1>a. /\ status \in [PlanIds -> Statuses] /\ deadline \in [Revisions -> {"unset", "armed", "passed"}]
      /\ call \in [Calls -> PlanIds \cup {None}]
    BY DEF IInv, TypeOK
<1>b. Next /\ UNCHANGED scriptVars
    BY DEF WorkerStep, Next
<1> USE <1>a DEF planVars, Exists, SetStatus
<1> DEFINE Goal ==
       /\ UNCHANGED <<revOf, applyJob, call>>
       /\ \A p \in PlanIds : Exists(p)' <=> Exists(p)
       /\ \A r \in Revisions : /\ deadline[r] # "unset" => deadline'[r] # "unset"
                               /\ deadline'[r] # "unset" => deadline[r] # "unset" \/ r \in TtlRevisions
<1>1. ASSUME \/ LeaseNext(w) \/ LeaseLost(w) \/ GetPlanFails(w) \/ MarkJob(w) \/ MarkLost(w)
             \/ ApplyPolicy(w) \/ ApplyPolicyFails(w) \/ AppendAudit(w) \/ ListAppliedPlans(w)
             \/ RestorePolicy(w) \/ DeletePolicy(w) \/ CleanupFails(w) \/ TickStep(w)
      PROVE  Goal
  <2>1. UNCHANGED <<status, revOf, applyJob, call, deadline>>
      BY <1>1 DEF LeaseNext, LeaseLost, GetPlanFails, MarkJob, MarkLost, ApplyPolicy, ApplyPolicyFails,
                  AppendAudit, ListAppliedPlans, RestorePolicy, DeletePolicy, CleanupFails,
                  TickStep, TickList, TickFind, TickEnqueue
  <2> QED BY <2>1
<1>2. ASSUME CommitApplied(w) \/ CommitAppliedFails(w) \/ RecordFailure(w) PROVE Goal
  <2>1. PlanOf(w) \in PlanIds /\ Exists(PlanOf(w))
      BY <1>2, HeldJob DEF CommitApplied, CommitAppliedFails, RecordFailure
  <2> QED BY <1>2, <2>1 DEF CommitApplied, CommitAppliedFails, SetApplied, RecordFailure
<1>3. ASSUME MarkPlanExpiredOnce(w) \/ MarkPlanExpiredFails(w) PROVE Goal
  <2>1. PlanOf(w) \in PlanIds /\ Exists(PlanOf(w))
      BY <1>3, HeldJob DEF MarkPlanExpiredOnce, MarkPlanExpiredFails, Expiring
  <2> QED BY <1>3, <2>1 DEF MarkPlanExpiredOnce, MarkPlanExpiredFails
<1>4. ASSUME ArmDeadline(w) PROVE Goal
    BY <1>4 DEF ArmDeadline, SetNotAfterOnFirstApply
<1>5. Goal
    BY <1>1, <1>2, <1>3, <1>4 DEF WorkerStep, RunnerStep
<1>6. ASSUME NEW c \in Calls, ApplyPlanWrite(c) PROVE FALSE
    BY <1>5, <1>6 DEF ApplyPlanWrite
<1> QED BY <1>b, <1>5, <1>6

\* Forcing the deadline of the brief revision changes nothing else.
LEMMA ForceLeaves ==
    ASSUME ScenarioInv, ForceExpired
    PROVE  /\ Brief \in TtlRevisions /\ TtlRevisions \subseteq Revisions
           /\ deadline' = [deadline EXCEPT ![Brief] = "passed"]
           /\ UNCHANGED <<planVars, cluster, call, runVars, ttlVars, audit, failVars, poolVars>>
<1>1. Arg = Brief
    BY ScriptIs DEF ScenarioInv, ForceExpired, Doing, WellMade, Arg
<1> QED BY <1>1, ScenarioAssumption, LifecycleAssumption DEF ForceExpired

\* Every step of a scenario, that one included, keeps the invariant of
\* PlanLifecycle.
LEMMA ScenarioSteps ==
    ASSUME ScenarioInv, [ScenarioNext]_allVars
    PROVE  /\ IInv'
           /\ ForceExpired \/ [Next]_vars
<1>1. ForceExpired \/ [Next]_vars
    BY DriverLeaves, WorkerLeaves DEF ScenarioNext, ScenarioInv, allVars
<1>2. CASE ForceExpired
  <2>a. /\ Brief \in TtlRevisions /\ TtlRevisions \subseteq Revisions
        /\ deadline' = [deadline EXCEPT ![Brief] = "passed"]
        /\ UNCHANGED <<planVars, cluster, call, runVars, ttlVars, audit, failVars, poolVars>>
        /\ IInv
      BY <1>2, ForceLeaves DEF ScenarioInv
  <2>b. deadline' \in [Revisions -> {"unset", "armed", "passed"}]
      BY <2>a DEF IInv, TypeOK
  <2>c. \A r \in Revisions : deadline[r] = "passed" => deadline'[r] = "passed"
      BY <2>a DEF IInv, TypeOK
  <2> USE <2>a DEF planVars, runVars, ttlVars, failVars, poolVars
  <2>1. TypeOK'
      BY <2>b DEF IInv, TypeOK, Pool!TypeOK
  <2>2. PoolInv'
      BY DEF IInv, PoolInv, Pool!TypeOK, Pool!ExclusiveLease, Pool!RetryBudget
  <2>3. JobsInv' /\ RunnerInv' /\ CallInv'
      BY DEF IInv, JobsInv, RunnerInv, RunnerAt, CallInv, Exists, Kind
  <2>4. OwnInv' /\ ApplyingIsOwed'
      BY DEF IInv, OwnInv, ApplyJobIsOwn, ApplyingIsOwed, About, Recorded
  <2>5. \A p \in PlanIds : Expirable(p) => Expirable(p)'
      BY <2>c DEF IInv, TypeOK, Expirable, Exists, KeyOfPlan
  <2>6. ExpiryInv'
    <3>1. \A p \in PlanIds : status[p] = "expired" => deadline'[revOf[p]] = "passed"
        BY <2>c DEF IInv, ExpiryInv, TypeOK
    <3>2. \A p \in PlanIds : status[p] = "applied" => appliedRef'[p] = KeyOfPlan(p)'
        BY DEF IInv, ExpiryInv, KeyOfPlan
    <3>3. \A w \in Workers : \A p \in pending[w] : Expirable(p)'
        BY <2>5 DEF IInv, ExpiryInv, TypeOK
    <3>4. \A w \in Workers : expiring[w] # None => Expirable(expiring[w])'
      <4> SUFFICES ASSUME NEW w \in Workers, expiring[w] # None, NEW q \in PlanIds, q = expiring[w]
                   PROVE  Expirable(expiring[w])'
          BY DEF IInv, TypeOK
      <4>1. Expirable(q)'
          BY <2>5 DEF IInv, ExpiryInv
      <4> QED BY <4>1 DEF Expirable, Exists, KeyOfPlan
    <3>5. \A j \in JobIds, p \in PlanIds : About(j, "expire_ttl", p)' => Expirable(p)'
        BY <2>5 DEF IInv, ExpiryInv, About
    <3> QED BY <3>1, <3>2, <3>3, <3>4, <3>5 DEF ExpiryInv
  <2> QED BY <1>2, <2>1, <2>2, <2>3, <2>4, <2>6 DEF IInv
<1> QED BY <1>1, <1>2, IInvStep DEF ScenarioInv

\* The script is followed step by step.
LEMMA Progress ==
    ASSUME ScenarioInv, [ScenarioNext]_allVars
    PROVE  /\ ScriptInv' /\ script' = script
           /\ \A m \in 1..Len(script) : Done(m) => Done(m)'
           /\ \A m \in 1..Len(script) : Done(m)' /\ ~Done(m) => m = at /\ ClientStep
<1>a. ScriptInv /\ Len(script) \in Nat
    BY ScriptIs DEF ScenarioInv
<1>1. CASE UNCHANGED <<script, at, result>>
    BY <1>a, <1>1 DEF ScriptInv, Done
<1>2. ASSUME ClientStep
      PROVE  result = "running" /\ (Advance \/ Fail \/ UNCHANGED <<script, at, result>>)
    BY <1>2 DEF ClientStep, Doing, CreatePlan, Apply, WaitApplied, WaitExpired, WaitPolicy, WaitAudit,
                CheckDeadline, ForceExpired, Remember, Compare, Require, scriptVars
<1>3. CASE ClientStep /\ Advance
    BY <1>a, <1>2, <1>3 DEF ScriptInv, Done, Advance
<1>4. CASE ClientStep /\ Fail
    BY <1>a, <1>2, <1>4 DEF ScriptInv, Done, Fail
<1>5. ASSUME NEW w \in Workers, WorkerStep(w) PROVE UNCHANGED <<script, at, result>>
    BY <1>5 DEF WorkerStep, scriptVars
<1> QED BY <1>1, <1>2, <1>3, <1>4, <1>5 DEF ScenarioNext, allVars, scriptVars

\* What a step of the driver has done when the script goes on.
LEMMA StepMade ==
    ASSUME ScenarioInv, ClientStep, NEW m \in 1..Len(script), m = at, Done(m)'
    PROVE  /\ script[at].op = "plan" => PlanIntent(Arg)
           /\ script[at].op = "applied" => status[Plan] = "applied" /\ UNCHANGED vars
           /\ script[at].op = "expired" => status[Plan] = "expired" /\ UNCHANGED vars
           /\ script[at].op = "audited" => Arg \in audit[Plan] /\ UNCHANGED vars
           /\ script[at].op = "remember" =>
                applyJob[Plan] # None /\ before' = Observed(Plan) /\ UNCHANGED vars
<1>a. result = "running" /\ at \in Nat
    BY ScriptIs DEF ClientStep, Doing, CreatePlan, Apply, WaitApplied, WaitExpired, WaitPolicy, WaitAudit,
                CheckDeadline, ForceExpired, Remember, Compare, ScenarioInv
<1>b. ~Fail
    BY <1>a DEF Fail, Done
<1>1. CASE script[at].op = "plan"
    BY <1>1 DEF ClientStep, Doing, CreatePlan, Apply, WaitApplied, WaitExpired, WaitPolicy, WaitAudit,
                CheckDeadline, ForceExpired, Remember, Compare
<1>2. CASE script[at].op = "applied"
    BY <1>b, <1>2 DEF ClientStep, Doing, CreatePlan, Apply, WaitApplied, WaitExpired, WaitPolicy, WaitAudit,
                CheckDeadline, ForceExpired, Remember, Compare
<1>3. CASE script[at].op = "expired"
    BY <1>b, <1>3 DEF ClientStep, Doing, CreatePlan, Apply, WaitApplied, WaitExpired, WaitPolicy, WaitAudit,
                CheckDeadline, ForceExpired, Remember, Compare
<1>4. CASE script[at].op = "audited"
    BY <1>4 DEF ClientStep, Doing, CreatePlan, Apply, WaitApplied, WaitExpired, WaitPolicy, WaitAudit,
                CheckDeadline, ForceExpired, Remember, Compare
<1>5. CASE script[at].op = "remember"
    BY <1>b, <1>5 DEF ClientStep, Doing, CreatePlan, Apply, WaitApplied, WaitExpired, WaitPolicy, WaitAudit,
                CheckDeadline, ForceExpired, Remember, Compare, Require
<1> QED BY <1>1, <1>2, <1>3, <1>4, <1>5

\* Only its plan step makes a plan, only its apply step queues a job, and
\* only its remember step remembers.
LEMMA StepsApart ==
    ASSUME ScenarioInv, ClientStep
    PROVE  /\ script[at].op # "plan" =>
                revOf' = revOf /\ \A p \in PlanIds : Exists(p)' <=> Exists(p)
           /\ script[at].op # "apply" => UNCHANGED <<call, applyJob, poolVars>>
           /\ script[at].op # "remember" => before' = before
<1>a. /\ status \in [PlanIds -> Statuses] /\ call \in [Calls -> PlanIds \cup {None}] /\ CallInv
      /\ Client \in Calls
    BY ScenarioAssumption DEF ScenarioInv, IInv, TypeOK
<1>1. CASE CreatePlan
    BY <1>1 DEF CreatePlan, Doing, PlanIntent
<1>2. CASE Apply
  <2>1. script[at].op = "apply" /\ before' = before
      BY <1>2 DEF Apply, Doing, scriptVars
  <2>2. revOf' = revOf /\ \A p \in PlanIds : Exists(p)' <=> Exists(p)
    <3>1. CASE ApplyPlanRead(Client, Plan) \/ UNCHANGED vars
        BY <3>1 DEF ApplyPlanRead, vars, planVars, Exists
    <3>2. CASE ApplyPlanWrite(Client)
      <4>1. call[Client] \in PlanIds /\ Exists(call[Client])
          BY <1>a, <3>2 DEF ApplyPlanWrite, CallInv
      <4> QED BY <1>a, <3>2, <4>1 DEF ApplyPlanWrite, SetStatus, Exists
    <3> QED BY <1>2, <3>1, <3>2 DEF Apply, vars
  <2> QED BY <2>1, <2>2
<1>3. CASE ForceExpired
    BY <1>3 DEF ForceExpired, Doing, planVars, Exists
<1>4. CASE Remember
    BY <1>4 DEF Remember, Doing, vars, planVars, Exists
<1>5. CASE WaitApplied \/ WaitExpired \/ WaitPolicy \/ WaitAudit \/ CheckDeadline \/ Compare
  <2>1. UNCHANGED vars /\ before' = before
      BY <1>5 DEF WaitApplied, WaitExpired, WaitPolicy, WaitAudit, CheckDeadline, Compare
  <2> QED BY <2>1 DEF vars, planVars, Exists
<1> QED BY <1>1, <1>2, <1>3, <1>4, <1>5 DEF ClientStep

-----------------------------------------------------------------------------
\* Each part of the invariant is kept.

\* The plans stay those that the script has made.
LEMMA MadeStep == ASSUME ScenarioInv, [ScenarioNext]_allVars PROVE MadeInv'
<1>a. /\ script' = script /\ MadeInv /\ IInv /\ Len(script) \in Nat /\ at \in 1..Len(script)
      /\ status \in [PlanIds -> Statuses] /\ revOf \in [PlanIds -> Revisions \cup {None}]
      /\ WellMade(script)
    BY Progress, ScriptIs DEF ScenarioInv, IInv, TypeOK
<1>1. ASSUME revOf' = revOf, \A p \in PlanIds : Exists(p)' <=> Exists(p),
             \A m \in 1..Len(script) : script[m].op = "plan" => (Done(m)' <=> Done(m))
      PROVE  MadeInv'
    BY <1>a, <1>1 DEF MadeInv, DoneStep
<1>2. ASSUME NEW w \in Workers, WorkerStep(w) PROVE MadeInv'
    BY <1>1, <1>2, <1>a, WorkerLeaves DEF scriptVars, Done
<1>3. CASE UNCHANGED allVars
    BY <1>1, <1>3 DEF allVars, vars, planVars, scriptVars, Exists, Done
<1>4. ASSUME ClientStep, script[at].op # "plan" PROVE MadeInv'
    BY <1>1, <1>4, <1>a, StepsApart, Progress
<1>5. ASSUME ClientStep, script[at].op = "plan" PROVE MadeInv'
  <2> SUFFICES ASSUME NEW n \in 1..Len(script), n = at PROVE MadeInv'
      BY <1>a
  <2>1. Done(n)'
    <3>1. Advance /\ at \in Nat
        BY <1>a, <1>5 DEF ClientStep, Doing, CreatePlan, Apply, WaitApplied, WaitExpired,
           WaitPolicy, WaitAudit, CheckDeadline, ForceExpired, Remember, Compare
    <3> QED BY <1>a, <3>1 DEF Advance, Done
  <2>2. MadeInv'
    <3>1. result = "running" /\ PlanIntent(Arg)
        BY <1>5, <2>1, StepMade, DriverLeaves
    <3>2. \A q \in PlanIds : Exists(q) <=> q \in 1..(Plan - 1)
      <4>1. \A q \in PlanIds : Exists(q) <=> EarlierStep(script, at, "plan", q)
          BY <1>a, <3>1 DEF MadeInv, DoneStep, Done, EarlierStep
      <4>2. PlanIds \subseteq Nat
          BY DEF PlanIds
      <4> QED BY <1>a, <1>5, <4>1, <4>2 DEF WellMade, Plan
    <3>3. Plan \in Nat \ {0}
        BY <1>5, <3>1, ScriptIs DEF ScenarioInv, Doing
    <3>4. PICK p \in PlanIds : /\ ~Exists(p) /\ \A q \in 1..(p - 1) : Exists(q)
                               /\ SetStatus(p, "planned")
                               /\ revOf' = [revOf EXCEPT ![p] = Arg]
        BY <3>1 DEF PlanIntent
    <3>5. p = Plan
      <4>1. p \in Nat /\ MaxPlans \in Nat /\ p \in 1..MaxPlans
          BY LifecycleAssumption DEF PlanIds
      <4>2. ~(p < Plan)
          BY <3>2, <3>3, <3>4, <4>1
      <4>3. ASSUME Plan < p PROVE FALSE
        <5>1. Plan \in 1..(p - 1) /\ Plan \in PlanIds
            BY <3>3, <4>1, <4>3 DEF PlanIds
        <5>2. Exists(Plan)
            BY <3>4, <5>1
        <5> QED BY <3>2, <3>3, <5>1, <5>2
      <4> QED BY <3>3, <4>1, <4>2, <4>3
    <3>6. /\ Exists(p)' /\ revOf'[p] = Arg
          /\ \A q \in PlanIds : q # p => (Exists(q)' <=> Exists(q)) /\ revOf'[q] = revOf[q]
        BY <1>a, <3>4 DEF SetStatus, Exists
    <3>7. \A m \in 1..Len(script) : Done(m)' <=> Done(m) \/ m = n
        BY <1>5, <2>1, Progress
    <3>8. script[n].op = "plan" /\ script[n].plan = p /\ script[n].arg = Arg
        BY <1>5, <3>5 DEF Plan, Arg
    <3>9. \A q \in PlanIds : DoneStep("plan", q)' <=> DoneStep("plan", q) \/ q = p
        BY <1>a, <3>7, <3>8 DEF DoneStep
    <3>10. \A m \in 1..Len(script) : Done(m) /\ script[m].op = "plan" => script[m].plan # p
        BY <1>a, <3>4 DEF MadeInv, DoneStep
    <3>11. \A q \in PlanIds : Exists(q)' <=> DoneStep("plan", q)'
        BY <1>a, <3>6, <3>9 DEF MadeInv
    <3>12. ASSUME NEW m \in 1..Len(script), Done(m)', script[m].op = "plan"
           PROVE  script[m].plan \in PlanIds /\ revOf'[script[m].plan] = script[m].arg
        BY <1>a, <3>6, <3>7, <3>8, <3>10, <3>12 DEF MadeInv
    <3> QED BY <1>a, <3>11, <3>12 DEF MadeInv
  <2> QED BY <2>2
<1> QED BY <1>2, <1>3, <1>4, <1>5 DEF ScenarioNext

\* No second apply job of a plan is ever queued.
LEMMA OneJobStep == ASSUME ScenarioInv, [ScenarioNext]_allVars PROVE OneJobInv'
<1>a. /\ script' = script /\ OneJobInv /\ IInv
      /\ call \in [Calls -> PlanIds \cup {None}] /\ applyJob \in [PlanIds -> JobIds \cup {None}]
      /\ None \notin PlanIds /\ None \notin JobIds /\ Client \in Calls
      /\ {"apply_plan", "expire_ttl"} \subseteq Kinds
    BY Progress, ScenarioAssumption, LifecycleAssumption DEF ScenarioInv, IInv, TypeOK, Kinds
<1>1. ASSUME NEW w \in Workers, WorkerStep(w) PROVE OneJobInv'
  <2>1. /\ UNCHANGED <<call, applyJob, script, at, result>>
        /\ [Next]_vars /\ \A c \in Calls : ~ApplyPlanWrite(c)
      BY <1>1, <1>a, WorkerLeaves DEF scriptVars
  <2>2. ASSUME NEW j \in JobIds, NEW p \in PlanIds, About(j, "apply_plan", p)'
        PROVE  About(j, "apply_plan", p)
    <3>1. ~Inserted(j)
      <4>1. ASSUME NEW v \in Workers, payload'[j] = [kind |-> "expire_ttl", plan |-> expiring[v]]
            PROVE  FALSE
          BY <2>2, <4>1 DEF About
      <4> QED BY <2>1, <4>1 DEF Inserted
    <3> QED BY <1>a, <2>1, <2>2, <3>1, AboutStays
  <2> QED BY <1>a, <2>1, <2>2 DEF OneJobInv, Doing, Plan
<1>2. CASE UNCHANGED allVars
    BY <1>a, <1>2 DEF allVars, vars, planVars, poolVars, scriptVars, OneJobInv, Doing, Plan, About
<1>3. ASSUME ClientStep, script[at].op # "apply" PROVE OneJobInv'
  <2>1. UNCHANGED <<call, applyJob, payload>>
      BY <1>3, StepsApart DEF poolVars
  <2>2. \A c \in Calls : call[c] = None
      BY <1>a, <1>3 DEF OneJobInv, Doing
  <2> QED BY <1>a, <2>1, <2>2 DEF OneJobInv, About
<1>4. ASSUME ClientStep, script[at].op = "apply" PROVE OneJobInv'
  <2>1. Apply
      BY <1>4 DEF ClientStep, Doing, CreatePlan, WaitApplied, WaitExpired, WaitPolicy, WaitAudit,
                  CheckDeadline, ForceExpired, Remember, Compare
  <2>2. CASE ApplyPlanRead(Client, Plan) /\ UNCHANGED scriptVars
    <3>1. Plan \in PlanIds /\ Doing("apply")
        BY <1>4, <2>1, PlanIsMade DEF Apply, Doing
    <3>2. UNCHANGED <<applyJob, payload>> /\ applyJob[Plan] = None
        BY <2>2 DEF ApplyPlanRead, planVars, poolVars
    <3>3. call' = [call EXCEPT ![Client] = Plan]
        BY <2>2 DEF ApplyPlanRead
    <3>4. UNCHANGED <<script, at, result>>
        BY <2>2 DEF scriptVars
    <3> QED BY <1>a, <3>1, <3>2, <3>3, <3>4 DEF OneJobInv, Doing, Plan, About
  <2>3. CASE ApplyPlanWrite(Client)
    <3>1. /\ call[Client] \in PlanIds /\ applyJob[call[Client]] = None
          /\ \A c \in Calls : c # Client => call[c] = None
        BY <1>a, <2>3 DEF ApplyPlanWrite, OneJobInv
    <3>2. /\ call' = [call EXCEPT ![Client] = None]
          /\ applyJob' = [applyJob EXCEPT ![call[Client]] = NewJob]
          /\ NewJob \in JobIds
          /\ payload' = [payload EXCEPT ![NewJob] = [kind |-> "apply_plan", plan |-> call[Client]]]
        BY <2>3, <3>1, NewJobIsNew, <1>a DEF ApplyPlanWrite, SetApplyJobOnce, Pool!Enqueue
    <3>3. \A j \in JobIds, p \in PlanIds : About(j, "apply_plan", p)' => applyJob'[p] = j
      <4> SUFFICES ASSUME NEW j \in JobIds, NEW p \in PlanIds, About(j, "apply_plan", p)'
                   PROVE  applyJob'[p] = j
          OBVIOUS
      <4>p. payload \in [JobIds -> Payloads \cup {None}]
          BY <1>a DEF IInv, PoolInv, Pool!TypeOK
      <4>1. CASE j = NewJob
        <5>1. p = call[Client]
            BY <3>2, <4>p, <4>1 DEF About
        <5> QED BY <1>a, <3>1, <3>2, <4>1, <5>1
      <4>2. CASE j # NewJob
        <5>1. About(j, "apply_plan", p)
            BY <3>2, <4>p, <4>2 DEF About
        <5>2. applyJob[p] = j /\ p # call[Client]
            BY <1>a, <3>1, <5>1 DEF OneJobInv
        <5> QED BY <1>a, <3>1, <3>2, <5>2
      <4> QED BY <4>1, <4>2
    <3> QED BY <1>a, <3>1, <3>2, <3>3 DEF OneJobInv
  <2>4. CASE call[Client] = None /\ UNCHANGED vars
    <3>1. UNCHANGED <<call, applyJob, payload>> /\ \A c \in Calls : call[c] = None
        BY <1>a, <2>4 DEF OneJobInv, vars, planVars, poolVars
    <3> QED BY <1>a, <3>1 DEF OneJobInv, About
  <2> QED BY <2>1, <2>2, <2>3, <2>4 DEF Apply, vars
<1> QED BY <1>1, <1>2, <1>3, <1>4 DEF ScenarioNext

\* What comes before a step that is made is made.
LEMMA EarlierIsDone ==
    ASSUME ScenarioInv, NEW m \in 1..Len(script), Done(m)
    PROVE  /\ \A op, p : EarlierStep(script, m, op, p) => DoneStep(op, p)
           /\ \A p, r : EarlierPlan(script, m, p, r) => p \in PlanIds /\ revOf[p] = r
           /\ script[m].op # "plan" => script[m].plan \in PlanIds
<1>1. ASSUME NEW n \in 1..Len(script), n < m PROVE Done(n)
    BY <1>1, ScriptIs DEF ScenarioInv, Done
<1>2. \A op, p : EarlierStep(script, m, op, p) => DoneStep(op, p)
    BY <1>1 DEF EarlierStep, DoneStep
<1>3. \A p, r : EarlierPlan(script, m, p, r) => p \in PlanIds /\ revOf[p] = r
    BY <1>1 DEF EarlierPlan, ScenarioInv, MadeInv
<1>4. ASSUME script[m].op # "plan" PROVE script[m].plan \in PlanIds
  <2>1. EarlierStep(script, m, "plan", script[m].plan)
      BY <1>4, ScriptIs DEF WellMade, ScenarioInv
  <2> QED BY <1>1, <2>1 DEF EarlierStep, ScenarioInv, MadeInv
<1> QED BY <1>2, <1>3, <1>4

\* A plan that has its job gets no other.
LEMMA ApplyJobsStay ==
    ASSUME ScenarioInv, [ScenarioNext]_allVars, NEW p \in PlanIds, applyJob[p] # None
    PROVE  /\ applyJob'[p] = applyJob[p]
           /\ \A j \in JobIds : About(j, "apply_plan", p)' <=> About(j, "apply_plan", p)
<1>1. applyJob'[p] = applyJob[p]
    BY ScenarioSteps, MarksStay, ForceLeaves DEF ScenarioInv, planVars
<1>2. About(applyJob[p], "apply_plan", p)
    BY DEF ScenarioInv, IInv, OwnInv, ApplyJobIsOwn
<1>3. ASSUME NEW j \in JobIds PROVE About(j, "apply_plan", p)' <=> About(j, "apply_plan", p)
  <2>1. About(j, "apply_plan", p)' => j = applyJob[p]
      BY <1>1, OneJobStep DEF OneJobInv
  <2>2. About(j, "apply_plan", p) => About(j, "apply_plan", p)'
    <3>1. CASE ForceExpired
        BY <3>1, ForceLeaves DEF poolVars, About
    <3>2. CASE [Next]_vars
        BY <3>2, AboutStays DEF ScenarioInv, Kinds
    <3> QED BY <3>1, <3>2, ScenarioSteps
  <2> QED BY <1>2, <2>1, <2>2
<1> QED BY <1>1, <1>3

\* What is observed of a plan that has its job stays.
LEMMA ObservedStays ==
    ASSUME ScenarioInv, [ScenarioNext]_allVars, NEW p \in PlanIds, applyJob[p] # None
    PROVE  applyJob'[p] # None /\ Observed(p)' = Observed(p)
<1>1. /\ applyJob'[p] = applyJob[p]
      /\ \A j \in JobIds : About(j, "apply_plan", p)' <=> About(j, "apply_plan", p)
    BY ApplyJobsStay
<1>2. [kind |-> "apply_plan", plan |-> p] # None
    BY LifecycleAssumption DEF Payloads, Kinds
<1>3. ApplyJobs(p)' = ApplyJobs(p)
    BY <1>1, <1>2 DEF ApplyJobs, About
<1> QED BY <1>1, <1>3 DEF Observed

\* What the driver has seen stays as it has seen it.
LEMMA SeenStep == ASSUME ScenarioInv, [ScenarioNext]_allVars PROVE SeenInv'
<1>a. script' = script
    BY Progress
<1>1. ASSUME NEW m \in 1..Len(script), NEW p \in PlanIds, script[m].plan = p, Done(m)
      PROVE  /\ script[m].op = "remember" => applyJob'[p] # None /\ before' = Observed(p)'
             /\ script[m].op = "audited" => script[m].arg \in audit'[p]
  <2>1. CASE script[m].op = "remember"
    <3>1. applyJob[p] # None /\ before = Observed(p)
        BY <1>1, <2>1 DEF ScenarioInv, SeenInv
    <3>2. applyJob'[p] # None /\ Observed(p)' = Observed(p)
        BY <3>1, ObservedStays
    <3>3. CASE ClientStep
      <4>1. m # at /\ at \in 1..Len(script)
          BY <1>1, <3>3, DriverLeaves, ScriptIs DEF ScenarioInv, Done
      <4>2. script[at].op # "remember"
          BY <2>1, <4>1, ScriptIs DEF ScenarioInv, WellMade
      <4> QED BY <2>1, <3>1, <3>2, <3>3, <4>2, StepsApart
    <3>4. CASE ~ClientStep
      <4>1. before' = before
          BY <3>4 DEF ScenarioNext, WorkerStep, allVars, scriptVars
      <4> QED BY <2>1, <3>1, <3>2, <4>1
    <3> QED BY <3>3, <3>4
  <2>2. CASE script[m].op = "audited"
    <3>1. script[m].arg \in audit[p]
        BY <1>1, <2>2 DEF ScenarioInv, SeenInv
    <3> QED BY <2>2, <3>1, ScenarioSteps, AuditGrows, ForceLeaves DEF ScenarioInv
  <2>3. CASE script[m].op \notin {"remember", "audited"}
      BY <2>3
  <2> QED BY <2>1, <2>2, <2>3
<1>2. ASSUME NEW m \in 1..Len(script), NEW p \in PlanIds, script[m].plan = p, Done(m)', ~Done(m)
      PROVE  /\ script[m].op = "remember" => applyJob'[p] # None /\ before' = Observed(p)'
             /\ script[m].op = "audited" => script[m].arg \in audit'[p]
  <2>1. m = at /\ ClientStep
      BY <1>2, Progress
  <2>2. p = Plan /\ script[m].arg = Arg
      BY <1>2, <2>1 DEF Plan, Arg
  <2>3. CASE script[m].op = "remember"
    <3>1. applyJob[p] # None /\ before' = Observed(p) /\ UNCHANGED vars
        BY <1>2, <2>1, <2>2, <2>3, StepMade
    <3>2. Observed(p)' = Observed(p)
        BY <3>1 DEF vars, planVars, poolVars, Observed, ApplyJobs, About
    <3> QED BY <2>3, <3>1, <3>2 DEF vars, planVars
  <2>4. CASE script[m].op = "audited"
    <3>1. Arg \in audit[p] /\ UNCHANGED vars
        BY <1>2, <2>1, <2>2, <2>4, StepMade
    <3> QED BY <2>2, <2>4, <3>1 DEF vars
  <2>5. CASE script[m].op \notin {"remember", "audited"}
      BY <2>5
  <2> QED BY <2>3, <2>4, <2>5
<1> QED BY <1>a, <1>1, <1>2 DEF SeenInv

\* Only revisions with a TTL have a deadline.
LEMMA DeadlineStep == ASSUME ScenarioInv, [ScenarioNext]_allVars PROVE DeadlineInv'
<1>a. DeadlineInv /\ IInv /\ deadline \in [Revisions -> {"unset", "armed", "passed"}]
    BY DEF ScenarioInv, IInv, TypeOK
<1>1. ASSUME NEW w \in Workers, WorkerStep(w) PROVE DeadlineInv'
    BY <1>a, <1>1, WorkerLeaves DEF DeadlineInv
<1>2. CASE ForceExpired
    BY <1>a, <1>2, ForceLeaves DEF DeadlineInv
<1>3. CASE UNCHANGED deadline
    BY <1>a, <1>3 DEF DeadlineInv
<1> QED BY <1>1, <1>2, <1>3, DriverLeaves DEF ScenarioNext, allVars, vars

\* The invariant holds of every scenario.
LEMMA ScenarioStart == ScenarioInit => ScenarioInv
<1> SUFFICES ASSUME ScenarioInit PROVE ScenarioInv
    OBVIOUS
<1>1. IInv
    BY InitInv DEF ScenarioInit
<1>2. ScriptInv
    BY ScriptsWell DEF ScenarioInit, ScriptInv, Well
<1>3. \A m \in 1..Len(script) : ~Done(m)
    BY DEF ScenarioInit, Done
<1>4. MadeInv /\ SeenInv
    BY <1>3 DEF MadeInv, SeenInv, DoneStep, ScenarioInit, Init, Exists
<1>5. OneJobInv /\ DeadlineInv
    BY LifecycleAssumption DEF OneJobInv, DeadlineInv, ScenarioInit, Init, Pool!Init, About, Payloads, Kinds
<1> QED BY <1>1, <1>2, <1>4, <1>5 DEF ScenarioInv

\* Every step of the driver and of the workers keeps it.
LEMMA ScenarioInvStep == ASSUME ScenarioInv, [ScenarioNext]_allVars PROVE ScenarioInv'
BY ScenarioSteps, Progress, MadeStep, OneJobStep, SeenStep, DeadlineStep DEF ScenarioInv

-----------------------------------------------------------------------------
\* As long as no call has failed.

\* Every plan is of a revision of the driver, which Kubernetes accepts.
LEMMA PlansRender ==
    ASSUME ScenarioInv, NEW p \in PlanIds, Exists(p)
    PROVE  revOf[p] \in {Base, Brief} /\ Renderable(p)
<1>1. PICK m \in 1..Len(script) : Done(m) /\ script[m].op = "plan" /\ script[m].plan = p
    BY DEF ScenarioInv, MadeInv, DoneStep
<1>2. script[m].arg \in {Base, Brief}
    BY <1>1, ScriptIs DEF ScenarioInv, WellMade
<1> QED BY <1>1, <1>2, ScenarioAssumption DEF ScenarioInv, MadeInv, Renderable

\* A Runner that has an apply job of a plan that is over is about to end it.
LEMMA OverIsApplied ==
    ASSUME ScenarioInv, CalmInv, NEW w \in Workers, pc[w] # "idle", Kind(w) = "apply_plan",
           status[PlanOf(w)] \in Over
    PROVE  pc[w] \in {"arm", "ok"}
<1>1. PlanOf(w) \in PlanIds /\ lease[w] \in JobIds /\ About(lease[w], "apply_plan", PlanOf(w))
    BY HeldJob DEF ScenarioInv, About
<1>2. Within(lease[w], {"arm", "ok"})
    BY <1>1 DEF CalmInv, CalmPlan
<1> QED BY <1>2 DEF Within

\* What an expire job is about is over, and has a TTL.
LEMMA ExpiringIsOver ==
    ASSUME ScenarioInv, CalmInv, NEW w \in Workers, pc[w] # "idle", Kind(w) = "expire_ttl"
    PROVE  status[PlanOf(w)] \in Over /\ revOf[PlanOf(w)] \in TtlRevisions
<1>1. /\ PlanOf(w) \in PlanIds /\ lease[w] \in JobIds /\ About(lease[w], "expire_ttl", PlanOf(w))
      /\ revOf[PlanOf(w)] \in Revisions /\ KeyOfPlan(PlanOf(w)) \in Keys
    BY HeldJob DEF ScenarioInv, About
<1>2. Expirable(PlanOf(w))
    BY <1>1 DEF ScenarioInv, IInv, ExpiryInv
<1>3. appliedRef[PlanOf(w)] # None /\ deadline[revOf[PlanOf(w)]] # "unset"
    BY <1>1, <1>2, LifecycleAssumption DEF Expirable
<1> QED BY <1>1, <1>3 DEF CalmInv, CalmPlan, ScenarioInv, DeadlineInv

\* The status of a plan that is over changes only from applied to expired.
LEMMA OverStays ==
    ASSUME ScenarioInv, CalmInv, errors' = 0, [ScenarioNext]_allVars, NEW p \in PlanIds
    PROVE  /\ status[p] \in Over => status'[p] \in Over
           /\ status[p] = "expired" => status'[p] = "expired"
           /\ status'[p] # "apply_failed"
           /\ status'[p] \in Over /\ status[p] # status'[p] =>
                \E w \in Workers :
                  /\ PlanOf(w) = p /\ pc[w] # "idle"
                  /\ \/ CommitApplied(w) /\ status'[p] = "applied" /\ status[p] \notin Over
                     \/ MarkPlanExpiredOnce(w) /\ status'[p] = "expired" /\ status[p] = "applied"
<1>a. IInv /\ CalmPlan(p)
    BY DEF ScenarioInv, CalmInv
<1>1. CASE status'[p] = status[p]
    BY <1>1, <1>a DEF CalmPlan
<1>2. CASE status'[p] # status[p]
  <2>1. [Next]_vars
      BY <1>2, ScenarioSteps, ForceLeaves DEF planVars
  <2>2. ASSUME NEW c \in Calls, ApplyPlanWrite(c), call[c] = p PROVE status[p] \notin Over
    <3>1. applyJob[p] = None
        BY <2>2 DEF ApplyPlanWrite, ScenarioInv, OneJobInv
    <3> QED BY <1>a, <3>1 DEF IInv, OwnInv, ApplyJobIsOwn, Over
  <2>3. ASSUME NEW w \in Workers, RecordFailure(w) PROVE FALSE
      BY <2>3 DEF RecordFailure, CalmInv, CalmRunner
  <2>4. ASSUME NEW w \in Workers, CommitApplied(w), PlanOf(w) = p PROVE status[p] \notin Over
    <3>1. pc[w] = "commit" /\ Kind(w) = "apply_plan"
        BY <1>a, <2>4 DEF CommitApplied, IInv, RunnerInv, RunnerAt
    <3> QED BY <2>4, <3>1, OverIsApplied
  <2>5. ASSUME NEW w \in Workers, MarkPlanExpiredOnce(w), PlanOf(w) = p, status'[p] = "expired"
        PROVE  status[p] = "applied"
    <3>1. status[p] \in Over
        BY <2>5, ExpiringIsOver DEF MarkPlanExpiredOnce, Expiring
    <3> QED BY <1>2, <2>5, <3>1 DEF Over
  <2>6. \/ status[p] = "absent" /\ status'[p] = "planned"
        \/ status'[p] = "applying" /\ \E c \in Calls : ApplyPlanWrite(c) /\ call[c] = p
        \/ \E w \in Workers :
             /\ PlanOf(w) = p /\ pc[w] # "idle"
             /\ \/ CommitApplied(w) /\ status'[p] = "applied"
                \/ MarkPlanExpiredOnce(w) /\ status'[p] = "expired"
      BY <1>a, <1>2, <2>1, <2>3, CalmStatus
  <2> QED BY <2>2, <2>4, <2>5, <2>6 DEF Over
<1> QED BY <1>1, <1>2

\* Only its own worker moves a Runner, and a job in hand stays what it is.
LEMMA WorkersApart ==
    ASSUME ScenarioInv, [ScenarioNext]_allVars, NEW w \in Workers
    PROVE  /\ pc[w] # "idle" /\ lease'[w] = lease[w] => PlanOf(w)' = PlanOf(w) /\ Kind(w)' = Kind(w)
           /\ (pc'[w] = pc[w] /\ lease'[w] = lease[w]) \/ (RunnerStep(w) /\ WorkerStep(w))
<1>1. ASSUME pc[w] # "idle", lease'[w] = lease[w]
      PROVE  PlanOf(w)' = PlanOf(w) /\ Kind(w)' = Kind(w)
  <2>1. CASE ForceExpired
      BY <1>1, <2>1, ForceLeaves DEF poolVars, PlanOf, Kind
  <2>2. CASE [Next]_vars
      BY <1>1, <2>2, KindStays DEF ScenarioInv
  <2> QED BY <2>1, <2>2, ScenarioSteps
<1>2. ASSUME NEW v \in Workers, v # w, WorkerStep(v) PROVE pc'[w] = pc[w] /\ lease'[w] = lease[w]
    BY <1>2, OtherRunners DEF WorkerStep, ScenarioInv
<1>3. ASSUME TickStep(w) PROVE pc'[w] = pc[w] /\ lease'[w] = lease[w]
    BY <1>3 DEF TickStep, TickList, TickFind, TickEnqueue, Pool!Enqueue, runVars, poolVars
<1>4. ASSUME ClientStep \/ UNCHANGED allVars PROVE pc'[w] = pc[w] /\ lease'[w] = lease[w]
    BY <1>4, DriverLeaves DEF allVars, vars, runVars, poolVars
<1>5. (pc'[w] = pc[w] /\ lease'[w] = lease[w]) \/ (RunnerStep(w) /\ WorkerStep(w))
    BY <1>2, <1>3, <1>4 DEF ScenarioNext, WorkerStep
<1> QED BY <1>1, <1>5

\* A call that has failed is not forgotten.
LEMMA CalmBefore == ScenarioInv /\ [ScenarioNext]_allVars /\ errors' = 0 => errors = 0
BY ScenarioSteps, NoErrorYet, ForceLeaves DEF ScenarioInv, failVars

\* A Runner begins to clean up by expiring the plan.
LEMMA CleanupBegins ==
    ASSUME ScenarioInv, errors' = 0, [ScenarioNext]_allVars, NEW w \in Workers, pc'[w] \in ToTell
    PROVE  /\ PlanOf(w)' = PlanOf(w) /\ PlanOf(w) \in PlanIds
           /\ \/ pc[w] \in ToTell
              \/ /\ pc[w] = "handle" /\ status[PlanOf(w)] # "expired"
                 /\ MarkPlanExpiredOnce(w)
<1>a. pc \in [Workers -> RunnerStates] /\ IInv
    BY DEF ScenarioInv, IInv, TypeOK
<1> USE <1>a DEF ToTell, Cleanup
<1>1. CASE pc'[w] = pc[w] /\ lease'[w] = lease[w]
    BY <1>1, WorkersApart, HeldJob
<1>2. CASE RunnerStep(w)
  <2>1. MarkPlanExpiredOnce(w) \/ AppendAudit(w) \/ ListAppliedPlans(w) \/ RestorePolicy(w) \/ DeletePolicy(w)
      BY <1>2, NoCallFails
      DEF RunnerStep, LeaseNext, LeaseLost, MarkJob, MarkLost, ApplyPolicy, ApplyPolicyFails,
          CommitApplied, RecordFailure, ArmDeadline, Goto, runVars
  <2>2. pc[w] # "idle" /\ lease'[w] = lease[w]
      BY <2>1 DEF MarkPlanExpiredOnce, Expiring, AppendAudit, AuditSteps, ListAppliedPlans,
                  RestorePolicy, DeletePolicy, poolVars
  <2>3. pc[w] \in ToTell \/ (pc[w] = "handle" /\ status[PlanOf(w)] # "expired" /\ MarkPlanExpiredOnce(w))
      BY <2>1 DEF MarkPlanExpiredOnce, Expiring, AppendAudit, AuditSteps, ListAppliedPlans,
                  RestorePolicy, DeletePolicy, Goto
  <2> QED BY <2>2, <2>3, WorkersApart, HeldJob
<1> QED BY <1>1, <1>2, WorkersApart

\* A Runner never comes to record a failure, and no two clean up one plan.
LEMMA CalmRunnerStep ==
    ASSUME ScenarioInv, CalmInv, errors' = 0, [ScenarioNext]_allVars, NEW w \in Workers
    PROVE  CalmRunner(w)'
<1>a. pc \in [Workers -> RunnerStates] /\ status \in [PlanIds -> Statuses] /\ IInv
    BY DEF ScenarioInv, IInv, TypeOK
<1>b. \A v \in Workers : CalmRunner(v)
    BY DEF CalmInv
<1>1. pc'[w] # "record"
  <2> SUFFICES ASSUME pc'[w] = "record" PROVE FALSE
      OBVIOUS
  <2>1. RunnerStep(w)
      BY <1>b, WorkersApart DEF CalmRunner
  <2>2. ApplyPolicyFails(w)
      BY <1>a, <1>b, <2>1, NoCallFails
      DEF RunnerStep, LeaseNext, LeaseLost, MarkJob, MarkLost, ApplyPolicy,
          CommitApplied, RecordFailure, ArmDeadline, MarkPlanExpiredOnce, AppendAudit, AuditSteps,
          ListAppliedPlans, RestorePolicy, DeletePolicy, Goto, runVars, CalmRunner
  <2>3. PlanOf(w) \in PlanIds /\ Exists(PlanOf(w)) /\ ~Renderable(PlanOf(w))
      BY <1>a, <2>2, HeldJob, NoCallFails DEF ApplyPolicyFails, Applying
  <2> QED BY <2>3, PlansRender
<1>2. ASSUME pc'[w] \in ToTell PROVE status'[PlanOf(w)] = "expired"
    BY <1>a, <1>b, <1>2, CleanupBegins, OverStays, HeldJob DEF CalmRunner, MarkPlanExpiredOnce, SetStatus, Goto
<1>3. ASSUME NEW v \in Workers, v # w, pc'[w] \in ToTell, pc'[v] \in ToTell, PlanOf(v) = PlanOf(w)
      PROVE  FALSE
  <2>1. pc[w] \in ToTell \/ pc[v] \in ToTell
      BY <1>a, <1>3, CleanupBegins DEF MarkPlanExpiredOnce, Goto
  <2> QED BY <1>b, <1>3, <2>1, CleanupBegins DEF CalmRunner
<1>4. \A v \in Workers : pc'[v] \in ToTell => PlanOf(v)' = PlanOf(v)
    BY CleanupBegins
<1>5. pc'[w] \in ToTell => status'[PlanOf(w)'] = "expired"
    BY <1>2, <1>4
<1> QED BY <1>1, <1>3, <1>4, <1>5 DEF CalmRunner

\* Once a plan is over its apply job does not run again.
LEMMA BehindStep ==
    ASSUME ScenarioInv, CalmInv, errors' = 0, [ScenarioNext]_allVars, NEW p \in PlanIds,
           status'[p] \in Over, NEW j \in JobIds, About(j, "apply_plan", p)'
    PROVE  jobStatus'[j] # "queued" /\ Within(j, {"arm", "ok"})'
<1>a. /\ IInv /\ pc \in [Workers -> RunnerStates] /\ Pool!TypeOK /\ Pool!ExclusiveLease
      /\ None \notin JobIds /\ Pool!TypeOK'
    BY ScenarioSteps, LifecycleAssumption DEF ScenarioInv, IInv, TypeOK, PoolInv
<1>1. CASE ForceExpired
  <2>1. UNCHANGED <<status, payload, jobStatus, lease, pc>>
      BY <1>1, ForceLeaves DEF planVars, poolVars, runVars
  <2> QED BY <2>1 DEF About, Within, CalmInv, CalmPlan
<1>2. CASE [Next]_vars /\ status[p] \in Over
  <2>1. About(j, "apply_plan", p)
    <3>1. applyJob[p] # None
        BY <1>a, <1>2 DEF IInv, OwnInv, ApplyJobIsOwn, Over
    <3> QED BY <3>1, ApplyJobsStay
  <2>2. jobStatus[j] # "queued" /\ Within(j, {"arm", "ok"})
      BY <1>2, <2>1 DEF CalmInv, CalmPlan
  <2>3. jobStatus'[j] # "queued"
    <3>1. CASE jobStatus[j] = "running"
      <4>1. ASSUME NEW w \in Workers, MarkJob(w), lease[w] = j PROVE jobStatus'[j] # "queued"
          BY <1>a, <2>2, <4>1 DEF MarkJob, Within, Pool!MarkDone, Pool!TypeOK
      <4> QED BY <1>a, <1>2, <3>1, <4>1, JobMoves
    <3>2. CASE jobStatus[j] # "running"
      <4>1. [Pool!Next]_poolVars /\ jobStatus[j] # "none"
          BY <1>a, <1>2, <2>1, StepsOfPool, AboutStays DEF Kinds
      <4> QED BY <1>a, <2>2, <3>2, <4>1
              DEF Pool!Next, Pool!Step, Pool!Enqueue, Pool!LeaseNext, Pool!LeaseLost, Pool!MarkDone,
                  Pool!MarkFailed, Pool!Forget, Pool!TypeOK, Pool!ExclusiveLease, poolVars
    <3> QED BY <3>1, <3>2
  <2>4. ASSUME NEW w \in Workers, lease'[w] = j PROVE pc'[w] \in {"arm", "ok"}
    <3>1. lease[w] = j /\ pc[w] \in {"arm", "ok"}
        BY <1>a, <1>2, <2>2, <2>4, JobMoves DEF Within
    <3>2. CASE RunnerStep(w)
        BY <1>a, <2>4, <3>1, <3>2
        DEF RunnerStep, LeaseNext, LeaseLost, GetPlanFails, MarkJob, MarkLost, ApplyPolicy,
            ApplyPolicyFails, Applying, CommitApplied, CommitAppliedFails, RecordFailure,
            ArmDeadline, MarkPlanExpiredOnce, MarkPlanExpiredFails, Expiring, AppendAudit, AuditSteps,
            ListAppliedPlans, RestorePolicy, DeletePolicy, CleanupFails, Goto, Pool!MarkDone,
            Pool!Forget, Pool!TypeOK
    <3> QED BY <3>1, <3>2, WorkersApart
  <2> QED BY <2>3, <2>4 DEF Within
<1>3. CASE [Next]_vars /\ status[p] \notin Over
  <2>1. PICK w \in Workers : PlanOf(w) = p /\ pc[w] # "idle" /\ CommitApplied(w)
      BY <1>3, OverStays DEF Over
  <2>2. /\ lease[w] \in JobIds /\ jobStatus[lease[w]] = "running" /\ pc[w] = "commit"
        /\ About(lease[w], "apply_plan", p)
      BY <1>a, <2>1, HeldJob DEF CommitApplied, IInv, RunnerInv, RunnerAt, About
  <2>3. applyJob[p] = lease[w] /\ applyJob[p] # None
      BY <1>a, <2>2 DEF ScenarioInv, OneJobInv
  <2>4. j = lease[w]
      BY <2>3, ApplyJobsStay DEF ScenarioInv, OneJobInv
  <2>5. UNCHANGED poolVars /\ pc'[w] = "arm"
      BY <1>a, <2>1 DEF CommitApplied, Goto
  <2>6. \A v \in Workers : lease'[v] = j => v = w
      BY <1>a, <2>2, <2>4, <2>5 DEF Pool!ExclusiveLease, poolVars
  <2> QED BY <2>2, <2>4, <2>5, <2>6 DEF Within, poolVars
<1> QED BY <1>1, <1>2, <1>3, ScenarioSteps

\* A plan with a TTL that is applied has its deadline, or is about to get it.
LEMMA ArmStep ==
    ASSUME ScenarioInv, CalmInv, errors' = 0, [ScenarioNext]_allVars, NEW p \in PlanIds,
           status'[p] = "applied", revOf'[p] \in TtlRevisions
    PROVE  deadline'[revOf'[p]] # "unset" \/ Arming(p)'
<1>a. /\ IInv /\ pc \in [Workers -> RunnerStates] /\ deadline \in [Revisions -> {"unset", "armed", "passed"}]
      /\ TtlRevisions \subseteq Revisions
    BY LifecycleAssumption DEF ScenarioInv, IInv, TypeOK
<1>1. CASE status[p] = "applied"
  <2>1. revOf'[p] = revOf[p]
    <3>1. Exists(p)
        BY <1>1 DEF Exists
    <3> QED BY <1>a, <3>1, ScenarioSteps, PlansStay, ForceLeaves DEF planVars
  <2>2. CASE deadline[revOf[p]] # "unset"
    <3>1. ASSUME NEW w \in Workers, WorkerStep(w) PROVE deadline'[revOf[p]] # "unset"
        BY <1>a, <2>1, <2>2, <3>1, WorkerLeaves
    <3>2. CASE ForceExpired
        BY <1>a, <2>1, <2>2, <3>2, ForceLeaves
    <3> QED BY <2>1, <2>2, <3>1, <3>2, DriverLeaves DEF ScenarioNext, allVars, vars
  <2>3. ASSUME NEW w \in Workers, pc[w] = "arm", PlanOf(w) = p
        PROVE  deadline'[revOf[p]] # "unset" \/ Arming(p)'
    <3>1. CASE pc'[w] = pc[w] /\ lease'[w] = lease[w]
      <4>1. PlanOf(w)' = p
          BY <2>3, <3>1, WorkersApart
      <4> QED BY <2>3, <3>1, <4>1 DEF Arming
    <3>2. CASE RunnerStep(w)
      <4>1. ArmDeadline(w)
          BY <2>3, <3>2 DEF RunnerStep, LeaseNext, LeaseLost, GetPlanFails, MarkJob, MarkLost, ApplyPolicy,
            ApplyPolicyFails, Applying, CommitApplied, CommitAppliedFails, RecordFailure,
            MarkPlanExpiredOnce, MarkPlanExpiredFails, Expiring, AppendAudit, AuditSteps,
            ListAppliedPlans, RestorePolicy, DeletePolicy, CleanupFails
      <4>2. SetNotAfterOnFirstApply(revOf[p])
          BY <1>a, <2>3, <4>1 DEF ArmDeadline, CallFails, IInv, TypeOK
      <4> QED BY <1>a, <2>1, <4>2 DEF SetNotAfterOnFirstApply
    <3> QED BY <3>1, <3>2, WorkersApart
  <2> QED BY <1>1, <2>1, <2>2, <2>3 DEF CalmInv, CalmPlan, Arming
<1>2. CASE status[p] # "applied"
  <2>1. PICK w \in Workers : PlanOf(w) = p /\ pc[w] # "idle" /\ CommitApplied(w)
      BY <1>2, OverStays DEF Over
  <2>2. pc'[w] = "arm" /\ lease'[w] = lease[w]
      BY <1>a, <2>1 DEF CommitApplied, Goto, poolVars
  <2>3. PlanOf(w)' = p
      BY <2>1, <2>2, WorkersApart
  <2> QED BY <2>2, <2>3 DEF Arming
<1> QED BY <1>1, <1>2

\* A plan that was ever applied is over, and so is one the driver has seen.
LEMMA OverStep ==
    ASSUME ScenarioInv, CalmInv, errors' = 0, [ScenarioNext]_allVars, NEW p \in PlanIds
    PROVE  /\ appliedRef'[p] # None => status'[p] \in Over
           /\ DoneStep("applied", p)' => status'[p] \in Over
           /\ DoneStep("expired", p)' => status'[p] = "expired"
<1>a. CalmPlan(p) /\ script' = script /\ appliedRef \in [PlanIds -> Keys \cup {None}]
    BY Progress DEF CalmInv, ScenarioInv, IInv, TypeOK
<1>b. \A w \in Workers : ~CommitAppliedFails(w)
    BY NoCallFails DEF ScenarioInv
<1>1. ASSUME appliedRef'[p] # None PROVE status'[p] \in Over
  <2>1. CASE appliedRef[p] # None
      BY <1>a, <2>1, OverStays DEF CalmPlan
  <2>2. CASE appliedRef[p] = None
    <3>1. appliedRef' # appliedRef
        BY <1>1, <2>2
    <3>2. Next
        BY <3>1, ScenarioSteps, ForceLeaves DEF planVars, vars
    <3>3. PICK w \in Workers : CommitApplied(w)
        BY <1>b, <3>1, <3>2, Frames
        DEF PlanIntent, DeadlinePasses, ApplyPlanWrite, RecordFailure, ArmDeadline,
            MarkPlanExpiredOnce, MarkPlanExpiredFails, planVars
    <3>4. PlanOf(w) = p /\ status \in [PlanIds -> Statuses]
        BY <1>1, <1>a, <2>2, <3>3 DEF CommitApplied, SetApplied, ScenarioInv, IInv, TypeOK
    <3> QED BY <3>3, <3>4 DEF CommitApplied, SetApplied, SetStatus, Over
  <2> QED BY <2>1, <2>2
<1>2. ASSUME NEW m \in 1..Len(script), script[m].op \in {"applied", "expired"}, script[m].plan = p,
             Done(m)', ~Done(m)
      PROVE  /\ script[m].op = "applied" => status'[p] \in Over
             /\ script[m].op = "expired" => status'[p] = "expired"
  <2>1. m = at /\ ClientStep
      BY <1>2, Progress
  <2>2. /\ script[at].op = "applied" => status[Plan] = "applied" /\ UNCHANGED vars
        /\ script[at].op = "expired" => status[Plan] = "expired" /\ UNCHANGED vars
      BY <1>2, <2>1, StepMade
  <2> QED BY <1>2, <2>1, <2>2 DEF Plan, vars, planVars, Over
<1>3. DoneStep("applied", p)' => status'[p] \in Over
  <2>1. DoneStep("applied", p) => status'[p] \in Over
      BY <1>a, OverStays DEF CalmPlan
  <2> QED BY <1>a, <1>2, <2>1 DEF DoneStep
<1>4. DoneStep("expired", p)' => status'[p] = "expired"
  <2>1. DoneStep("expired", p) => status'[p] = "expired"
      BY <1>a, OverStays DEF CalmPlan
  <2> QED BY <1>a, <1>2, <2>1 DEF DoneStep
<1> QED BY <1>1, <1>3, <1>4

\* What becomes of the policy is audited by the Runner that expired the plan.
LEMMA CleanedUpBy ==
    ASSUME ScenarioInv, [ScenarioNext]_allVars, NEW p \in PlanIds, CleanedUp(p)', ~CleanedUp(p)
    PROVE  \E w \in Workers : /\ AppendAudit(w) /\ PlanOf(w) = p
                              /\ pc[w] \in {"audit_rollback", "audit_deleted"}
<1>a. audit \in [PlanIds -> SUBSET AuditActions] /\ IInv
    BY DEF ScenarioInv, IInv, TypeOK
<1>1. PICK w \in Workers : WorkerStep(w)
    BY DriverLeaves DEF ScenarioNext, allVars, vars, CleanedUp
<1>2. audit'[p] # audit[p]
    BY DEF CleanedUp
<1>3. AppendAudit(w) \/ CommitApplied(w) \/ CommitAppliedFails(w) \/ RecordFailure(w)
    BY <1>1, <1>2
    DEF WorkerStep, RunnerStep, LeaseNext, LeaseLost, GetPlanFails, MarkJob, MarkLost, ApplyPolicy,
        ApplyPolicyFails, ArmDeadline, MarkPlanExpiredOnce, MarkPlanExpiredFails,
        ListAppliedPlans, RestorePolicy, DeletePolicy, CleanupFails, TickStep, TickList, TickFind,
        TickEnqueue
<1>4. AppendAudit(w)
    BY <1>a, <1>3 DEF CommitApplied, CommitAppliedFails, SetApplied, RecordFailure, Audited, CleanedUp
<1> QED BY <1>a, <1>4 DEF AppendAudit, AuditSteps, Audited, CleanedUp

\* A plan that is cleaned up is expired, and its clean-up is over.
LEMMA CleanedUpStep ==
    ASSUME ScenarioInv, CalmInv, errors' = 0, [ScenarioNext]_allVars, NEW p \in PlanIds,
           CleanedUp(p)'
    PROVE  status'[p] = "expired" /\ \A w \in Workers : pc'[w] \in ToTell => PlanOf(w)' # p
<1>a. CalmPlan(p) /\ pc \in [Workers -> RunnerStates] /\ \A w \in Workers : CalmRunner(w)
    BY DEF CalmInv, ScenarioInv, IInv, TypeOK
<1>1. CASE CleanedUp(p)
    BY <1>a, <1>1, OverStays, CleanupBegins DEF CalmPlan
<1>2. CASE ~CleanedUp(p)
  <2>1. PICK w \in Workers : /\ AppendAudit(w) /\ PlanOf(w) = p
                             /\ pc[w] \in {"audit_rollback", "audit_deleted"}
      BY <1>2, CleanedUpBy
  <2>2. pc[w] \in ToTell /\ pc'[w] = "ok" /\ status[p] = "expired"
      BY <1>a, <2>1 DEF AppendAudit, AuditSteps, Goto, ToTell, CalmRunner
  <2>3. ASSUME NEW v \in Workers, pc'[v] \in ToTell, PlanOf(v) = p PROVE FALSE
    <3>1. pc[v] \in ToTell
        BY <2>2, <2>3, CleanupBegins
    <3>2. v = w
        BY <1>a, <2>1, <2>2, <2>3, <3>1 DEF CalmRunner
    <3> QED BY <2>2, <2>3, <3>2 DEF ToTell, Cleanup
  <2> QED BY <2>2, <2>3, OverStays, CleanupBegins
<1> QED BY <1>1, <1>2

\* The calm invariant is kept until a call fails.
LEMMA CalmStep ==
    ASSUME ScenarioInv, CalmInv, errors' = 0, [ScenarioNext]_allVars PROVE CalmInv'
<1>1. ASSUME NEW p \in PlanIds PROVE CalmPlan(p)'
    BY OverStays, OverStep, BehindStep, ArmStep, CleanedUpStep DEF CalmPlan
<1> QED BY <1>1, CalmRunnerStep DEF CalmInv

\* The calm invariant holds at the start: nothing has happened to any plan.
LEMMA CalmInit == ScenarioInit => CalmInv
<1> SUFFICES ASSUME ScenarioInit PROVE CalmInv
    OBVIOUS
<1>1. \A op, p : ~DoneStep(op, p)
    BY ScenarioStart DEF ScenarioInit, DoneStep, Done
<1> QED BY <1>1 DEF ScenarioInit, Init, CalmInv, CalmPlan, CalmRunner, CleanedUp, Over, ToTell, Cleanup

\* Both invariants hold in every state of a scenario, one of them until a
\* call fails.
LEMMA ScenarioIsSafe == ScenarioSpec => [](ScenarioInv /\ (errors = 0 => CalmInv))
<1>1. ScenarioInit => ScenarioInv /\ CalmInv
    BY ScenarioStart, CalmInit
<1>2. /\ ScenarioInv /\ (errors = 0 => CalmInv) /\ [ScenarioNext]_allVars
      => (ScenarioInv /\ (errors = 0 => CalmInv))'
    BY ScenarioInvStep, CalmBefore, CalmStep
<1> QED BY <1>1, <1>2, PTL DEF ScenarioSpec
-----------------------------------------------------------------------------
\* What comes before the step that the script is at has been done.
LEMMA BehindIsDone ==
    ASSUME ScenarioInv, result = "running"
    PROVE  /\ \A op, p : EarlierStep(script, at, op, p) => DoneStep(op, p)
           /\ \A p, r : EarlierPlan(script, at, p, r) => p \in PlanIds /\ revOf[p] = r
<1>1. \A op, p : EarlierStep(script, at, op, p) => DoneStep(op, p)
    BY DEF EarlierStep, DoneStep, Done
<1>2. \A p, r : EarlierPlan(script, at, p, r) => p \in PlanIds /\ revOf[p] = r
    BY DEF EarlierPlan, ScenarioInv, MadeInv, Done
<1> QED BY <1>1, <1>2

\* The ways in which the driver can fail, one by one: all but one contradict
\* what the plan has become by then.
LEMMA FailsOneWay ==
    ASSUME ScenarioInv, CalmInv, ClientStep, result = "running", result' = "failed"
    PROVE  script[at].op = "has_deadline" /\ Arming(Plan)
<1>a. /\ WellMade(script) /\ at \in 1..Len(script) /\ IInv
      /\ KeyOf \in [Revisions -> Keys] /\ None \notin Keys
    BY ScriptIs, LifecycleAssumption DEF ScenarioInv
<1>b. script[at].op # "plan" => Plan \in PlanIds /\ Exists(Plan) /\ CalmPlan(Plan)
    BY PlanIsMade DEF CalmInv
<1>1. Fail /\ (WaitApplied \/ WaitExpired \/ CheckDeadline \/ Remember \/ Compare)
  <2>1. ~Advance
      BY DEF Advance
  <2>2. WaitApplied \/ WaitExpired \/ CheckDeadline \/ Remember \/ Compare
      BY <2>1 DEF ClientStep, CreatePlan, Apply, WaitPolicy, WaitAudit, ForceExpired, scriptVars
  <2> QED BY <2>1, <2>2 DEF WaitApplied, WaitExpired, CheckDeadline, Remember, Compare, Require
<1>2. ASSUME WaitApplied /\ Fail PROVE FALSE
  <2>1. script[at].op = "applied" /\ status[Plan] # "apply_failed"
      BY <1>b, <1>2 DEF WaitApplied, Doing, CalmPlan
  <2>2. status[Plan] = "applied" /\ ~(appliedRef[Plan] # None)
      BY <1>2, <2>1 DEF WaitApplied, Require, Advance, Fail
  <2>3. appliedRef[Plan] = KeyOfPlan(Plan) /\ revOf[Plan] \in Revisions
      BY <1>a, <1>b, <2>1, <2>2 DEF IInv, ExpiryInv, TypeOK
  <2> QED BY <1>a, <2>2, <2>3 DEF KeyOfPlan
<1>3. ASSUME WaitExpired /\ Fail PROVE FALSE
    BY <1>b, <1>3 DEF WaitExpired, Doing, CalmPlan, Advance, Fail
<1>4. ASSUME CheckDeadline /\ Fail PROVE script[at].op = "has_deadline" /\ Arming(Plan)
  <2>1. script[at].op = "has_deadline" /\ deadline[Arg] = "unset"
      BY <1>4 DEF CheckDeadline, Doing, Require, Advance, Fail
  <2>2. /\ EarlierStep(script, at, "applied", Plan) /\ EarlierPlan(script, at, Plan, Brief)
        /\ Arg = Brief
      BY <1>a, <2>1 DEF WellMade, Plan, Arg
  <2>3. DoneStep("applied", Plan) /\ Plan \in PlanIds /\ revOf[Plan] = Brief
      BY <2>2, BehindIsDone
  <2>4. status[Plan] # "expired"
      BY <1>a, <2>1, <2>2, <2>3 DEF IInv, ExpiryInv
  <2>5. status[Plan] = "applied"
      BY <1>b, <2>1, <2>3, <2>4 DEF CalmPlan, Over
  <2> QED BY <1>b, <2>1, <2>2, <2>3, <2>5, ScenarioAssumption DEF CalmPlan
<1>5. ASSUME Remember /\ Fail PROVE FALSE
  <2>1. script[at].op = "remember" /\ applyJob[Plan] = None
      BY <1>5 DEF Remember, Doing, Require, Advance, Fail
  <2>2. EarlierStep(script, at, "applied", Plan)
      BY <1>a, <2>1 DEF WellMade, Plan
  <2>3. status[Plan] \in Over
      BY <1>b, <2>1, <2>2, BehindIsDone DEF CalmPlan
  <2> QED BY <1>a, <1>b, <2>1, <2>3 DEF IInv, OwnInv, ApplyJobIsOwn, Over
<1>6. ASSUME Compare /\ Fail PROVE FALSE
  <2>1. script[at].op = "compare" /\ ~(status[Plan] = "applied" /\ before = Observed(Plan))
      BY <1>6 DEF Compare, Doing, Require, Advance, Fail
  <2>2. /\ EarlierStep(script, at, "applied", Plan) /\ EarlierStep(script, at, "remember", Plan)
        /\ EarlierPlan(script, at, Plan, Base)
      BY <1>a, <2>1 DEF WellMade, Plan
  <2>3. /\ DoneStep("applied", Plan) /\ DoneStep("remember", Plan)
        /\ Plan \in PlanIds /\ revOf[Plan] = Base
      BY <2>2, BehindIsDone
  <2>4. before = Observed(Plan)
      BY <2>3 DEF DoneStep, ScenarioInv, SeenInv
  <2>5. status[Plan] # "expired"
      BY <1>a, <2>3, ScenarioAssumption DEF IInv, ExpiryInv, ScenarioInv, DeadlineInv
  <2> QED BY <1>b, <2>1, <2>3, <2>4, <2>5 DEF CalmPlan, Over
<1> QED BY <1>1, <1>2, <1>3, <1>4, <1>5, <1>6

\* As long as no call of a worker fails, a scenario fails in one way only, for
\* any number of workers: ttl-delete reads not_after (checkDeadline of the
\* driver) between CommitApplied and ArmDeadline.
THEOREM ScenariosFailOneWay == ScenarioSpec => OnlyDeadlineRaces
<1>1. ScenarioInv /\ (errors = 0 => CalmInv) /\ [ScenarioNext]_allVars => [FailStep]_allVars
  <2> SUFFICES ASSUME ScenarioInv, CalmInv, [ScenarioNext]_allVars,
                      result = "running", result' = "failed"
               PROVE  script[at].op = "has_deadline"
                      /\ \E w \in Workers : pc[w] = "arm" /\ PlanOf(w) = Plan
      BY DEF FailStep
  <2>1. ClientStep
      BY DEF ScenarioNext, WorkerStep, allVars, scriptVars
  <2> QED BY <2>1, FailsOneWay DEF Arming
<1> QED BY <1>1, ScenarioIsSafe, PTL DEF ScenarioSpec, OnlyDeadlineRaces

-----------------------------------------------------------------------------
\* At the end of a scenario every plan is over, and one with a TTL is expired
\* and cleaned up.
LEMMA EndedPlans ==
    ASSUME ScenarioInv, CalmInv, result = "ok", NEW p \in PlanIds, Exists(p)
    PROVE  /\ status[p] \in Over
           /\ revOf[p] \in TtlRevisions => status[p] = "expired" /\ CleanedUp(p)
<1>a. WellMade(script) /\ WellEnded(script) /\ CalmPlan(p) /\ \A m \in 1..Len(script) : Done(m)
    BY ScriptIs DEF ScenarioInv, CalmInv, Done
<1>1. PICK m \in 1..Len(script) : script[m].op = "plan" /\ script[m].plan = p
    BY DEF ScenarioInv, MadeInv, DoneStep
<1>2. revOf[p] = script[m].arg /\ script[m].arg \in {Base, Brief}
    BY <1>a, <1>1 DEF ScenarioInv, MadeInv, WellMade
<1>3. \A op : EarlierStep(script, Len(script) + 1, op, p) => DoneStep(op, p)
    BY <1>a DEF EarlierStep, DoneStep
<1>4. status[p] \in Over
    BY <1>a, <1>1, <1>3 DEF WellEnded, CalmPlan
<1>5. ASSUME revOf[p] \in TtlRevisions PROVE status[p] = "expired" /\ CleanedUp(p)
  <2>1. script[m].arg = Brief
      BY <1>2, <1>5, ScenarioAssumption
  <2>2. status[p] = "expired"
      BY <1>a, <1>1, <1>3, <2>1 DEF WellEnded, CalmPlan
  <2>3. PICK n \in 1..Len(script) : /\ script[n].op = "audited" /\ script[n].plan = p
                                    /\ script[n].arg \in {"rollback_done", "ttl_deleted"}
      BY <1>a, <1>1, <2>1 DEF WellEnded
  <2>4. script[n].arg \in audit[p]
      BY <1>a, <2>3 DEF ScenarioInv, SeenInv
  <2> QED BY <2>2, <2>3, <2>4 DEF CleanedUp
<1> QED BY <1>4, <1>5

\* After that nothing is left for the workers to undo.
LEMMA NothingIsUndone ==
    ASSUME ScenarioInv, CalmInv, result = "ok", errors' = 0, [ScenarioNext]_allVars
    PROVE  cluster' = cluster /\ \A p \in PlanIds : status'[p] = status[p]
<1>a. IInv /\ ~ClientStep
    BY DriverLeaves DEF ScenarioInv
<1>1. ASSUME NEW w \in Workers, pc[w] # "idle", Kind(w) = "expire_ttl"
      PROVE  status[PlanOf(w)] = "expired" /\ CleanedUp(PlanOf(w))
  <2>1. PlanOf(w) \in PlanIds /\ Exists(PlanOf(w))
      BY <1>a, <1>1, HeldJob
  <2> QED BY <1>1, <2>1, ExpiringIsOver, EndedPlans
<1>2. ASSUME NEW p \in PlanIds, status'[p] # status[p] PROVE FALSE
  <2>1. CASE Exists(p)
    <3>1. status[p] \in Over
        BY <2>1, EndedPlans
    <3>2. PICK w \in Workers : /\ PlanOf(w) = p /\ pc[w] # "idle"
                               /\ MarkPlanExpiredOnce(w) /\ status[p] = "applied"
        BY <1>2, <3>1, OverStays
    <3> QED BY <1>1, <3>2 DEF MarkPlanExpiredOnce, Expiring
  <2>2. CASE ~Exists(p)
    <3>1. PICK w \in Workers : WorkerStep(w)
        BY <1>a, <1>2 DEF ScenarioNext, allVars, vars, planVars
    <3> QED BY <1>a, <1>2, <2>2, <3>1, WorkerLeaves DEF Exists
  <2> QED BY <2>1, <2>2
<1>3. ASSUME cluster' # cluster PROVE FALSE
  <2>1. [Next]_vars
      BY <1>a, ScenarioSteps DEF ClientStep
  <2>2. PICK w \in Workers : ApplyPolicy(w) \/ RestorePolicy(w) \/ DeletePolicy(w)
      BY <1>a, <1>3, <2>1, CalmCluster
  <2>3. CASE ApplyPolicy(w)
    <3>1. pc[w] = "handle" /\ Kind(w) = "apply_plan"
        BY <2>3 DEF ApplyPolicy, Applying
    <3>2. status[PlanOf(w)] \in Over
        BY <1>a, <3>1, HeldJob, EndedPlans
    <3> QED BY <3>1, <3>2, OverIsApplied
  <2>4. CASE RestorePolicy(w) \/ DeletePolicy(w)
    <3>1. pc[w] \in ToTell /\ Kind(w) = "expire_ttl" /\ pc[w] # "idle"
        BY <1>a, <2>4 DEF RestorePolicy, DeletePolicy, ToTell, Cleanup, IInv, RunnerInv, RunnerAt
    <3>2. PlanOf(w) \in PlanIds /\ CleanedUp(PlanOf(w))
        BY <1>a, <1>1, <3>1, HeldJob
    <3> QED BY <3>1, <3>2 DEF CalmInv, CalmPlan
  <2> QED BY <2>2, <2>3, <2>4
<1> QED BY <1>2, <1>3

\* As long as no call of a worker fails, what a scenario that ended ok has
\* checked stays so: the cluster and the statuses of all plans, for any number
\* of workers. No job is left that would apply, expire or clean up again.
THEOREM OkScenariosStand == ScenarioSpec => ResultStands
<1>1. ScenarioInv /\ (errors = 0 => CalmInv) /\ [ScenarioNext]_allVars => [OkStep]_allVars
  <2> SUFFICES ASSUME ScenarioInv, errors = 0 => CalmInv, [ScenarioNext]_allVars,
                      result = "ok", errors' = 0
               PROVE  cluster' = cluster /\ \A p \in PlanIds : status'[p] = status[p]
      BY DEF OkStep
  <2> QED BY CalmBefore, NothingIsUndone
<1> QED BY <1>1, ScenarioIsSafe, PTL DEF ScenarioSpec, ResultStands
=============================================================================
