--------------------------- MODULE PlanLifecycle ---------------------------
(***************************************************************************)
(* The life of a plan: the API plans a revision and queues its apply job   *)
(* (plan_intent.go, apply_plan.go), a Runner executes apply and expire     *)
(* jobs against Kubernetes (apply_worker.go, expire_ttl_worker.go), and a  *)
(* TTLWorker looks for plans whose deadline has passed (ttl_worker.go).    *)
(* All of them meet in the plans, intent_revisions and jobs tables.        *)
(*                                                                         *)
(* Each transaction, statement outside a transaction and Kubernetes call   *)
(* is one step. A call that fails either had no effect or had it and lost  *)
(* its answer. The mode is "k8s" without dry run.                          *)
(***************************************************************************)
EXTENDS Integers, FiniteSets

CONSTANTS
    Intents,      \* intent ids, numbers in the order of ORDER BY intent_id
    Revisions,    \* intent revisions: their rows exist from the start
    Keys,         \* namespace/name of the NetworkPolicies
    IntentOf,     \* intent_revisions.intent_id
    KeyOf,        \* the policy that the artifact of a revision renders to
    TtlRevisions, \* revisions with ttl_seconds > 0
    Unrenderable, \* revisions whose policy Kubernetes rejects for good (a port
                  \* above 65535, a name that is no DNS label)
    MaxPlans,     \* bound on PlanIntent; plans are numbered by created_at
    Calls,        \* concurrent ApplyPlan requests
    Workers,      \* worker processes, each with a Runner and a TTLWorker
    JobIds,       \* bound on Enqueue
    MaxAttempts,  \* 5 in the code
    Limit,        \* TTLWorker.Limit: 50 in the code
    MaxErrors,    \* bound on calls that fail
    MaxCrashes,   \* bound on crashes and lost marks of jobs
    None

PlanIds == 1..MaxPlans

Kinds == {"apply_plan", "expire_ttl"}

Payloads == [kind : Kinds, plan : PlanIds]

ASSUME LifecycleAssumption ==
    /\ Intents \subseteq Nat
    /\ IntentOf \in [Revisions -> Intents]
    /\ KeyOf \in [Revisions -> Keys]
    /\ TtlRevisions \subseteq Revisions /\ Unrenderable \subseteq Revisions
    /\ MaxPlans \in Nat /\ MaxAttempts \in Nat \ {0} /\ Limit \in Nat \ {0}
    /\ MaxErrors \in Nat /\ MaxCrashes \in Nat
    /\ None \notin JobIds \cup PlanIds \cup Payloads \cup Revisions \cup Keys

VARIABLES
    status,      \* plans.status; "absent" before PlanIntent
    revOf,       \* plans.revision_id
    applyJob,    \* plans.apply_job_id
    appliedRef,  \* plans.artifacts.k8s.applied
    deadline,    \* intent_revisions.not_after: unset, armed (future), passed
    cluster,     \* the plan that each NetworkPolicy was last written from
    call,        \* the plan that an ApplyPlan request has read and may write
    pc,          \* where each Runner is in step and in its handler
    target,      \* the rollback plan the expire handler has chosen
    pending,     \* what a TTLWorker tick still has to look at
    expiring,    \* the plan a tick found no active job for, about to enqueue
    audit,       \* audit_log: the actions recorded about each plan
    errors, crashes,                      \* failures so far
    jobStatus, attempts, payload, lease   \* the pool of jobs

planVars == <<status, revOf, applyJob, appliedRef>>
ttlVars == <<pending, expiring>>
runVars == <<pc, target>>
poolVars == <<jobStatus, attempts, payload, lease>>
failVars == <<errors, crashes>>
vars == <<planVars, deadline, cluster, call, runVars, ttlVars, audit, failVars,
          poolVars>>

Pool == INSTANCE JobPool

Statuses == {"absent", "planned", "applying", "applied", "apply_failed", "expired"}

RunnerStates ==
    {"idle", "handle", "commit", "record", "arm", "audit_expired", "list",
     "restore", "delete", "audit_rollback", "audit_deleted", "ok", "err"}

AuditActions ==
    {"plan_created", "apply_queued", "apply_done", "apply_failed",
     "ttl_expired", "rollback_done", "ttl_deleted"}

\* Every column, local variable and policy has a value of its type.
TypeOK ==
    /\ status \in [PlanIds -> Statuses]
    /\ revOf \in [PlanIds -> Revisions \cup {None}]
    /\ \A p \in PlanIds : status[p] # "absent" => revOf[p] \in Revisions
    /\ applyJob \in [PlanIds -> JobIds \cup {None}]
    /\ appliedRef \in [PlanIds -> Keys \cup {None}]
    /\ deadline \in [Revisions -> {"unset", "armed", "passed"}]
    /\ cluster \in [Keys -> PlanIds \cup {None}]
    /\ call \in [Calls -> PlanIds \cup {None}]
    /\ pc \in [Workers -> RunnerStates]
    /\ target \in [Workers -> PlanIds \cup {None}]
    /\ pending \in [Workers -> SUBSET PlanIds]
    /\ expiring \in [Workers -> PlanIds \cup {None}]
    /\ audit \in [PlanIds -> SUBSET AuditActions]
    /\ errors \in 0..MaxErrors /\ crashes \in 0..MaxCrashes
    /\ Pool!TypeOK

Init ==
    /\ status = [p \in PlanIds |-> "absent"]
    /\ revOf = [p \in PlanIds |-> None]
    /\ applyJob = [p \in PlanIds |-> None]
    /\ appliedRef = [p \in PlanIds |-> None]
    /\ deadline = [r \in Revisions |-> "unset"]
    /\ cluster = [k \in Keys |-> None]
    /\ call = [c \in Calls |-> None]
    /\ pc = [w \in Workers |-> "idle"]
    /\ target = [w \in Workers |-> None]
    /\ pending = [w \in Workers |-> {}]
    /\ expiring = [w \in Workers |-> None]
    /\ audit = [p \in PlanIds |-> {}]
    /\ errors = 0 /\ crashes = 0
    /\ Pool!Init

-----------------------------------------------------------------------------
\* Shared pieces of the actions.

Exists(p) == status[p] # "absent"
IntentOfPlan(p) == IntentOf[revOf[p]]
KeyOfPlan(p) == KeyOf[revOf[p]]

About(j, kind, p) == payload[j] = [kind |-> kind, plan |-> p]
Active(j) == jobStatus[j] \in {"queued", "running"}

\* The job a Runner holds, and the plan it is about.
Kind(w) == payload[lease[w]].kind
PlanOf(w) == payload[lease[w]].plan

\* A fresh uuid; the bound on jobs is reached when there is none.
RoomForJob == \E j \in JobIds : jobStatus[j] = "none"
NewJob == CHOOSE j \in JobIds : jobStatus[j] = "none"

Goto(w, next) == pc' = [pc EXCEPT ![w] = next]
SetStatus(p, s) == status' = [status EXCEPT ![p] = s]
Audited(p, action) == audit' = [audit EXCEPT ![p] = @ \cup {action}]

CallFails == errors < MaxErrors /\ errors' = errors + 1 /\ UNCHANGED crashes
ProcessFails == crashes < MaxCrashes /\ crashes' = crashes + 1 /\ UNCHANGED errors

-----------------------------------------------------------------------------
\* The API process.

\* Mutant of PlanIntent: the plan is inserted without its revision.
PlanIntentUnlinked(r) ==
    \E p \in PlanIds :
        /\ ~Exists(p) /\ \A q \in 1..(p - 1) : Exists(q)
        /\ SetStatus(p, "planned")
        /\ Audited(p, "plan_created")
        /\ UNCHANGED <<revOf, applyJob, appliedRef, deadline, cluster, call, runVars,
                       ttlVars, failVars, poolVars>>

PlanIntent(r) ==
    \E p \in PlanIds :
        /\ ~Exists(p) /\ \A q \in 1..(p - 1) : Exists(q)
        /\ SetStatus(p, "planned")
        /\ revOf' = [revOf EXCEPT ![p] = r]
        /\ Audited(p, "plan_created")
        /\ UNCHANGED <<applyJob, appliedRef, deadline, cluster, call, runVars,
                       ttlVars, failVars, poolVars>>

\* GetPlan takes no lock: the request goes on with what it has read here.
\* A plan that is applied or has its job is answered without a change.
ApplyPlanRead(c, p) ==
    /\ call[c] = None
    /\ Exists(p) /\ status[p] # "applied" /\ applyJob[p] = None
    /\ call' = [call EXCEPT ![c] = p]
    /\ UNCHANGED <<planVars, deadline, cluster, runVars, ttlVars, audit, failVars,
                   poolVars>>

\* Mutants of SetApplyJobOnce: the guard apply_job_id IS NULL dropped, inverted.
SetApplyJob(p, j) == applyJob' = [applyJob EXCEPT ![p] = j]
SetApplyJobAgain(p, j) ==
    applyJob' = [applyJob EXCEPT ![p] = IF @ # None THEN j ELSE @]

SetApplyJobOnce(p, j) ==
    applyJob' = [applyJob EXCEPT ![p] = IF @ = None THEN j ELSE @]

\* Mutant of ApplyPlanWrite: looks whether the plan has its job after writing
\* the status, and then queues none.
ApplyPlanWriteStatusFirst(c) ==
    /\ call[c] # None
    /\ RoomForJob
    /\ SetStatus(call[c], "applying")
    /\ IF applyJob[call[c]] = None
       THEN /\ Pool!Enqueue(NewJob, [kind |-> "apply_plan", plan |-> call[c]])
            /\ SetApplyJobOnce(call[c], NewJob)
            /\ Audited(call[c], "apply_queued")
       ELSE UNCHANGED <<applyJob, audit, poolVars>>
    /\ call' = [call EXCEPT ![c] = None]
    /\ UNCHANGED <<revOf, appliedRef, deadline, cluster, runVars, ttlVars, failVars>>

\* From UpdatePlanStatus, which takes the row lock, to the commit. When
\* another request has set the job first the transaction still commits, with
\* the status and with its own job.
ApplyPlanWrite(c) ==
    /\ call[c] # None
    /\ RoomForJob
    /\ LET p == call[c] IN
         /\ SetStatus(p, "applying")
         /\ Pool!Enqueue(NewJob, [kind |-> "apply_plan", plan |-> p])
         /\ SetApplyJobOnce(p, NewJob)
         /\ IF applyJob[p] = None THEN Audited(p, "apply_queued") ELSE UNCHANGED audit
    /\ call' = [call EXCEPT ![c] = None]
    /\ UNCHANGED <<revOf, appliedRef, deadline, cluster, runVars, ttlVars, failVars>>

\* Any error, or the end of the request's context, before the commit.
ApplyPlanAbort(c) ==
    /\ call[c] # None
    /\ call' = [call EXCEPT ![c] = None]
    /\ UNCHANGED <<planVars, deadline, cluster, runVars, ttlVars, audit, failVars,
                   poolVars>>

-----------------------------------------------------------------------------
\* The Runner: lease, handle, mark.

LeaseNext(w) ==
    /\ pc[w] = "idle"
    /\ \E j \in JobIds : Pool!LeaseNext(w, j)
    /\ Goto(w, "handle")
    /\ UNCHANGED <<planVars, deadline, cluster, call, target, ttlVars, audit, failVars>>

\* The lease commits and the Runner sees an error: nobody holds the job.
LeaseLost(w) ==
    /\ pc[w] = "idle"
    /\ ProcessFails
    /\ \E j \in JobIds : Pool!LeaseLost(w, j)
    /\ UNCHANGED <<planVars, deadline, cluster, call, runVars, ttlVars, audit>>

\* GetPlan fails at the start of either handler.
GetPlanFails(w) ==
    /\ pc[w] = "handle"
    /\ CallFails
    /\ Goto(w, "err")
    /\ UNCHANGED <<planVars, deadline, cluster, call, target, ttlVars, audit, poolVars>>

MarkJob(w) ==
    /\ \/ pc[w] = "ok" /\ Pool!MarkDone(w)
       \/ pc[w] = "err" /\ Pool!MarkFailed(w)
    /\ Goto(w, "idle")
    /\ target' = [target EXCEPT ![w] = None]
    /\ UNCHANGED <<planVars, deadline, cluster, call, ttlVars, audit, failVars>>

\* The mark fails: step logs and returns, the job stays running for ever.
MarkLost(w) ==
    /\ pc[w] \in {"ok", "err"}
    /\ ProcessFails
    /\ Pool!Forget(w)
    /\ Goto(w, "idle")
    /\ target' = [target EXCEPT ![w] = None]
    /\ UNCHANGED <<planVars, deadline, cluster, call, ttlVars, audit>>

\* The process dies, with its Runner and its TTLWorker, and is restarted.
Crash(w) ==
    /\ ProcessFails
    /\ pc[w] # "idle" \/ pending[w] # {} \/ expiring[w] # None
    /\ lease' = [lease EXCEPT ![w] = None]
    /\ pc' = [pc EXCEPT ![w] = "idle"]
    /\ target' = [target EXCEPT ![w] = None]
    /\ pending' = [pending EXCEPT ![w] = {}]
    /\ expiring' = [expiring EXCEPT ![w] = None]
    /\ UNCHANGED <<planVars, deadline, cluster, call, audit,
                   jobStatus, attempts, payload>>

-----------------------------------------------------------------------------
\* ApplyWorker.Handle. Of GetPlan it uses what never changes: the artifact.

Applying(w) == pc[w] = "handle" /\ Kind(w) = "apply_plan"

ApplyNetworkPolicy(p) == cluster' = [cluster EXCEPT ![KeyOfPlan(p)] = p]

ApplyPolicy(w) ==
    /\ Applying(w)
    /\ revOf[PlanOf(w)] \notin Unrenderable
    /\ ApplyNetworkPolicy(PlanOf(w))
    /\ Goto(w, "commit")
    /\ UNCHANGED <<planVars, deadline, call, target, ttlVars, audit, failVars, poolVars>>

ApplyPolicyFails(w) ==
    /\ Applying(w)
    /\ \/ revOf[PlanOf(w)] \in Unrenderable /\ UNCHANGED <<cluster, failVars>>
       \/ /\ revOf[PlanOf(w)] \notin Unrenderable
          /\ CallFails
          /\ UNCHANGED cluster \/ ApplyNetworkPolicy(PlanOf(w))
    /\ Goto(w, "record")
    /\ UNCHANGED <<planVars, deadline, call, target, ttlVars, audit, poolVars>>

\* Mutant of SetApplied: SetAppliedK8sRef left out.
SetAppliedWithoutRef(p) ==
    /\ SetStatus(p, "applied")
    /\ Audited(p, "apply_done")
    /\ UNCHANGED appliedRef

\* One transaction: status, SetAppliedK8sRef, audit.
SetApplied(p) ==
    /\ SetStatus(p, "applied")
    /\ appliedRef' = [appliedRef EXCEPT ![p] = KeyOfPlan(p)]
    /\ Audited(p, "apply_done")

CommitApplied(w) ==
    /\ pc[w] = "commit"
    /\ SetApplied(PlanOf(w))
    /\ Goto(w, "arm")
    /\ UNCHANGED <<revOf, applyJob, deadline, cluster, call, target, ttlVars,
                   failVars, poolVars>>

CommitAppliedFails(w) ==
    /\ pc[w] = "commit"
    /\ CallFails
    /\ SetApplied(PlanOf(w)) \/ UNCHANGED <<status, appliedRef, audit>>
    /\ Goto(w, "record")
    /\ UNCHANGED <<revOf, applyJob, deadline, cluster, call, target, ttlVars, poolVars>>

\* The closure markFailed: its errors are ignored, the job fails either way.
RecordFailure(w) ==
    /\ pc[w] = "record"
    /\ \/ /\ SetStatus(PlanOf(w), "apply_failed")
          /\ Audited(PlanOf(w), "apply_failed")
          /\ UNCHANGED failVars
       \/ CallFails /\ UNCHANGED <<status, audit>>
    /\ Goto(w, "err")
    /\ UNCHANGED <<revOf, applyJob, appliedRef, deadline, cluster, call, target,
                   ttlVars, poolVars>>

\* Mutant of SetNotAfterOnFirstApply: RefreshNotAfterOnApply of the repository.
RefreshNotAfterOnApply(r) ==
    deadline' = IF r \in TtlRevisions THEN [deadline EXCEPT ![r] = "armed"] ELSE deadline

\* not_after is written once, by the first plan of the revision to be applied.
SetNotAfterOnFirstApply(r) ==
    deadline' = IF r \in TtlRevisions /\ deadline[r] = "unset"
                THEN [deadline EXCEPT ![r] = "armed"] ELSE deadline

\* The error of SetNotAfterOnFirstApply is ignored: the job is done either way.
ArmDeadline(w) ==
    /\ pc[w] = "arm"
    /\ \/ SetNotAfterOnFirstApply(revOf[PlanOf(w)]) /\ UNCHANGED failVars
       \/ CallFails /\ UNCHANGED deadline
    /\ Goto(w, "ok")
    /\ UNCHANGED <<planVars, cluster, call, target, ttlVars, audit, poolVars>>

-----------------------------------------------------------------------------
\* ExpireTTLWorker.Handle.

Expiring(w) == pc[w] = "handle" /\ Kind(w) = "expire_ttl"

\* The gate: only the execution that changes the status goes on to clean up.
MarkPlanExpiredOnce(w) ==
    /\ Expiring(w)
    /\ IF status[PlanOf(w)] = "expired"
       THEN Goto(w, "ok") /\ UNCHANGED status
       ELSE Goto(w, "audit_expired") /\ SetStatus(PlanOf(w), "expired")
    /\ UNCHANGED <<revOf, applyJob, appliedRef, deadline, cluster, call, target,
                   ttlVars, audit, failVars, poolVars>>

MarkPlanExpiredFails(w) ==
    /\ Expiring(w)
    /\ CallFails
    /\ UNCHANGED status \/ SetStatus(PlanOf(w), "expired")
    /\ Goto(w, "err")
    /\ UNCHANGED <<revOf, applyJob, appliedRef, deadline, cluster, call, target,
                   ttlVars, audit, poolVars>>

\* Mutant of AuditSteps: the handler returns once the expiry is audited.
AuditStepsReturning ==
    [audit_expired |-> <<"ttl_expired", "ok">>,
     audit_rollback |-> <<"rollback_done", "ok">>,
     audit_deleted |-> <<"ttl_deleted", "ok">>]

\* The audit transactions of the handler: their errors are ignored.
AuditSteps ==
    [audit_expired |-> <<"ttl_expired", "list">>,
     audit_rollback |-> <<"rollback_done", "ok">>,
     audit_deleted |-> <<"ttl_deleted", "ok">>]

AppendAudit(w) ==
    /\ pc[w] \in DOMAIN AuditSteps
    /\ \/ Audited(PlanOf(w), AuditSteps[pc[w]][1]) /\ UNCHANGED failVars
       \/ CallFails /\ UNCHANGED audit
    /\ Goto(w, AuditSteps[pc[w]][2])
    /\ UNCHANGED <<planVars, deadline, cluster, call, target, ttlVars, poolVars>>

\* Mutant of AppliedPlans: whatever is not expired.
UnexpiredPlans(i) ==
    {p \in PlanIds : status[p] \notin {"absent", "expired"} /\ IntentOfPlan(p) = i}

AppliedPlans(i) == {p \in PlanIds : status[p] = "applied" /\ IntentOfPlan(p) = i}

\* ORDER BY created_at DESC: the first row is the newest plan.
IsNewest(p, S) == p \in S /\ \A q \in S : q <= p

\* Mutant of ListAppliedPlans: an expired plan is deleted, never rolled back.
ListNothing(w) ==
    /\ pc[w] = "list"
    /\ Goto(w, "delete")
    /\ UNCHANGED <<planVars, deadline, cluster, call, target, ttlVars, audit,
                   failVars, poolVars>>

\* The newest other applied plan of the intent, if any, is rolled back to.
ListAppliedPlans(w) ==
    /\ pc[w] = "list"
    /\ LET others == AppliedPlans(IntentOfPlan(PlanOf(w))) \ {PlanOf(w)} IN
       \/ others = {} /\ Goto(w, "delete") /\ UNCHANGED target
       \/ \E t \in PlanIds :
            /\ IsNewest(t, others)
            /\ Goto(w, "restore")
            /\ target' = [target EXCEPT ![w] = t]
    /\ UNCHANGED <<planVars, deadline, cluster, call, ttlVars, audit, failVars, poolVars>>

RestorePolicy(w) ==
    /\ pc[w] = "restore"
    /\ ApplyNetworkPolicy(target[w])
    /\ Goto(w, "audit_rollback")
    /\ UNCHANGED <<planVars, deadline, call, target, ttlVars, audit, failVars, poolVars>>

\* The policy to delete: the one recorded when the plan was applied.
PolicyOf(p) == IF appliedRef[p] # None THEN appliedRef[p] ELSE KeyOfPlan(p)

DeleteNetworkPolicy(p) == cluster' = [cluster EXCEPT ![PolicyOf(p)] = None]

\* Kubernetes answers NotFound, an error, when the policy is not there.
DeletePolicy(w) ==
    /\ pc[w] = "delete"
    /\ DeleteNetworkPolicy(PlanOf(w))
    /\ Goto(w, IF cluster[PolicyOf(PlanOf(w))] = None THEN "err" ELSE "audit_deleted")
    /\ UNCHANGED <<planVars, deadline, call, target, ttlVars, audit, failVars, poolVars>>

\* A failed list, restore or delete ends the handler with the error.
CleanupFails(w) ==
    /\ pc[w] \in {"list", "restore", "delete"}
    /\ CallFails
    /\ \/ UNCHANGED cluster
       \/ pc[w] = "restore" /\ ApplyNetworkPolicy(target[w])
       \/ pc[w] = "delete" /\ DeleteNetworkPolicy(PlanOf(w))
    /\ Goto(w, "err")
    /\ UNCHANGED <<planVars, deadline, call, target, ttlVars, audit, poolVars>>

-----------------------------------------------------------------------------
\* The TTLWorker: one tick at a time.

\* DISTINCT ON (intent_id) ... ORDER BY intent_id, created_at DESC LIMIT
WithApplied == {i \in Intents : AppliedPlans(i) # {}}
Listed == {i \in WithApplied : Cardinality({k \in WithApplied : k < i}) < Limit}
\* Mutant of LatestApplied: DISTINCT ON with created_at ascending.
OldestApplied ==
    {p \in PlanIds : \E i \in Listed :
        p \in AppliedPlans(i) /\ \A q \in AppliedPlans(i) : p <= q}

LatestApplied == {p \in PlanIds : \E i \in Listed : IsNewest(p, AppliedPlans(i))}

\* Mutant of TickList: a plan without a deadline counts as due.
TickListUnfiltered(w) ==
    /\ pending[w] = {} /\ expiring[w] = None
    /\ LatestApplied # {}
    /\ pending' = [pending EXCEPT ![w] = LatestApplied]
    /\ UNCHANGED <<planVars, deadline, cluster, call, runVars, expiring, audit,
                   failVars, poolVars>>

\* An empty list leaves nothing to do until the next tick.
TickList(w) ==
    /\ pending[w] = {} /\ expiring[w] = None
    /\ LET due == {p \in LatestApplied : deadline[revOf[p]] = "passed"} IN
         /\ due # {}
         /\ pending' = [pending EXCEPT ![w] = due]
    /\ UNCHANGED <<planVars, deadline, cluster, call, runVars, expiring, audit,
                   failVars, poolVars>>

ExpireJobActive(p) == \E j \in JobIds : About(j, "expire_ttl", p) /\ Active(j)

\* FindActiveExpireTTL: an active job of the plan skips it, and so does
\* nothing else: an error of the query leads to the enqueue.
TickFind(w, p) ==
    /\ p \in pending[w] /\ expiring[w] = None
    /\ pending' = [pending EXCEPT ![w] = @ \ {p}]
    /\ \/ ExpireJobActive(p) /\ UNCHANGED <<expiring, failVars>>
       \/ ~ExpireJobActive(p) /\ expiring' = [expiring EXCEPT ![w] = p] /\ UNCHANGED failVars
       \/ ExpireJobActive(p) /\ CallFails /\ expiring' = [expiring EXCEPT ![w] = p]
    /\ UNCHANGED <<planVars, deadline, cluster, call, runVars, audit, poolVars>>

\* The error of Enqueue is ignored: the next tick lists the plan again.
TickEnqueue(w) ==
    /\ expiring[w] # None
    /\ \/ /\ RoomForJob
          /\ Pool!Enqueue(NewJob, [kind |-> "expire_ttl", plan |-> expiring[w]])
          /\ UNCHANGED failVars
       \/ CallFails /\ UNCHANGED poolVars
    /\ expiring' = [expiring EXCEPT ![w] = None]
    /\ UNCHANGED <<planVars, deadline, cluster, call, runVars, pending, audit>>

\* The clock passes not_after.
DeadlinePasses(r) ==
    /\ deadline[r] = "armed"
    /\ deadline' = [deadline EXCEPT ![r] = "passed"]
    /\ UNCHANGED <<planVars, cluster, call, runVars, ttlVars, audit, failVars, poolVars>>

-----------------------------------------------------------------------------
ApiStep ==
    \/ \E r \in Revisions : PlanIntent(r)
    \/ \E c \in Calls : \/ \E p \in PlanIds : ApplyPlanRead(c, p)
                       \/ ApplyPlanWrite(c)
                       \/ ApplyPlanAbort(c)

RunnerStep(w) ==
    \/ LeaseNext(w) \/ LeaseLost(w) \/ GetPlanFails(w) \/ MarkJob(w) \/ MarkLost(w)
    \/ ApplyPolicy(w) \/ ApplyPolicyFails(w) \/ CommitApplied(w) \/ CommitAppliedFails(w)
    \/ RecordFailure(w) \/ ArmDeadline(w)
    \/ MarkPlanExpiredOnce(w) \/ MarkPlanExpiredFails(w) \/ AppendAudit(w)
    \/ ListAppliedPlans(w) \/ RestorePolicy(w) \/ DeletePolicy(w) \/ CleanupFails(w)

TickStep(w) ==
    \/ TickList(w)
    \/ \E p \in PlanIds : TickFind(w, p)
    \/ TickEnqueue(w)

Next ==
    \/ ApiStep
    \/ \E w \in Workers : RunnerStep(w) \/ TickStep(w) \/ Crash(w)
    \/ \E r \in Revisions : DeadlinePasses(r)

Spec == Init /\ [][Next]_vars

\* The two loops of a worker process never stop for good (their tickers, and
\* the calls they make return), and time passes. Requests are not owed.
FairSpec ==
    /\ Spec
    /\ \A w \in Workers : WF_vars(RunnerStep(w)) /\ WF_vars(TickStep(w))
    /\ \A r \in Revisions : WF_vars(DeadlinePasses(r))

-----------------------------------------------------------------------------
\* The job of a plan is chosen once and for all, whatever requests race to
\* queue it (SetApplyJobOnce of ApplyPlan).
JobChosenStep ==
    \A p \in PlanIds : applyJob[p] # None => applyJob'[p] = applyJob[p]

ApplyJobOnce == [][JobChosenStep]_vars

\* apply_job_id names an apply job of that very plan, and a plan that was ever
\* applied or expired has one: no plan reaches the cluster unqueued.
ApplyJobIsOwn ==
    \A p \in PlanIds :
        /\ applyJob[p] # None => About(applyJob[p], "apply_plan", p)
        /\ status[p] \notin {"absent", "planned"} => applyJob[p] # None

\* A plan is expired only when the deadline of its revision has passed, and an
\* expire job is never queued before that: applying again does not move the
\* deadline under a queued expiry (SetNotAfterOnFirstApply, TTLWorker.tick).
ExpiryAfterDeadline ==
    /\ \A p \in PlanIds : status[p] = "expired" => deadline[revOf[p]] = "passed"
    /\ \A j \in JobIds, p \in PlanIds :
         About(j, "expire_ttl", p) => deadline[revOf[p]] = "passed"

\* An expire job finds the policy recorded by the apply it undoes: it never
\* has to guess the name (the fallbacks of ExpireTTLWorker.Handle).
ExpiryHasRef ==
    \A j \in JobIds, p \in PlanIds :
        About(j, "expire_ttl", p) => appliedRef[p] = KeyOfPlan(p)

\* The runner that holds j is past the commit of the outcome.
Recorded(w) == pc[w] \in {"arm", "ok"}

\* A plan says "applying" only while the queue owes it an answer: some apply
\* job of the plan has yet to be executed, or was given up or lost. No
\* interleaving of requests, retries and expiries leaves the status behind
\* with all its jobs done (ApplyPlan writes the status before the job).
ApplyingIsOwed ==
    \A p \in PlanIds : status[p] = "applying" =>
        \E j \in JobIds :
            /\ About(j, "apply_plan", p)
            /\ jobStatus[j] # "done"
            /\ \A w \in Workers : lease[w] = j => ~Recorded(w)

\* No job that touches the policy k is queued or running.
Settled(k) ==
    \A j \in JobIds : Active(j) => KeyOfPlan(payload[j].plan) # k

\* With one worker, as long as no call has failed, a policy that no job is
\* about is the policy of an applied plan: nothing enforces an expired plan.
EnforcedIsApplied ==
    errors = 0 =>
        \A k \in Keys :
            Settled(k) /\ cluster[k] # None => status[cluster[k]] = "applied"

\* With one worker, whatever fails, there is a policy of the name that a plan
\* recorded as applied writes, even between the jobs that write and delete it.
\* Which plan wrote it is what EnforcedIsApplied is about. (It needs that no two
\* intents write a policy of one name: the expiry of one deletes the other's.)
AppliedIsEnforced ==
    \A p \in PlanIds :
        status[p] = "applied" => cluster[KeyOfPlan(p)] # None

\* With one worker, as long as no call has failed and no two intents write a
\* policy of one name (OneIntentPerPolicy), the audit trail tells of every expiry
\* what became of the policy. (With two, the delete of the second that expires
\* gets NotFound, its retry stops at the gate, and its fate is never audited.)
ExpiryIsAudited ==
    errors = 0 =>
        \A p \in PlanIds : status[p] = "expired" /\ Settled(KeyOfPlan(p)) =>
            /\ "ttl_expired" \in audit[p]
            /\ audit[p] \cap {"rollback_done", "ttl_deleted"} # {}

\* What the end-to-end test expects of a second apply: the status of an applied
\* plan stays. (A request that has read the plan before another one's job
\* applied it sets it back to applying, and queues a second job with it.)
ReapplyIsNoOp ==
    [][\A c \in Calls : ApplyPlanWrite(c) => status[call[c]] # "applied"]_vars

\* What the end-to-end test expects of an expiry: the policy of the expired
\* plan is gone once its jobs are over. (Any call of the handler that fails
\* once the status is set breaks it: the update itself when its answer is lost,
\* the list of applied plans, the rollback or the delete.)
ExpiredIsRemoved ==
    \A p \in PlanIds :
        status[p] = "expired" /\ Settled(KeyOfPlan(p)) => cluster[KeyOfPlan(p)] # p

\* Failures that the retries can absorb do not lose an apply: a plan that was
\* queued, or whose apply has failed once, is eventually applied.
QueuedIsApplied ==
    \A p \in PlanIds :
        (status[p] \in {"applying", "apply_failed"} /\ revOf[p] \notin Unrenderable)
        ~> (status[p] = "applied")

Newest(p) == Exists(p) /\ IsNewest(p, AppliedPlans(IntentOfPlan(p)))

\* The newest applied plan of an intent does not outlive its deadline: it is
\* expired, unless a newer one takes its place.
NewestExpires ==
    \A p \in PlanIds :
        (Newest(p) /\ deadline[revOf[p]] = "passed") ~> ~Newest(p)
=============================================================================
