------------------------------ MODULE JobPool ------------------------------
(***************************************************************************)
(* What the jobs table promises to its users: a pool of jobs, each leased  *)
(* by at most one runner at a time, retried a bounded number of times.     *)
(*                                                                         *)
(* The order of leases, the clock and the back-off are left open here;     *)
(* JobQueue.tla is the SQL of jobs_queue.go and implements this module.    *)
(* PlanLifecycle.tla composes the API and the workers over this module.    *)
(***************************************************************************)
EXTENDS Integers

CONSTANTS
    JobIds,       \* the ids Enqueue may draw: the bound on the jobs of a behaviour
    Workers,      \* worker processes, each with one sequential Runner
    Payloads,     \* what a job asks for
    MaxAttempts,  \* 5 in the code: the failures after which a job is given up
    None          \* no job, no payload

ASSUME MaxAttemptsAssumption == MaxAttempts \in Nat \ {0}
ASSUME NoneAssumption == None \notin JobIds /\ None \notin Payloads

VARIABLES
    jobStatus,  \* jobs.status; "none" where there is no row yet
    attempts,   \* jobs.attempts
    payload,    \* jobs.kind and jobs.payload
    lease       \* the job in the hands of each Runner: jobID in Runner.step

poolVars == <<jobStatus, attempts, payload, lease>>

JobStatuses == {"none", "queued", "running", "done", "failed"}

\* Every table row and every runner has a value of its column's type.
TypeOK ==
    /\ jobStatus \in [JobIds -> JobStatuses]
    /\ attempts \in [JobIds -> 0..MaxAttempts]
    /\ payload \in [JobIds -> Payloads \cup {None}]
    /\ lease \in [Workers -> JobIds \cup {None}]

Init ==
    /\ jobStatus = [j \in JobIds |-> "none"]
    /\ attempts = [j \in JobIds |-> 0]
    /\ payload = [j \in JobIds |-> None]
    /\ lease = [w \in Workers |-> None]

Held(j) == \E w \in Workers : lease[w] = j

\* A running job whose runner is gone: nothing in the code looks for it.
Orphan(j) == jobStatus[j] = "running" /\ ~Held(j)

-----------------------------------------------------------------------------
Enqueue(j, pl) ==
    /\ jobStatus[j] = "none"
    /\ jobStatus' = [jobStatus EXCEPT ![j] = "queued"]
    /\ payload' = [payload EXCEPT ![j] = pl]
    /\ UNCHANGED <<attempts, lease>>

\* Mutant of LeaseNext: the SELECT also takes rows that are running.
LeaseNextOrSteal(w, j) ==
    /\ lease[w] = None
    /\ jobStatus[j] \in {"queued", "running"}
    /\ jobStatus' = [jobStatus EXCEPT ![j] = "running"]
    /\ lease' = [lease EXCEPT ![w] = j]
    /\ UNCHANGED <<attempts, payload>>

LeaseNext(w, j) ==
    /\ lease[w] = None
    /\ jobStatus[j] = "queued"
    /\ jobStatus' = [jobStatus EXCEPT ![j] = "running"]
    /\ lease' = [lease EXCEPT ![w] = j]
    /\ UNCHANGED <<attempts, payload>>

\* The commit of LeaseNext takes effect and its answer is lost: Runner.step
\* returns on the error and the row stays running.
LeaseLost(w, j) ==
    /\ lease[w] = None
    /\ jobStatus[j] = "queued"
    /\ jobStatus' = [jobStatus EXCEPT ![j] = "running"]
    /\ UNCHANGED <<attempts, payload, lease>>

MarkDone(w) ==
    /\ lease[w] # None
    /\ jobStatus' = [jobStatus EXCEPT ![lease[w]] = "done"]
    /\ lease' = [lease EXCEPT ![w] = None]
    /\ UNCHANGED <<attempts, payload>>

\* Mutant of GivenUp: compares before counting the failure.
GivenUpLate(n) == n >= MaxAttempts

\* Mutant of GivenUp: counts the failure twice.
GivenUpEarly(n) == n + 2 >= MaxAttempts

GivenUp(n) == n + 1 >= MaxAttempts

\* Mutant of MarkFailed: requeues the job without counting the attempt.
MarkFailedUncounted(w) ==
    /\ lease[w] # None
    /\ jobStatus' = [jobStatus EXCEPT ![lease[w]] =
           IF GivenUp(attempts[lease[w]]) THEN "failed" ELSE "queued"]
    /\ lease' = [lease EXCEPT ![w] = None]
    /\ UNCHANGED <<attempts, payload>>

MarkFailed(w) ==
    /\ lease[w] # None
    /\ LET j == lease[w] IN
         /\ jobStatus' = [jobStatus EXCEPT ![j] =
                IF GivenUp(attempts[j]) THEN "failed" ELSE "queued"]
         /\ attempts' = [attempts EXCEPT ![j] = @ + 1]
    /\ lease' = [lease EXCEPT ![w] = None]
    /\ UNCHANGED payload

\* The process dies, or the mark does not reach the database: the runner
\* goes on to other jobs and the row is left as it is.
Forget(w) ==
    /\ lease[w] # None
    /\ lease' = [lease EXCEPT ![w] = None]
    /\ UNCHANGED <<jobStatus, attempts, payload>>

Step(w) ==
    \/ \E j \in JobIds : LeaseNext(w, j) \/ LeaseLost(w, j)
    \/ MarkDone(w)
    \/ MarkFailed(w)
    \/ Forget(w)

Next ==
    \/ \E j \in JobIds, pl \in Payloads : Enqueue(j, pl)
    \/ \E w \in Workers : Step(w)

Spec == Init /\ [][Next]_poolVars

\* A Runner polls every 500 ms and its handlers return: it never stops
\* taking steps. Nothing is assumed of those who enqueue.
FairSpec == Spec /\ \A w \in Workers : WF_poolVars(Step(w))

-----------------------------------------------------------------------------
\* A leased job is running and no two runners hold the same job: a plan is
\* never patched by two executions of one job (FOR UPDATE SKIP LOCKED).
ExclusiveLease ==
    \A w \in Workers : lease[w] # None =>
        /\ jobStatus[lease[w]] = "running"
        /\ \A v \in Workers : lease[v] = lease[w] => v = w

\* A job is given up exactly when its failures reach the budget, and is
\* never leased again after it (the CASE of MarkFailed).
RetryBudget ==
    \A j \in JobIds : jobStatus[j] = "failed" <=> attempts[j] = MaxAttempts

\* Once done or failed, a job keeps its outcome: no late mark of another
\* runner rewrites it (MarkDone and MarkFailed do not test the status).
OutcomeStep ==
    \A j \in JobIds : jobStatus[j] \in {"done", "failed"} =>
        jobStatus'[j] = jobStatus[j] /\ attempts'[j] = attempts[j]

OutcomeIsFinal == [][OutcomeStep]_poolVars

\* Every queued job is executed until it is done, given up, or orphaned by
\* a runner that lost it: no job is retried for ever or passed over for ever.
JobSettles ==
    \A j \in JobIds : jobStatus[j] = "queued" ~>
        (jobStatus[j] \in {"done", "failed"} \/ Orphan(j))
=============================================================================
