------------------------------ MODULE JobQueue ------------------------------
(***************************************************************************)
(* The jobs table as jobs_queue.go uses it: run_at and the clock, the row  *)
(* lock that LeaseNext holds between its SELECT and its commit, and the    *)
(* back-off of MarkFailed. It implements JobPool.                          *)
(***************************************************************************)
EXTENDS Integers

CONSTANTS
    JobIds, Workers, Payloads, MaxAttempts, None,   \* as in JobPool
    Backoff,   \* 10 seconds in the code
    TxLag,     \* longest age of an enqueueing transaction: now() is its start
    MaxNow     \* bound on the clock

ASSUME QueueAssumption ==
    /\ MaxAttempts \in Nat \ {0}
    /\ None \notin JobIds /\ None \notin Payloads
    /\ Backoff \in Nat /\ TxLag \in Nat /\ MaxNow \in Nat

VARIABLES
    jobStatus, attempts, payload, lease,  \* as in JobPool
    runAt,      \* jobs.run_at
    createdAt,  \* jobs.created_at
    picked,     \* the row locked by the LeaseNext transaction of each runner
    now         \* the database clock

poolVars == <<jobStatus, attempts, payload, lease>>
vars == <<jobStatus, attempts, payload, lease, runAt, createdAt, picked, now>>

Pool == INSTANCE JobPool

TypeOK ==
    /\ Pool!TypeOK
    /\ runAt \in [JobIds -> Nat]
    /\ createdAt \in [JobIds -> Nat]
    /\ picked \in [Workers -> JobIds \cup {None}]
    /\ now \in Nat

Init ==
    /\ Pool!Init
    /\ runAt = [j \in JobIds |-> 0]
    /\ createdAt = [j \in JobIds |-> 0]
    /\ picked = [w \in Workers |-> None]
    /\ now = 0

-----------------------------------------------------------------------------
\* The row appears at the commit; run_at and created_at are the start of the
\* transaction, so they may lie in the past and jobs may appear out of order.
Enqueue(j, pl) ==
    /\ jobStatus[j] = "none"
    /\ jobStatus' = [jobStatus EXCEPT ![j] = "queued"]
    /\ payload' = [payload EXCEPT ![j] = pl]
    /\ \E start \in {t \in 0..now : now - t <= TxLag} :
         /\ runAt' = [runAt EXCEPT ![j] = start]
         /\ createdAt' = [createdAt EXCEPT ![j] = start]
    /\ UNCHANGED <<attempts, lease, picked, now>>

\* A row that another LeaseNext transaction has selected is locked.
Locked(j) == \E v \in Workers : picked[v] = j

\* Mutant of Due: the SELECT neither locks nor skips locked rows.
DueUnlocked(j) == jobStatus[j] = "queued" /\ runAt[j] <= now

\* Candidate rows of LeaseNext's SELECT: due, and not skipped as locked.
Due(j) == jobStatus[j] = "queued" /\ runAt[j] <= now /\ ~Locked(j)

\* SELECT ... ORDER BY run_at ASC FOR UPDATE SKIP LOCKED LIMIT 1
Select(w, j) ==
    /\ lease[w] = None /\ picked[w] = None
    /\ Due(j)
    /\ \A i \in JobIds : Due(i) => runAt[j] <= runAt[i]
    /\ picked' = [picked EXCEPT ![w] = j]
    /\ UNCHANGED <<jobStatus, attempts, payload, lease, runAt, createdAt, now>>

\* UPDATE ... SET status='running' and the commit.
LeaseNext(w) ==
    /\ picked[w] # None
    /\ jobStatus' = [jobStatus EXCEPT ![picked[w]] = "running"]
    /\ lease' = [lease EXCEPT ![w] = picked[w]]
    /\ picked' = [picked EXCEPT ![w] = None]
    /\ UNCHANGED <<attempts, payload, runAt, createdAt, now>>

\* The commit takes effect and the runner sees an error.
LeaseLost(w) ==
    /\ picked[w] # None
    /\ jobStatus' = [jobStatus EXCEPT ![picked[w]] = "running"]
    /\ picked' = [picked EXCEPT ![w] = None]
    /\ UNCHANGED <<attempts, payload, lease, runAt, createdAt, now>>

\* The transaction fails or the process dies in it: the row is unlocked.
LeaseAborted(w) ==
    /\ picked[w] # None
    /\ picked' = [picked EXCEPT ![w] = None]
    /\ UNCHANGED <<jobStatus, attempts, payload, lease, runAt, createdAt, now>>

MarkDone(w) ==
    /\ lease[w] # None
    /\ jobStatus' = [jobStatus EXCEPT ![lease[w]] = "done"]
    /\ lease' = [lease EXCEPT ![w] = None]
    /\ UNCHANGED <<attempts, payload, runAt, createdAt, picked, now>>

\* Mutant of GivenUp: compares before counting the failure.
GivenUpLate(n) == n >= MaxAttempts

GivenUp(n) == n + 1 >= MaxAttempts

\* Mutant of RetryAt: requeues without a back-off.
RetryAtOnce(n, t) == IF GivenUp(n) THEN t ELSE now

RetryAt(n, t) == IF GivenUp(n) THEN t ELSE now + Backoff

MarkFailed(w) ==
    /\ lease[w] # None
    /\ LET j == lease[w] IN
         /\ jobStatus' = [jobStatus EXCEPT ![j] =
                IF GivenUp(attempts[j]) THEN "failed" ELSE "queued"]
         /\ attempts' = [attempts EXCEPT ![j] = @ + 1]
         /\ runAt' = [runAt EXCEPT ![j] = RetryAt(attempts[j], @)]
    /\ lease' = [lease EXCEPT ![w] = None]
    /\ UNCHANGED <<payload, createdAt, picked, now>>

\* The process dies or its mark is lost: no lease ever times out.
Forget(w) ==
    /\ lease[w] # None
    /\ lease' = [lease EXCEPT ![w] = None]
    /\ UNCHANGED <<jobStatus, attempts, payload, runAt, createdAt, picked, now>>

Tick ==
    /\ now < MaxNow
    /\ now' = now + 1
    /\ UNCHANGED <<jobStatus, attempts, payload, lease, runAt, createdAt, picked>>

Next ==
    \/ \E j \in JobIds, pl \in Payloads : Enqueue(j, pl)
    \/ \E w \in Workers :
         \/ \E j \in JobIds : Select(w, j)
         \/ LeaseNext(w) \/ LeaseLost(w) \/ LeaseAborted(w)
         \/ MarkDone(w) \/ MarkFailed(w) \/ Forget(w)
    \/ Tick

Spec == Init /\ [][Next]_vars

-----------------------------------------------------------------------------
\* Locks and leases: a row locked by a LeaseNext transaction is still queued
\* and no two transactions hold it (what SKIP LOCKED is there for).
LockInv ==
    \A w \in Workers : picked[w] # None =>
        /\ jobStatus[picked[w]] = "queued"
        /\ lease[w] = None
        /\ \A v \in Workers : picked[v] = picked[w] => v = w

\* Two runners never execute the same job at once.
ExclusiveLease == Pool!ExclusiveLease

\* Each of a job's failures costs a back-off before its next execution: a job
\* in a runner's hands for the (n+1)-th time was created at least n back-offs
\* ago, and a queued one will not run before that (run_at of MarkFailed with
\* the run_at <= now() of LeaseNext).
RetrySpacing ==
    \A j \in JobIds :
        LET earliest == createdAt[j] + attempts[j] * Backoff IN
        /\ jobStatus[j] = "queued" => runAt[j] >= earliest
        /\ jobStatus[j] = "running" => now >= earliest
        /\ Locked(j) => now >= earliest

\* The SQL implements the pool.
PoolSpec == Pool!Spec
=============================================================================
