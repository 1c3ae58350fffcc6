--------------------------- MODULE JobQueueProofs ---------------------------
(* The SQL of jobs_queue.go keeps its invariants and implements JobPool.   *)
EXTENDS JobQueue, TLAPS

\* Exclusive leases rest on exclusive row locks (LockInv), since LeaseNext
\* writes the row it locked without looking at it again; the type of attempts
\* rests on the retry budget and on leased jobs being running.
QueueInv == TypeOK /\ LockInv /\ ExclusiveLease /\ Pool!RetryBudget

\* The initial queue satisfies the invariant.
LEMMA QueueInit == Init => QueueInv
<1> SUFFICES ASSUME Init PROVE QueueInv
    OBVIOUS
<1> USE QueueAssumption DEF Init, Pool!Init
<1>1. TypeOK
    BY DEF TypeOK, Pool!TypeOK, Pool!JobStatuses
<1>2. LockInv
    BY DEF LockInv
<1>3. ExclusiveLease
    BY DEF ExclusiveLease, Pool!ExclusiveLease
<1>4. Pool!RetryBudget
    BY DEF Pool!RetryBudget
<1> QED BY <1>1, <1>2, <1>3, <1>4 DEF QueueInv

\* A row that is locked is queued; a job that is held is running and has
\* failures to spare.
LEMMA PickedIsQueued ==
    ASSUME QueueInv, NEW w \in Workers, picked[w] # None
    PROVE  picked[w] \in JobIds /\ jobStatus[picked[w]] = "queued"
BY DEF QueueInv, TypeOK, LockInv

\* A job in the hands of a runner is running, and has failures to spare.
LEMMA HeldIsRunning ==
    ASSUME QueueInv, NEW w \in Workers, lease[w] # None
    PROVE  /\ lease[w] \in JobIds /\ jobStatus[lease[w]] = "running"
           /\ attempts[lease[w]] \in 0..(MaxAttempts - 1)
<1>1. lease[w] \in JobIds /\ jobStatus[lease[w]] = "running"
    BY DEF QueueInv, TypeOK, Pool!TypeOK, ExclusiveLease, Pool!ExclusiveLease
<1>2. attempts[lease[w]] \in 0..MaxAttempts /\ attempts[lease[w]] # MaxAttempts
    BY <1>1 DEF QueueInv, TypeOK, Pool!TypeOK, Pool!RetryBudget
<1> QED BY <1>1, <1>2, QueueAssumption

\* The invariant is inductive: one step per operation.
LEMMA QueueStep == QueueInv /\ [Next]_vars => QueueInv'
<1> SUFFICES ASSUME QueueInv, [Next]_vars PROVE QueueInv'
    OBVIOUS
<1>a. TypeOK /\ LockInv /\ ExclusiveLease /\ Pool!RetryBudget
    BY DEF QueueInv
<1> USE QueueAssumption, <1>a DEF TypeOK, Pool!TypeOK, Pool!JobStatuses
<1>1. ASSUME NEW j \in JobIds, NEW pl \in Payloads, Enqueue(j, pl) PROVE QueueInv'
  <2> USE <1>1 DEF Enqueue
  <2>1. TypeOK'
      OBVIOUS
  <2>2. LockInv'
      BY DEF LockInv
  <2>3. ExclusiveLease'
      BY DEF ExclusiveLease, Pool!ExclusiveLease
  <2>4. Pool!RetryBudget'
      BY DEF Pool!RetryBudget
  <2> QED BY <2>1, <2>2, <2>3, <2>4 DEF QueueInv
<1>2. ASSUME NEW w \in Workers, NEW j \in JobIds, Select(w, j) PROVE QueueInv'
  <2> USE <1>2 DEF Select
  <2>1. TypeOK'
      BY DEF Due, Locked
  <2>2. LockInv'
      BY DEF LockInv, Due, Locked
  <2>3. ExclusiveLease'
      BY DEF ExclusiveLease, Pool!ExclusiveLease
  <2>4. Pool!RetryBudget'
      BY DEF Pool!RetryBudget
  <2> QED BY <2>1, <2>2, <2>3, <2>4 DEF QueueInv
<1>3. ASSUME NEW w \in Workers, LeaseNext(w) PROVE QueueInv'
  <2> USE <1>3 DEF LeaseNext
  <2>0. picked[w] \in JobIds /\ jobStatus[picked[w]] = "queued"
      BY PickedIsQueued
  <2>1. TypeOK'
      BY <2>0
  <2>2. LockInv'
      BY <2>0 DEF LockInv
  <2>3. ExclusiveLease'
      BY <2>0 DEF ExclusiveLease, Pool!ExclusiveLease, LockInv
  <2>4. Pool!RetryBudget'
      BY <2>0 DEF Pool!RetryBudget
  <2> QED BY <2>1, <2>2, <2>3, <2>4 DEF QueueInv
<1>4. ASSUME NEW w \in Workers, LeaseLost(w) PROVE QueueInv'
  <2> USE <1>4 DEF LeaseLost
  <2>0. picked[w] \in JobIds /\ jobStatus[picked[w]] = "queued"
      BY PickedIsQueued
  <2>1. TypeOK'
      BY <2>0
  <2>2. LockInv'
      BY <2>0 DEF LockInv
  <2>3. ExclusiveLease'
      BY <2>0 DEF ExclusiveLease, Pool!ExclusiveLease
  <2>4. Pool!RetryBudget'
      BY <2>0 DEF Pool!RetryBudget
  <2> QED BY <2>1, <2>2, <2>3, <2>4 DEF QueueInv
<1>5. ASSUME NEW w \in Workers, LeaseAborted(w) PROVE QueueInv'
  <2> USE <1>5 DEF LeaseAborted
  <2>1. TypeOK'
      OBVIOUS
  <2>2. LockInv'
      BY DEF LockInv
  <2>3. ExclusiveLease'
      BY DEF ExclusiveLease, Pool!ExclusiveLease
  <2>4. Pool!RetryBudget'
      BY DEF Pool!RetryBudget
  <2> QED BY <2>1, <2>2, <2>3, <2>4 DEF QueueInv
<1>6. ASSUME NEW w \in Workers, MarkDone(w) PROVE QueueInv'
  <2> USE <1>6 DEF MarkDone
  <2>0. /\ lease[w] \in JobIds /\ jobStatus[lease[w]] = "running"
        /\ attempts[lease[w]] \in 0..(MaxAttempts - 1)
      BY HeldIsRunning
  <2>1. TypeOK'
      BY <2>0
  <2>2. LockInv'
      BY <2>0 DEF LockInv, ExclusiveLease, Pool!ExclusiveLease
  <2>3. ExclusiveLease'
      BY <2>0 DEF ExclusiveLease, Pool!ExclusiveLease
  <2>4. Pool!RetryBudget'
      BY <2>0 DEF Pool!RetryBudget
  <2> QED BY <2>1, <2>2, <2>3, <2>4 DEF QueueInv
<1>7. ASSUME NEW w \in Workers, MarkFailed(w) PROVE QueueInv'
  <2> USE <1>7 DEF MarkFailed
  <2>0. /\ lease[w] \in JobIds /\ jobStatus[lease[w]] = "running"
        /\ attempts[lease[w]] \in 0..(MaxAttempts - 1)
      BY HeldIsRunning
  <2>1. TypeOK'
      BY <2>0 DEF GivenUp, RetryAt
  <2>2. LockInv'
      BY <2>0 DEF LockInv, ExclusiveLease, Pool!ExclusiveLease
  <2>3. ExclusiveLease'
      BY <2>0 DEF ExclusiveLease, Pool!ExclusiveLease
  <2>4. Pool!RetryBudget'
      BY <2>0 DEF Pool!RetryBudget, GivenUp
  <2> QED BY <2>1, <2>2, <2>3, <2>4 DEF QueueInv
<1>8. ASSUME NEW w \in Workers, Forget(w) PROVE QueueInv'
  <2> USE <1>8 DEF Forget
  <2>1. TypeOK'
      OBVIOUS
  <2>2. LockInv'
      BY DEF LockInv, ExclusiveLease, Pool!ExclusiveLease
  <2>3. ExclusiveLease'
      BY DEF ExclusiveLease, Pool!ExclusiveLease
  <2>4. Pool!RetryBudget'
      BY DEF Pool!RetryBudget
  <2> QED BY <2>1, <2>2, <2>3, <2>4 DEF QueueInv
<1>9. ASSUME Tick PROVE QueueInv'
  <2> USE <1>9 DEF Tick
  <2>1. TypeOK'
      OBVIOUS
  <2>2. LockInv'
      BY DEF LockInv
  <2>3. ExclusiveLease'
      BY DEF ExclusiveLease, Pool!ExclusiveLease
  <2>4. Pool!RetryBudget'
      BY DEF Pool!RetryBudget
  <2> QED BY <2>1, <2>2, <2>3, <2>4 DEF QueueInv
<1>10. CASE UNCHANGED vars
    BY <1>10 DEF QueueInv, LockInv, ExclusiveLease, Pool!ExclusiveLease, Pool!RetryBudget, vars
<1> QED BY <1>1, <1>2, <1>3, <1>4, <1>5, <1>6, <1>7, <1>8, <1>9, <1>10 DEF Next

\* Types, row locks, leases and retry budget, for any number of jobs.
THEOREM QueueIsSafe == Spec => []QueueInv
<1> QED BY QueueInit, QueueStep, PTL DEF Spec

\* No two runners execute one job: SKIP LOCKED and the status do it together.
THEOREM QueueLeasesAreExclusive == Spec => []ExclusiveLease
<1>1. QueueInv => ExclusiveLease
    BY DEF QueueInv
<1> QED BY <1>1, QueueIsSafe, PTL

-----------------------------------------------------------------------------
\* The back-off: every failure moves the next execution at least Backoff away
\* from the one that failed. A row starts with no failures.
FreshJobs == \A j \in JobIds : jobStatus[j] = "none" => attempts[j] = 0

SpacingInv == RetrySpacing /\ FreshJobs

\* RetrySpacing of one job.
Spaced(i) ==
    LET earliest == createdAt[i] + attempts[i] * Backoff IN
    /\ jobStatus[i] = "queued" => runAt[i] >= earliest
    /\ jobStatus[i] = "running" => now >= earliest
    /\ Locked(i) => now >= earliest

\* The spacing holds initially.
LEMMA SpacingInit == Init => SpacingInv
<1> SUFFICES ASSUME Init PROVE SpacingInv
    OBVIOUS
<1>1. RetrySpacing
    BY QueueAssumption DEF Init, Pool!Init, RetrySpacing, Locked
<1>2. FreshJobs
    BY DEF Init, Pool!Init, FreshJobs
<1> QED BY <1>1, <1>2 DEF SpacingInv

\* A row that does not exist has no failures.
LEMMA FreshStep == QueueInv /\ FreshJobs /\ [Next]_vars => FreshJobs'
<1> SUFFICES ASSUME QueueInv, FreshJobs, [Next]_vars, NEW i \in JobIds,
                    jobStatus'[i] = "none"
             PROVE  attempts'[i] = 0
    BY DEF FreshJobs
<1> USE DEF QueueInv, TypeOK, Pool!TypeOK, FreshJobs
<1>1. ASSUME NEW j \in JobIds, NEW pl \in Payloads, Enqueue(j, pl) PROVE attempts'[i] = 0
    BY <1>1 DEF Enqueue
<1>2. ASSUME NEW w \in Workers, NEW j \in JobIds, Select(w, j) PROVE attempts'[i] = 0
    BY <1>2 DEF Select
<1>3. ASSUME NEW w \in Workers, LeaseNext(w) \/ LeaseLost(w) \/ LeaseAborted(w)
      PROVE  attempts'[i] = 0
    BY <1>3, PickedIsQueued DEF LeaseNext, LeaseLost, LeaseAborted
<1>4. ASSUME NEW w \in Workers, MarkDone(w) \/ MarkFailed(w) \/ Forget(w)
      PROVE  attempts'[i] = 0
    BY <1>4, HeldIsRunning DEF MarkDone, MarkFailed, Forget
<1>5. CASE Tick \/ UNCHANGED vars
    BY <1>5 DEF Tick, vars
<1> QED BY <1>1, <1>2, <1>3, <1>4, <1>5 DEF Next

\* Every step keeps the spacing.
LEMMA SpacingStep == QueueInv /\ SpacingInv /\ [Next]_vars => SpacingInv'
<1> SUFFICES ASSUME QueueInv, SpacingInv, [Next]_vars, NEW i \in JobIds PROVE Spaced(i)'
    BY FreshStep DEF SpacingInv, RetrySpacing, Spaced
<1>a. /\ createdAt[i] \in Nat /\ runAt[i] \in Nat /\ now \in Nat
      /\ attempts[i] \in Nat /\ Backoff \in Nat /\ None \notin JobIds
    BY QueueAssumption DEF QueueInv, TypeOK, Pool!TypeOK
<1>b. /\ runAt \in [JobIds -> Nat] /\ createdAt \in [JobIds -> Nat]
      /\ attempts \in [JobIds -> 0..MaxAttempts]
      /\ jobStatus \in [JobIds -> Pool!JobStatuses]
      /\ lease \in [Workers -> JobIds \cup {None}]
      /\ picked \in [Workers -> JobIds \cup {None}]
    BY DEF QueueInv, TypeOK, Pool!TypeOK
<1>c. Spaced(i) /\ (jobStatus[i] = "none" => attempts[i] = 0)
    BY DEF SpacingInv, RetrySpacing, FreshJobs, Spaced
<1>d. Locked(i) => jobStatus[i] = "queued"
    BY <1>a DEF Locked, QueueInv, LockInv
<1>e. attempts[i] * Backoff \in Nat
    BY <1>a
<1>1. ASSUME NEW j \in JobIds, NEW pl \in Payloads, Enqueue(j, pl) PROVE Spaced(i)'
  <2> USE <1>1 DEF Enqueue
  <2>1. CASE j # i
      BY <2>1, <1>b, <1>c DEF Spaced, Locked
  <2>2. CASE j = i
    <3>1. /\ jobStatus[i] = "none" /\ jobStatus'[i] = "queued"
          /\ runAt'[i] = createdAt'[i] /\ createdAt'[i] \in Nat
        BY <2>2, <1>a, <1>b
    <3>2. attempts'[i] = 0 /\ ~Locked(i)'
        BY <3>1, <1>c, <1>d DEF Locked
    <3> QED BY <3>1, <3>2, <1>a DEF Spaced
  <2> QED BY <2>1, <2>2
<1>2. ASSUME NEW w \in Workers, NEW j \in JobIds, Select(w, j) PROVE Spaced(i)'
  <2> USE <1>2 DEF Select
  <2>1. CASE j # i
      BY <2>1, <1>b, <1>c DEF Spaced, Locked
  <2>2. CASE j = i
      BY <2>2, <1>a, <1>b, <1>c, <1>e DEF Spaced, Due
  <2> QED BY <2>1, <2>2
<1>3. ASSUME NEW w \in Workers, LeaseNext(w) \/ LeaseLost(w) \/ LeaseAborted(w)
      PROVE  Spaced(i)'
  <2> USE <1>3 DEF LeaseNext, LeaseLost, LeaseAborted
  <2>1. picked[w] \in JobIds /\ UNCHANGED <<attempts, runAt, createdAt, now>>
      BY PickedIsQueued
  <2>2. Locked(i)' => Locked(i)
      BY <2>1, <1>a, <1>b DEF Locked
  <2>3. CASE picked[w] # i
      BY <2>1, <2>2, <2>3, <1>b, <1>c DEF Spaced
  <2>4. CASE picked[w] = i
    <3>1. Locked(i)
        BY <2>4 DEF Locked
    <3> QED BY <3>1, <2>1, <2>2, <2>4, <1>b, <1>c DEF Spaced
  <2> QED BY <2>3, <2>4
<1>4. ASSUME NEW w \in Workers, MarkDone(w) \/ Forget(w) PROVE Spaced(i)'
    BY <1>4, <1>b, <1>c, HeldIsRunning DEF MarkDone, Forget, Spaced, Locked
<1>5. ASSUME NEW w \in Workers, MarkFailed(w) PROVE Spaced(i)'
  <2> USE <1>5 DEF MarkFailed
  <2>0. lease[w] \in JobIds /\ jobStatus[lease[w]] = "running"
      BY HeldIsRunning
  <2>1. CASE lease[w] # i
      BY <2>0, <2>1, <1>b, <1>c DEF Spaced, Locked
  <2>2. CASE lease[w] = i
    <3>1. now >= createdAt[i] + attempts[i] * Backoff /\ ~Locked(i)
        BY <2>0, <2>2, <1>c, <1>d DEF Spaced
    <3>2. ~Locked(i)' /\ jobStatus'[i] # "running"
        BY <2>2, <3>1, <1>b DEF Locked
    <3>3. attempts'[i] = attempts[i] + 1 /\ createdAt'[i] = createdAt[i]
        BY <2>2, <1>b
    <3>4. jobStatus'[i] = "queued" => runAt'[i] = now + Backoff
        BY <2>2, <1>b DEF RetryAt
    <3>5. (attempts[i] + 1) * Backoff = attempts[i] * Backoff + Backoff
        BY <1>a
    <3>6. createdAt'[i] + attempts'[i] * Backoff
            = createdAt[i] + attempts[i] * Backoff + Backoff
        BY <3>3, <3>5, <1>a, <1>e
    <3> QED BY <3>1, <3>2, <3>4, <3>6, <1>a, <1>e DEF Spaced
  <2> QED BY <2>1, <2>2
<1>6. CASE Tick
  <2>1. now' = now + 1 /\ UNCHANGED <<jobStatus, attempts, runAt, createdAt, picked>>
      BY <1>6 DEF Tick
  <2> QED BY <2>1, <1>a, <1>c, <1>e DEF Spaced, Locked
<1>7. CASE UNCHANGED vars
    BY <1>7, <1>c DEF vars, Spaced, Locked
<1> QED BY <1>1, <1>2, <1>3, <1>4, <1>5, <1>6, <1>7 DEF Next

\* A job is executed for the (n+1)-th time at least n back-offs after it was
\* created, whatever the clock, the runners and the other jobs do.
THEOREM RetriesAreSpaced == Spec => []RetrySpacing
<1>1. SpacingInv => RetrySpacing
    BY DEF SpacingInv
<1> QED BY <1>1, QueueInit, QueueStep, SpacingInit, SpacingStep, PTL DEF Spec

\* Types: the rows, their times and what each runner has locked and holds
\* have values of their types.
THEOREM QueueTypesHold == Spec => []TypeOK
<1>1. QueueInv => TypeOK
    BY DEF QueueInv
<1> QED BY <1>1, QueueIsSafe, PTL

-----------------------------------------------------------------------------
\* Refinement: each operation of the table is an operation of the pool, or
\* leaves the pool as it is.
LEMMA QueueStepIsPoolStep == QueueInv /\ [Next]_vars => [Pool!Next]_poolVars
<1> SUFFICES ASSUME QueueInv, [Next]_vars PROVE Pool!Next \/ UNCHANGED poolVars
    BY DEF poolVars, Pool!poolVars
<1>1. ASSUME NEW j \in JobIds, NEW pl \in Payloads, Enqueue(j, pl) PROVE Pool!Next
  <2>1. Pool!Enqueue(j, pl)
      BY <1>1 DEF Enqueue, Pool!Enqueue
  <2> QED BY <2>1 DEF Pool!Next
<1>2. ASSUME NEW w \in Workers, NEW j \in JobIds, Select(w, j) PROVE UNCHANGED poolVars
    BY <1>2 DEF Select, poolVars
<1>3. ASSUME NEW w \in Workers, LeaseNext(w) PROVE Pool!Next
  <2>1. picked[w] \in JobIds /\ jobStatus[picked[w]] = "queued" /\ lease[w] = None
      BY <1>3, PickedIsQueued DEF LeaseNext, QueueInv, LockInv
  <2>2. Pool!LeaseNext(w, picked[w])
      BY <1>3, <2>1 DEF LeaseNext, Pool!LeaseNext
  <2> QED BY <2>1, <2>2 DEF Pool!Next, Pool!Step
<1>4. ASSUME NEW w \in Workers, LeaseLost(w) PROVE Pool!Next
  <2>1. picked[w] \in JobIds /\ jobStatus[picked[w]] = "queued" /\ lease[w] = None
      BY <1>4, PickedIsQueued DEF LeaseLost, QueueInv, LockInv
  <2>2. Pool!LeaseLost(w, picked[w])
      BY <1>4, <2>1 DEF LeaseLost, Pool!LeaseLost
  <2> QED BY <2>1, <2>2 DEF Pool!Next, Pool!Step
<1>5. ASSUME NEW w \in Workers, LeaseAborted(w) PROVE UNCHANGED poolVars
    BY <1>5 DEF LeaseAborted, poolVars
<1>6. ASSUME NEW w \in Workers, MarkDone(w) PROVE Pool!Next
  <2>1. Pool!MarkDone(w)
      BY <1>6 DEF MarkDone, Pool!MarkDone
  <2> QED BY <2>1 DEF Pool!Next, Pool!Step
<1>7. ASSUME NEW w \in Workers, MarkFailed(w) PROVE Pool!Next
  <2>1. Pool!MarkFailed(w)
      BY <1>7 DEF MarkFailed, Pool!MarkFailed, GivenUp, Pool!GivenUp
  <2> QED BY <2>1 DEF Pool!Next, Pool!Step
<1>8. ASSUME NEW w \in Workers, Forget(w) PROVE Pool!Next
  <2>1. Pool!Forget(w)
      BY <1>8 DEF Forget, Pool!Forget
  <2> QED BY <2>1 DEF Pool!Next, Pool!Step
<1>9. CASE Tick
    BY <1>9 DEF Tick, poolVars
<1>10. CASE UNCHANGED vars
    BY <1>10 DEF vars, poolVars
<1> QED BY <1>1, <1>2, <1>3, <1>4, <1>5, <1>6, <1>7, <1>8, <1>9, <1>10 DEF Next

\* The SQL of jobs_queue.go implements the pool that the workers rely on.
THEOREM QueueImplementsPool == Spec => PoolSpec
<1>1. Init => Pool!Init
    BY DEF Init
<1>2. QueueInv /\ [Next]_vars => [Pool!Next]_Pool!poolVars
    BY QueueStepIsPoolStep DEF poolVars, Pool!poolVars
<1> QED BY <1>1, <1>2, QueueIsSafe, PTL DEF Spec, PoolSpec, Pool!Spec
=============================================================================
