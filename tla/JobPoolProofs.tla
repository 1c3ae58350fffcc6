--------------------------- MODULE JobPoolProofs ---------------------------
(* The pool's invariants, for any numbers of jobs, runners and attempts.    *)
EXTENDS JobPool, TLAPS

\* The three invariants together are inductive: the retry budget alone is not
\* preserved, since a mark of a job in another state would break it.
PoolInv == TypeOK /\ ExclusiveLease /\ RetryBudget

\* The initial pool satisfies the invariant.
LEMMA PoolInit == Init => PoolInv
<1> SUFFICES ASSUME Init PROVE PoolInv
    OBVIOUS
<1> USE MaxAttemptsAssumption, NoneAssumption DEF Init
<1>1. TypeOK
    BY DEF TypeOK, JobStatuses
<1>2. ExclusiveLease
    BY DEF ExclusiveLease
<1>3. RetryBudget
    BY DEF RetryBudget
<1> QED BY <1>1, <1>2, <1>3 DEF PoolInv

\* One proof per operation, kept as lemmas so that the compositions over the
\* pool can cite them.
LEMMA EnqueueInv ==
    ASSUME PoolInv, NEW j \in JobIds, NEW pl \in Payloads, Enqueue(j, pl)
    PROVE  PoolInv'
<1> USE MaxAttemptsAssumption, NoneAssumption DEF PoolInv, Enqueue, TypeOK, JobStatuses
<1>1. TypeOK'
    OBVIOUS
<1>2. ExclusiveLease'
    BY DEF ExclusiveLease
<1>3. RetryBudget'
    BY DEF RetryBudget
<1> QED BY <1>1, <1>2, <1>3 DEF PoolInv

\* A lease takes a queued job, which no runner holds.
LEMMA LeaseNextInv ==
    ASSUME PoolInv, NEW w \in Workers, NEW j \in JobIds, LeaseNext(w, j)
    PROVE  PoolInv'
<1> USE MaxAttemptsAssumption, NoneAssumption DEF PoolInv, LeaseNext, TypeOK, JobStatuses
<1>1. TypeOK'
    OBVIOUS
<1>2. ExclusiveLease'
    BY DEF ExclusiveLease
<1>3. RetryBudget'
    BY DEF RetryBudget
<1> QED BY <1>1, <1>2, <1>3 DEF PoolInv

\* A lost lease leaves a running job that nobody holds.
LEMMA LeaseLostInv ==
    ASSUME PoolInv, NEW w \in Workers, NEW j \in JobIds, LeaseLost(w, j)
    PROVE  PoolInv'
<1> USE MaxAttemptsAssumption, NoneAssumption DEF PoolInv, LeaseLost, TypeOK, JobStatuses
<1>1. TypeOK'
    OBVIOUS
<1>2. ExclusiveLease'
    BY DEF ExclusiveLease
<1>3. RetryBudget'
    BY DEF RetryBudget
<1> QED BY <1>1, <1>2, <1>3 DEF PoolInv

\* A job is done while it is held, so its outcome is written once.
LEMMA MarkDoneInv ==
    ASSUME PoolInv, NEW w \in Workers, MarkDone(w)
    PROVE  PoolInv'
<1> USE MaxAttemptsAssumption, NoneAssumption DEF PoolInv, MarkDone, TypeOK, JobStatuses
<1>0. lease[w] \in JobIds /\ jobStatus[lease[w]] = "running"
    BY DEF ExclusiveLease
<1>1. TypeOK'
    BY <1>0
<1>2. ExclusiveLease'
    BY <1>0 DEF ExclusiveLease
<1>3. RetryBudget'
    BY <1>0 DEF RetryBudget
<1> QED BY <1>1, <1>2, <1>3 DEF PoolInv

\* A failure is counted, and the last one gives the job up.
LEMMA MarkFailedInv ==
    ASSUME PoolInv, NEW w \in Workers, MarkFailed(w)
    PROVE  PoolInv'
<1> USE MaxAttemptsAssumption, NoneAssumption DEF PoolInv, MarkFailed, TypeOK, JobStatuses
<1>0. lease[w] \in JobIds /\ jobStatus[lease[w]] = "running"
    BY DEF ExclusiveLease
<1>a. attempts[lease[w]] \in 0..MaxAttempts /\ attempts[lease[w]] # MaxAttempts
    BY <1>0 DEF RetryBudget
<1>1. TypeOK'
    BY <1>0, <1>a DEF GivenUp
<1>2. ExclusiveLease'
    BY <1>0 DEF ExclusiveLease
<1>3. RetryBudget'
    BY <1>0, <1>a DEF RetryBudget, GivenUp
<1> QED BY <1>1, <1>2, <1>3 DEF PoolInv

\* A runner that forgets its job frees only itself.
LEMMA ForgetInv ==
    ASSUME PoolInv, NEW w \in Workers, Forget(w)
    PROVE  PoolInv'
<1> USE MaxAttemptsAssumption, NoneAssumption DEF PoolInv, Forget, TypeOK, JobStatuses
<1>1. TypeOK'
    OBVIOUS
<1>2. ExclusiveLease'
    BY DEF ExclusiveLease
<1>3. RetryBudget'
    BY DEF RetryBudget
<1> QED BY <1>1, <1>2, <1>3 DEF PoolInv

\* The invariant is inductive.
LEMMA PoolStep == PoolInv /\ [Next]_poolVars => PoolInv'
<1> SUFFICES ASSUME PoolInv, [Next]_poolVars PROVE PoolInv'
    OBVIOUS
<1>1. ASSUME NEW j \in JobIds, NEW pl \in Payloads, Enqueue(j, pl) PROVE PoolInv'
    BY <1>1, EnqueueInv
<1>2. ASSUME NEW w \in Workers, NEW j \in JobIds, LeaseNext(w, j) PROVE PoolInv'
    BY <1>2, LeaseNextInv
<1>3. ASSUME NEW w \in Workers, NEW j \in JobIds, LeaseLost(w, j) PROVE PoolInv'
    BY <1>3, LeaseLostInv
<1>4. ASSUME NEW w \in Workers, MarkDone(w) PROVE PoolInv'
    BY <1>4, MarkDoneInv
<1>5. ASSUME NEW w \in Workers, MarkFailed(w) PROVE PoolInv'
    BY <1>5, MarkFailedInv
<1>6. ASSUME NEW w \in Workers, Forget(w) PROVE PoolInv'
    BY <1>6, ForgetInv
<1>7. CASE UNCHANGED poolVars
    BY <1>7 DEF PoolInv, TypeOK, ExclusiveLease, RetryBudget, poolVars
<1> QED BY <1>1, <1>2, <1>3, <1>4, <1>5, <1>6, <1>7 DEF Next, Step

\* The pool keeps its invariants: types, exclusive leases, the retry budget.
THEOREM PoolIsSafe == Spec => []PoolInv
<1> QED BY PoolInit, PoolStep, PTL DEF Spec

\* Types: a row has a status, a count and a payload of its type, and a runner
\* holds a job or none.
THEOREM PoolTypesHold == Spec => []TypeOK
<1>1. PoolInv => TypeOK
    BY DEF PoolInv
<1> QED BY <1>1, PoolIsSafe, PTL

\* No two runners hold one job, whatever is lost or restarted.
THEOREM LeasesAreExclusive == Spec => []ExclusiveLease
<1>1. PoolInv => ExclusiveLease
    BY DEF PoolInv
<1> QED BY <1>1, PoolIsSafe, PTL

\* A job is given up exactly when its failures reach the budget.
THEOREM BudgetIsExact == Spec => []RetryBudget
<1>1. PoolInv => RetryBudget
    BY DEF PoolInv
<1> QED BY <1>1, PoolIsSafe, PTL

\* The outcome of a job is never rewritten: who marks a job holds it, and a
\* job that is held is running.
THEOREM OutcomesAreFinal == Spec => OutcomeIsFinal
<1>1. PoolInv /\ [Next]_poolVars => [OutcomeStep]_poolVars
  <2> SUFFICES ASSUME PoolInv, Next PROVE OutcomeStep
      OBVIOUS
  <2> SUFFICES ASSUME NEW i \in JobIds, jobStatus[i] \in {"done", "failed"}
               PROVE  jobStatus'[i] = jobStatus[i] /\ attempts'[i] = attempts[i]
      BY DEF OutcomeStep
  <2> USE NoneAssumption DEF PoolInv, TypeOK, ExclusiveLease
  <2>1. ASSUME NEW j \in JobIds, NEW pl \in Payloads, Enqueue(j, pl)
        PROVE  jobStatus'[i] = jobStatus[i] /\ attempts'[i] = attempts[i]
      BY <2>1 DEF Enqueue
  <2>2. ASSUME NEW w \in Workers, NEW j \in JobIds, LeaseNext(w, j) \/ LeaseLost(w, j)
        PROVE  jobStatus'[i] = jobStatus[i] /\ attempts'[i] = attempts[i]
      BY <2>2 DEF LeaseNext, LeaseLost
  <2>3. ASSUME NEW w \in Workers, MarkDone(w) \/ MarkFailed(w)
        PROVE  jobStatus'[i] = jobStatus[i] /\ attempts'[i] = attempts[i]
      BY <2>3 DEF MarkDone, MarkFailed
  <2>4. ASSUME NEW w \in Workers, Forget(w)
        PROVE  jobStatus'[i] = jobStatus[i] /\ attempts'[i] = attempts[i]
      BY <2>4 DEF Forget
  <2> QED BY <2>1, <2>2, <2>3, <2>4 DEF Next, Step
<1> QED BY <1>1, PoolIsSafe, PTL DEF Spec, OutcomeIsFinal
=============================================================================
