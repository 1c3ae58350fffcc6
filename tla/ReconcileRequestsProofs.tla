---------------------- MODULE ReconcileRequestsProofs ----------------------
(***************************************************************************)
(* Theorems about ReconcileRequests for any numbers of requests, targets,  *)
(* connections and jobs: the look-up bounds the jobs of a target, answers  *)
(* are about what was asked, and the jobs are those of JobPool.            *)
(***************************************************************************)
EXTENDS ReconcileRequests, FiniteSetTheorems, TLAPS

\* The theorems about the pool, with targets for payloads.
PoolThm == INSTANCE JobPoolProofs WITH Payloads <- Targets

PoolInv == Pool!TypeOK /\ Pool!ExclusiveLease /\ Pool!RetryBudget

\* The job of an answer has a row, which is about what was asked. Without the
\* row, a later Enqueue could take the id and write another target into it.
AnswerInv ==
    \A c \in Requests : answer[c] # None =>
        payload[answer[c]] = asked[c] /\ jobStatus[answer[c]] # "none"

IInv == TypeOK /\ PoolInv /\ DedupBound /\ AnswerInv

-----------------------------------------------------------------------------
\* An id that Enqueue draws is fresh.
LEMMA NewJobIsNew ==
    ASSUME RoomForJob
    PROVE  NewJob \in JobIds /\ jobStatus[NewJob] = "none"
BY DEF RoomForJob, NewJob

\* The types, without the pool's.
LEMMA Typed ==
    ASSUME IInv
    PROVE  /\ request \in [Requests -> {"idle", "begun", "found", "missed"}]
           /\ asked \in [Requests -> Targets \cup {None}]
           /\ answer \in [Requests -> JobIds \cup {None}]
           /\ \A c \in Requests : request[c] # "idle" => asked[c] \in Targets
           /\ jobStatus \in [JobIds -> {"none", "queued", "running", "done", "failed"}]
           /\ payload \in [JobIds -> Targets \cup {None}]
           /\ lease \in [Workers -> JobIds \cup {None}]
           /\ \A w \in Workers : lease[w] # None => jobStatus[lease[w]] = "running"
           /\ None \notin JobIds /\ None \notin Targets
BY RequestAssumption
   DEF IInv, TypeOK, PoolInv, Pool!TypeOK, Pool!JobStatuses, Pool!ExclusiveLease

\* What requests do to the pool is what the pool allows.
LEMMA StepsOfPool == IInv /\ [Next]_vars => [Pool!Next]_poolVars
<1> SUFFICES ASSUME IInv, [Next]_vars PROVE Pool!Next \/ UNCHANGED poolVars
    OBVIOUS
<1>1. ASSUME NEW c \in Requests, CommitQueued(c) PROVE Pool!Next
    BY <1>1, NewJobIsNew, Typed DEF CommitQueued, Pool!Next
<1>2. ASSUME NEW c \in Requests,
             \/ (\E t \in Targets : Begin(c, t)) \/ FindActive(c)
             \/ CommitFound(c) \/ Abort(c)
      PROVE  UNCHANGED poolVars
    BY <1>2 DEF Begin, FindActive, CommitFound, Abort
<1>3. CASE \E w \in Workers : Pool!Step(w)
    BY <1>3 DEF Pool!Next
<1>4. CASE UNCHANGED vars
    BY <1>4 DEF vars
<1> QED BY <1>1, <1>2, <1>3, <1>4 DEF Next, RequestStep, Serve

\* The pool's invariant comes from the theorems of JobPoolProofs.
LEMMA PoolStep == PoolInv /\ [Pool!Next]_poolVars => PoolInv'
<1>1. MaxAttempts \in Nat \ {0} /\ None \notin JobIds /\ None \notin Targets
    BY RequestAssumption
<1>2. Pool!Next => PoolThm!Next
    BY DEF Pool!Next, PoolThm!Next, Pool!Step, PoolThm!Step,
           Pool!Enqueue, PoolThm!Enqueue, Pool!LeaseNext, PoolThm!LeaseNext,
           Pool!LeaseLost, PoolThm!LeaseLost, Pool!MarkDone, PoolThm!MarkDone,
           Pool!MarkFailed, PoolThm!MarkFailed, Pool!GivenUp, PoolThm!GivenUp,
           Pool!Forget, PoolThm!Forget
<1>3. PoolInv <=> PoolThm!PoolInv
    BY DEF PoolInv, PoolThm!PoolInv, Pool!TypeOK, PoolThm!TypeOK,
           Pool!JobStatuses, PoolThm!JobStatuses,
           Pool!ExclusiveLease, PoolThm!ExclusiveLease,
           Pool!RetryBudget, PoolThm!RetryBudget
<1>4. PoolInv' <=> PoolThm!PoolInv'
    BY DEF PoolInv, PoolThm!PoolInv, Pool!TypeOK, PoolThm!TypeOK,
           Pool!JobStatuses, PoolThm!JobStatuses,
           Pool!ExclusiveLease, PoolThm!ExclusiveLease,
           Pool!RetryBudget, PoolThm!RetryBudget
<1>5. PoolThm!PoolInv /\ [PoolThm!Next]_PoolThm!poolVars => PoolThm!PoolInv'
    BY <1>1, PoolThm!PoolStep
<1>6. UNCHANGED poolVars => UNCHANGED PoolThm!poolVars
    BY DEF poolVars, PoolThm!poolVars
<1> QED BY <1>2, <1>3, <1>4, <1>5, <1>6

\* A job that has a row keeps it, and what it is about.
LEMMA JobsStay ==
    ASSUME IInv, [Pool!Next]_poolVars
    PROVE  \A j \in JobIds :
               jobStatus[j] # "none" => jobStatus'[j] # "none" /\ payload'[j] = payload[j]
<1>a. Pool!TypeOK
    BY DEF IInv, PoolInv
<1> USE <1>a DEF Pool!TypeOK, Pool!JobStatuses
<1>1. ASSUME NEW j \in JobIds, NEW t \in Targets, Pool!Enqueue(j, t)
      PROVE  \A i \in JobIds :
                 jobStatus[i] # "none" => jobStatus'[i] # "none" /\ payload'[i] = payload[i]
    BY <1>1 DEF Pool!Enqueue
<1>2. ASSUME NEW w \in Workers, Pool!Step(w)
      PROVE  \A i \in JobIds :
                 jobStatus[i] # "none" => jobStatus'[i] # "none" /\ payload'[i] = payload[i]
    BY <1>2 DEF Pool!Step, Pool!LeaseNext, Pool!LeaseLost, Pool!MarkDone, Pool!MarkFailed,
                Pool!Forget
<1>3. CASE UNCHANGED poolVars
    BY <1>3 DEF poolVars
<1> QED BY <1>1, <1>2, <1>3 DEF Pool!Next

\* Runners make no job active that was not.
LEMMA RunnersActivateNone ==
    ASSUME IInv, NEW w \in Workers, Pool!Step(w), NEW t \in Targets
    PROVE  Outstanding(t)' \subseteq Outstanding(t)
<1> USE Typed DEF Outstanding
<1>1. CASE \E j \in JobIds : Pool!LeaseNext(w, j) \/ Pool!LeaseLost(w, j)
    BY <1>1 DEF Pool!LeaseNext, Pool!LeaseLost
<1>2. CASE Pool!MarkDone(w) \/ Pool!MarkFailed(w)
    BY <1>2 DEF Pool!MarkDone, Pool!MarkFailed
<1>3. CASE Pool!Forget(w)
    BY <1>3 DEF Pool!Forget
<1> QED BY <1>1, <1>2, <1>3 DEF Pool!Step

-----------------------------------------------------------------------------
\* The initial state satisfies the invariant.
LEMMA InitInv == Init => IInv
<1> SUFFICES ASSUME Init PROVE IInv
    OBVIOUS
<1> USE RequestAssumption DEF Init, Pool!Init
<1>1. TypeOK /\ Pool!TypeOK
    BY DEF TypeOK, Pool!TypeOK, Pool!JobStatuses
<1>2. PoolInv
    BY <1>1 DEF PoolInv, Pool!ExclusiveLease, Pool!RetryBudget
<1>3. DedupBound
  <2>1. \A t \in Targets : Outstanding(t) = {} /\ Missed(t) = {}
      BY DEF Outstanding, Missed
  <2>2. Cardinality(Requests) \in Nat
      BY FS_CardinalityType
  <2> QED BY <2>1, <2>2, FS_EmptySet DEF DedupBound
<1>4. AnswerInv
    BY DEF AnswerInv
<1> QED BY <1>1, <1>2, <1>3, <1>4 DEF IInv

\* Every step keeps the types.
LEMMA TypeStep == IInv /\ [Next]_vars => TypeOK'
<1> SUFFICES ASSUME IInv, [Next]_vars PROVE TypeOK'
    OBVIOUS
<1>a. Pool!TypeOK'
    BY StepsOfPool, PoolStep DEF IInv, PoolInv
<1>b. TypeOK
    BY DEF IInv
<1> USE <1>a, <1>b, Typed DEF TypeOK, Goto
<1>1. ASSUME NEW c \in Requests, NEW t \in Targets, Begin(c, t) PROVE TypeOK'
    BY <1>1 DEF Begin
<1>2. ASSUME NEW c \in Requests, FindActive(c) PROVE TypeOK'
    BY <1>2 DEF FindActive, ActiveJobs
<1>3. ASSUME NEW c \in Requests, CommitFound(c) \/ Abort(c) PROVE TypeOK'
    BY <1>3 DEF CommitFound, Abort
<1>4. ASSUME NEW c \in Requests, CommitQueued(c) PROVE TypeOK'
    BY <1>4, NewJobIsNew DEF CommitQueued
<1>5. CASE UNCHANGED reqVars
    BY <1>5 DEF reqVars
<1>6. CASE UNCHANGED vars
    BY <1>5, <1>6 DEF vars
<1> QED BY <1>1, <1>2, <1>3, <1>4, <1>5, <1>6 DEF Next, RequestStep, Serve

\* Every step keeps the answers right.
LEMMA AnswerStep == IInv /\ [Next]_vars => AnswerInv'
<1> SUFFICES ASSUME IInv, [Next]_vars, NEW c \in Requests, answer'[c] # None
             PROVE  payload'[answer'[c]] = asked'[c] /\ jobStatus'[answer'[c]] # "none"
    BY DEF AnswerInv
<1> USE Typed DEF Goto
<1>a. AnswerInv
    BY DEF IInv
<1>b. \A j \in JobIds :
          jobStatus[j] # "none" => jobStatus'[j] # "none" /\ payload'[j] = payload[j]
    BY StepsOfPool, JobsStay
<1>1. CASE answer'[c] = answer[c] /\ asked'[c] = asked[c]
    BY <1>1, <1>a, <1>b DEF AnswerInv
<1>2. ASSUME NEW d \in Requests, NEW t \in Targets, Begin(d, t)
      PROVE  answer'[c] = answer[c] /\ asked'[c] = asked[c]
    BY <1>2 DEF Begin
<1>3. ASSUME NEW d \in Requests, CommitFound(d) \/ Abort(d)
      PROVE  answer'[c] = answer[c] /\ asked'[c] = asked[c]
    BY <1>3 DEF CommitFound, Abort
<1>4. ASSUME NEW d \in Requests, FindActive(d)
      PROVE  payload'[answer'[c]] = asked'[c] /\ jobStatus'[answer'[c]] # "none"
  <2>1. CASE answer' = answer
      BY <1>1, <1>4, <2>1 DEF FindActive
  <2>2. CASE \E j \in ActiveJobs(asked[d]) : answer' = [answer EXCEPT ![d] = j]
      BY <1>1, <1>4, <2>2 DEF FindActive, ActiveJobs, poolVars
  <2> QED BY <1>4, <2>1, <2>2 DEF FindActive
<1>5. ASSUME NEW d \in Requests, CommitQueued(d)
      PROVE  payload'[answer'[c]] = asked'[c] /\ jobStatus'[answer'[c]] # "none"
  <2>1. CASE c = d
      BY <1>5, <2>1, NewJobIsNew DEF CommitQueued, Pool!Enqueue
  <2>2. CASE c # d
      BY <1>1, <1>5, <2>2 DEF CommitQueued
  <2> QED BY <2>1, <2>2
<1>6. CASE UNCHANGED reqVars
    BY <1>1, <1>6 DEF reqVars
<1>7. CASE UNCHANGED vars
    BY <1>6, <1>7 DEF vars
<1> QED BY <1>1, <1>2, <1>3, <1>4, <1>5, <1>6, <1>7 DEF Next, RequestStep, Serve

\* The sets that the bound is about are finite.
LEMMA SetsAreFinite ==
    ASSUME NEW t
    PROVE  /\ IsFiniteSet(Outstanding(t)) /\ IsFiniteSet(Missed(t))
           /\ Cardinality(Outstanding(t)) \in Nat /\ Cardinality(Missed(t)) \in Nat
           /\ Cardinality(Missed(t)) <= Cardinality(Requests)
           /\ Cardinality(Requests) \in Nat
<1>1. Outstanding(t) \in SUBSET JobIds /\ Missed(t) \in SUBSET Requests
    BY DEF Outstanding, Missed
<1>2. IsFiniteSet(JobIds) /\ IsFiniteSet(Requests)
    BY RequestAssumption
<1> QED BY <1>1, <1>2, FS_Subset, FS_CardinalityType

\* Every step keeps the bound: a request misses only when no job is active,
\* and one that queues a job no longer misses.
LEMMA DedupStep == IInv /\ [Next]_vars => DedupBound'
<1> SUFFICES ASSUME IInv, [Next]_vars, NEW t \in Targets
             PROVE  Cardinality(Outstanding(t)') + Cardinality(Missed(t)')
                        <= Cardinality(Requests)
    BY DEF DedupBound
<1> DEFINE A == Outstanding(t)
           M == Missed(t)
           Bound == Cardinality(A') + Cardinality(M') <= Cardinality(Requests)
<1>a. /\ Cardinality(A) \in Nat /\ Cardinality(M) \in Nat /\ Cardinality(Requests) \in Nat
      /\ IsFiniteSet(A) /\ IsFiniteSet(M)
      /\ Cardinality(A) + Cardinality(M) <= Cardinality(Requests)
    BY SetsAreFinite DEF IInv, DedupBound
<1>b. ASSUME A' \subseteq A, M' \subseteq M PROVE Bound
  <2> HIDE DEF A, M
  <2>1. A' \in SUBSET A /\ M' \in SUBSET M
      BY <1>b
  <2>2. /\ IsFiniteSet(A') /\ Cardinality(A') <= Cardinality(A)
        /\ IsFiniteSet(M') /\ Cardinality(M') <= Cardinality(M)
      BY <1>a, <2>1, FS_Subset
  <2>3. Cardinality(A') \in Nat /\ Cardinality(M') \in Nat
      BY <2>2, FS_CardinalityType
  <2> QED BY <1>a, <2>2, <2>3
<1>1. ASSUME NEW c \in Requests, NEW u \in Targets, Begin(c, u) PROVE Bound
    BY <1>1, <1>b, Typed DEF Begin, Goto, Outstanding, Missed, poolVars
<1>2. ASSUME NEW c \in Requests, FindActive(c) PROVE Bound
  <2>1. A' = A
      BY <1>2 DEF FindActive, Outstanding, poolVars
  <2>4. ASSUME asked[c] = t PROVE ActiveJobs(asked[c]) = A
      BY <2>4 DEF ActiveJobs, Outstanding
  <2>2. CASE A = {}
    <3>1. M' \in SUBSET Requests
        BY DEF Missed
    <3>2. IsFiniteSet(M') /\ Cardinality(M') <= Cardinality(Requests)
        BY <3>1, FS_Subset, RequestAssumption
    <3>3. Cardinality(M') \in Nat
        BY <3>2, FS_CardinalityType
    <3>4. Cardinality(A') = 0
        BY <2>1, <2>2, FS_EmptySet
    <3> QED BY <1>a, <3>2, <3>3, <3>4
  <2>3. CASE A # {}
    <3>1. M' \subseteq M
        BY <1>2, <2>3, <2>4, Typed DEF FindActive, Goto, Missed
    <3> QED BY <1>b, <2>1, <3>1
  <2> QED BY <2>2, <2>3
<1>3. ASSUME NEW c \in Requests, CommitFound(c) \/ Abort(c) PROVE Bound
    BY <1>3, <1>b, Typed DEF CommitFound, Abort, Goto, Outstanding, Missed, poolVars
<1>4. ASSUME NEW c \in Requests, CommitQueued(c) PROVE Bound
  <2>1. NewJob \in JobIds /\ jobStatus[NewJob] = "none" /\ c \in Requests
      BY <1>4, NewJobIsNew DEF CommitQueued
  <2>2. CASE asked[c] = t
    <3>1. A' = A \cup {NewJob} /\ NewJob \notin A
        BY <1>4, <2>1, <2>2, Typed DEF CommitQueued, Pool!Enqueue, Outstanding
    <3>2. M' = M \ {c} /\ c \in M
        BY <1>4, <2>2, Typed DEF CommitQueued, Goto, Missed
    <3> HIDE DEF A, M
    <3>3. Cardinality(A') = Cardinality(A) + 1
        BY <1>a, <3>1, FS_AddElement
    <3>4. Cardinality(M') = Cardinality(M) - 1
        BY <1>a, <3>2, FS_RemoveElement
    <3> QED BY <1>a, <3>3, <3>4
  <2>3. CASE asked[c] # t
    <3>1. A' \subseteq A
        BY <1>4, <2>1, <2>3, Typed DEF CommitQueued, Pool!Enqueue, Outstanding
    <3>2. M' \subseteq M
        BY <1>4, <2>3, Typed DEF CommitQueued, Goto, Missed
    <3> QED BY <1>b, <3>1, <3>2
  <2> QED BY <2>2, <2>3
<1>5. ASSUME NEW w \in Workers, Pool!Step(w), UNCHANGED reqVars PROVE Bound
  <2>1. A' \subseteq A
      BY <1>5, RunnersActivateNone
  <2>2. M' \subseteq M
      BY <1>5 DEF Missed, reqVars
  <2> QED BY <1>b, <2>1, <2>2
<1>6. CASE UNCHANGED vars
    BY <1>6, <1>b DEF vars, reqVars, poolVars, Outstanding, Missed
<1> QED BY <1>1, <1>2, <1>3, <1>4, <1>5, <1>6 DEF Next, RequestStep, Serve

-----------------------------------------------------------------------------
\* The invariant is inductive.
LEMMA IInvStep == IInv /\ [Next]_vars => IInv'
BY TypeStep, StepsOfPool, PoolStep, AnswerStep, DedupStep DEF IInv

\* The invariant holds in every reachable state.
LEMMA RequestsAreSafe == Spec => []IInv
BY InitInv, IInvStep, PTL DEF Spec

\* However many requests race past the look-up of FindActiveReconcileDrift,
\* the jobs of one target are never more than they are.
THEOREM DedupBounds == Spec => []DedupBound
<1>1. IInv => DedupBound
    BY DEF IInv
<1> QED BY <1>1, RequestsAreSafe, PTL

\* A request is answered with a job about its scope, namespace and dryRun.
THEOREM AnswersAreAlike == Spec => []AnswersAlike
<1>1. IInv => AnswersAlike
    BY DEF IInv, AnswerInv, AnswersAlike
<1> QED BY <1>1, RequestsAreSafe, PTL

\* To the runners the requests are the Enqueue of the abstract pool.
THEOREM RequestsImplementPool == Spec => PoolSpec
<1>1. Init => Pool!Init
    BY DEF Init
<1>2. IInv /\ [Next]_vars => [Pool!Next]_Pool!poolVars
    BY StepsOfPool DEF poolVars, Pool!poolVars
<1> QED BY <1>1, <1>2, RequestsAreSafe, PTL DEF Spec, PoolSpec, Pool!Spec
=============================================================================
