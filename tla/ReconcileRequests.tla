------------------------- MODULE ReconcileRequests -------------------------
(***************************************************************************)
(* POST /drift/reconcile (handlers_drift.go, reconcile_drift.go): a        *)
(* request looks for an active reconcile job of its target and queues one  *)
(* when there is none. It does so inside a transaction, which holds a      *)
(* connection, and the look-up takes a second one from the same pool.      *)
(*                                                                         *)
(* The runners of the jobs are those of JobPool; what they do with a job   *)
(* is in DriftReconcile. Audit entries and the answer's JSON are left out. *)
(***************************************************************************)
EXTENDS Integers, FiniteSets

CONSTANTS
    Requests,     \* requests that the API serves at one time
    Targets,      \* scope, namespace and dryRun of a request
    PoolSize,     \* connections of the API process
    JobIds,       \* bound on Enqueue
    Workers, MaxAttempts, None

ASSUME RequestAssumption ==
    /\ IsFiniteSet(Requests) /\ IsFiniteSet(JobIds)
    /\ PoolSize \in Nat /\ MaxAttempts \in Nat \ {0}
    /\ None \notin JobIds \cup Targets

VARIABLES
    request,  \* where each request is in WithinTx
    asked,    \* its target
    answer,   \* jobID, the job that the request found or queued
    jobStatus, attempts, payload, lease  \* the reconcile_drift jobs

reqVars == <<request, asked, answer>>
poolVars == <<jobStatus, attempts, payload, lease>>
vars == <<reqVars, poolVars>>

Pool == INSTANCE JobPool WITH Payloads <- Targets

\* Every request and every job has values of its types.
TypeOK ==
    /\ request \in [Requests -> {"idle", "begun", "found", "missed"}]
    /\ asked \in [Requests -> Targets \cup {None}]
    /\ answer \in [Requests -> JobIds \cup {None}]
    /\ \A c \in Requests : request[c] # "idle" => asked[c] \in Targets
    /\ Pool!TypeOK

Init ==
    /\ request = [c \in Requests |-> "idle"]
    /\ asked = [c \in Requests |-> None]
    /\ answer = [c \in Requests |-> None]
    /\ Pool!Init

-----------------------------------------------------------------------------
InTx == {c \in Requests : request[c] # "idle"}

\* Mutant of Free: the look-up takes two connections.
FreePair == Cardinality(InTx) + 1 < PoolSize

\* pgxpool has a connection to give; otherwise whoever asks waits.
Free == Cardinality(InTx) < PoolSize

\* Mutants of ActiveJobs: a job that runs is not looked for; any target's is.
QueuedJobs(t) == {j \in JobIds : jobStatus[j] = "queued" /\ payload[j] = t}
AllActiveJobs(t) == {j \in JobIds : jobStatus[j] \in {"queued", "running"}}

\* WHERE of FindActiveReconcileDrift.
ActiveJobs(t) == {j \in JobIds : jobStatus[j] \in {"queued", "running"} /\ payload[j] = t}

Goto(c, phase) == request' = [request EXCEPT ![c] = phase]

Begin(c, t) ==
    /\ request[c] = "idle" /\ Free
    /\ Goto(c, "begun")
    /\ asked' = [asked EXCEPT ![c] = t]
    /\ answer' = [answer EXCEPT ![c] = None]
    /\ UNCHANGED poolVars

\* FindActiveReconcileDrift does not see the transaction it is called in.
\* Which of several active jobs is the newest is left open.
FindActive(c) ==
    /\ request[c] = "begun" /\ Free
    /\ \/ ActiveJobs(asked[c]) = {} /\ Goto(c, "missed") /\ UNCHANGED answer
       \/ \E j \in ActiveJobs(asked[c]) :
            Goto(c, "found") /\ answer' = [answer EXCEPT ![c] = j]
    /\ UNCHANGED <<asked, poolVars>>

\* A fresh uuid; the bound on jobs is reached when there is none.
RoomForJob == \E j \in JobIds : jobStatus[j] = "none"
NewJob == CHOOSE j \in JobIds : jobStatus[j] = "none"

CommitFound(c) ==
    /\ request[c] = "found"
    /\ Goto(c, "idle")
    /\ UNCHANGED <<asked, answer, poolVars>>

\* Enqueue, audit and commit: the job is there for others from here on, and
\* for the client unless the answer of the commit is lost.
CommitQueued(c) ==
    /\ request[c] = "missed" /\ RoomForJob
    /\ Pool!Enqueue(NewJob, asked[c])
    /\ \E a \in {NewJob, None} : answer' = [answer EXCEPT ![c] = a]
    /\ Goto(c, "idle")
    /\ UNCHANGED asked

\* Any error, or the end of the request's context: rolled back.
Abort(c) ==
    /\ request[c] # "idle"
    /\ Goto(c, "idle")
    /\ answer' = [answer EXCEPT ![c] = None]
    /\ UNCHANGED <<asked, poolVars>>

Serve(c) ==
    \/ FindActive(c)
    \/ CommitFound(c)
    \/ CommitQueued(c)
    \/ request[c] = "missed" /\ ~RoomForJob /\ Abort(c)

RequestStep(c) == (\E t \in Targets : Begin(c, t)) \/ Serve(c) \/ Abort(c)

Next ==
    \/ \E c \in Requests : RequestStep(c)
    \/ (\E w \in Workers : Pool!Step(w)) /\ UNCHANGED reqVars

Spec == Init /\ [][Next]_vars

\* PostgreSQL answers; clients and errors owe nothing.
FairSpec == Spec /\ \A c \in Requests : WF_vars(Serve(c))

-----------------------------------------------------------------------------
\* What a client that asks for t adds to the queue, now and about to: stated
\* apart from the look-up, so that a wrong look-up shows.
Outstanding(t) == {j \in JobIds : payload[j] = t /\ jobStatus[j] \in {"queued", "running"}}
Missed(t) == {c \in Requests : request[c] = "missed" /\ asked[c] = t}

\* However requests race, the look-up bounds the jobs of a target: those that
\* are active and those about to be queued are never more than the requests
\* served at one time. Without it, each request would add a job.
DedupBound ==
    \A t \in Targets :
        Cardinality(Outstanding(t)) + Cardinality(Missed(t)) <= Cardinality(Requests)

\* A request is answered with a job that does what it asked for: a reconcile
\* is never taken for done because a dry run, or another namespace, is queued.
AnswersAlike ==
    \A c \in Requests : answer[c] # None => payload[answer[c]] = asked[c]

\* With more connections than requests at one time no request waits for ever,
\* although each holds one while it asks for another.
RequestsEnd == \A c \in Requests : request[c] = "begun" ~> request[c] = "idle"

\* All that other processes see of a request is the job it queues.
PoolSpec == Pool!Spec
=============================================================================
