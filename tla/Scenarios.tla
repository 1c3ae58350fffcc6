----------------------------- MODULE Scenarios -----------------------------
(***************************************************************************)
(* The end-to-end driver (cmd/ncp-e2e/main.go) as a client of the system:  *)
(* each scenario is a script of calls, waits and checks that runs while    *)
(* the worker does. The rows of the scenario's intent and revisions exist  *)
(* from the start: IntentStore and RevisionPipeline are about those calls. *)
(*                                                                         *)
(* A wait polls until it sees what it wants; that it gives up after 30 to  *)
(* 90 seconds is left out: ScenarioEnds says that what it waits for comes. *)
(* A TTL of 60 seconds does not run out between two polls of a second, so  *)
(* a deadline passes when the script forces it.                            *)
(***************************************************************************)
EXTENDS PlanLifecycle, Sequences

CONSTANTS
    Base,    \* the revision without a TTL
    Brief,   \* the revision with ttlSeconds = 60; its port is another
    Client   \* the driver, as a caller of ApplyPlan

ASSUME ScenarioAssumption ==
    /\ Base \in Revisions \ TtlRevisions /\ Brief \in TtlRevisions
    /\ Base \notin Unrenderable /\ Brief \notin Unrenderable   \* as buildSpec makes them
    /\ Client \in Calls

Step(op, plan, arg) == [op |-> op, plan |-> plan, arg |-> arg]

\* createAndApply and extractAppliedRef of the plan numbered p.
CreateAndApply(r, p) ==
    <<Step("plan", p, r), Step("apply", p, None), Step("applied", p, None)>>

Happy ==
    CreateAndApply(Base, 1) \o <<Step("exposed", 1, Base), Step("audited", 1, "apply_done")>>

TTLDelete ==
    CreateAndApply(Brief, 1) \o
    <<Step("has_deadline", 1, Brief), Step("force", 1, Brief), Step("expired", 1, None),
      Step("deleted", 1, None), Step("audited", 1, "ttl_expired"),
      Step("audited", 1, "ttl_deleted")>>

TTLRollback ==
    CreateAndApply(Base, 1) \o <<Step("exposed", 1, Base)>> \o
    CreateAndApply(Brief, 2) \o
    <<Step("exposed", 2, Brief), Step("force", 2, Brief), Step("expired", 2, None),
      Step("exposed", 2, Base), Step("unexposed", 2, Brief), Step("audited", 2, "rollback_done")>>

Idempotency ==
    CreateAndApply(Base, 1) \o
    <<Step("remember", 1, None), Step("apply", 1, None), Step("compare", 1, None),
      Step("exposed", 1, Base)>>

Scripts == {Happy, TTLDelete, TTLRollback, Idempotency}

VARIABLES
    script,   \* the scenario that runs
    at,       \* the step it is at
    result,   \* running, ok or failed
    ref,      \* artifacts.k8s.applied of the plan it last saw applied
    before    \* firstApplyJob and jobsBefore of the idempotency scenario

scriptVars == <<script, at, result, ref, before>>
allVars == <<vars, scriptVars>>

ScenarioInit ==
    /\ Init
    /\ script \in Scripts
    /\ at = 1 /\ result = "running" /\ ref = None
    /\ before = [job |-> None, count |-> 0]

-----------------------------------------------------------------------------
Doing(op) == result = "running" /\ script[at].op = op
Plan == script[at].plan
Arg == script[at].arg

\* The step is over; after the last one the scenario is.
Advance ==
    /\ IF at = Len(script) THEN result' = "ok" /\ UNCHANGED at
                           ELSE at' = at + 1 /\ UNCHANGED result
    /\ UNCHANGED script

Fail == result' = "failed" /\ UNCHANGED <<script, at>>

\* A check that is made once.
Require(holds) == IF holds THEN Advance ELSE Fail

CreatePlan ==
    /\ Doing("plan")
    /\ PlanIntent(Arg)
    /\ Advance /\ UNCHANGED <<ref, before>>

\* POST /plans/{id}/apply, and its answer without a change.
Apply ==
    /\ Doing("apply")
    /\ \/ ApplyPlanRead(Client, Plan) /\ UNCHANGED scriptVars
       \/ ApplyPlanWrite(Client) /\ Advance /\ UNCHANGED <<ref, before>>
       \/ /\ call[Client] = None
          /\ status[Plan] = "applied" \/ applyJob[Plan] # None
          /\ Advance /\ UNCHANGED <<vars, ref, before>>

\* waitPlanStatus: status and artifacts are of one row. A failed status ends
\* the wait, and the scenario, whether or not the job will be retried.
WaitApplied ==
    /\ Doing("applied")
    /\ \/ /\ status[Plan] = "applied"
          /\ ref' = appliedRef[Plan] /\ Require(appliedRef[Plan] # None)
       \/ status[Plan] = "apply_failed" /\ Fail /\ UNCHANGED ref
    /\ UNCHANGED <<vars, before>>

WaitExpired ==
    /\ Doing("expired")
    /\ \/ status[Plan] = "expired" /\ Advance
       \/ status[Plan] = "apply_failed" /\ Fail
    /\ UNCHANGED <<vars, ref, before>>

\* A revision and its port are one thing: a policy has the port of the
\* revision it was last written from.
Exposes(k, r) == cluster[k] # None /\ revOf[cluster[k]] = r

WaitPolicy ==
    /\ \/ Doing("exposed") /\ Exposes(ref, Arg)
       \/ Doing("unexposed") /\ ~Exposes(ref, Arg)
       \/ Doing("deleted") /\ cluster[ref] = None
    /\ Advance /\ UNCHANGED <<vars, ref, before>>

WaitAudit ==
    /\ Doing("audited")
    /\ Arg \in audit[Plan]
    /\ Advance /\ UNCHANGED <<vars, ref, before>>

\* getRevisionNotAfter, asked once.
CheckDeadline ==
    /\ Doing("has_deadline")
    /\ Require(deadline[Arg] # "unset")
    /\ UNCHANGED <<vars, ref, before>>

\* UPDATE intent_revisions SET not_after = now() - interval '2 second'
ForceExpired ==
    /\ Doing("force")
    /\ deadline' = [deadline EXCEPT ![Arg] = "passed"]
    /\ Advance
    /\ UNCHANGED <<planVars, cluster, call, runVars, ttlVars, audit, failVars, poolVars,
                   ref, before>>

ApplyJobs(p) == {j \in JobIds : payload[j] # None /\ About(j, "apply_plan", p)}

\* What getPlanApplyJobID and countApplyJobsByPlan read.
Observed(p) == [job |-> applyJob[p], count |-> Cardinality(ApplyJobs(p))]

Remember ==
    /\ Doing("remember")
    /\ before' = Observed(Plan)
    /\ Require(applyJob[Plan] # None)
    /\ UNCHANGED <<vars, ref>>

Compare ==
    /\ Doing("compare")
    /\ Require(status[Plan] = "applied" /\ before = Observed(Plan))
    /\ UNCHANGED <<vars, ref, before>>

ClientStep ==
    \/ CreatePlan \/ Apply \/ WaitApplied \/ WaitExpired \/ WaitPolicy \/ WaitAudit
    \/ CheckDeadline \/ ForceExpired \/ Remember \/ Compare

WorkerStep(w) == (RunnerStep(w) \/ TickStep(w)) /\ UNCHANGED scriptVars

ScenarioNext == ClientStep \/ \E w \in Workers : WorkerStep(w)

\* The driver polls, and the worker runs as in PlanLifecycle.
ScenarioSpec ==
    /\ ScenarioInit /\ [][ScenarioNext]_allVars
    /\ WF_allVars(ClientStep)
    /\ \A w \in Workers :
         /\ WF_allVars(RunnerStep(w) /\ UNCHANGED scriptVars)
         /\ WF_allVars(TickStep(w) /\ UNCHANGED scriptVars)

-----------------------------------------------------------------------------
\* Every scenario comes to its end: what it waits for happens and stays until
\* the driver has seen it, unless a call of the worker fails.
ScenarioEnds == <>(result # "running" \/ errors > 0)

\* Without a failing call a scenario fails in one way only: ttl-delete sees
\* the plan applied before ApplyWorker has written not_after.
FailStep ==
    result = "running" /\ result' = "failed" /\ errors = 0 =>
        /\ script[at].op = "has_deadline"
        /\ \E w \in Workers : pc[w] = "arm" /\ PlanOf(w) = Plan

OnlyDeadlineRaces == [][FailStep]_allVars

\* What a scenario that is ok has seen is so, and stays so: the worker does
\* not undo it behind the back of the driver.
OkStep ==
    result = "ok" /\ errors' = 0 =>
        cluster' = cluster /\ \A p \in PlanIds : status'[p] = status[p]

ResultStands == [][OkStep]_allVars
=============================================================================
