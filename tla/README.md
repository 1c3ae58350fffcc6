# NetControl-Plane in TLA+

NetControl-Plane manages Kubernetes network policies through declarative
*intents*. A client creates an intent and revisions of it; a revision is compiled
into a *plan*; applying a plan queues a job; a worker process executes the job
against Kubernetes; a revision may carry a TTL, after which the plan is expired,
rolled back or its policy deleted; a drift worker compares the cluster with the
applied plans. PostgreSQL holds all the state that survives a crash.

This directory models that behaviour, checks it with TLC and proves the parts
that hold for every size with TLAPS. Source paths below are relative to
`src/ncp/internal/ncp/`. `PROJECT.json` maps every definition to the lines it
translates and lists runs, mutants, findings, hazards and theorems.

## 1. Inventory

| Component | State it keeps | Operations | What makes it correct |
|---|---|---|---|
| Job queue (`adapters/outbound/postgres/jobs_queue.go`) | `jobs`: status, attempts, run_at, payload | Enqueue, LeaseNext, MarkDone, MarkFailed, FindActive... | one holder per job; an exact retry budget; back-off before each retry; a final outcome stays; a queued job is executed |
| Runner (`adapters/inbound/worker/runner.go`) | the job in hand | lease, dispatch, mark | a job is marked by who holds it; what a crash leaves behind |
| Plan use cases (`app/usecases/plan_intent.go`, `apply_plan.go`) | `plans`: status, revision_id, apply_job_id | PlanIntent, ApplyPlan | one apply job per plan; `applying` means that a job is owed; a second apply changes nothing |
| Apply worker (`apply_worker.go`) | `plans.status`, `artifacts.k8s.applied`, `not_after`, the policy in the cluster | Handle | `applied` and the cluster agree; the deadline is set once |
| TTL worker and expiry (`ttl_worker.go`, `expire_ttl_worker.go`) | the tick's list; `plans.status`; the policy | tick, Handle | nothing expires early, everything due expires, the policy of an expired plan goes |
| Intents and revisions (`create_intent.go`, `create_revision.go`, `repos_intent.go`) | `intents.current_revision`, `intent_revisions` | CreateIntent, CreateRevision | one gapless history per intent under racing requests |
| Transactions (`tx.go`) | the connection pool, the row locks | WithinTx | a failed transaction leaves nothing, its locks included |
| Audit log (`repos_audit.go`) | `audit_log` | Append | every change of state leaves its entry |
| Drift detection (`drift_worker.go`, `repos_drift.go`) | `drift_snapshots` | tick: observe, list, compare, insert | a drift that lasts is reported, and its end too |
| Drift reconciliation (`reconcile_drift.go`, `reconcile_drift_worker.go`, `discover.go`) | `reconcile_drift` jobs; policies | look up or enqueue; observe, list, apply the desired, delete the extra | duplicates are bounded; converges; never deletes a wanted policy |
| Compiler and renderer (`policy_compiler.go`, `render_networkpolicy.go`) | none | Compile, RenderNetworkPolicy | a policy grants what the spec names and what the guardrails let pass |
| Reachability (`handlers_reachability.go`, `check_reachability.go`) | none | decode, Handle | "allowed" is true of the policy of the revision it names; the global search agrees with the single one |
| Validation, guardrails (`domain/intent`) | none | ValidateBasic, EvaluateGuardrails | how far they bind the rendered policy |
| End-to-end driver (`cmd/ncp-e2e/main.go`) | its own variables; forces `not_after` | four scenarios | each ends, and fails only when something is wrong |
| HTTP API, read-only queries | none | decode, call, encode | thin; each handler calls one use case |
| Authentication, configuration, bootstrap | none | start-up | no behaviour over time |

How they interact. The API process and the worker process share only PostgreSQL.
The API writes `plans` and `jobs` in one transaction; the Runner leases jobs by
row lock and writes `plans`, `intent_revisions.not_after` and the cluster in
separate steps; the TTLWorker reads `plans` and `not_after` and writes `jobs`.
The DriftWorker of the worker process reads the cluster and `plans` and writes
`drift_snapshots`; a reconcile request of the API queues a job that the same Runner
executes. No component calls another across processes, so every interaction is an
interleaving of transactions, single statements and Kubernetes calls.

Hard behaviours: requests racing between a read and a write; jobs executed again
after a failure or a lost answer; jobs orphaned by a crash; a gate set before the
work it guards is done; a deadline written outside the transaction; a query with a
LIMIT that hides rows; the deletion of policies decided on lists that may be stale;
a transaction that needs a second connection; rules that are mixed when they are
rendered. Each one is a hazard in `PROJECT.json`, at its line, with the properties
about it.

## 2. Plan

Done:

1. `JobPool`, `JobQueue`: the queue, abstract and as SQL, with refinement. Proofs.
2. `PlanLifecycle`: API, Runner, apply and expire handlers, TTLWorker, composed over
   `JobPool`. Proofs of the properties that hold for any number of workers,
   requests, failures and crashes.
3. `IntentStore`, `RevisionLog`: CreateRevision statement by statement, with
   refinement. Proofs.
4. `IntentSpec`, `PolicyRendering`, `Reachability`, composed by `RevisionPipeline`: the
   pure part of the system, over stored revisions. Proofs.
5. `ReconcileRequests` (implements `JobPool`) and `DriftReconcile` (extends
   `PlanLifecycle`): drift and its repair. Proofs.
6. `Scenarios`: the end-to-end driver as a client of `PlanLifecycle`. Proofs of what
   makes a scenario fail, and that a scenario that is ok stays so.
7. Proofs about one worker: `AppliedIsEnforced`, `EnforcedIsApplied`, `ExpiryIsAudited`;
   `GlobalIsSingle` and `FreshIsGlobal` for any histories.

To do, in this order:

8. Several worker processes in `DriftReconcile`: which weaker statement about
   deletions remains true of them.
9. The listing of drift snapshots and of audit entries, with their limits.

## 3. Modules

| Module | Models | Used by |
|---|---|---|
| `JobPool` | what the jobs table promises: a pool of jobs, leases, retries | `PlanLifecycle` (INSTANCE), refined by `JobQueue` |
| `JobQueue` | the statements of `jobs_queue.go`: row lock between SELECT and commit, run_at, clock, back-off | - |
| `PlanLifecycle` | PlanIntent, ApplyPlan, Runner, ApplyWorker, ExpireTTLWorker, TTLWorker | - |
| `RevisionLog` | what CreateRevision promises: one history per intent | refined by `IntentStore` |
| `IntentStore` | CreateIntent, CreateRevision: row lock, MAX+1, INSERT, UPDATE, commit | - |
| `IntentSpec` | spec.go, ValidateBasic, EvaluateGuardrails | `PolicyRendering`, `Reachability` |
| `PolicyRendering` | RenderNetworkPolicy, and what Kubernetes makes of a policy | `RevisionPipeline` |
| `Reachability` | the reachability handler and use case, as operators on histories | `RevisionPipeline` |
| `RevisionPipeline` | intents and revisions with their specs, rendered and queried | - |
| `ReconcileRequests` | POST /drift/reconcile over a connection pool; implements `JobPool` | - |
| `DriftReconcile` | the reconcile handler, the DriftWorker, changes by hand; extends `PlanLifecycle`, a second `JobPool` by INSTANCE | - |
| `Scenarios` | the driver's scripts; extends `PlanLifecycle` | - |
| `MC...` | small instances for TLC | runs |
| `...Proofs` | theorems and their lemmas | - |

### JobPool and JobQueue

`jobStatus`, `attempts`, `payload` are columns of `jobs`; `lease` is the variable
`jobID` of `Runner.step`. A row is identified by its uuid; `JobIds` bounds how many
there can be. The pool leaves open which queued job is leased, which is all that
`PlanLifecycle` needs. `JobQueue` adds `runAt`, `createdAt`, the database clock `now`
and `picked`, the row that a LeaseNext transaction has selected and locked and not
yet committed. `Select` is the SELECT ... FOR UPDATE SKIP LOCKED, `LeaseNext` the
UPDATE and commit, `LeaseAborted` the rollback, `LeaseLost` a commit whose answer is
lost. An Enqueue takes effect at its commit but `now()` is the start of its
transaction, so `runAt` may lie up to `TxLag` in the past. `Forget` is a crash, or a
mark that does not reach the database: the row stays `running`, and no code ever
looks for it.

### PlanLifecycle

The variables are columns (`status`, `revOf`, `applyJob`, `appliedRef`, `deadline`,
`audit`), the cluster (`cluster[k]` is the plan a policy was last written from) and
the local variables of processes (`call`, `pc`, `target`, `pending`, `expiring`). Plans
are numbered in the order of created_at. `deadline` is `unset` (not_after NULL),
`armed` (in the future) or `passed`.

Each transaction, each statement outside a transaction and each Kubernetes call is
one action. ApplyPlan is two: the read of the plan, which takes no lock, and
everything from its first UPDATE, which locks the row, to the commit. A call fails
(`CallFails`) either without effect or with its effect and a lost answer; a crash
(`Crash`) drops what the process held. `RunnerStep` collects the runner, apply and
expire actions, `TickStep` those of the ticker. A failed enqueue or find of the
ticker has the effect the code gives it: an error of the find leads to the enqueue.

`Unrenderable` revisions are those whose policy Kubernetes rejects. Left out: the modes
`noop` and dry run, in which the cluster is not touched; payloads that do not
parse (only this code writes them); the wording of audit entries.

### IntentStore and RevisionLog

A request goes through `begun`, `locked`, `numbered`, `inserted` and then `answered`
or `error`. A SELECT ... FOR UPDATE waits for the lock; of an unknown intent it locks
nothing and is no error, as in the code, and the INSERT then fails on the foreign
key. `IntentStore` implements `RevisionLog` under the mapping `History`, `Answers`: the
commit is the one step that adds a revision.

### IntentSpec, PolicyRendering, Reachability, RevisionPipeline

A spec is a record; lists are sets, because no reader depends on order or on
repetition. Every reader folds the case of a destination's type, so one value
stands for its spellings. Protocols and directions are another matter: the renderer
folds their case, reachability and one guardrail compare them as spelled, so `"tcp"`
and `"Egress"` are values of their own. A CIDR is trimmed by the guardrail and not by
the renderer, so `Internet` is there with blanks (`Padded`) and without.

Policy names are abstract (`PolicyName`: the sanitized app label, not one-to-one).
The conversion of a port to int32 keeps ports in range, and yields `Overflowed` out
of range, which Go leaves to the implementation. `Compile` copies the fields that
the renderer reads; the way through JSON changes their Go types and not their
values. `Grants` is external: a policy rule without peers is about every peer, one
without ports about every port.

An answer of `Reachability` is a verdict with the revision it gives as evidence.
`handleGlobal` goes through the intents from the one updated last, ends at the first
that allows and keeps the last denial (`Global`, with `Newest` and `Oldest` of the
candidates). `lost` is the set of intents about which a read of the request fails: the
single search answers with an error, the global one goes on without the intent.

`RevisionPipeline` keeps `history` (the specs of each intent), `updatedAt`, and of every
writer the start of its open transaction (`began`) and the intent it writes (`writes`).
A transaction is two steps, its start and its end: updated_at is `now()`, the start,
so transactions about different intents may commit in another order than that of
their times. What lies between the two is indivisible, which `IntentStore` justifies.
The clock counts the starts, so no two transactions start at one time; of two rows
with one updated_at PostgreSQL may list either first.

### ReconcileRequests

`request[c]` is where a request is in WithinTx: `begun`, then `found` or `missed`, then
`idle` again. Begin takes a connection, FindActive needs another one for a moment and
does not see the transaction it is called in. The jobs are a `JobPool`, so runners
lease, mark, lose and orphan them as everywhere.

### DriftReconcile

`want` and `extra` are what the handler still has to apply and to delete, `rpc` where it
is. The cluster is observed first, the plans are listed later: two actions. Applies
come in any order (a map in the code), deletes after them; a delete of a policy that
somebody else deleted is an error, as in the code. A policy's content is the
revision its plan was compiled from, so a policy is changed when another revision
wrote it last. `LatestAppliedPlans(n)` is the query with its limit, `ReconcileLimit` the
limit after the clamp, `DriftLimit` that of the DriftWorker. `LifecycleRunner` says that
one Runner executes one job of any kind at a time. `CrashAll` is the death of the
whole process; `DeleteByHand` and `ApplyByHand` are kubectl.

### Scenarios

A scenario is a sequence of steps (`Happy`, `TTLDelete`, `TTLRollback`, `Idempotency`),
one per call, wait or check of the driver's functions, in their order. Waits poll;
that they give up after some time is left out, since `ScenarioEnds` says that what they
wait for comes. The worker runs beside. The rows of intents and revisions exist from
the start; each scenario makes its own, so the scenarios are independent of each
other and each is an initial state.

## 4. Runs

| Run | Instance | Shows |
|---|---|---|
| `JobPool` | 3 jobs, 2 runners, 3 attempts | leases, budget, outcomes; every queued job settles |
| `JobQueue` | 2 runners, a clock, back-off | types, spacing of retries, refinement of `JobPool` (and with it exclusive leases and the budget) |
| `LifecycleOneWorker` | 1 intent, 2 revisions, 2 requests, 1 worker, 1 crash or 1 failing call | an applied plan has its policy at every moment; until a call fails status, cluster and audit trail agree at rest |
| `LifecycleFailures` | a revision that Kubernetes takes and one that it rejects, failing calls and crashes, 2 requests, 2 workers | the invariants and the action property that survive all failures |
| `LifecycleLiveness` | 2 plans, one revision with a TTL and one without; 1 failure, 2 attempts | a queued apply is eventually applied; the newest applied plan does not outlive its deadline |
| `IntentStore` | 3 requests, 2 intents and an unknown id | gapless history, refinement of `RevisionLog`, no wait for ever |
| `RevisionPipeline` | 3 intents, 41 specs, 2 revisions, 2 writers with 4 transactions, 26 queries with every set of failing reads, a limit of 2 | what reachability and the policies say of each other, of the guardrails and of the spec; what the limit hides |
| `ReconcileRequests` | 2 requests, 2 targets, 3 connections, 3 jobs | bounded duplicates, answers about the right target, no wait for ever |
| `DriftReconcile` | 1 plan with a TTL that expires, or 2 plans of 1 or 2 intents before any deadline; 2 namespaces, 1 reconcile job (a repair or a dry run), 1 change by hand, 1 failing call or crash | convergence, no deletion of a wanted policy, snapshots that follow |
| `Scenarios` | the 4 scripts, 1 failing call | they end; they fail only by the race of section 7; their results stand |
| `ReapplyRace`, `ExpiryRetry` | 1 plan; 2 requests, or 1 failing call | two violations, each a finding (section 7) |

Bounds. Every bound is a constant: `MaxPlans`, `JobIds`, `RecJobIds`, `MaxErrors`,
`MaxCrashes`, `MaxFaults`, `MaxTampers`, `MaxRevisions`, `MaxAttempts` (5 in the
code), `MaxTransactions`, `Limit` (50, or 200 for the global search),
`ReconcileLimit` (50), `DriftLimit` (200), `MaxNow`, `TxLag`, `Backoff`, `PoolSize`.
The interesting cases need little: two requests for a race, two plans of one intent
for a rollback, two plans of one policy for "the newest wins", one failure after
each step for a partial failure, two attempts for a retry that is the last, more
intents than the limit lists for the global search. The specs of
`MCRevisionPipeline` differ in one thing each, and so do its queries; together they
contain every pair of rule and destination kinds that the renderer could confuse.
`Common` keeps the histories few: one of the two revisions has one of three specs,
which differ in what they allow of the traffic that is asked about, the other is
any. `MCDriftReconcile` has two halves (`Bounds`). With one plan its deadline may
pass, and calls fail and processes die within the handlers of the lifecycle too, so
a reconcile finds what an apply or an expiry that failed halfway has left: an
expired plan whose policy stays, a policy of a plan that never became applied, a job
that nobody takes up again. Once the deadline has passed there is one fault or one
change by hand, not both. With two plans, of one policy or of two, no deadline
passes and a fault hits while no handler of the lifecycle runs. A dry run, which
writes nothing, meets no fault. `Int32Max` is scaled down, above the ports. The
safety properties that have a proof do not depend on the bounds at all. Runs whose
bounds let the system come to rest say CHECK_DEADLOCK FALSE: when no request is owed
and every job is over, the program only polls.

Symmetry. `LifecycleOneWorker` has two revisions of one kind and two requests, and no
property that names one of them, so permutations of each are identified (`Alike`).
In `RevisionPipeline` the requests name `i1`; the other two intents and the two writers
may be exchanged (`Symmetry`), and no liveness is checked there. In the former run
`OneFailure` bounds failing calls and crashes together.

Mutants. Each checked property has a mutant of a definition that a plausible bug
would produce (a dropped lock, an off-by-one, a swapped order, a missing update)
and that TLC finds to violate it. They stand before the definitions they change.

## 5. Fairness

- `JobPool!FairSpec`, `PlanLifecycle!FairSpec`: weak fairness of a runner's steps
  together, of a ticker's steps together and of the clock. The loops of
  `Runner.Run` and `TTLWorker.Run` poll for ever, and the handlers' calls return; a
  step that fails is as good as one that succeeds, so nothing is assumed about
  outcomes. Clients owe nothing.
- `DriftFairness`: the same of the three goroutines that main.go starts: the Runner
  with all its handlers, the TTLWorker and the DriftWorker. Clients, people and
  crashes owe nothing.
- `ScenarioSpec`: the worker's loops as above, and the driver, which polls.
- `IntentStore!FairSpec`, `ReconcileRequests!FairSpec`: PostgreSQL executes a statement
  that need not wait. An abort is not owed, except of a statement that cannot succeed.

Liveness under fairness is checked by TLC only; TLAPS cannot prove it.

## 6. Theorems

All are statements about every value of the constants that the named assumptions
allow (`MaxAttemptsAssumption`, `NoneAssumption`, `QueueAssumption`,
`LifecycleAssumption`, `StoreAssumption`, `Int32Assumption`, `ReachabilityAssumption`,
`PipelineAssumption`, `RequestAssumption`, `DriftAssumption`, `ScenarioAssumption`:
constants have their types, `None` is not an id, and the driver's two revisions
are such that Kubernetes accepts their policies).

- `JobPoolProofs`: types, `ExclusiveLease`, `RetryBudget`, `OutcomeIsFinal`. The
  exclusive lease alone is inductive together with the types; the budget needs
  that a job which is not failed has attempts left; the finality of outcomes
  follows because whoever marks a job holds it and a held job is `running`.
- `JobQueueProofs`: the same at SQL level, `RetrySpacing`, and `QueueImplementsPool`.
  `LockInv` (a selected row is queued and selected once) is what makes the step
  from SELECT to commit safe. Selecting and aborting are stutters of the pool.
- `PlanLifecycleProofs`: `TypeOK`, `ApplyJobIsOwn`, `ApplyJobOnce`,
  `ExpiryAfterDeadline`, `ExpiryHasRef`, `ApplyingIsOwed`. The invariant ties the
  program counters to the jobs: where a runner is determines the kind of the job
  it holds, a job that is not done is about a plan that exists, and an expire
  job, a plan in a tick's list or a plan about to be enqueued is about a plan that
  was applied and whose deadline has passed. `ApplyingIsOwed` rests on the leases
  of the pool: the theorems of `JobPoolProofs` are used by instantiation.
  `LifecycleUsesPool` is the link to them: every step of the lifecycle is a step of
  `JobPool` or leaves the jobs alone.
- The second half of `PlanLifecycleProofs`, for one worker process (`Workers = {w}`,
  as deployed) and any number of plans, jobs, requests, retries and crashes:
  - `AppliedIsAlwaysEnforced` (`AppliedIsEnforced`), whatever calls fail. It needs
    `OneIntentPerPolicy`: no two intents write one policy, or the expiry of one
    deletes what the other applied (section 7). `EnforcedInv` adds what the handler
    knows where it stands: before the commit of an apply the policy is there; before
    a delete the plan is not applied and no plan of its intent is. With one Runner
    nothing applies a plan between the list and the delete.
  - `ExpiriesAreAudited` (`ExpiryIsAudited`), as long as no call has failed: the
    audit entries are written after the status, and their errors are ignored. It
    needs `OneIntentPerPolicy` too, which the code does not enforce: of two intents
    that write a policy of one name, the delete of the second to expire gets
    NotFound, its retry stops at the gate, and the fate of its policy is never
    audited. The run has one intent, so it does not meet the case.
  - `EnforcedPlansAreApplied` (`EnforcedIsApplied`), under `OneIntentPerPolicy`
    and `OnePolicyPerIntent`: a rollback to a policy of another name leaves
    that of the expired plan.

  The last two rest on `DuesInv` and `PoliciesInv`, which say of every status and
  every policy who still owes the work that makes it agree: an expired plan is told
  in the audit log, or the Runner is at one of the steps that tell it (`RunnerOwes`),
  or an active job about it is left; a policy is that of an applied plan, or is
  being written, deleted or replaced, or is owed a job. A crash turns the Runner's
  due into an orphaned `running` job, which counts as active for ever, so after it
  the two properties say nothing of that policy until the end; `AppliedIsEnforced`
  has no such condition. `AppliedIsEnforced`, `EnforcedIsApplied` and
  `ExpiryIsAudited` fail with two workers.
- `IntentStoreProofs`: types, `GaplessHistory`, `NumberIsFree` and `StoreImplementsLog`.
  A transaction about an existing intent holds its row lock from the SELECT to
  the commit; so the number it has read is current_revision + 1 until it commits,
  and the commit adds exactly one row after the last.
- `PolicyProofs`: `TypeOK`, `AllowedIsEnforced`, `GuardedPolicies`,
  `PolicyIsConfined`, `GrantsOnlyNamed`, `GlobalIsSingle` and `FreshIsGlobal` of
  `RevisionPipeline`. The strengthening `StoredInv` adds that every stored spec was
  accepted; the properties of policies then follow from lemmas about the renderer
  alone (which ports, peers and rules it makes of an accepted spec).
  `AllowedIsEnforced` follows the answer back to the revision it rests on and then
  shows that the rule and the destination that matched are in the policy.
  `GlobalIsSingle` and `FreshIsGlobal` are proved for any histories, any times, any
  failing reads, any `Limit` and any requests: a query without an intent, asked of
  one (`AskedOfOne`), is decoded to the same question about the latest revision of
  that intent, and the evidence of handleGlobal is what handleSingle answers about
  it. The first and the last candidate exist because times are numbers
  (`LeastNumber`, `Ends`). An intent is listed when fewer than `Limit` others have a
  later time, and those that have one when a revision is committed are the ones that
  overtook it (`FreshIsListed`). They need that no intent has the id that stands for
  none, or one that does not parse (`ReachabilityAssumption`). `GuardedPolicies` and
  `GrantsOnlyNamed` name their exceptions in the formula: what the renderer makes of
  those specs is in section 7.
- `ReconcileRequestsProofs`: `DedupBound`, `AnswersAlike`, `RequestsImplementPool`. The
  bound is proved as it stands, with the pool's types: a request that begins to
  count as missed found no active job, and one that commits exchanges itself for a
  job. `AnswerInv` says what an answer rests on at each step: a job that is no longer
  `none`, whose payload nobody changes.
- `DriftReconcileProofs`: `DriftTypeOK`; that the invariants of the plan lifecycle
  survive reconciles, changes by hand and the crash of the whole process
  (`OutsideStep`: those steps change the cluster, the failure counters and the
  ticker's local variables only, and `DInv` is the lifecycle's invariant with the
  types of the rest); and `DeletesOnlyExtra` for one worker that lists all plans.
  Its invariant `ExtraInv` says that no applied plan's policy is among those that the
  handler is about to delete: with one Runner no plan can become applied between
  the list and the last delete. That with no more plans than the limit the limit
  hides none, and that each policy has a newest plan, are lemmas about finite sets.

- `ScenarioProofs`: `OnlyDeadlineRaces` and `ResultStands`, for any number of workers,
  lost leases and lost marks, where the run has one worker. The proofs do not
  follow the four scripts step by step: of a script they use that it makes a plan
  before it mentions it, sees it applied before it looks at its deadline or its jobs,
  and has at its end seen every plan applied and those with a TTL expired and
  cleaned up (`WellMade`, `WellEnded`; each script has both). `ScenarioInv` adds to the
  lifecycle's invariant what the driver's order gives: the plans that exist are
  those made so far, each plan has one apply job, only revisions with a TTL get a
  deadline. With it the steps of the driver, the forced deadline included, keep the
  lifecycle's invariant (`ScenarioSteps`). `CalmInv` holds until a call fails: a plan that
  was applied stays so or expires, its apply job does not run again, its deadline is
  there or about to be written (`Arming`), and of two workers with expire jobs of one
  plan only the one that changed its status cleans up. `FailsOneWay` goes through the
  checks of the driver and leaves the race of section 7; `NothingIsUndone` shows that
  at the end no Runner is at a step that would write a status or a policy.

Only model-checked: all liveness, which is out of TLAPS's reach.

## 7. What the code does that its tests and README say it does not

Two runs that TLC refutes; `PROJECT.json` quotes the lines.

- `ReapplyRace`: two ApplyPlan requests read the plan before either writes, and the
  worker has applied it when the second writes: that step sets the plan from applied
  back to `applying` and queues a second job. (It is applied again: the job is owed,
  `ApplyingIsOwed`.)
- `ExpiryRetry`: the expiry sets the status first, and a retry stops at that gate: the
  policy of the expired plan stays. In the counterexample, the shortest, the answer of
  the update itself is lost; a failing list, rollback or delete after it does the same.

Seen while modelling, and kept in the models as the code has it:

- The scenario ttl-delete reads not_after once, right after it has seen the plan
  applied (`cmd/ncp-e2e/main.go:444`); the worker writes it after the transaction that
  sets the status (`apply_worker.go:120`). `OnlyDeadlineRaces` shows that this race is
  the only way a scenario fails without a failing call.
- The error of SetNotAfterOnFirstApply is ignored: the plan may have a TTL and never
  a deadline. A rollback does not delete the expired plan's policy when the two have
  different names. Intents beyond the LIMIT of the tick are not looked at, nor is a
  plan that was applied after a newer one of its intent.
- Reconcile lists 50 plans (500 is clamped), the DriftWorker 200: with more than 50
  applied plans a reconcile deletes policies that the DriftWorker then reports as
  missing. `DeletesOnlyExtra` is stated below that limit.
- Reconcile requests need two connections each at one time; when as many are
  begun as the pool has, none goes on until one is cancelled. `RequestsEnd` is stated
  for a larger pool.
- A request for a reconcile may be answered with a job that already runs and has
  already observed the cluster, or with one that a crash has orphaned.
- With two worker processes apply, expire and reconcile interleave, and a reconcile
  may delete a policy that the other worker has just applied.
- A policy mixes the ports and the peers of all rules, so it may grant what
  reachability denies (the converse is `AllowedIsEnforced`); a destination of a service
  grants the whole namespace.
- The guardrails bind the policy with exceptions, which `GuardedPolicies` names. A spec
  none of whose destinations has a peer (fqdn destinations only) renders to a rule for
  everybody, of whatever ports it has. A protocol other than UDP is rendered as TCP, in
  any case of its letters, where the guardrail for SSH and RDP looks at rules that say
  TCP: a rule of SCTP on one of those ports passes it. A port out of range is converted
  to whatever int32 the build makes of it or dropped, and a rule whose ports are all
  dropped is for every port. Directions are compared as spelled by the guardrail for
  egress from prod and by case-folding in the renderer: `"Egress"` passes. Nothing
  enforces the values that openapi.yaml documents.
- The global search passes over an intent whose revision it cannot read, so it may
  deny, or not know of, what that intent allows, and its answer does not say so.
- updated_at is the start of the transaction that wrote it: a revision that is
  committed after later-started ones is listed behind them, and when as many as the
  limit have overtaken it the global search does not see it, however new it is.
- `constraints.approvalRequired` is required of a spec and never asked for again when
  its plan is applied.
- Two intents whose app labels sanitize to one name, or have none, write one policy.

## 8. Not modelled

Authentication, configuration, bootstrap and migrations as such have no behaviour
over time that a property here could be about. Of the HTTP API the decoding of JSON
and the error codes are left out, of the read-only queries everything but
ListIntents; the listings of drift snapshots, audit entries and revisions change
nothing, and nothing is decided on them. Compile's hash of the spec and its artifact
for AWS are read by nothing. The audit entries about drift, the details and hashes of
a snapshot, and the driver's set-up, time limits and summary command are left out.
The size of the connection pool matters to ReconcileDrift only, because every other
statement inside a transaction runs on the transaction's own connection.
