# TLA+ models of the SparkPilot control plane

These modules model the control plane in `src/src/sparkpilot`. It is a FastAPI service
(`api.py`, `services.py`) over a SQLAlchemy store (`db.py`, `models.py`; SQLite by
default). Three worker loops (`workers.py`) run beside it: the provisioner, the scheduler
and the reconciler. Together they drive Spark jobs on EMR on EKS through `EmrEksClient`
(`aws_clients.py`). TLC checks the models.

## 1. The system

### Parts and how they interact

| Part | Code | State it changes |
|---|---|---|
| API handlers | `services.py` `create_tenant`, `create_environment`, `create_job`, `create_run`, `cancel_run` | tenants, environments, provisioning operations, jobs, runs, audit events |
| Idempotency guard | `idempotency.py` `with_idempotency` and the `post_*` endpoints of `api.py` | idempotency records |
| Quota | `quota.py` `enforce_quota_for_run` | none (a read and a 429) |
| Provisioner loop | `services.py` `process_provisioning_once` | operation state/step, environment status and virtual cluster id |
| Scheduler loop | `services.py` `process_scheduler_once` | a queued run becomes accepted or failed; an engine job is created |
| Reconciler loop | `services.py` `process_reconciler_once`, `_record_usage_if_needed` | the run's state, cancellation flag, ended_at, error; usage records; engine cancels |
| Engine adapter | `aws_clients.py` `EmrEksClient` | EMR job runs and virtual clusters (remote) |
| Workers | `workers.py` `_run_forever` | none: a fresh session per pass, then sleep |
| Audit | `audit.py` `write_audit_event` | audit rows, added to the caller's session |
| Logs, CLI, config | `CloudWatchLogsProxy`, `cli.py`, `config.py` | none |

These parts never call each other. They meet only in the database. Each API request and
each worker pass opens its own session (`SessionLocal`, `autoflush=False`), reads rows and
changes them in memory. At `db.commit()` it writes only the columns it changed. There is
no version column and no row lock, so the last commit wins, column by column. This is the
main source of difficulty:

- An actor's decision rests on what it read, which may be stale by the time it commits.
- A worker pass makes its engine calls (StartJobRun, CancelJobRun) while it processes the
  batch, but it commits the whole batch once at the end. A crash or a failed commit in
  between keeps the remote effect and loses the record of it.

### State

- **runs:** state, cancellation_requested, started_at, ended_at, emr_job_run_id,
  error_message, requested resources, timeout_seconds, created_at and updated_at.
- **usage_records:** one per run, enforced by a unique key.
- **idempotency_records:** unique on (scope, key).
- **environments:** status and virtual cluster id.
- **provisioning_operations:** state and step.
- **audit_events:** append-only, written in the transaction of the change they record.
- **EMR job runs:** live outside the database.

### Hard behaviours

- Interleavings of API requests and the two run loops, each with a stale copy.
- Crashes or failed commits between a remote call and the commit that records it.
- Engine calls whose response is lost, DescribeJobRun errors, and a customer role that can
  no longer be assumed.
- Timeouts driven by the wall clock.
- The reconciler's batch order (least recently updated first) together with its limit.
- Two-commit idempotency.
- Check-then-insert quota and idempotency lookups.

### What should hold, per part

- **Scheduler:** one engine job per run.
- **Reconciler:** the mirrored state agrees with the engine; every finished run is billed
  exactly once; a timed-out run's engine job is cancelled.
- **cancel_run:** a cancelled run has no live engine job; terminal states are final.
- **All loops:** every run eventually ends.
- **Idempotency:** one effect per key.
- **Quota:** the number of active runs stays within max_concurrent_runs, except for the
  overshoot spec §5 accepts under concurrent create_run.
- **Audit:** the trail agrees with the rows it describes, however a pass ends.
- **Provisioner:** one virtual cluster per environment.

## 2. Modules

### RunLifecycle.tla (with MCRunLifecycle.tla)

This module models the life of a run, from `create_run` to its usage record. It covers:

- the API's `create_run` and `cancel_run`;
- one scheduler and one reconciler process;
- the engine, as an independent actor;
- the wall clock.

**Variables:**

- `runs` and `usage`: the two tables.
- `audit`: the audit_events of each run, as the set of actions recorded for it.
- `order`: updated_at, kept as the order of last update.
- `engine`: the EMR job runs.
- `now`: the wall clock.
- `roles`: per environment, whether STS can still assume its customer role.
- `dry_run_mode`: `settings.dry_run_mode` (config.py, default true). Init picks it from
  `DryRunModes` and no action changes it: it is fixed for a deployment.
- `api`, `sch`, `rec`: what each actor has loaded and holds pending.
- `crashes`: the count of lost passes.

**The store:** `Changed` gives the columns that differ from the loaded copy. `Flush` writes
them and moves the written rows to the end of `order`, as `onupdate=_utc_now` does.

**Actions:** every handler is a read step and a commit step.

| Action | Code |
|---|---|
| `create_run_check` | services.py 209-227: quota (quota.py), timeout vs max_run_seconds |
| `create_run_commit` | services.py 229-254: insert of the queued run |
| `cancel_run_read` / `cancel_run_commit` | services.py 271-294: terminal early return; cancel outright if queued or dispatching, else set the flag |
| `scheduler_select` | services.py 444-451: up to `Limit` queued runs by created_at |
| `scheduler_dispatch` | services.py 453-493: one run of the batch: the flag branch, or StartJobRun succeeding, raising before the job exists (`"error"`), or raising after it exists (`"lost"`) |
| `scheduler_commit` | services.py 494-496 |
| `reconciler_select` | services.py 537-544: up to `Limit` accepted/running runs by updated_at |
| `reconciler_step` | services.py 547-607: timeout path, cancel propagation, `describe_job_run`, `EMR_TO_PLATFORM_STATE`, ended_at and `record_usage_if_needed` |
| `reconciler_commit` | services.py 608-609 |
| `scheduler_crash`, `reconciler_crash` | a pass lost before its commit: the session is closed without commit (workers.py 11-19), pending writes dropped, engine calls kept |
| `empty_passes` | both loops polling with nothing to select (`processed == 0`) |
| `EngineAdvance`, `Tick` | the engine moving a job on, and the clock |
| `RoleRevoked` | the customer changes or deletes the environment's role: `assume_role_session` (aws_clients.py 22-34) raises from then on |

`reconciler_step` has a third disjunct for a run with an engine job id whose role session
fails. Every engine call of the reconciler for such a run (CancelJobRun on the timeout and
cancel paths, DescribeJobRun otherwise) first calls `assume_role_session` outside any
`try`. The exception leaves `process_reconciler_once` and `_run_forever`, so the pass ends
without its commit. The model lets the worker restart and poll again, which is the
kindest reading; without a restart the reconciler is simply gone. The scheduler catches
every exception of `start_job_run`, so there a failing role session is the `"error"`
outcome.

**Dry-run mode:** with `dry_run_mode` set, the adapter never calls EMR or STS.
`start_job_run` returns a made-up id (`DryRunJobId`) and the scheduler records it;
`cancel_job_run` does nothing; `describe_job_run` answers CANCELLED for a run whose flag is
set and otherwise a state computed from the time since started_at (`dry_run_state`):
SUBMITTED, RUNNING, then COMPLETED. The code's thresholds of 10 and 40 seconds are the
constants `DrySubmittedSeconds` and `DryCompletedSeconds`, set to 1 and 2 so that the
model's small clock passes both while keeping their order. No role session is opened, so
a revoked role cannot stall a dry-run reconciler.

**Abstractions:**

- One tenant and one job. The environments (`Envs`) are ready; their quotas are the same
  constants. Provisioning is a separate module.
- Every create_run has a fresh Idempotency-Key. The guard is a separate module.
- Audit events are kept as the set of actions recorded per run: `run.create`,
  `run.cancel.request`, `run.dispatched`, `run.dispatch_failed` and `run.timed_out`, each
  written by `write_audit_event` into the session of the step that makes the change. The
  events that record an engine call or a poll (`run.cancel.dispatched`,
  `run.timeout_cancel.dispatched`, `run.reconciled`, the last written on every pass) are
  left out, as are the order, actor and details of events. Log fields are left out.
- error_message is kept as its kind.
- The "dispatching" value is never committed: it is overwritten in the same session before
  the commit, so only the final value appears.

**Properties:**

Each property is listed with the runs that check it (section 4).

- `TypeOK` (races).
- `SingleDispatch` (redispatch, violated): at most one engine job per run.
- `EngineAgreesOnOutcome`: succeeded ⇒ COMPLETED, failed ⇒ FAILED, timed_out ⇒ not live.
- `ReconciledRunsBilled`: every run the reconciler finished has a usage row, and only ended
  runs have one.
- `AuditMatchesStore`: the trail and the runs table agree. A run has an engine job id
  exactly when `run.dispatched` was recorded, failed at dispatch exactly when
  `run.dispatch_failed` was, a timed-out run has `run.timed_out`, and a set cancellation
  flag was requested or set by the timeout.
- `TerminalStaysTerminal` (action property).
- `CancelledRunStopsEngine`: a cancelled run's engine job is not live.
- `CancelRequestReachesEngine`: a run whose cancellation was requested (by the API or by
  the timeout) and that has ended, in whatever state, has no live engine job. The
  reconciler propagates the flag with CancelJobRun on every pass, for a RUNNING or a
  still-SUBMITTED job alike.
- `AllRunsTerminate` (liveness).
- `HealthyRunsTerminate` (liveness; stall, violated): a run in an environment whose role
  is never revoked eventually ends, whatever happens to the other environments. It needs
  two runs in two environments to say anything, and with two runs the code violates it;
  no passing run checks it. In dry-run mode the run's
  made-up job must also have reached COMPLETED by the clock: the clock is bounded and has
  no fairness, so the model does not promise that it gets there.

**Fairness:** weak fairness on every step of the two loops, and on the engine moving each
job. `_run_forever` polls forever with a fresh session, so a pass that can start does
start, and a started pass finishes or crashes. EMR eventually moves every job on. The API
clients and the clock get no fairness: a client need not cancel, and a run need not time
out.

## 3. The other modules

### Idempotency.tla (with MCIdempotency.tla)

This module models `with_idempotency` around the four create handlers it wraps:
`create_tenant`, `create_environment`, `create_job` and `create_run`. The wrapper of
`cancel_run` is left out: its payload is the run id alone, so it never answers 409, and its
handler inserts nothing, so a repeat only runs an idempotent cancel again (RunLifecycle
models that handler).

**Variables:**

- `records`: the idempotency_records table.
- `entities`: the rows the handlers insert. Each row has history fields for the key and
  body that inserted it.
- `api`: each worker's request.
- `replies`: every answer a client received.
- `requests`, `crashes`: counters.

**Actions:**

| Action | Code |
|---|---|
| `with_idempotency_lookup` | idempotency.py 33-52: the lookup, 409 on another fingerprint, or the stored response |
| `execute` | the handler's reads: `create_tenant_read` (name taken → 409), `create_run_read` (quota → 429, then the existing run of this key), `create_environment_read`, `create_job_read` |
| `handler_commit` | the handler's INSERT and its own `db.commit()`. The unique name of tenants and the unique (job_id, idempotency_key) of runs make a concurrent duplicate fail with 500 |
| `record_commit` | idempotency.py 55-65. The unique (scope, key) fails the record of a concurrent duplicate, after its effect was committed |
| `crash` | a request lost between any two steps; what it committed stays |

A client retry is just another request with the same key and body.

**Properties:**

- `OneEffectPerKey`.
- `SuccessfulRepliesAgree`: two 201 answers for a key have the same body and entity.
- `RetriesGetTheEffect`: once a request has inserted its row, every answer to the same key
  and body, other than a 500, names that row.

### Provisioning.tla

This module models the API's `create_environment` and `create_job`, and the provisioner
loop.

**Variables:**

- `envs`, `ops`, `jobs`: the tables.
- `audit`: the audit_events of each environment, as a set of actions
  (`environment.create` and the three outcomes of a pass).
- `vcs`: the virtual clusters EMR has created.
- `prov`: the pass.
- `crashes`.
- `dry_run_mode`, as in RunLifecycle.

**Actions:**

| Action | Code |
|---|---|
| `provisioning_select` | services.py 351-358: every queued or in-progress operation |
| `provisioning_step` | services.py 359-436: role check; the byoc_lite path with CreateVirtualCluster succeeding, raising before creating (`"error"`) or after (`"lost"`); the full path with its made-up cluster id, which `create_virtual_cluster` also returns in dry-run mode (aws_clients.py 58-63); the failure path |
| `provisioning_commit` | services.py 437-438 |
| `provisioning_crash` | a pass lost before that commit |

**Properties:**

- `EnvMatchesOp`: environment and operation agree; ended_at is set exactly on terminal
  states; a ready environment has a cluster id; and the audit trail records
  `environment.provisioned` or `environment.byoc_lite_provisioned` exactly for ready
  environments, and `environment.provisioning_failed` exactly for failed ones.
- `ImplementsEnvironmentLifecycle`: the refinement described below.
- `AllOperationsFinish`.
- `OneVirtualClusterPerEnvironment`.

**Fairness:** weak fairness on the provisioner's three steps, for the same reason as the
run loops.

### EnvironmentLifecycle.tla: the abstract specification

This module states what provisioning promises (spec §3, §4.4, §4.5), with no provisioner
in it:

- `Create`: an environment is created `provisioning`, with a pending operation.
- `Settle(S)`: the environments of `S` settle, once. Each becomes `ready` with a virtual
  cluster or `failed` without one, and its operation settles with it in the same step.

Provisioning instantiates it as `Abstract` through `INSTANCE ... WITH`:

- `status` is each environment's status.
- `operation` is `OpPhase` of the operation's state: queued and the five steps are
  `pending`.
- `cluster` is whether `emr_virtual_cluster_id` is set.

`ImplementsEnvironmentLifecycle == Abstract!Spec` is checked as a PROPERTY of the provision
run. The pass's single commit is one `Settle` of every environment in its batch. Every
other step of the provisioner, a lost pass included, is a stuttering step of the abstract
specification. A provisioner that re-selected failed operations, or wrote the operation
without the environment, would break the refinement.

The run lifecycle has no passing refinement of this kind. The abstract state machine of
spec §4.7 fails under every instance with a cancelling client, exactly by the monotone
finding (section 4).

## 4. Runs

| Run | cfg | Expect | What it shows |
|---|---|---|---|
| races | MCRunLifecycle_races.cfg | pass | 2 runs, cancels, both loops with batches of one, the engine; clock frozen. Engine agreement, billing, a requested cancel reaches the engine, and every run ends (about 1 min) |
| crash | MCRunLifecycle_crash.cfg | pass | 1 run in either engine mode (real or dry-run) and either of 2 environments, one of whose roles may be revoked; the clock past timeout_seconds; 1 worker pass lost before its commit. The timeout path cancels and bills; finished runs agree with the engine and are billed; the audit trail agrees with the runs table; a requested cancel reaches the engine |
| redispatch | MCRunLifecycle_redispatch.cfg | violation | A scheduler pass lost after StartJobRun: the run is dispatched twice |
| monotone | MCRunLifecycle_monotone.cfg | violation | The scheduler's commit turns a cancelled run back into accepted |
| orphan | MCRunLifecycle_orphan.cfg | violation | A stale cancel_run cancels a dispatched run and its engine job runs on |
| describe | MCRunLifecycle_describe.cfg | violation | A DescribeJobRun error fails and bills a run whose job still runs |
| stall | MCRunLifecycle_stall.cfg | violation | A revoked role in one environment makes every reconciler pass raise, and a healthy environment's run is never reconciled |
| guard | MCIdempotency_guard.cfg | pass | 2 workers; 2 keys each reused with 2 bodies; tenant, environment, job and run; one lost request. Two successful answers for one key agree |
| dup_job | MCIdempotency_dup_job.cfg | violation | A second create_environment or create_job with the key, between the entity's commit and the record's: two rows |
| retry | MCIdempotency_retry.cfg | violation | create_run repeated before the record exists gets 429: its own run fills the quota |
| provision | Provisioning_provision.cfg | pass | 3 environments of either mode, bad role ARNs, every CreateVirtualCluster outcome, 1 job, two lost passes, in real and dry-run mode. Rows and audit events agree, the provisioner refines EnvironmentLifecycle, and all operations finish |
| vc_dup | Provisioning_vc_dup.cfg | violation | A lost provisioner pass: a second virtual cluster for one environment |

Every property of a passing run has a mutant in PROJECT.json. A mutant is a variant of one
mapped definition, written in the module just before it, with the change a plausible bug
would make. TLC finds each of them violated under its run's cfg.

### Bounds

**RunLifecycle:**

- `MaxRuns` is 1 or 2. Two runs are enough for every pairwise race: a cancel against the
  scheduler, a cancel against the reconciler, and the reconciler's batch order. They also
  reach a full quota (2 concurrent).
- `Limit` (queue_batch_size) is 1, which is smaller than the number of runs, so the batch
  order matters for liveness. In stall it is 2, so a healthy run in the same batch as the
  failing one is lost with it.
- `MaxTime` is 0 where timeouts are not the question. In crash it is 3 with
  `timeout_seconds = 2`, which exceeds the strict `>` and, in dry-run mode, lets a job
  pass SUBMITTED (age 0), RUNNING (age 1) and COMPLETED (age 2) before the timeout, so
  both a completed and a timed-out dry run are reachable.
- `DryRunModes` is `{FALSE, TRUE}` in crash and provision, and `{FALSE}` elsewhere: the
  findings are about the real engine.
- `Resources` holds one small and one large run against `MaxVcpu = 3` in the violation
  runs, so the vCPU quota can refuse a run. The passing runs use one shape (2 vCPU): no
  property of theirs is about the quota, and the shape only multiplies the states. In
  races, `MaxVcpu = 4` lets both runs be active at once; crash has a single run.
- `Envs` is one environment, except in crash and stall, where a second environment's role
  may be revoked. In crash the single run lands in either environment, so the reconciler's
  role-session failure is reached in a passing run. In stall two runs, one per
  environment, are the smallest setting in which one environment's failure reaches
  another's run.
- `MaxCrashes` is 1 in crash. A second lost pass only repeats the first one's effect, and
  the role-session failure gives the reconciler a further way to lose a pass.

**Idempotency:**

- Two workers give every interleaving of two requests.
- Four requests allow a first attempt, a retry, and a request with another key or body.

**Provisioning:**

- Three environments, so that one pass carries operations of both modes and a bad role
  together, and a later pass finds some settled and some not.
- Two lost passes, so that one operation can be carried by a lost pass twice and a
  creation can be lost again after it was retried.

### Findings

Details for each are in PROJECT.json.

1. **Re-dispatch after a lost scheduler pass** (redispatch).
2. **A cancelled run comes back** (monotone): the scheduler's stale commit overwrites a
   concurrent cancel, column by column. The run leaves its terminal state and is active and
   dispatched again. The run checks only this revival. That the revived run can push the
   active runs past `max_concurrent_runs` is an argument from the trace, not checked.
3. **Orphaned engine job** (orphan): a stale cancel_run cancels a dispatched run; its job
   is never cancelled or billed.
4. **Describe errors end the run** (describe): DescribeJobRun errors are mapped to FAILED,
   which contradicts spec §7, where such errors are transient.
5. **The guard commits twice** (dup_job): the effect and the IdempotencyRecord are
   committed separately, not in one transaction as spec §4.1 says. The handler can run
   twice for one key, creating two jobs or two environments, each with its own
   provisioning operation.
6. **A retry can get 429** (retry): create_run checks the quota before it looks for the
   run of its key, so a repeated request can get 429 instead of its run.
7. **Duplicate virtual clusters** (vc_dup): a provisioner pass lost after
   CreateVirtualCluster creates a second virtual cluster. The adapter sends no idempotency
   token.
8. **One revoked role stalls every tenant's runs** (stall): `process_reconciler_once` has
   no `try`, and `assume_role_session` sits outside `describe_job_run`'s `except
   ClientError`. Once a customer's role can no longer be assumed, each pass raises at that
   customer's oldest active run before its commit. The run is not updated, so it heads the
   next pass (`updated_at` order), and the runs of every other tenant are never
   reconciled.

## 5. Plan for the remaining parts

Done so far:

- RunLifecycle, Idempotency, Provisioning.
- The abstract EnvironmentLifecycle and its refinement.
- The guard around `create_environment`.
- Engine exceptions from the role session in the reconciler.
- The audit trail of runs and environments, and the clamped usage duration.
- Dry-run mode of the engine adapter, and the propagation of a requested cancel to the
  engine (`CancelRequestReachesEngine`).

Still open:

1. **Leaked virtual clusters:** a property that every virtual cluster created belongs to a
   ready environment. It would catch the cluster leaked when the creation response is
   lost.
2. **Composition:** a module that composes Provisioning with RunLifecycle through
   create_run's "environment is ready" check.
3. **Quota overshoot:** a bound on it with three API workers, if an instance that small
   finishes. Spec §5 accepts an overshoot of one admission. No passing instance with
   two runs can state a bound until the monotone finding is fixed (finding 2).
4. **Run state machine:** the abstract state machine of spec §4.7 as a module. Until the
   monotone finding is fixed, it can only be checked as a violation.
5. **CancelJobRun on a job that has already ended**, if EMR answers it with an error.
6. **Timeout before describe:** the reconciler tests the timeout before it polls, so a job
   that completed in time but is polled late is recorded timed_out and cancelled
   (services.py 550-553). The crash run reaches this; spec §4.7 prescribes the order, so
   no property forbids it.

## 6. Not modelled

- **Read-only parts:** list and get queries, `get_usage`, the logs proxy and the pydantic
  schemas. They change no state.
- **The CLI:** it is an HTTP client.
- **Audit events of tenants and jobs, and of engine calls and polls:** each is one
  insert in the session of a handler or pass already modelled, with no property that tells
  them apart from the events that are kept.
- **`scripts/jira_import.py`:** it is outside the service.
