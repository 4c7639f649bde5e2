---------------------------- MODULE RunLifecycle ----------------------------
(***************************************************************************)
(* The life of a Run in the SparkPilot control plane (services.py,        *)
(* quota.py, aws_clients.py): the API's create_run and cancel_run, the    *)
(* scheduler pass that dispatches queued runs to EMR on EKS, the          *)
(* reconciler pass that mirrors the engine, enforces timeout_seconds and   *)
(* records usage, and the engine itself as an independent actor.          *)
(*                                                                         *)
(* The Store is the only rendezvous.  Each actor reads rows, works on its  *)
(* copies, and writes back at commit only the columns it changed          *)
(* (SQLAlchemy's unit of work, autoflush=False), with no version check:   *)
(* the last commit wins, column by column.  Every actor is therefore      *)
(* split into a read step and a commit step, and the two loops process    *)
(* their whole batch between select and commit, with engine calls taking  *)
(* effect immediately.  A worker may die, or its commit fail, before it   *)
(* commits: its pending writes are lost, its engine calls are not.        *)
(*                                                                         *)
(* settings.dry_run_mode (config.py, default true) replaces the engine by  *)
(* a fake in EmrEksClient: StartJobRun makes up a job id, CancelJobRun     *)
(* does nothing, and DescribeJobRun answers from the clock alone.  A       *)
(* deployment runs in one mode; Init chooses it.                           *)
(*                                                                         *)
(* Abstractions: one Tenant, one Environment in status "ready" and one    *)
(* Job (their creation is modelled in other modules); every create_run    *)
(* carries a fresh Idempotency-Key; log fields, audit events and error    *)
(* texts are left out (error_message is kept as the kind of error);       *)
(* updated_at is kept as the order of last update of the runs.            *)
(***************************************************************************)
EXTENDS Integers, Sequences, SequencesExt

CONSTANTS
    ApiWorkers,         \* the API's request workers (model values)
    MaxRuns,            \* bound: runs created in one behaviour
    Limit,              \* queue_batch_size of the scheduler and reconciler
    MaxConcurrentRuns,  \* environment quota max_concurrent_runs
    MaxVcpu,            \* environment quota max_vcpu
    MaxRunSeconds,      \* environment quota max_run_seconds
    Resources,          \* requested_resources a client may send
    Timeouts,           \* timeout_seconds a run may resolve to
    MaxTime,            \* bound: last value of the wall clock (seconds)
    MaxCrashes,         \* bound: worker passes lost before their commit
    DispatchOutcomes,   \* what StartJobRun may do: "ok", "error", "lost"
    DescribeErrors,     \* TRUE if DescribeJobRun may raise a ClientError
    Envs,               \* the tenant's ready environments (model values)
    RevocableEnvs,      \* environments whose customer role may stop being assumable
    DryRunModes,        \* values of settings.dry_run_mode a deployment may run with
    DrySubmittedSeconds, \* dry run: a job is SUBMITTED below this age (10 in the code)
    DryCompletedSeconds, \* dry run: a job is RUNNING below this age, then COMPLETED (40)
    None                \* the SQL NULL

ASSUME /\ MaxRuns \in Nat /\ Limit \in Nat \ {0} /\ MaxTime \in Nat
       /\ MaxCrashes \in Nat /\ DescribeErrors \in BOOLEAN
       /\ DispatchOutcomes \subseteq {"ok", "error", "lost"}
       /\ RevocableEnvs \subseteq Envs
       /\ DryRunModes \subseteq BOOLEAN /\ DryRunModes # {}
       /\ 0 < DrySubmittedSeconds /\ DrySubmittedSeconds < DryCompletedSeconds

VARIABLES
    runs,     \* the runs table: run id -> row (ids are created_at order)
    order,    \* run ids in updated_at order, least recently updated first
    engine,   \* EMR job runs: job id -> [run, st]
    usage,    \* the usage_records table: run id -> figures
    audit,    \* audit_events of runs: run id -> the actions recorded for it
    now,      \* the wall clock
    roles,    \* per environment: TRUE while STS AssumeRole of its customer role succeeds
    dry_run_mode, \* settings.dry_run_mode of the deployment
    api,      \* per API worker: the request it is handling
    sch,      \* the scheduler worker's pass
    rec,      \* the reconciler worker's pass
    crashes   \* worker passes lost so far

store_vars == <<runs, order, usage, audit>>
world == <<now, roles, dry_run_mode>>
vars == <<runs, order, engine, usage, audit, now, roles, dry_run_mode, api, sch, rec, crashes>>

-----------------------------------------------------------------------------
(* services.py 16-17 and aws_clients.py / services.py 500-508             *)

TERMINAL_RUN_STATES == {"succeeded", "failed", "cancelled", "timed_out"}
ACTIVE_RUN_STATES == {"queued", "dispatching", "accepted", "running"}
RunStates == TERMINAL_RUN_STATES \cup ACTIVE_RUN_STATES

EngineStates == {"PENDING", "SUBMITTED", "RUNNING", "COMPLETED", "FAILED",
                 "CANCELLED", "CANCEL_PENDING"}
LiveEngineStates == {"PENDING", "SUBMITTED", "RUNNING"}

(* Mutant: the map lacks CANCELLED, which falls through to "failed".     *)
EMR_TO_PLATFORM_STATE_no_cancelled(st) ==
    CASE st \in {"PENDING", "SUBMITTED"}      -> "accepted"
      [] st \in {"RUNNING", "CANCEL_PENDING"} -> "running"
      [] st = "COMPLETED"                     -> "succeeded"
      [] OTHER                                -> "failed"

EMR_TO_PLATFORM_STATE(st) ==
    CASE st \in {"PENDING", "SUBMITTED"}      -> "accepted"
      [] st \in {"RUNNING", "CANCEL_PENDING"} -> "running"
      [] st = "COMPLETED"                     -> "succeeded"
      [] st = "CANCELLED"                     -> "cancelled"
      [] OTHER                                -> "failed"

(* The kinds of error_message a run can carry.                            *)
Errors == {"dispatch", "timeout", "missing_id", "engine", "client"}

Time == 0..MaxTime
RunIds == DOMAIN runs
EngineJobIds == 1..(MaxRuns + MaxCrashes * Limit)

(* The jr-<uuid> id of dry-run mode, which names no EMR job run.           *)
DryRunJobId == 0

RunRow == [state: RunStates, cancel: BOOLEAN, started: Time \cup {None},
           ended: Time \cup {None}, emr: EngineJobIds \cup {None, DryRunJobId},
           err: Errors \cup {None}, res: Resources, timeout: Timeouts, env: Envs]

-----------------------------------------------------------------------------
(* The Store's unit of work.                                              *)

(* The columns of upd whose value differs from the row as it was loaded:  *)
(* the only ones SQLAlchemy writes at flush.                              *)
Changed(loaded, upd) ==
    [f \in {g \in DOMAIN upd : upd[g] # loaded[g]} |-> upd[f]]

Overlay(row, upd) == [f \in DOMAIN row |-> IF f \in DOMAIN upd THEN upd[f] ELSE row[f]]

(* Rows written by a commit get a fresh updated_at (onupdate=_utc_now).   *)
Touch(o, rs) == SelectSeq(o, LAMBDA x : x \notin rs) \o SetToSortSeq(rs, <)

(* Commit of a session's pending row updates: run id -> changed columns.  *)
Flush(pend) ==
    /\ runs' = [r \in RunIds |->
                  IF r \in DOMAIN pend THEN Overlay(runs[r], pend[r]) ELSE runs[r]]
    /\ order' = Touch(order, {r \in DOMAIN pend : DOMAIN pend[r] # {}})

(* The actions of audit events a commit adds: run id -> actions.  The    *)
(* trail is append-only; order and details of events are abstracted, and *)
(* so are the events that record an engine call or a poll rather than a  *)
(* change of the run (run.timeout_cancel.dispatched, run.cancel.dispatched *)
(* and run.reconciled, which the reconciler writes on every pass).        *)
AuditActions == {"run.create", "run.cancel.request", "run.dispatched", "run.dispatch_failed",
                 "run.timed_out"}

write_audit_event(a, pend) ==
    [r \in DOMAIN a |-> IF r \in DOMAIN pend THEN a[r] \cup pend[r] ELSE a[r]]

FirstN(s, n) == SubSeq(s, 1, IF Len(s) < n THEN Len(s) ELSE n)

-----------------------------------------------------------------------------
(* quota.py and the usage recorder                                        *)

run_vcpu(res) == res.driver_vcpu + res.executor_vcpu * res.executor_instances

enforce_quota_for_run(env, res) ==
    LET active == {r \in RunIds : runs[r].env = env /\ runs[r].state \in ACTIVE_RUN_STATES}
    IN /\ Cardinality(active) < MaxConcurrentRuns
       /\ MapThenSumSet(LAMBDA r : run_vcpu(runs[r].res), active) + run_vcpu(res) <= MaxVcpu

UsageFigures(started, ended, res) ==
    LET d == IF started = None \/ ended = None THEN 0
             ELSE IF ended - started > 0 THEN ended - started ELSE 0
        vcpu_seconds == d * run_vcpu(res)
        memory_gb_seconds ==
            d * (res.driver_memory_gb + res.executor_memory_gb * res.executor_instances)
    IN [vcpu_seconds |-> vcpu_seconds, memory_gb_seconds |-> memory_gb_seconds,
        estimated_cost_usd_micros |-> vcpu_seconds * 35 + memory_gb_seconds * 4]

(* The usage rows a reconciler pass has added to its session, with one    *)
(* more for run r unless the usage_records table already holds one.       *)
record_usage_if_needed(pending, r, started, ended, res) ==
    IF r \in DOMAIN usage THEN pending
    ELSE pending @@ (r :> UsageFigures(started, ended, res))

-----------------------------------------------------------------------------
(* The engine adapter (EmrEksClient, real mode) and the engine.           *)

(* assume_role_session: STS AssumeRole of the environment's customer      *)
(* role, which raises (a ClientError) once the role is revoked.           *)
assume_role_session(e) == roles[e]

(* StartJobRun for run r: EMR creates a PENDING job run, whose id is its  *)
(* index.                                                                 *)
start_job_run(eng, r) == Append(eng, [run |-> r, st |-> "PENDING"])

(* CancelJobRun for the run as loaded: nothing in dry-run mode or without *)
(* a job id; otherwise a live job starts cancelling.                       *)
(* Mutant: only a RUNNING job is cancelled, a PENDING one is left.       *)
cancel_job_run_running_only(eng, row) ==
    IF dry_run_mode \/ row.emr = None \/ eng[row.emr].st # "RUNNING" THEN eng
    ELSE [eng EXCEPT ![row.emr].st = "CANCEL_PENDING"]

cancel_job_run(eng, row) ==
    IF dry_run_mode \/ row.emr = None \/ eng[row.emr].st \notin LiveEngineStates THEN eng
    ELSE [eng EXCEPT ![row.emr].st = "CANCEL_PENDING"]

(* The fake job of dry-run mode: its state is a function of its age.      *)
dry_run_state(row) ==
    IF row.started = None THEN "PENDING"
    ELSE IF now - row.started < DrySubmittedSeconds THEN "SUBMITTED"
    ELSE IF now - row.started < DryCompletedSeconds THEN "RUNNING"
    ELSE "COMPLETED"

(* What DescribeJobRun may answer for the run as loaded: <<state, error>>. *)
describe_job_run(row, eng) ==
    IF row.cancel THEN {<<"CANCELLED", None>>}
    ELSE IF dry_run_mode THEN {<<dry_run_state(row), None>>}
    ELSE IF row.emr = None THEN {<<"FAILED", "missing_id">>}
    ELSE {<<eng[row.emr].st, IF eng[row.emr].st = "FAILED" THEN "engine" ELSE None>>}
         \cup (IF DescribeErrors THEN {<<"FAILED", "client">>} ELSE {})

EngineNext ==
    [PENDING |-> {"SUBMITTED"}, SUBMITTED |-> {"RUNNING", "FAILED"},
     RUNNING |-> {"COMPLETED", "FAILED"}, CANCEL_PENDING |-> {"CANCELLED"},
     COMPLETED |-> {}, FAILED |-> {}, CANCELLED |-> {}]

(* The engine moves one of its job runs on.                               *)
EngineAdvance(j) ==
    /\ j \in DOMAIN engine
    /\ \E st \in EngineNext[engine[j].st] : engine' = [engine EXCEPT ![j].st = st]
    /\ UNCHANGED <<store_vars, world, api, sch, rec, crashes>>

(* The customer changes the trust policy of the environment's role (or   *)
(* deletes it): AssumeRole fails from now on.                             *)
RoleRevoked(e) ==
    /\ e \in RevocableEnvs /\ roles[e]
    /\ roles' = [roles EXCEPT ![e] = FALSE]
    /\ UNCHANGED <<store_vars, engine, now, dry_run_mode, api, sch, rec, crashes>>

Tick ==
    /\ now < MaxTime
    /\ now' = now + 1
    /\ UNCHANGED <<store_vars, engine, roles, dry_run_mode, api, sch, rec, crashes>>

-----------------------------------------------------------------------------
(* API: create_run and cancel_run, each a read and a commit.              *)

ApiIdle == [op |-> "idle", run |-> None, seen |-> None, env |-> None, res |-> None, timeout |-> None]

(* create_run up to its INSERT: the quota check reads the runs table and  *)
(* the timeout is checked against max_run_seconds; a 429 or 422 leaves    *)
(* no trace and is not a step.                                            *)
create_run_check(w) ==
    /\ api[w].op = "idle"
    /\ Cardinality(RunIds) + Cardinality({v \in ApiWorkers : api[v].op = "create"}) < MaxRuns
    /\ \E e \in Envs, res \in Resources, t \in Timeouts :
          /\ enforce_quota_for_run(e, res)
          /\ t <= MaxRunSeconds
          /\ api' = [api EXCEPT ![w] = [ApiIdle EXCEPT !.op = "create", !.env = e, !.res = res,
                                                        !.timeout = t]]
    /\ UNCHANGED <<store_vars, engine, world, sch, rec, crashes>>

(* create_run's INSERT of a queued run, committed.                        *)
create_run_commit(w) ==
    LET id == Cardinality(RunIds) + 1 IN
    /\ api[w].op = "create"
    /\ runs' = runs @@ (id :> [state |-> "queued", cancel |-> FALSE, started |-> None,
                               ended |-> None, emr |-> None, err |-> None,
                               res |-> api[w].res, timeout |-> api[w].timeout, env |-> api[w].env])
    /\ order' = Append(order, id)
    /\ audit' = audit @@ (id :> {"run.create"})
    /\ api' = [api EXCEPT ![w] = ApiIdle]
    /\ UNCHANGED <<usage, engine, world, sch, rec, crashes>>

(* cancel_run loads the run; a terminal run is returned as it is.         *)
cancel_run_read(w) ==
    /\ api[w].op = "idle"
    /\ \E r \in RunIds :
          /\ runs[r].state \notin TERMINAL_RUN_STATES
          /\ api' = [api EXCEPT ![w] = [ApiIdle EXCEPT !.op = "cancel", !.run = r, !.seen = runs[r]]]
    /\ UNCHANGED <<store_vars, engine, world, sch, rec, crashes>>

(* cancel_run decides on the row it loaded and commits.                   *)
(* Mutant: a queued run is marked with a state the schema does not know. *)
cancel_run_commit_bad_state(w) ==
    LET r == api[w].run
        s == api[w].seen
        upd == IF s.state \in {"queued", "dispatching"}
               THEN [state |-> "cancelling", ended |-> now]
               ELSE [cancel |-> TRUE]
    IN /\ api[w].op = "cancel"
       /\ Flush(r :> Changed(s, upd))
       /\ audit' = write_audit_event(audit, r :> {"run.cancel.request"})
       /\ api' = [api EXCEPT ![w] = ApiIdle]
       /\ UNCHANGED <<usage, engine, world, sch, rec, crashes>>

cancel_run_commit(w) ==
    LET r == api[w].run
        s == api[w].seen
        upd == IF s.state \in {"queued", "dispatching"}
               THEN [state |-> "cancelled", ended |-> now]
               ELSE [cancel |-> TRUE]
    IN /\ api[w].op = "cancel"
       /\ Flush(r :> Changed(s, upd))
       /\ audit' = write_audit_event(audit, r :> {"run.cancel.request"})
       /\ api' = [api EXCEPT ![w] = ApiIdle]
       /\ UNCHANGED <<usage, engine, world, sch, rec, crashes>>

-----------------------------------------------------------------------------
(* process_scheduler_once                                                 *)

WorkerIdle == [pc |-> "idle", batch |-> <<>>, snap |-> <<>>, pend |-> <<>>, usage |-> <<>>,
               audit |-> <<>>]

Load(batch) == [pc |-> "busy", batch |-> batch, snap |-> [r \in ToSet(batch) |-> runs[r]],
                pend |-> <<>>, usage |-> <<>>, audit |-> <<>>]

(* Select up to Limit queued runs in created_at order.                    *)
scheduler_select ==
    LET q == FirstN(SetToSortSeq({r \in RunIds : runs[r].state = "queued"}, <), Limit) IN
    /\ sch.pc = "idle"
    /\ q # <<>>
    /\ sch' = Load(q)
    /\ UNCHANGED <<store_vars, engine, world, api, rec, crashes>>

SchedulerWrite(r, upd, acts) ==
    sch' = [sch EXCEPT !.batch = Tail(@), !.pend = @ @@ (r :> Changed(sch.snap[r], upd)),
                       !.audit = @ @@ (r :> acts)]

(* The loop body for the next run of the batch.  state = "dispatching" is *)
(* overwritten in the same session before the commit, so only the final  *)
(* value is written.                                                      *)
scheduler_dispatch ==
    /\ sch.pc = "busy"
    /\ sch.batch # <<>>
    /\ LET r == Head(sch.batch)
           s == sch.snap[r]
       IN \/ /\ s.cancel
             /\ SchedulerWrite(r, [state |-> "cancelled", ended |-> now], {})
             /\ UNCHANGED engine
          \/ /\ ~s.cancel /\ dry_run_mode
             /\ UNCHANGED engine
             /\ SchedulerWrite(r, [state |-> "accepted", started |-> now, emr |-> DryRunJobId],
                            {"run.dispatched"})
          \/ /\ ~s.cancel /\ ~dry_run_mode
             /\ "ok" \in DispatchOutcomes /\ assume_role_session(s.env)
             /\ engine' = start_job_run(engine, r)
             /\ SchedulerWrite(r, [state |-> "accepted", started |-> now, emr |-> Len(engine) + 1],
                            {"run.dispatched"})
          \/ /\ ~s.cancel /\ ~dry_run_mode
             /\ "error" \in DispatchOutcomes \/ ~assume_role_session(s.env)
             /\ UNCHANGED engine
             /\ SchedulerWrite(r, [state |-> "failed", err |-> "dispatch", ended |-> now],
                            {"run.dispatch_failed"})
          \/ /\ ~s.cancel /\ ~dry_run_mode
             /\ "lost" \in DispatchOutcomes /\ assume_role_session(s.env)
             /\ engine' = start_job_run(engine, r)
             /\ SchedulerWrite(r, [state |-> "failed", err |-> "dispatch", ended |-> now],
                            {"run.dispatch_failed"})
    /\ UNCHANGED <<store_vars, world, api, rec, crashes>>

scheduler_commit ==
    /\ sch.pc = "busy"
    /\ sch.batch = <<>>
    /\ Flush(sch.pend)
    /\ audit' = write_audit_event(audit, sch.audit)
    /\ sch' = WorkerIdle
    /\ UNCHANGED <<usage, engine, world, api, rec, crashes>>

-----------------------------------------------------------------------------
(* process_reconciler_once                                                *)

(* Mutant: the reconciler selects only running runs.                     *)
reconciler_select_running_only ==
    LET q == FirstN(SelectSeq(order, LAMBDA r : runs[r].state = "running"), Limit) IN
    /\ rec.pc = "idle"
    /\ q # <<>>
    /\ rec' = Load(q)
    /\ UNCHANGED <<store_vars, engine, world, api, sch, crashes>>

(* Select up to Limit accepted or running runs in updated_at order.       *)
reconciler_select ==
    LET q == FirstN(SelectSeq(order, LAMBDA r : runs[r].state \in {"accepted", "running"}), Limit) IN
    /\ rec.pc = "idle"
    /\ q # <<>>
    /\ rec' = Load(q)
    /\ UNCHANGED <<store_vars, engine, world, api, sch, crashes>>

timed_out(row) == row.started # None /\ now - row.started > row.timeout

ReconcilerWrite(r, upd, terminal, ended, acts) ==
    LET s == rec.snap[r] IN
    rec' = [rec EXCEPT !.batch = Tail(@), !.pend = @ @@ (r :> Changed(s, upd)),
                       !.audit = @ @@ (r :> acts),
                       !.usage = IF terminal THEN record_usage_if_needed(@, r, s.started, ended, s.res)
                                 ELSE @]

(* Every engine call the reconciler makes for a run with an engine job id *)
(* (cancel_job_run on the timeout and cancel paths, describe_job_run      *)
(* otherwise) first calls assume_role_session outside any try; for a run  *)
(* without one, and in dry-run mode, no call reaches AWS.                 *)
needs_role_session(row) == ~dry_run_mode /\ row.emr # None

(* Cancellation propagation: CancelJobRun for a run whose flag is set.    *)
(* Mutant: the cancel is sent only once the run is running.              *)
propagate_cancel_running_only(eng, row) ==
    IF row.cancel /\ row.state = "running" THEN cancel_job_run(eng, row) ELSE eng

propagate_cancel(eng, row) == IF row.cancel THEN cancel_job_run(eng, row) ELSE eng

(* The loop body for the next run of the batch: the timeout check, then   *)
(* cancellation propagation, describe, and the mirrored state.  If STS    *)
(* refuses the environment's role, the exception leaves                   *)
(* process_reconciler_once and _run_forever: the pass ends without its    *)
(* commit, and the worker process, restarted, polls again.                *)
reconciler_step ==
    /\ rec.pc = "busy"
    /\ rec.batch # <<>>
    /\ LET r == Head(rec.batch)
           s == rec.snap[r]
       IN \/ /\ needs_role_session(s) /\ ~assume_role_session(s.env)
             /\ rec' = WorkerIdle
             /\ UNCHANGED engine
          \/ /\ ~needs_role_session(s) \/ assume_role_session(s.env)
             /\ timed_out(s)
             /\ engine' = cancel_job_run(engine, s)
             /\ ReconcilerWrite(r, [cancel |-> TRUE, state |-> "timed_out", err |-> "timeout",
                                    ended |-> now], TRUE, now, {"run.timed_out"})
          \/ /\ ~needs_role_session(s) \/ assume_role_session(s.env)
             /\ ~timed_out(s)
             /\ LET eng == propagate_cancel(engine, s)
                IN /\ engine' = eng
                   /\ \E d \in describe_job_run(s, eng) :
                        LET mapped == EMR_TO_PLATFORM_STATE(d[1])
                            terminal == mapped \in TERMINAL_RUN_STATES
                            ended == IF s.ended = None THEN now ELSE s.ended
                            upd == [state |-> mapped]
                                   @@ (IF terminal THEN [ended |-> ended] ELSE <<>>)
                                   @@ (IF d[2] # None THEN [err |-> d[2]] ELSE <<>>)
                        IN ReconcilerWrite(r, upd, terminal, ended, {})
    /\ UNCHANGED <<store_vars, world, api, sch, crashes>>

(* Mutant: the usage rows are built but never added to the session.      *)
reconciler_commit_no_usage ==
    /\ rec.pc = "busy"
    /\ rec.batch = <<>>
    /\ Flush(rec.pend)
    /\ UNCHANGED usage
    /\ audit' = write_audit_event(audit, rec.audit)
    /\ rec' = WorkerIdle
    /\ UNCHANGED <<engine, world, api, sch, crashes>>

reconciler_commit ==
    /\ rec.pc = "busy"
    /\ rec.batch = <<>>
    /\ Flush(rec.pend)
    /\ usage' = usage @@ rec.usage
    /\ audit' = write_audit_event(audit, rec.audit)
    /\ rec' = WorkerIdle
    /\ UNCHANGED <<engine, world, api, sch, crashes>>

-----------------------------------------------------------------------------
(* A worker process dies, or its commit fails, in the middle of a pass.   *)

(* Mutant: the audit events are written through a session of their own,  *)
(* which has committed when the pass dies.                                *)
scheduler_crash_keeps_audit ==
    /\ sch.pc = "busy"
    /\ crashes < MaxCrashes
    /\ audit' = write_audit_event(audit, sch.audit)
    /\ sch' = WorkerIdle
    /\ crashes' = crashes + 1
    /\ UNCHANGED <<runs, order, usage, engine, world, api, rec>>

scheduler_crash ==
    /\ sch.pc = "busy"
    /\ crashes < MaxCrashes
    /\ sch' = WorkerIdle
    /\ crashes' = crashes + 1
    /\ UNCHANGED <<store_vars, engine, world, api, rec>>

reconciler_crash ==
    /\ rec.pc = "busy"
    /\ crashes < MaxCrashes
    /\ rec' = WorkerIdle
    /\ crashes' = crashes + 1
    /\ UNCHANGED <<store_vars, engine, world, api, sch>>

(* Both loops poll and find nothing to select: process_*_once returns 0  *)
(* without a commit, and the workers sleep and poll again.                *)
empty_passes ==
    /\ sch.pc = "idle" /\ rec.pc = "idle"
    /\ \A r \in RunIds : runs[r].state \notin {"queued", "accepted", "running"}
    /\ UNCHANGED vars

-----------------------------------------------------------------------------

Init ==
    /\ runs = <<>>
    /\ order = <<>>
    /\ engine = <<>>
    /\ usage = <<>>
    /\ audit = <<>>
    /\ now = 0
    /\ roles = [e \in Envs |-> TRUE]
    /\ dry_run_mode \in DryRunModes
    /\ api = [w \in ApiWorkers |-> ApiIdle]
    /\ sch = WorkerIdle
    /\ rec = WorkerIdle
    /\ crashes = 0

Next ==
    \/ \E w \in ApiWorkers :
          create_run_check(w) \/ create_run_commit(w) \/ cancel_run_read(w) \/ cancel_run_commit(w)
    \/ scheduler_select \/ scheduler_dispatch \/ scheduler_commit \/ scheduler_crash
    \/ reconciler_select \/ reconciler_step \/ reconciler_commit \/ reconciler_crash
    \/ \E j \in EngineJobIds : EngineAdvance(j)
    \/ Tick
    \/ \E e \in Envs : RoleRevoked(e)
    \/ empty_passes

(* The worker processes poll forever (workers.py _run_forever), so each   *)
(* pass that can start, and each step of a started pass, eventually       *)
(* happens; the engine eventually moves every job run on.  API clients    *)
(* and the clock get no fairness.                                         *)
Fairness ==
    /\ WF_vars(scheduler_select) /\ WF_vars(scheduler_dispatch) /\ WF_vars(scheduler_commit)
    /\ WF_vars(reconciler_select) /\ WF_vars(reconciler_step) /\ WF_vars(reconciler_commit)
    /\ \A j \in EngineJobIds : WF_vars(EngineAdvance(j))

Spec == Init /\ [][Next]_vars
FairSpec == Spec /\ Fairness


-----------------------------------------------------------------------------
(* Properties                                                             *)

TypeOK ==
    /\ \A r \in RunIds : runs[r] \in RunRow
    /\ RunIds = 1..Len(order) /\ ToSet(order) = RunIds
    /\ \A j \in DOMAIN engine : engine[j].run \in RunIds /\ engine[j].st \in EngineStates
    /\ DOMAIN usage \subseteq RunIds
    /\ DOMAIN audit = RunIds /\ \A r \in RunIds : audit[r] \subseteq AuditActions
    /\ now \in Time /\ roles \in [Envs -> BOOLEAN] /\ dry_run_mode \in DryRunModes
    /\ \A w \in ApiWorkers : api[w].op \in {"idle", "create", "cancel"}
    /\ sch.pc \in {"idle", "busy"} /\ rec.pc \in {"idle", "busy"}
    /\ crashes \in 0..MaxCrashes

(* The scheduler starts at most one engine job run per platform run: it   *)
(* only selects queued rows and its commit moves every row it dispatched  *)
(* out of queued (process_scheduler_once).                                *)
SingleDispatch ==
    \A r \in RunIds : Cardinality({j \in DOMAIN engine : engine[j].run = r}) <= 1

(* The state the reconciler mirrors agrees with the engine job the run    *)
(* points at: a succeeded run's job completed, a failed run's job failed, *)
(* and a timed-out run's job is no longer running (the timeout path of    *)
(* process_reconciler_once cancels it).                                   *)
EngineAgreesOnOutcome ==
    \A r \in RunIds : runs[r].emr \in DOMAIN engine =>
        LET st == engine[runs[r].emr].st IN
        /\ runs[r].state = "succeeded" => st = "COMPLETED"
        /\ runs[r].state = "failed" => st = "FAILED"
        /\ runs[r].state = "timed_out" => st \notin LiveEngineStates

(* Every run the reconciler finished (succeeded, timed out, or failed     *)
(* after dispatch) has its usage record, and only ended runs have one:    *)
(* _record_usage_if_needed adds the row in the same commit as the         *)
(* terminal state, so no crash between the two can lose it.               *)
ReconciledRunsBilled ==
    /\ \A r \in RunIds :
          (\/ runs[r].state \in {"succeeded", "timed_out"}
           \/ runs[r].state = "failed" /\ runs[r].err # "dispatch") => r \in DOMAIN usage
    /\ \A r \in DOMAIN usage : runs[r].state \in TERMINAL_RUN_STATES

(* The audit trail and the runs table agree (spec section 2: audit rows   *)
(* are written in the same transaction as the state change): a run has an *)
(* engine job id exactly when run.dispatched was recorded for it, failed  *)
(* at dispatch exactly when run.dispatch_failed was, a timed-out run has  *)
(* run.timed_out, and a cancellation flag was requested or set by the     *)
(* timeout.  Worker passes that die before their commit lose both.        *)
AuditMatchesStore ==
    \A r \in RunIds :
        /\ runs[r].emr # None <=> "run.dispatched" \in audit[r]
        /\ runs[r].err = "dispatch" <=> "run.dispatch_failed" \in audit[r]
        /\ runs[r].state = "timed_out" => "run.timed_out" \in audit[r]
        /\ runs[r].cancel => audit[r] \cap {"run.cancel.request", "run.timed_out"} # {}

(* A run that has ended is never set going again: the state machine of    *)
(* spec section 4.7 has no edge out of a terminal state.                  *)
TerminalStaysTerminal ==
    [][\A r \in RunIds : runs[r].state \in TERMINAL_RUN_STATES => runs'[r].state = runs[r].state]_runs

(* A run that ended as cancelled leaves no engine job run going: either   *)
(* it was cancelled before dispatch or the reconciler sent CancelJobRun.  *)
CancelledRunStopsEngine ==
    \A r \in RunIds : runs[r].state = "cancelled" /\ runs[r].emr \in DOMAIN engine =>
        engine[runs[r].emr].st \notin LiveEngineStates

(* Cancellation propagation (spec section 5): a run whose                 *)
(* cancellation_requested flag is set never ends while its EMR job run is *)
(* still live.  The reconciler sends CancelJobRun before describe_job_run *)
(* answers CANCELLED for the flag, and the timeout path sends it before   *)
(* it writes timed_out.  A flag that cancel_run commits over the          *)
(* reconciler's stale copy survives that pass's commit (it is a column of *)
(* its own) and is sent on a later pass; a pass lost after CancelJobRun   *)
(* leaves the run active, to be cancelled again.                          *)
CancelRequestReachesEngine ==
    \A r \in RunIds :
        /\ runs[r].cancel /\ runs[r].state \in TERMINAL_RUN_STATES
        /\ runs[r].emr \in DOMAIN engine
        => engine[runs[r].emr].st \notin LiveEngineStates

(* Every run that is created eventually reaches a terminal state (in the  *)
(* real mode of the engine adapter: see HealthyRunsTerminate).            *)
AllRunsTerminate ==
    \A r \in 1..MaxRuns :
        (r \in RunIds) ~> (r \in RunIds /\ runs[r].state \in TERMINAL_RUN_STATES)

(* A run in an environment whose role stays assumable eventually ends,    *)
(* whatever happens to the other environments of the platform: the       *)
(* reconciler serves every tenant from one loop.  In dry-run mode the     *)
(* fake job moves on only with the clock, which the model bounds and      *)
(* gives no fairness, so there the run must end once its fake job has     *)
(* COMPLETED.                                                             *)
HealthyRunsTerminate ==
    \A r \in 1..MaxRuns :
        (/\ r \in RunIds /\ runs[r].env \notin RevocableEnvs
         /\ dry_run_mode => dry_run_state(runs[r]) = "COMPLETED")
            ~> (r \in RunIds /\ runs[r].state \in TERMINAL_RUN_STATES)

=============================================================================
