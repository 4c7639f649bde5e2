---------------------------- MODULE Provisioning ----------------------------
(***************************************************************************)
(* Environments and their provisioning (services.py): the API's           *)
(* create_environment and create_job, and process_provisioning_once, the   *)
(* provisioner loop that takes every unfinished ProvisioningOperation to   *)
(* ready or failed, calling EmrEksClient.create_virtual_cluster on the     *)
(* byoc_lite path.                                                         *)
(*                                                                         *)
(* The provisioner processes its whole batch in one session and commits   *)
(* once; the virtual clusters it creates exist as soon as the call         *)
(* returns.  A pass may die, or its commit fail, before the commit.  The   *)
(* provisioner is the only writer of environments and operations after    *)
(* their insert, so its session's copies are never stale.                 *)
(*                                                                         *)
(* Abstractions: one tenant; an environment is its mode, whether its      *)
(* customer_role_arn has the "arn:aws:iam::" shape, its status and its    *)
(* virtual cluster; the byoc_lite cluster ARN and namespace are present   *)
(* (create_environment rejects byoc_lite without them); the full path's   *)
(* five steps are overwritten in the session before the commit, so only   *)
(* their end is written; messages, logs_uri and audit rows are left out.  *)
(***************************************************************************)
EXTENDS Integers, Sequences, TLC

CONSTANTS
    MaxEnvs,      \* bound: environments created in one behaviour
    MaxJobs,      \* bound: jobs created in one behaviour
    Modes,        \* provisioning_mode values clients send
    RoleShapes,   \* TRUE: the role ARN starts with arn:aws:iam::
    VcOutcomes,   \* what CreateVirtualCluster may do: "ok", "error", "lost"
    MaxCrashes,   \* bound: provisioner passes lost before their commit
    DryRunModes,  \* values of settings.dry_run_mode a deployment may run with
    None          \* the SQL NULL

ASSUME /\ MaxEnvs \in Nat /\ MaxJobs \in Nat /\ MaxCrashes \in Nat
       /\ Modes \subseteq {"full", "byoc_lite"} /\ RoleShapes \subseteq BOOLEAN
       /\ VcOutcomes \subseteq {"ok", "error", "lost"}
       /\ DryRunModes \subseteq BOOLEAN /\ DryRunModes # {}

VARIABLES
    envs,     \* environments: id -> row
    ops,      \* provisioning_operations: the operation of environment i is ops[i]
    jobs,     \* jobs: the environment of each job
    vcs,      \* EMR virtual clusters: the environment each was created for
    audit,    \* audit_events of environments: id -> the actions recorded for it
    prov,     \* the provisioner's pass
    crashes,  \* provisioner passes lost so far
    dry_run_mode \* settings.dry_run_mode of the deployment

vars == <<envs, ops, jobs, vcs, audit, prov, crashes, dry_run_mode>>

PROVISIONING_STEPS == {"validating_bootstrap", "provisioning_network", "provisioning_eks",
                       "provisioning_emr", "validating_runtime"}
OpStates == {"queued", "ready", "failed"} \cup PROVISIONING_STEPS
EnvStatuses == {"provisioning", "ready", "failed"}

(* A virtual cluster id: the index of one EMR created, or Synthetic, the   *)
(* vc-<uuid> id that the full path, and create_virtual_cluster in dry-run *)
(* mode, make up, which names no cluster EMR knows.                       *)
Synthetic == 0
VcIds == 0..(MaxEnvs * (MaxCrashes + 1))

EnvRow == [mode: Modes, role_ok: BOOLEAN, status: EnvStatuses, vc: VcIds \cup {None}]
OpRow == [state: OpStates, ended: BOOLEAN]

ProvIdle == [pc |-> "idle", batch |-> <<>>, pend |-> <<>>]

AuditActions == {"environment.create", "environment.provisioned",
                 "environment.byoc_lite_provisioned", "environment.provisioning_failed"}

-----------------------------------------------------------------------------
(* API                                                                     *)

(* create_environment inserts the environment and its queued operation    *)
(* in one commit.                                                          *)
create_environment ==
    /\ Len(envs) < MaxEnvs
    /\ \E m \in Modes, ok \in RoleShapes :
          envs' = Append(envs, [mode |-> m, role_ok |-> ok, status |-> "provisioning", vc |-> None])
    /\ ops' = Append(ops, [state |-> "queued", ended |-> FALSE])
    /\ audit' = Append(audit, {"environment.create"})
    /\ UNCHANGED <<jobs, vcs, prov, crashes, dry_run_mode>>

(* create_job: any environment that exists and is not deleted.            *)
create_job ==
    /\ Len(jobs) < MaxJobs
    /\ \E e \in DOMAIN envs :
          /\ envs[e].status # "deleted"
          /\ jobs' = Append(jobs, e)
    /\ UNCHANGED <<envs, ops, vcs, audit, prov, crashes, dry_run_mode>>

-----------------------------------------------------------------------------
(* process_provisioning_once                                               *)

(* Mutant: the selection leaves out queued operations.                     *)
provisioning_select_steps_only ==
    LET q == SelectSeq([i \in DOMAIN ops |-> i], LAMBDA i : ops[i].state \in PROVISIONING_STEPS) IN
    /\ prov.pc = "idle"
    /\ q # <<>>
    /\ prov' = [ProvIdle EXCEPT !.pc = "busy", !.batch = q]
    /\ UNCHANGED <<envs, ops, jobs, vcs, audit, crashes, dry_run_mode>>

(* Mutant: the selection also takes failed operations.                     *)
provisioning_select_failed_too ==
    LET q == SelectSeq([i \in DOMAIN ops |-> i],
                       LAMBDA i : ops[i].state \in {"queued", "failed"} \cup PROVISIONING_STEPS) IN
    /\ prov.pc = "idle"
    /\ q # <<>>
    /\ prov' = [ProvIdle EXCEPT !.pc = "busy", !.batch = q]
    /\ UNCHANGED <<envs, ops, jobs, vcs, audit, crashes, dry_run_mode>>

(* Every queued or in-progress operation, in created_at order.             *)
provisioning_select ==
    LET q == SelectSeq([i \in DOMAIN ops |-> i], LAMBDA i : ops[i].state \in {"queued"} \cup PROVISIONING_STEPS) IN
    /\ prov.pc = "idle"
    /\ q # <<>>
    /\ prov' = [ProvIdle EXCEPT !.pc = "busy", !.batch = q]
    /\ UNCHANGED <<envs, ops, jobs, vcs, audit, crashes, dry_run_mode>>

(* The session's pending writes for operation i and its environment,     *)
(* with the audit event of the outcome.                                    *)
ProvisionWrite(i, env_upd, op_state, action) ==
    prov' = [prov EXCEPT !.batch = Tail(@),
                         !.pend = @ @@ (i :> [env |-> env_upd, op |-> [state |-> op_state, ended |-> TRUE],
                                              audit |-> action])]

(* Mutant: the failure path leaves the environment's status alone.         *)
Failed_op_only == <<>>

(* The except branch: env.status and op.state become failed.               *)
Failed == [status |-> "failed"]

(* Mutant: the byoc_lite path marks the environment "active".              *)
Ready_bad_status(vc) == [status |-> "active", vc |-> vc]

Ready(vc) == [status |-> "ready", vc |-> vc]

(* The loop body for the next operation of the batch.                      *)
provisioning_step ==
    /\ prov.pc = "busy"
    /\ prov.batch # <<>>
    /\ LET i == Head(prov.batch)
           env == envs[i]
       IN \/ /\ ~env.role_ok
             /\ ProvisionWrite(i, Failed, "failed", "environment.provisioning_failed")
             /\ UNCHANGED vcs
          \/ /\ env.role_ok /\ env.mode = "byoc_lite" /\ env.vc # None
             /\ ProvisionWrite(i, Ready(env.vc), "ready", "environment.byoc_lite_provisioned")
             /\ UNCHANGED vcs
          \/ /\ env.role_ok /\ env.mode = "byoc_lite" /\ env.vc = None
             /\ \/ /\ dry_run_mode
                   /\ UNCHANGED vcs
                   /\ ProvisionWrite(i, Ready(Synthetic), "ready",
                                  "environment.byoc_lite_provisioned")
                \/ /\ ~dry_run_mode /\ "ok" \in VcOutcomes
                   /\ vcs' = Append(vcs, i)
                   /\ ProvisionWrite(i, Ready(Len(vcs) + 1), "ready",
                                  "environment.byoc_lite_provisioned")
                \/ /\ ~dry_run_mode /\ "error" \in VcOutcomes
                   /\ UNCHANGED vcs
                   /\ ProvisionWrite(i, Failed, "failed", "environment.provisioning_failed")
                \/ /\ ~dry_run_mode /\ "lost" \in VcOutcomes
                   /\ vcs' = Append(vcs, i)
                   /\ ProvisionWrite(i, Failed, "failed", "environment.provisioning_failed")
          \/ /\ env.role_ok /\ env.mode = "full"
             /\ ProvisionWrite(i, Ready(Synthetic), "ready", "environment.provisioned")
             /\ UNCHANGED vcs
    /\ UNCHANGED <<envs, ops, jobs, audit, crashes, dry_run_mode>>

(* The one commit of the pass.                                             *)
provisioning_commit ==
    /\ prov.pc = "busy"
    /\ prov.batch = <<>>
    /\ envs' = [e \in DOMAIN envs |->
                  IF e \in DOMAIN prov.pend THEN prov.pend[e].env @@ envs[e] ELSE envs[e]]
    /\ ops' = [o \in DOMAIN ops |-> IF o \in DOMAIN prov.pend THEN prov.pend[o].op ELSE ops[o]]
    /\ audit' = [e \in DOMAIN audit |->
                   IF e \in DOMAIN prov.pend THEN audit[e] \cup {prov.pend[e].audit} ELSE audit[e]]
    /\ prov' = ProvIdle
    /\ UNCHANGED <<jobs, vcs, crashes, dry_run_mode>>

(* The provisioner dies, or its commit fails, before the commit.           *)
provisioning_crash ==
    /\ prov.pc = "busy"
    /\ crashes < MaxCrashes
    /\ crashes' = crashes + 1
    /\ prov' = ProvIdle
    /\ UNCHANGED <<envs, ops, jobs, vcs, audit, dry_run_mode>>

(* The select finds nothing: the pass returns 0 and the loop polls on.    *)
idle_poll ==
    /\ prov.pc = "idle"
    /\ ~ENABLED provisioning_select
    /\ UNCHANGED vars

-----------------------------------------------------------------------------

Init ==
    /\ envs = <<>>
    /\ ops = <<>>
    /\ jobs = <<>>
    /\ vcs = <<>>
    /\ audit = <<>>
    /\ prov = ProvIdle
    /\ crashes = 0
    /\ dry_run_mode \in DryRunModes

Next ==
    \/ create_environment \/ create_job
    \/ provisioning_select \/ provisioning_step \/ provisioning_commit \/ provisioning_crash
    \/ idle_poll

(* The provisioner polls forever (workers.py _run_forever): a pass that    *)
(* can start starts, and a started pass goes on.                           *)
Spec == Init /\ [][Next]_vars
         /\ WF_vars(provisioning_select) /\ WF_vars(provisioning_step) /\ WF_vars(provisioning_commit)

-----------------------------------------------------------------------------
(* Properties                                                             *)

TypeOK ==
    /\ \A e \in DOMAIN envs : envs[e] \in EnvRow
    /\ DOMAIN ops = DOMAIN envs /\ \A i \in DOMAIN ops : ops[i] \in OpRow
    /\ \A j \in DOMAIN jobs : jobs[j] \in DOMAIN envs
    /\ \A c \in DOMAIN vcs : vcs[c] \in DOMAIN envs
    /\ DOMAIN audit = DOMAIN envs /\ \A e \in DOMAIN audit : audit[e] \subseteq AuditActions
    /\ prov.pc \in {"idle", "busy"} /\ crashes \in 0..MaxCrashes /\ dry_run_mode \in DryRunModes

(* An environment and its operation agree (spec sections 3 and 4.5): the  *)
(* environment is ready exactly when its operation is, failed exactly     *)
(* when it is, ended_at is set exactly on the terminal states, and a      *)
(* ready environment has a virtual cluster; and the audit trail records  *)
(* the outcome exactly when the rows hold it.  The provisioner writes the *)
(* rows and their audit events in one commit, so no lost pass can split   *)
(* them.                                                                  *)
EnvMatchesOp ==
    \A i \in DOMAIN ops :
        /\ envs[i].status = "ready" <=> ops[i].state = "ready"
        /\ envs[i].status = "failed" <=> ops[i].state = "failed"
        /\ ops[i].ended <=> ops[i].state \in {"ready", "failed"}
        /\ envs[i].status = "ready" => envs[i].vc # None
        /\ envs[i].status = "ready" <=>
              audit[i] \cap {"environment.provisioned", "environment.byoc_lite_provisioned"} # {}
        /\ envs[i].status = "failed" <=> "environment.provisioning_failed" \in audit[i]

(* The refinement mapping: an operation still queued or at one of the    *)
(* five steps is pending; an environment names a cluster when its         *)
(* emr_virtual_cluster_id is set (the full path's synthetic id included). *)
OpPhase(st) == IF st \in {"ready", "failed"} THEN st ELSE "pending"

Abstract == INSTANCE EnvironmentLifecycle WITH
    status <- [i \in DOMAIN envs |-> envs[i].status],
    operation <- [i \in DOMAIN ops |-> OpPhase(ops[i].state)],
    cluster <- [i \in DOMAIN envs |-> envs[i].vc # None]

(* The provisioner implements the promise of spec sections 3 and 4.5: an  *)
(* environment and its operation settle together, once, ready with a      *)
(* cluster or failed without one, however passes are lost and             *)
(* operations re-selected; ready and failed are never left.               *)
ImplementsEnvironmentLifecycle == Abstract!Spec

(* Every provisioning operation eventually reaches ready or failed.       *)
AllOperationsFinish ==
    \A i \in 1..MaxEnvs : (i \in DOMAIN ops) ~> (i \in DOMAIN ops /\ ops[i].state \in {"ready", "failed"})

(* Spec section 4.4: CreateVirtualCluster is invoked at most once per     *)
(* environment.                                                           *)
OneVirtualClusterPerEnvironment ==
    \A c1, c2 \in DOMAIN vcs : vcs[c1] = vcs[c2] => c1 = c2

=============================================================================
