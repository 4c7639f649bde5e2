--------------------------- MODULE MCRunLifecycle ---------------------------
(***************************************************************************)
(* Model-checking instance of RunLifecycle.  Two shapes of request: a     *)
(* driver with no executors (1 vCPU) and a driver with one executor       *)
(* (2 vCPU), so that the vCPU quota and the concurrency quota can each    *)
(* be the one that binds.                                                 *)
(***************************************************************************)
EXTENDS RunLifecycle, TLC

MCResources ==
    { [driver_vcpu |-> 1, driver_memory_gb |-> 1, executor_vcpu |-> 1,
       executor_memory_gb |-> 2, executor_instances |-> n] : n \in {0, 1} }

(* One shape only, for instances with a single run, where no quota can   *)
(* bind.                                                                  *)
MCOneResource == { [driver_vcpu |-> 1, driver_memory_gb |-> 1, executor_vcpu |-> 1,
                    executor_memory_gb |-> 2, executor_instances |-> 1] }

MCSymmetry == Permutations(ApiWorkers)
=============================================================================
