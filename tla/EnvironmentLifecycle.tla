------------------------- MODULE EnvironmentLifecycle -------------------------
(***************************************************************************)
(* What environment provisioning promises (spec sections 3, 4.4 and 4.5), *)
(* with no provisioner in it: an environment is created provisioning with *)
(* a pending operation; later it settles, once, to ready with a virtual   *)
(* cluster or to failed without one, and its operation settles with it in *)
(* the same step.  Any number of environments may settle in one step.     *)
(* Provisioning.tla is shown to implement this module.                     *)
(***************************************************************************)
EXTENDS Naturals, Sequences

CONSTANT MaxEnvs   \* bound: environments created in one behaviour

VARIABLES
    status,     \* environment i: "provisioning", "ready" or "failed"
    operation,  \* its provisioning operation: "pending", "ready" or "failed"
    cluster     \* TRUE when it names a virtual cluster

vars == <<status, operation, cluster>>

Init == status = <<>> /\ operation = <<>> /\ cluster = <<>>

Create ==
    /\ Len(status) < MaxEnvs
    /\ status' = Append(status, "provisioning")
    /\ operation' = Append(operation, "pending")
    /\ cluster' = Append(cluster, FALSE)

(* The environments of S settle: ok[i] says which become ready.           *)
Settle(S) ==
    /\ S # {}
    /\ \A i \in S : status[i] = "provisioning"
    /\ \E ok \in [S -> BOOLEAN] :
          LET outcome(i) == IF ok[i] THEN "ready" ELSE "failed" IN
          /\ status' = [i \in DOMAIN status |-> IF i \in S THEN outcome(i) ELSE status[i]]
          /\ operation' = [i \in DOMAIN operation |-> IF i \in S THEN outcome(i) ELSE operation[i]]
          /\ cluster' = [i \in DOMAIN cluster |-> IF i \in S THEN ok[i] ELSE cluster[i]]

Next == Create \/ \E S \in SUBSET DOMAIN status : Settle(S)

Spec == Init /\ [][Next]_vars

=============================================================================
