\* One byoc_lite environment and one provisioner pass lost before its commit.
CONSTANTS
    MaxEnvs = 1
    MaxJobs = 0
    Modes = {"byoc_lite"}
    RoleShapes = {TRUE}
    VcOutcomes = {"ok"}
    MaxCrashes = 1
    DryRunModes = {FALSE}
    None = None

SPECIFICATION Spec
INVARIANT OneVirtualClusterPerEnvironment
