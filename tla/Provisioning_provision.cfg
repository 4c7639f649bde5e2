\* Three environments of either mode, good and bad role ARNs, every outcome of
\* CreateVirtualCluster, one job, and two provisioner passes lost before their commit.
CONSTANTS
    MaxEnvs = 3
    MaxJobs = 1
    Modes = {"full", "byoc_lite"}
    RoleShapes = {TRUE, FALSE}
    VcOutcomes = {"ok", "error", "lost"}
    MaxCrashes = 2
    DryRunModes = {FALSE, TRUE}
    None = None

SPECIFICATION Spec
INVARIANT TypeOK
INVARIANT EnvMatchesOp
PROPERTY ImplementsEnvironmentLifecycle
PROPERTY AllOperationsFinish
