\* Violation expected: one environment's role is revoked while its run is dispatched,
\* and the run of the other, healthy environment is never reconciled again.
CONSTANTS
    ApiWorkers = {a1}
    MaxRuns = 2
    Limit = 2
    MaxConcurrentRuns = 2
    MaxVcpu = 3
    MaxRunSeconds = 1
    Resources <- MCResources
    Timeouts = {1}
    MaxTime = 0
    MaxCrashes = 0
    DispatchOutcomes = {"ok"}
    DescribeErrors = FALSE
    Envs = {e1, e2}
    RevocableEnvs = {e2}
    DryRunModes = {FALSE}
    DrySubmittedSeconds = 1
    DryCompletedSeconds = 2
    None = None

SPECIFICATION FairSpec
PROPERTY HealthyRunsTerminate
