\* Two runs of one shape, both active at once, one API worker racing the two loops, batches
\* of one; the clock stands still.
CONSTANTS
    ApiWorkers = {a1}
    MaxRuns = 2
    Limit = 1
    MaxConcurrentRuns = 2
    MaxVcpu = 4
    MaxRunSeconds = 1
    Resources <- MCOneResource
    Timeouts = {1}
    MaxTime = 0
    MaxCrashes = 0
    DispatchOutcomes = {"ok", "error", "lost"}
    DescribeErrors = FALSE
    Envs = {e1}
    RevocableEnvs = {}
    DryRunModes = {FALSE}
    DrySubmittedSeconds = 1
    DryCompletedSeconds = 2
    None = None

SPECIFICATION FairSpec
INVARIANT TypeOK
INVARIANT EngineAgreesOnOutcome
INVARIANT ReconciledRunsBilled
INVARIANT CancelRequestReachesEngine
PROPERTY AllRunsTerminate
