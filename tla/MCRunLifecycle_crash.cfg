\* One run in either engine-adapter mode (real EMR or dry-run) and either of two
\* environments, a clock past its timeout, one worker pass lost before its commit,
\* and the customer role of one environment revoked at any time.
CONSTANTS
    ApiWorkers = {a1}
    MaxRuns = 1
    Limit = 1
    MaxConcurrentRuns = 2
    MaxVcpu = 3
    MaxRunSeconds = 2
    Resources <- MCOneResource
    Timeouts = {2}
    MaxTime = 3
    MaxCrashes = 1
    DispatchOutcomes = {"ok", "error", "lost"}
    DescribeErrors = FALSE
    Envs = {e1, e2}
    RevocableEnvs = {e2}
    DryRunModes = {FALSE, TRUE}
    DrySubmittedSeconds = 1
    DryCompletedSeconds = 2
    None = None

SPECIFICATION FairSpec
INVARIANT EngineAgreesOnOutcome
INVARIANT ReconciledRunsBilled
INVARIANT AuditMatchesStore
INVARIANT CancelRequestReachesEngine
