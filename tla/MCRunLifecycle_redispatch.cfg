\* Violation expected: a lost scheduler pass dispatches its runs again.
CONSTANTS
    ApiWorkers = {a1}
    MaxRuns = 2
    Limit = 1
    MaxConcurrentRuns = 2
    MaxVcpu = 3
    MaxRunSeconds = 1
    Resources <- MCResources
    Timeouts = {1}
    MaxTime = 0
    MaxCrashes = 1
    DispatchOutcomes = {"ok", "error"}
    DescribeErrors = FALSE
    Envs = {e1}
    RevocableEnvs = {}
    DryRunModes = {FALSE}
    DrySubmittedSeconds = 1
    DryCompletedSeconds = 2
    None = None

SPECIFICATION Spec
INVARIANT SingleDispatch
