\* Violation expected: a run ends cancelled with its engine job still going.
CONSTANTS
    ApiWorkers = {a1}
    MaxRuns = 2
    Limit = 1
    MaxConcurrentRuns = 2
    MaxVcpu = 3
    MaxRunSeconds = 1
    Resources <- MCResources
    Timeouts = {1}
    MaxTime = 0
    MaxCrashes = 0
    DispatchOutcomes = {"ok", "error", "lost"}
    DescribeErrors = FALSE
    Envs = {e1}
    RevocableEnvs = {}
    DryRunModes = {FALSE}
    DrySubmittedSeconds = 1
    DryCompletedSeconds = 2
    None = None

SPECIFICATION Spec
INVARIANT CancelledRunStopsEngine
