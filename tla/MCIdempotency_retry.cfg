\* create_run retried after its answer was lost, with a quota of one run.
CONSTANTS
    Workers = {w1, w2}
    Scopes = {"run"}
    Keys = {k1}
    Payloads = {p1}
    MaxRequests = 3
    MaxCrashes = 1
    MaxConcurrentRuns = 1
    None = None



SPECIFICATION Spec
SYMMETRY MCSymmetry
INVARIANT RetriesGetTheEffect
