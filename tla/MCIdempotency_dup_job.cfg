\* create_environment and create_job retried after a lost request, or sent twice at once.
CONSTANTS
    Workers = {w1, w2}
    Scopes = {"environment", "job"}
    Keys = {k1}
    Payloads = {p1}
    MaxRequests = 3
    MaxCrashes = 1
    MaxConcurrentRuns = 2
    None = None



SPECIFICATION Spec
SYMMETRY MCSymmetry
INVARIANT OneEffectPerKey
