\* All four wrapped create endpoints, two workers, two keys reused with two bodies, one lost request.
CONSTANTS
    Workers = {w1, w2}
    Scopes = {"tenant", "environment", "job", "run"}
    Keys = {k1, k2}
    Payloads = {p1, p2}
    MaxRequests = 4
    MaxCrashes = 1
    MaxConcurrentRuns = 2
    None = None



SPECIFICATION Spec
SYMMETRY MCSymmetry
INVARIANT TypeOK
INVARIANT SuccessfulRepliesAgree
