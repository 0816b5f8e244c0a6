SPECIFICATION Spec
CONSTANTS
    Workers = {w1, w2}
    Pids = {a, b, c}
    MaxConns = 2
    Threshold = 1
    Wrap = 4
    Policies = {"restart", "terminate"}
    MaxCrashes = 2
SYMMETRY LockSymmetry
CHECK_DEADLOCK FALSE
INVARIANT MutualExclusion PollExclusive ClientsBounded
