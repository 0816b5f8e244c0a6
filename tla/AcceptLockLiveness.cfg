SPECIFICATION FairSpec
CONSTANTS
    Workers = {w1, w2}
    Pids = {a, b}
    MaxConns = 2
    Threshold = 1
    Wrap = 4
    Policies = {"restart"}
    MaxCrashes = 0
PROPERTY LockTakenAgain
