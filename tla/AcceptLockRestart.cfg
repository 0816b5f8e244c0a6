SPECIFICATION FairSpec
CONSTANTS
    Workers = {w1, w2}
    Pids = {a, b, c}
    MaxConns = 1
    Threshold = 1
    Wrap = 4
    Policies = {"restart"}
    MaxCrashes = 1
PROPERTY RestartHappens
