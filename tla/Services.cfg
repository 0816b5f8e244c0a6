SPECIFICATION ServicesSpec
CONSTANTS
    Workers = {"w1", "w2"}
    PoolSize = 3
    MaxSends = 2
    MaxRestarts = 2
    Askers = {"w1", "w2"}
    Sizes = {"rsa2048", "rsa4096"}
    Repeats = 1
    MaxRequests = 3
    MaxTimeouts = 1
    Names = {"a", "b"}
    Real <- MCReal
    Refs = {1, 2}
    FileFds = {3, 4}
    Senders = {"c1", "c2"}
    MaxChanges = 2
    MaxHeld = 2
    Queries = {"q1", "q2", "q3", "q4"}
    Conns = {"a", "b"}
    QueueLimit = 2
    MaxLost = 1
    MaxGone = 1
    MaxFails = 1
    Clients = {"k1", "k2"}
    SockFds = {1, 2}
    MaxSteps = 3
    Timers = {"a", "b"}
    Intervals = {0, 1, 2}
    MaxTime = 2
    Callers = {1, 2}
    Slots = {1, 2}
    MaxIds = 3
    Prereqs = 2
    MaxItems = 2
    MaxSleeps = 3
    Modes = {"plain", "timeouts", "others"}
    Cap = 1
    MaxMoves = 3
INVARIANTS TypesOK  TrafficSound LagBounded  BackendsSound   
CHECK_DEADLOCK FALSE
