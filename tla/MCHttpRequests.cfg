SPECIFICATION Spec
CONSTANTS
    Conns = {c1, c2}
    Requests = {r1, r2}
    None = None
SYMMETRY PoolSymmetry
INVARIANT TypeOK ListsSound  SleepersAwaited OneUnanswered
