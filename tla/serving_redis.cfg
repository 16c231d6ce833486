\* Redis goes away under a search.
SPECIFICATION Spec
CONSTANTS
    Clients = {c1}
    Queries = {q1}
    Workers = {w1, w2}
    Capacity = 2
    TokenTicks = 2
    TTL = 2
    MaxClock = 1
    MaxRefreshes = 1
SYMMETRY WorkerSymmetry
INVARIANTS RedisLossIsHarmless
