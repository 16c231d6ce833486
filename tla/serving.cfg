\* The rate limit and the page cache around refreshes and Redis failures.
SPECIFICATION Spec
CONSTANTS
    Clients = {c1}
    Queries = {q1}
    Workers = {w1, w2}
    Capacity = 2
    TokenTicks = 2
    TTL = 2
    MaxClock = 5
    MaxRefreshes = 1
SYMMETRY WorkerSymmetry
INVARIANTS RateBounded StaleAtMostTTL
