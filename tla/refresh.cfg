\* Overlapping refreshes and hand-started builds over an unreliable queue.
SPECIFICATION FairSpec
CONSTANTS
    Keys = {k1, k2}
    Texts = {t1}
    Runs = {r1}
    Builds = {b1}
    Workers = {w1, w2}
    ChunkSize = 1
    BatchSize = 2
    MaxReceive = 2
CHECK_DEADLOCK FALSE
INVARIANTS NoSilentGap EmbeddingHasJob LastBuildServed
PROPERTIES QueueDrains
