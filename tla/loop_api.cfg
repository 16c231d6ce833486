\* The decision/application API on PostgreSQL, without the outcome log.
SPECIFICATION Spec
CONSTANTS
    Users = {u1}
    Cli = cli
    Jobs = {j1}
    Workers = {w1, w2}
    RowLocks = TRUE
    Legacy = FALSE
    DecisionInputs = {"apply"}
    ReasonInputs = {"none"}
    StageInputs = {"applied", "interview", "rejected"}
    MaxRecs = 0
    MaxRequests = 5
    MaxClock = 2
SYMMETRY WorkerSymmetry
INVARIANTS LegalHistory AppliedOnce FunnelNotInflated
PROPERTIES ImplementsLedger
