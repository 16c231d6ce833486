\* Every route and the command line on PostgreSQL: the outcome log writes too.
SPECIFICATION FairSpec
CONSTANTS
    Users = {u1}
    Cli = cli
    Jobs = {j1}
    Workers = {w1, w2}
    RowLocks = TRUE
    Legacy = TRUE
    DecisionInputs = {"apply"}
    ReasonInputs = {"none"}
    StageInputs = {"applied", "interview", "rejected"}
    MaxRecs = 1
    MaxRequests = 3
    MaxClock = 2
INVARIANTS LoopInv StageIsLastEvent HonestPrediction
PROPERTIES  GradeStands
