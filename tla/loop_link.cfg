\* Two posts and a re-score re-point a linked decision.
SPECIFICATION Spec
CONSTANTS
    Users = {u1}
    Cli = cli
    Jobs = {j1}
    Workers = {w1, w2}
    RowLocks = TRUE
    Legacy = FALSE
    DecisionInputs = {"save"}
    ReasonInputs = {"none"}
    StageInputs = {"applied"}
    MaxRecs = 2
    MaxRequests = 3
    MaxClock = 1
SYMMETRY WorkerSymmetry
PROPERTIES LinkFrozen
