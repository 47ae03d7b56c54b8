SPECIFICATION Spec
CONSTANTS
    Specs = {s1, s2}
    Jobs = {j1, j2}
    ChunkTasks = 1
    MaxRetries = 1
    MaxNoTrace = 1
    MaxErrors = 2
    MaxStarts = 2
    SharedPull = TRUE
    QdelMayFail = TRUE
    LedgerMayFail = FALSE
SYMMETRY Symmetry
INVARIANTS TypeOK NoDoubleTraining
PROPERTIES ChargedPerAttempt ExhaustedStaysOut KeepsPromise
CHECK_DEADLOCK FALSE
ACTION_CONSTRAINTS PullsWhereRead OneQdelFails
