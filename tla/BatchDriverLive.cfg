SPECIFICATION FairSpec
CONSTANTS
    Specs = {s1, s2}
    Jobs = {j1}
    ChunkTasks = 2
    MaxRetries = 1
    MaxNoTrace = 1
    MaxErrors = 1
    MaxStarts = 2
    SharedPull = FALSE
    QdelMayFail = FALSE
    LedgerMayFail = TRUE
PROPERTY Returns
CHECK_DEADLOCK FALSE
