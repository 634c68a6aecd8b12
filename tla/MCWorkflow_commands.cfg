\* Three of a cancel, a pause with its resume, a retry of any stage, a status query, a
\* stage job that cannot be created and an end of the process, at any point.
CONSTANTS
    t1 = t1  t2 = t2
    Tasks = {t1, t2}
    NumStages = 2
    EarlyEnd = {1}
    Retryable = {2}
    MaxAttempts = 1
    RetryFrom = {"queued", "running", "completed", "failed", "canceled"}
    MaxJobs = 4
    MaxCommands <- All
    MaxErrors = 1
    MaxCrashes = 1
INIT Init
NEXT MCNext
SYMMETRY TaskSymmetry
INVARIANTS TypeOK StagesInOrder CompletedIsComplete AttemptLimit RowFollowsState
CHECK_DEADLOCK FALSE
