\* Claims about commands that meet a completion, each violated: keep one line.
CONSTANTS
    t1 = t1  t2 = t2
    Tasks = {t1, t2}
    NumStages = 2
    EarlyEnd = {}
    Retryable = {1, 2}
    MaxAttempts = 1
    RetryFrom = {"failed"}
    MaxJobs = 4
    MaxCommands <- All
    MaxErrors = 0
    MaxCrashes = 0
SPECIFICATION Spec
INVARIANT ActiveStageIsNotScheduled
INVARIANT CancelReachesEveryJob
PROPERTY PausedStartsNothing
PROPERTY CompletedStageIsKept
CHECK_DEADLOCK FALSE
