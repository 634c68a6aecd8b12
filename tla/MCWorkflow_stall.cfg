\* The job of the next stage cannot be created.
CONSTANTS
    t1 = t1  t2 = t2
    Tasks = {t1, t2}
    NumStages = 2
    EarlyEnd = {}
    Retryable = {}
    MaxAttempts = 0
    RetryFrom = {"failed"}
    MaxJobs = 2
    MaxCommands <- NoCommand
    MaxErrors = 1
    MaxCrashes = 0
SPECIFICATION Spec
INVARIANT NeverStalled
CHECK_DEADLOCK FALSE
