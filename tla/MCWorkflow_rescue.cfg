\* A failed stage is retried and the retry succeeds.
CONSTANTS
    t1 = t1  t2 = t2
    Tasks = {t1, t2}
    NumStages = 2
    EarlyEnd = {}
    Retryable = {1}
    MaxAttempts = 1
    RetryFrom = {"failed"}
    MaxJobs = 3
    MaxCommands <- NoCommand
    MaxErrors = 0
    MaxCrashes = 0
SPECIFICATION Spec
INVARIANT RetryRescuesWorkflow
CHECK_DEADLOCK FALSE
