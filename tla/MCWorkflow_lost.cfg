\* A retry job ends before the workflow lists it: its report is lost.
CONSTANTS
    t1 = t1  t2 = t2
    Tasks = {t1, t2}
    NumStages = 1
    EarlyEnd = {}
    Retryable = {1}
    MaxAttempts = 1
    RetryFrom = {"failed"}
    MaxJobs = 2
    MaxCommands <- NoCommand
    MaxErrors = 0
    MaxCrashes = 0
SPECIFICATION Spec
INVARIANT NeverStalled
CHECK_DEADLOCK FALSE
