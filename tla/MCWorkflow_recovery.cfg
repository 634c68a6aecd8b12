\* The process ends once while a workflow runs.
CONSTANTS
    t1 = t1  t2 = t2
    Tasks = {t1, t2}
    NumStages = 2
    EarlyEnd = {}
    Retryable = {}
    MaxAttempts = 0
    RetryFrom = {"failed"}
    MaxJobs = 2
    MaxCommands <- NoCommand
    MaxErrors = 0
    MaxCrashes = 1
SPECIFICATION FairSpec
PROPERTY RestartRecoversWorkflow
CHECK_DEADLOCK FALSE
