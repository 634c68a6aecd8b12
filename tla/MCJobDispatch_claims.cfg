\* Claims, each violated with one job, one worker and one command: keep one line.
CONSTANTS
    j1 = j1  j2 = j2  w1 = w1  w2 = w2  c1 = c1  c2 = c2
    Jobs = {j1}
    Workers = {w1}
    Clients = {c1}
    WorkflowJobs = {j1}
    MasterJobs = {}
    PlanJobs = {}
    Sessions <- OneSession
    MaxRetry = 1
    MaxCrashes = 1
    MaxDbErrors = 0
SPECIFICATION Spec
INVARIANT StaleRunningIsFailed
INVARIANT WorkflowFailureIsReported
PROPERTY TerminalIsFinal
PROPERTY CancelKeepsOutcome
CHECK_DEADLOCK FALSE
