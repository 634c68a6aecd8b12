\* Nothing crashes or fails in SQLite; fair workers, commands and clock.
CONSTANTS
    j1 = j1  j2 = j2  w1 = w1  w2 = w2  c1 = c1  c2 = c2
    Jobs = {j1, j2}
    Workers = {w1, w2}
    Clients = {c1}
    WorkflowJobs = {j2}
    MasterJobs = {}
    PlanJobs = {}
    Sessions <- OneSession
    MaxRetry = 1
    MaxCrashes = 0
    MaxDbErrors = 0
SPECIFICATION FairSpec
PROPERTY EveryJobSettles
CHECK_DEADLOCK FALSE
