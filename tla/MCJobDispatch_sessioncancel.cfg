\* One job, one worker, one command.
CONSTANTS
    j1 = j1  j2 = j2  w1 = w1  w2 = w2  c1 = c1  c2 = c2
    Jobs = {j1}
    Workers = {w1}
    Clients = {c1}
    WorkflowJobs = {}
    MasterJobs = {}
    PlanJobs = {}
    Sessions <- OneSession
    MaxRetry = 1
    MaxCrashes = 0
    MaxDbErrors = 0
SPECIFICATION Spec
PROPERTY CanceledNeverStarts
CHECK_DEADLOCK FALSE
