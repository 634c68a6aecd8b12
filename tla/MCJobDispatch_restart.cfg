\* A plain job (a plan) and a job of a workflow, two workers, two commands; the
\* process ends once and one SQL statement fails, each at any point.
CONSTANTS
    j1 = j1  j2 = j2  w1 = w1  w2 = w2  c1 = c1  c2 = c2
    Jobs = {j1, j2}
    Workers = {w1, w2}
    Clients = {c1, c2}
    WorkflowJobs = {j2}
    MasterJobs = {}
    PlanJobs = {j1}
    Sessions <- OneSession
    MaxRetry = 1
    MaxCrashes = 1
    MaxDbErrors = 1
SPECIFICATION Spec
SYMMETRY TaskSymmetry
INVARIANTS SingleCopy RetryBudget WorkflowJobRunsOnce QueuedIsHeld
PROPERTY CompletedIsNeverRerun
CHECK_DEADLOCK FALSE
