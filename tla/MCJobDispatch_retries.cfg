\* A plain job that uses all three retries of retry_utils::MAX_RETRY_COUNT and a
\* workflow's master row, which is recovered but never run; two workers, two
\* commands, and the process ends twice.
CONSTANTS
    j1 = j1  j2 = j2  w1 = w1  w2 = w2  c1 = c1  c2 = c2
    Jobs = {j1, j2}
    Workers = {w1, w2}
    Clients = {c1, c2}
    WorkflowJobs = {}
    MasterJobs = {j2}
    PlanJobs = {}
    Sessions <- OneSession
    MaxRetry = 3
    MaxCrashes = 2
    MaxDbErrors = 0
SPECIFICATION Spec
SYMMETRY TaskSymmetry
INVARIANTS TypeOK RetryBudget
PROPERTY SettledStaysSettled
CHECK_DEADLOCK FALSE
