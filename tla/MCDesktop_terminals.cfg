\* Claims about terminals, each violated: keep one line to see its trace.
INIT MCInit
NEXT MCNext
CHECK_DEADLOCK FALSE
CONSTANTS
    Part = {"terminal"}
    MaxEffort = 7
    Handles = {h1, h2}
    Callers = {ui, phone}
    Phones = {phone}
    BufferCap = 2
    LogCap = 4
    Budgets <- ManyStarts
    Nobody = Nobody
    MaxChunks = 3
    MaxBinds = 2
    MaxLinks = 2
    Closers = {k1}
    PendingCap = 2
    SnapshotCap = 2
    Starters = {s1, s2}
    Tasks = {t1, t2, t3}
    Links = {l1, l2}
    Servers = {eu, us}
    MaxChanges = 4
    MaxFailures = 2
    NoOne = NoOne
    Files = {f1, f2}
    Root = Root
    Clients = {c1, c2}
    MaxOps = 3
    NoFile = NoFile
    Free = Free
INVARIANT OneProcess
INVARIANT AttachShowsAll
INVARIANT BufferIsLogged
INVARIANT RunningIsRestorable
