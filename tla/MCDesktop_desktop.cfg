INIT MCInit
NEXT MCNext
CHECK_DEADLOCK FALSE
CONSTANTS
    Part = {"terminal", "output", "link", "files"}
    MaxEffort = 5
    Handles = {h1, h2}
    Callers = {ui}
    Phones = {}
    BufferCap = 2
    LogCap = 4
    Budgets <- FewStarts
    Nobody = Nobody
    MaxChunks = 3
    MaxBinds = 2
    MaxLinks = 2
    Closers = {k1}
    PendingCap = 2
    SnapshotCap = 2
    Starters = {s1, s2}
    Tasks = {t1, t2, t3}
    Links = {l1, l2}
    Servers = {eu, us}
    MaxChanges = 4
    MaxFailures = 2
    NoOne = NoOne
    Files = {f1, f2}
    Root = Root
    Clients = {c1, c2}
    MaxOps = 3
    NoFile = NoFile
    Free = Free
VIEW PartView
INVARIANTS DesktopTypeOK FlushedIsLogged SavedIsLogged NoChunkForgotten OneLoop
PROPERTY LockedFileIsStable
