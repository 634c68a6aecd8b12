\* Three callers, all operations and priorities, a channel that two messages fill.
CONSTANTS
    j1 = j1  j2 = j2  c1 = c1  c2 = c2  c3 = c3
    Jobs = {j1, j2}
    Callers = {c1, c2, c3}
    Calls <- MixedCalls
    ChannelCap = 2
    MaxTime = 1
SPECIFICATION Spec
SYMMETRY CallerSymmetry
INVARIANT TypeOK
PROPERTY ImplementsPool
CHECK_DEADLOCK FALSE
