\* Claims about the relay, each violated: keep one line to see its trace.
CONSTANTS
    Desktops = {d1, d2}
    Mobiles = {m1}
    Conns = {c1, c2, c3}
    Messages = {x1, x2}
    Transient = {}
    History = {}
    BufferCap = 2
    MaxRestarts = 1
    MaxExpiries = 1
    Nobody = Nobody
    Part = {"devices", "events", "sessions"}
SPECIFICATION MCSpec
SYMMETRY Symmetry
INVARIANT NothingMissed
INVARIANT StatusFollowsTable
PROPERTY NewConnectionStays
CHECK_DEADLOCK FALSE
