\* Three connections of two desktops and a phone.
CONSTANTS

    Desktops = {d1, d2}
    Mobiles = {m1}
    Conns = {c1, c2, c3}
    Messages = {x1}
    Transient = {}
    History = {}
    BufferCap = 2
    MaxRestarts = 1
    MaxExpiries = 1
    Nobody = Nobody
    Part = {"devices", "events", "sessions"}
SPECIFICATION MCSpec
SYMMETRY Symmetry
INVARIANTS RelayTypeOK OneDesktop NoStaleEntry BufferedReachesDevice
CHECK_DEADLOCK FALSE
