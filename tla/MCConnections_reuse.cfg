\* A descriptor is reused while a worker still cleans it up.
SPECIFICATION CSpec
CONSTANTS
    Peers = {k1, k2}
    Fds = {f1}
    Workers = {w1}
    None = None
    Timeout = 1
    MaxClock = 0
    MaxSends = 1
INVARIANTS
    OwnSession
SYMMETRY ConnectionsSymmetry
CHECK_DEADLOCK FALSE
