\* A timer that runs out while a worker cleans the connection up.
SPECIFICATION CSpec
CONSTANTS
    Peers = {k1}
    Fds = {f1}
    Workers = {w1}
    None = None
    Timeout = 1
    MaxClock = 2
    MaxSends = 1
INVARIANTS
    EventLoopLives
CHECK_DEADLOCK FALSE
