\* A connection that stays silent, with fair threads and a clock.
SPECIFICATION CFairSpec
CONSTANTS
    Peers = {k1}
    Fds = {f1}
    Workers = {w1}
    None = None
    Timeout = 1
    MaxClock = 2
    MaxSends = 0
PROPERTIES
    IdleIsCleaned
CHECK_DEADLOCK FALSE
