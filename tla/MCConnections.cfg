\* Two connections, two descriptors, two fair threads; clients may all be gone.
SPECIFICATION CFairSpec
CONSTANTS
    Peers = {k1, k2}
    Fds = {f1, f2}
    Workers = {w1, w2}
    None = None
    Timeout = 1
    MaxClock = 2
    MaxSends = 1
CHECK_DEADLOCK FALSE
INVARIANTS
    CTypeOK
    OneTaskPerConnection
    NoDanglingSession
    SessionPerConnection
    StuckOnlyInCleanup
    SlotNotFreed
PROPERTIES
    ClosesOnlyEnded
    PeerCloseHandled
