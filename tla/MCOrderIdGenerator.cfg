\* Two threads, two clock values set at will, a counter that wraps.
SPECIFICATION GenSpec
CONSTANTS
    Threads = {t1, t2}
    NodeSpace = 2
    SequenceSpace = 4
    CounterSpace = 8
    MaxClock = 1
    MaxCalls = 9
    NotCalling = NotCalling
SYMMETRY ThreadSymmetry
INVARIANTS
    UniqueIds
