\* Two connections for three threads; one of them may break.
SPECIFICATION MFairSpec
CONSTANTS
    p = p
    v1 = v1
    v2 = v2
    Publisher = p
    Viewers = {v1, v2}
    Threads = {p, v1, v2}
    Conns = {r1, r2}
    MaxSize = 2
    NoConn = NoConn
    Texts <- MCTexts
    TextRank <- MCTextRank
    Tapes <- MCTapes
    Ulp = 4
    Limit = 2
    MaxBroken = 1
CHECK_DEADLOCK FALSE
INVARIANTS
    NoConnectionShared
    HistoryExact
    TrendInOrder
PROPERTIES
    Served
