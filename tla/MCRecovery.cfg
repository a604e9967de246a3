\* Any three requests and a crash, fair threads, statements that may fail, and a
\* reservation of four that does not fit an int64_t.
SPECIFICATION RFairSpec
CONSTANTS
    u1 = u1
    u2 = u2
    Users = {u1, u2}
    Prices = {1, 2}
    Quantities = {1, 2}
    OrderIds = {1, 2}
    IdSpace = 8
    NoOrder = NoOrder
    OpeningBalance <- MCOpeningBalance
    OpeningHolding <- MCOpeningHolding
    TickersKnown = TRUE
    DbMayFail = TRUE
    DepositAmounts = {1}
    MaxDeposited = 1
    MaxCancelCalls = 1
    MaxRequests = 3
    LongSpace = 8
    IntSpace = 8
    MaxCrashes = 1
CONSTRAINTS IdsInTurn UnknownAlike NoneOrAll FewWhenWrapped
CHECK_DEADLOCK FALSE
INVARIANTS
    ExTypeOK
    OverdrawnOnlyByWrapping
    FrozenBacked
    AgreeUnlessFailed
    CoveredUnlessFailed
    TablesConserve
    LogComplete
PROPERTIES
    EventuallyDrained
