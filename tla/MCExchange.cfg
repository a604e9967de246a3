\* Orders of one share and of the largest amount a request can carry.
SPECIFICATION ExSpec
CONSTANTS
    Users = {u1, u2}
    Prices = {1}
    Quantities = {1, 7}
    OrderIds = {1, 2}
    IdSpace = 8
    NoOrder = NoOrder
    OpeningBalance <- MCOpeningBalance
    OpeningHolding <- MCOpeningHolding
    TickersKnown = FALSE
    DbMayFail = FALSE
    DepositAmounts = {1}
    MaxDeposited = 1
    MaxCancelCalls = 1
    MaxRequests = 3
    LongSpace = 64
    IntSpace = 8
CONSTRAINT IdsInTurn
SYMMETRY UserSymmetry
CHECK_DEADLOCK FALSE
INVARIANTS
    NoOverdraft
