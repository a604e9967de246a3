\* Three orders of two users at two prices: partial fills, sweeps over two
\* makers, queues of two at one level, cancels between any two orders.  The worker thread
\* is fair.
SPECIFICATION FairSpec
CONSTANTS
    Users = {u1, u2}
    Prices = {1, 2}
    Quantities = {0, 1, 2}
    OrderIds = {1, 2, 3}
    IdSpace = 8
    NoOrder = NoOrder
CONSTRAINTS
    AscendingIds
    UsersInTurn
INVARIANTS
    TypeOK
    BookUncrossed
    LevelsWellFormed
    IndexAgrees
    LimitsRespected
    AccountedFor
PROPERTIES
    KeepsPromise
    MatchingEnds
