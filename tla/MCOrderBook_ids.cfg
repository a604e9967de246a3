\* Ids as the generator makes them: all at or above the width of the id that
\* cancelOrder takes.
SPECIFICATION Spec
CONSTANTS
    Users = {u1, u2}
    Prices = {1, 2}
    Quantities = {1, 2}
    OrderIds = {9, 10}
    IdSpace = 8
    NoOrder = NoOrder
CONSTRAINT AscendingIds
INVARIANTS
    CancelReachesOrder
