\* Three connections, one name known at the start and one to register.
SPECIFICATION SSpec
CONSTANTS
    Connections = {c1, c2, c3}
    Names = {n1, n2}
    Preloaded = {n1}
    NoName = NoName
    NoId = NoId
    DepositAmounts = {1, 2}
    MaxDeposited = 3
    IdQueryMayFail = FALSE
SYMMETRY ConnectionSymmetry
INVARIANTS
    SessionsBound
    RowMatchesAccount
    MappedBothWays
PROPERTIES
    AccountsStay
