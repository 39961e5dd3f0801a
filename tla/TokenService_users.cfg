\* Two users and two concurrent requests: whose rows are whose.
CONSTANTS
    Users = {alice, bob}
    Requests = {r1, r2}
    RowIds = {d1, d2, d3, d4}
    Null = Null
    TicksPerSecond = 2
    JwtExpAccess = 1
    JwtExpRefresh = 2
    MaxTime = 1
    TtlIndex = TRUE
SYMMETRY Symmetry
SPECIFICATION Spec
INVARIANTS
    PairsAreLinked
    DeliveredPairsWereStored
PROPERTIES
    OnlyOwnerOrExpiryRemoves
\* The model stops when its ids, its clock and its requests are used up.
CHECK_DEADLOCK FALSE
