\* Sessions through their whole life: expiry on the way, TTL sweeps, crashes.
CONSTANTS
    Users = {alice}
    Requests = {r1, r2}
    RowIds = {d1, d2, d3, d4}
    Null = Null
    TicksPerSecond = 1
    JwtExpAccess = 1
    JwtExpRefresh = 0
    MaxTime = 1
    TtlIndex = TRUE
SYMMETRY Symmetry
SPECIFICATION Spec
INVARIANTS
    TypeOK
PROPERTIES
    ImplementsLifecycle
\* The model stops when its ids, its clock and its requests are used up.
CHECK_DEADLOCK FALSE
