\* Liveness: one user, two requests, one or two pairs; no symmetry.
CONSTANTS
    Users = {alice}
    Requests = {r1, r2}
    RowIds = {d1, d2}
    Null = Null
    TicksPerSecond = 2
    JwtExpAccess = 1
    JwtExpRefresh = 2
    MaxTime = 3
    TtlIndex = TRUE
SPECIFICATION FairSpec
PROPERTIES
    EveryRequestEnds
    ExpiredRowsAreSwept
\* The model stops when its ids, its clock and its requests are used up.
CHECK_DEADLOCK FALSE
