\* Three concurrent requests of one user: racing logouts, refreshes, sign-ins.
CONSTANTS
    Users = {alice}
    Requests = {r1, r2, r3}
    RowIds = {d1, d2, d3, d4}
    Null = Null
    TicksPerSecond = 2
    JwtExpAccess = 1
    JwtExpRefresh = 2
    MaxTime = 0
    TtlIndex = FALSE
SYMMETRY Symmetry
SPECIFICATION Spec
INVARIANTS
    ClosedSessionsHaveNoRows
    OneLogoutWins
PROPERTIES
    LoggedOutTokensDoNotPass
\* The model stops when its ids, its clock and its requests are used up.
CHECK_DEADLOCK FALSE
