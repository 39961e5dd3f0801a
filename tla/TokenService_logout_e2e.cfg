\* Two sign-ins in one second, one logout.
CONSTANTS
    Users = {alice}
    Requests = {r1, r2}
    RowIds = {d1, d2, d3, d4}
    Null = Null
    TicksPerSecond = 2
    JwtExpAccess = 2
    JwtExpRefresh = 2
    MaxTime = 1
    TtlIndex = TRUE
SYMMETRY Symmetry
SPECIFICATION Spec
PROPERTIES
    LoggedOutTokenIsRefused
\* The model stops when its ids, its clock and its requests are used up.
CHECK_DEADLOCK FALSE
