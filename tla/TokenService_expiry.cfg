\* A second has two ticks, so that a duration in ticks is not one in seconds.
CONSTANTS
    Users = {alice}
    Requests = {r1}
    RowIds = {d1, d2}
    Null = Null
    TicksPerSecond = 2
    JwtExpAccess = 3
    JwtExpRefresh = 4
    MaxTime = 5
    TtlIndex = FALSE
SPECIFICATION Spec
PROPERTIES
    AccessTokenLivesAsConfigured
\* The model stops when its ids, its clock and its requests are used up.
CHECK_DEADLOCK FALSE
