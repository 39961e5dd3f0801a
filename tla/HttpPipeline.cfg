\* Every registration of MCRegistered; every route, every outcome of every stage.
CONSTANTS
    PrismaCodes <- MCPrismaCodes
    NaN = NaN
    Null = Null
    Registered <- MCRegistered
SPECIFICATION AppSpec
INVARIANTS
    TypeOK
    MostSpecificFilterAnswers
    AnswersAreEnvelopes
    CodesBeginWithStatus
    RowsAreStripped
    BootTypeOK
    ServicesHoldGivenOptions
    MiddlewaresBeforeQueries
    RequestsFindPool
    FailsForAReason
    InjectorCanContinue
PROPERTIES
    StartupEnds
\* A request ends with its response, a failed start with the process.
CHECK_DEADLOCK FALSE
