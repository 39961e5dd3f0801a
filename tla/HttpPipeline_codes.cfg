\* The code in the message of an exception, and the code in the response.
CONSTANTS
    PrismaCodes <- MCPrismaCodes
    NaN = NaN
    Null = Null
SPECIFICATION Spec
INVARIANTS
    ThrownCodeIsAnswered
\* A request ends with its response.
CHECK_DEADLOCK FALSE
