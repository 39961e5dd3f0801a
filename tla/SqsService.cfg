\* Three messages, single and batch handlers, restarts; both good and bad options.
CONSTANTS
    aggregate = aggregate
    other = other
    Queues <- MCQueues
    Messages = {m1, m2, m3}
    Configs <- MCConfigs
SPECIFICATION FairSpec
INVARIANTS
    TypeOK
    NothingIsLost
PROPERTIES
    ImplementsQueue
    StoppedAsksNoMore
    StoppedFallsSilent
    SentIsProcessed
\* A service whose options repeat a name never starts.
CHECK_DEADLOCK FALSE
