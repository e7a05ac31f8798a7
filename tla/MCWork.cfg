SPECIFICATION FairSpec
CONSTANTS
    Kind <- CatchupKind
    Parts <- CatchupParts
    Gate <- CatchupGate
    MaxRetries <- CatchupRetries
    StopAtFirstFailure <- CatchupStop
    MaxConcurrent = 2
    Root = "ws"
    MayShutdown = TRUE
INVARIANTS
    NoThrow
    RunnableIsScheduled
    SuccessIsEarned
    DoneMeansStopped
PROPERTIES
    ShutdownCompletes
    WorkGetsDone
CHECK_DEADLOCK FALSE
