SPECIFICATION Spec
CONSTANTS
    setGroup = setGroup
    restart = restart
    unknown = unknown
    Ids <- MCIds
    RestartIds <- MCRestartIds
    InvalidIds <- MCInvalidIds
    NoCommand = NoCommand
    QueueSize = 2
    MaxDeliveries = 2
    MaxCrashes = 1
    MaxStops = 1
    StorageFaults = FALSE
INVARIANTS
    TypeOK
    AtMostOnce
    PopsTheCommand
    NotLost
    OneVerdictWithoutCrash
    FinalIsReported
PROPERTY
    FinalStaysFinal
