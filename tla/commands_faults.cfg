SPECIFICATION Spec
CONSTANTS
    setGroup = setGroup
    restart = restart
    unknown = unknown
    Ids <- MCTwoIds
    RestartIds <- MCRestartIds
    InvalidIds <- MCNone
    NoCommand = NoCommand
    QueueSize = 2
    MaxDeliveries = 2
    MaxCrashes = 1
    MaxStops = 1
    StorageFaults = TRUE
INVARIANTS
    AtMostOnce
    PopsTheCommand
PROPERTY
    FinalStaysFinal
CHECK_DEADLOCK FALSE
