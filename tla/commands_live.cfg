SPECIFICATION FairSpec
CONSTANTS
    setGroup = setGroup
    restart = restart
    unknown = unknown
    Ids <- MCIds
    RestartIds <- MCRestartIds
    InvalidIds <- MCInvalidIds
    NoCommand = NoCommand
    QueueSize = 2
    MaxDeliveries = 1
    MaxCrashes = 1
    MaxStops = 1
    StorageFaults = FALSE
PROPERTY
    EventuallyReported
