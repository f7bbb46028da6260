SPECIFICATION Spec
CONSTANTS
    setGroup = setGroup
    restart = restart
    unknown = unknown
    Ids <- MCIds
    RestartIds <- MCRestartIds
    InvalidIds <- MCInvalidIds
    NoCommand = NoCommand
    QueueSize = 2
    MaxDeliveries = 1
    MaxCrashes = 0
    MaxStops = 0
    StorageFaults = FALSE
INVARIANT
    FeedbackGiven
