SPECIFICATION FairSpec
CONSTANTS
    p1 = p1
    p2 = p2
    Producers <- MCProducers
    SizeOf <- MCSizeOf
    MaxItems = 2
    MaxArray = 1
    MaxPushed = 1
    BatchSize = 2
    SQLiteErrors = FALSE
    MaxStops = 0
    MaxCrashes = 1
    MaxTokenFaults = 1
    MaxSilences = 1
    EmptyAccepted = FALSE
PROPERTY
    Delivered
CHECK_DEADLOCK FALSE
