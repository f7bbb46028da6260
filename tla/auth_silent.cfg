SPECIFICATION FairSpec
CONSTANTS
    p1 = p1
    p2 = p2
    Producers <- MCProducers
    SizeOf <- MCSizeOf
    MaxItems = 2
    MaxArray = 1
    MaxPushed = 1
    BatchSize = 2
    SQLiteErrors = FALSE
    MaxStops = 0
    MaxCrashes = 0
    MaxTokenFaults = 0
    MaxSilences = 1
    EmptyAccepted = FALSE
PROPERTY
    RequestsEnd
CHECK_DEADLOCK FALSE
