SPECIFICATION Spec
CONSTANTS
    p1 = p1
    p2 = p2
    Producers <- MCProducers
    SizeOf <- MCSizeOf
    MaxItems = 2
    MaxArray = 2
    MaxPushed = 2
    BatchSize = 2
    SQLiteErrors = TRUE
    MaxStops = 1
    MaxCrashes = 1
    MaxTokenFaults = 0
    MaxSilences = 0
    EmptyAccepted = TRUE
INVARIANTS
    TypeOK
    NoLossBeforeStop
    NoOvertaking
    BatchIsHead
PROPERTY
    RemovesOnlyAccepted
SYMMETRY MCSymmetry
