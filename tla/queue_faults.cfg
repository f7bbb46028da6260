SPECIFICATION QueueSpec
CONSTANTS
    p1 = p1
    p2 = p2
    Producers <- MCProducers
    SizeOf <- MCSizeOf
    MaxItems = 2
    MaxArray = 2
    MaxPushed = 3
    BatchSize = 2
    SQLiteErrors = TRUE
SYMMETRY MCSymmetry
INVARIANTS
    RowsInPushOrder
CHECK_DEADLOCK FALSE
