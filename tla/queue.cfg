SPECIFICATION QueueSpec
CONSTANTS
    p1 = p1
    p2 = p2
    Producers <- MCProducers
    SizeOf <- MCSizeOf
    MaxItems = 2
    MaxArray = 2
    MaxPushed = 4
    BatchSize = 2
    SQLiteErrors = FALSE
SYMMETRY MCSymmetry
INVARIANTS
    QueueTypeOK
    BoundedOvershoot
CHECK_DEADLOCK FALSE
