SPECIFICATION FairSpec
CONSTANTS
    BufferSize = 2
    BatchSize = 3
    Closers = {c1, c2}
    MaxEvents = 7
CHECK_DEADLOCK FALSE
INVARIANTS TypeOK Accounted CloseFlushes
PROPERTIES Shipped CloseEnds
