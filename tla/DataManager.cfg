SPECIFICATION Spec
CONSTANTS
    InitCap = 3
    MaxResize = 1
    MaxCap = 6
    Ranges = {2, 3}
    MaxSent = 2
    ProducerOps = {"push", "allocate_range"}
    ConsumerOps = {"pop", "peek", "recycle", "size", "is_invalid"}
    SizeofT = 16
    SizeofSignal = 16
INVARIANTS TypeOK ResizeExcludes HeldReferencesAreCurrent InOrder
PROPERTY ImplementsChannel
CHECK_DEADLOCK FALSE
