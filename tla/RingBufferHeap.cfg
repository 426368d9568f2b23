SPECIFICATION Spec
CONSTANTS
    Cap = 2
    MaxRange = 2
    MaxSent = 5
    ProducerOps = {"push", "allocate", "allocate_range"}
    ConsumerOps = {"pop", "peek", "peek_range", "recycle", "unpeek"}
INVARIANTS TypeOK Capacity SizeIsConservative SlotExclusion InOrder NothingLeftBehind
PROPERTY ImplementsChannel
CHECK_DEADLOCK FALSE
