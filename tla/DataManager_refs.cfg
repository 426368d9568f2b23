SPECIFICATION Spec
CONSTANTS
    InitCap = 4
    MaxResize = 1
    MaxCap = 8
    Ranges = {1}
    MaxSent = 3
    ProducerOps = {"push", "allocate"}
    ConsumerOps = {"pop"}
    SizeofT = 16
    SizeofSignal = 16
INVARIANT NoOutstandingReference
CHECK_DEADLOCK FALSE
