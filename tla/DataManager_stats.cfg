SPECIFICATION Spec
CONSTANTS
    InitCap = 4
    MaxResize = 1
    MaxCap = 8
    Ranges = {1}
    MaxSent = 3
    ProducerOps = {"push"}
    ConsumerOps = {"pop"}
    SizeofT = 16
    SizeofSignal = 16
INVARIANT StatsAreValid
CHECK_DEADLOCK FALSE
