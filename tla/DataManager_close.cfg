SPECIFICATION FairSpec
CONSTANTS
    InitCap = 4
    MaxResize = 1
    MaxCap = 8
    Ranges = {1}
    MaxSent = 3
    ProducerOps = {"push"}
    ConsumerOps = {"pop"}
    SizeofT = 16
    SizeofSignal = 16
PROPERTY CloseIsNoticed
CHECK_DEADLOCK FALSE
