SPECIFICATION FairSpec
CONSTANTS
    Cap = 2
    MaxRange = 3
    MaxSent = 3
    ProducerOps = {"allocate_range"}
    ConsumerOps = {"pop"}
PROPERTY AllocateRangeReturns
CHECK_DEADLOCK FALSE
