SPECIFICATION FairSpec
CONSTANTS
    Cap = 2
    MaxRange = 2
    MaxSent = 4
    ProducerOps = {"push", "allocate", "allocate_range"}
    ConsumerOps = {"pop"}
PROPERTIES SentIsTaken ProducerIsServed CloseIsNoticed
CHECK_DEADLOCK FALSE
