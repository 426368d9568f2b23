SPECIFICATION FairSpec
CONSTANTS
    NumKernels = 3
    Stream <- MCStream
    In <- MCIn
    Out <- MCOut
    Cap = 2
    StopAfter <- SourceStops
    Schedulers = {"simple", "pool"}
INVARIANTS TypeOK PromisedDataIsThere NothingMissed SimpleJoinsAll
PROPERTIES ClosedStreamsDrain ApplicationEnds
CHECK_DEADLOCK FALSE
