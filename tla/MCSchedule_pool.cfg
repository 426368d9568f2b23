SPECIFICATION Spec
CONSTANTS
    NumKernels = 3
    Stream <- MCStream
    In <- MCIn
    Out <- MCOut
    Cap = 1
    StopAfter <- TwoStop
    Schedulers = {"pool"}
INVARIANT StreamsOutliveKernels
CHECK_DEADLOCK FALSE
