SPECIFICATION FairSpec
CONSTANTS
    Program <- MCProgram
    Programs <- AllPrograms
    Template <- MCTemplate
    Cores = 2
    InitialSize = 64
    MaxCapacity = 128
INVARIANTS TypeOK EdgesAreMutual MapOwnsItsKernels AddReturnsTheEnds ReturnedSizes ExeStartsConnected
    DotShowsTheGraph StreamsReady StreamSizes StreamsOutliveTheirUsers
PROPERTIES EdgesAreStable FreedAtRest ExeReturns
CHECK_DEADLOCK FALSE
