SPECIFICATION Spec
CONSTANTS
    Program <- MCProgram
    Programs <- Passing
    Template <- MCTemplate
    Cores = 2
    InitialSize = 64
    MaxCapacity = 128
INVARIANT StreamsAreAsWritten
CHECK_DEADLOCK FALSE
