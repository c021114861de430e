SPECIFICATION BenchSpec
CONSTANTS
    Size = 3
    UTFMax = 4
    MaxWrite = 5
    MaxStream = 10
    ReaderSize = 3
    Inputs <- SomeInputs
    MaxEmpty = 2
    MaxArg = 4
    MaxFaults = 2
    Unreads = FALSE
    None = None
CHECK_DEADLOCK FALSE
INVARIANTS StreamIsExact ReadsAreExact LineIsWhole
