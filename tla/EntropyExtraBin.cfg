CONSTANTS
    SampleCount = 3
    KeyWidth = 3
    MaxBinCount = 3
    DenseRangeLimit = 2
SPECIFICATION Spec
CHECK_DEADLOCK FALSE
INVARIANTS
    ExtraBinEntropyOfBinsAdded
