CONSTANTS
    MaxLines = 4
    MaxWidth = 2
    MaxBatch = 3
SPECIFICATION Spec
CHECK_DEADLOCK FALSE
INVARIANT TypeOK
PROPERTIES
    ImplementsSequentialRead
    Terminates
