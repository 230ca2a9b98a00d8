CONSTANTS
    FeatureStart <- GapFeatureStart
    BinCount = 6
    CmiModulus = 7
    TieFree = TRUE
    LabelBinCount = 2
    MaxBinCount = 64
    EvalStepCount = 3
    FeatureCountToSelect = 3
SPECIFICATION Spec
CHECK_DEADLOCK FALSE
PROPERTIES
    SelectsRequestedCount
