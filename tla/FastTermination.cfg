CONSTANTS
    FeatureStart <- EqualFeatureStart
    BinCount = 9
    CmiModulus = 3
    TieFree = FALSE
    LabelBinCount = 2
    MaxBinCount = 64
    EvalStepCount = 3
    FeatureCountToSelect = 3
SPECIFICATION Spec
CHECK_DEADLOCK FALSE
INVARIANTS
    CachedStepsUseDistinctBins
PROPERTIES
    SelectsRequestedCount
