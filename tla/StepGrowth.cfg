CONSTANTS
    FeatureStart <- SingleBinFeatureStart
    BinCount = 5
    CmiModulus = 23
    TieFree = TRUE
    LabelBinCount = 2
    MaxBinCount = 64
    EvalStepCount = 3
    FeatureCountToSelect = 5
SPECIFICATION Spec
CHECK_DEADLOCK FALSE
INVARIANTS
    CacheMatchesEvalScorer
