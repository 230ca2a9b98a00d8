CONSTANTS
    FeatureStart <- EqualFeatureStart
    BinCount = 9
    CmiModulus = 23
    TieFree = TRUE
    LabelBinCount = 2
    MaxBinCount = 8
    EvalStepCount = 3
    FeatureCountToSelect = 3
SPECIFICATION Spec
CHECK_DEADLOCK FALSE
INVARIANTS
    TypeOK
    CacheMatchesEvalScorer
    NeverAborts
    NoDuplicateFeatures
PROPERTIES
    ImplementsFeatureSelection
