CONSTANTS
    FeatureStart <- PairFeatureStart
    BinCount = 6
    CmiModulus = 7
    TieFree = TRUE
    LabelBinCount = 2
    MaxBinCount = 64
    StepCount = 2
SPECIFICATION Spec
CHECK_DEADLOCK FALSE
INVARIANTS
    ScoreFailsOnlyWithoutEnoughBins
