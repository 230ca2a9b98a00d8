CONSTANTS
    MinColumns = 1
    MaxColumns = 3
    MaxFeatureSize = 2
    MaxFeatureIndex = 2
    MaxMapLines = 4
    SampleCount = 2
    MaxLabelValue = 2
    MaxBorders = 2
    IntWidth = 2
SPECIFICATION Spec
CHECK_DEADLOCK FALSE
INVARIANTS
    TypeOK
    RoundTrip
    FeatureIndexByBinIndexIsInverse
    LabelColumnKeepsOrder
