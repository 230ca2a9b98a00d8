CONSTANTS
    MinColumns = 1
    MaxColumns = 1
    MaxFeatureSize = 1
    MaxFeatureIndex = 0
    MaxMapLines = 1
    SampleCount = 2
    MaxLabelValue = 1
    MaxBorders = 3
    IntWidth = 2
SPECIFICATION Spec
CHECK_DEADLOCK FALSE
INVARIANTS
    LabelColumnKeepsOrder
