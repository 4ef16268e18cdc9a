CONSTANT Configs <- MCConfigs
SPECIFICATION Spec
INVARIANTS
    OutputIsTheFrame
    ZeroMeansDelivered
PROPERTIES
    FrameEnds
CHECK_DEADLOCK FALSE
