SPECIFICATION Spec
CONSTANTS
    U32Max = 63
    MinBuffer = 8
    CapacityMin = 8
    CapacityMax = 32
    MaxQuantum = 2
    DefaultFragment = 1
    NsPerSecond = 1000
    Stride = 2
    Rate = 40
    Periods = {4, 6}
    MaxSize = 4
    NumBuffers = 1
    Grants = {9}
    Blocks = {1}
    DeliveryNs = 25
    Lumps = {3}
    XrunModulus = 3
    NoFill = none
INVARIANTS FrameAligned PeriodsAreWhole PeakFits BacklogDiscarded XrunsAccounted
CHECK_DEADLOCK FALSE
