SPECIFICATION Spec
CONSTANTS
    U32Max = 63
    MinBuffer = 6
    CapacityMin = 8
    CapacityMax = 32
    MaxQuantum = 2
    DefaultFragment = 1
    NsPerSecond = 1
    Stride = 2
    Rate = 40
    Periods = {2, 4}
    Sizes = {2, 4}
    Buffers = {b1}
    NoBuffer = none
    Grants = {6}
    Blocks = {1}
    Eighths = 10
    NoSnapshot = none
INVARIANTS Seamless OpenFrameOwned 
CHECK_DEADLOCK FALSE
