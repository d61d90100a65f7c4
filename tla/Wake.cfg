SPECIFICATION Spec
CONSTANTS
    Period = 2
    Advances = {2}
    Retry = 1
    Stall = 1
    NoReg = noreg
    NoWake = nowake
    Off = off
INVARIANTS
    WakeIsCurrent
    
    NotAhead

    
CHECK_DEADLOCK FALSE
