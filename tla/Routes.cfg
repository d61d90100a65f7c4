SPECIFICATION DeviceSpec
CONSTANTS
    Bindings <- MCBindings
    Masks <- MCMasks
    Levels = 1
    MaxQueue = 1
    MaxValues = 2
    None = none
    Unset = unset
    Unity = unity
INVARIANTS
    HostInSync
    
    NodeFollowsRoute
PROPERTIES
    RoutesSettle
CHECK_DEADLOCK FALSE
