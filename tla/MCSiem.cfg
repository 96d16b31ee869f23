SPECIFICATION Spec
CONSTANTS
    Hosts = 2
    PageSize = 1
    Threshold = 2
    Window = 1
    Cooldown = 2
    MaxEvents = 3
    MaxClock = 2
    MaxFaults = 1
INVARIANTS
    TypeOK
    AlertsJustified
PROPERTIES
    CyclesComplete
CHECK_DEADLOCK FALSE
