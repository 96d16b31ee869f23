SPECIFICATION Spec
CONSTANTS
    Hosts = 1
    PageSize = 1
    Threshold = 1
    Window = 1
    Cooldown = 2
    MaxEvents = 1
    MaxClock = 2
    MaxFaults = 1
INVARIANT CooldownRespected
CHECK_DEADLOCK FALSE
