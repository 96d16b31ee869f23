SPECIFICATION Spec
CONSTANTS
    Thread = {t1, t2}
    Serial = {s1}
    Life = 3
    MaxClock = 4
    MaxRequests = 5
INVARIANTS
    FreshListInForce
CHECK_DEADLOCK FALSE
