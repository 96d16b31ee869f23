SPECIFICATION Spec
CONSTANTS
    Thread = {t1, t2}
    Serial = {s1}
    Life = 1
    MaxClock = 2
    MaxRequests = 5
INVARIANTS
    TypeOK
    AuditComplete
    RevocationEffective
PROPERTIES
    RevocationSettled
CHECK_DEADLOCK FALSE
