SPECIFICATION Spec
CONSTANTS
    Request = {r1, r2}
    Address = {a1}
    Limit = 1
    Window = 3
    MaxClock = 4
INVARIANTS TenPerMinute
