SPECIFICATION Spec
CONSTANTS
    r1 = r1  r2 = r2  a1 = a1  a2 = a2
    Request = {r1, r2}
    Address = {a1, a2}
    Limit = 2
    Window = 1
    MaxClock = 2
SYMMETRY Symmetry
INVARIANTS
    TypeOK
    WindowLimited
PROPERTIES
    RefusalsDeserved
