SPECIFICATION Spec
CONSTANTS
    a1 = a1  a2 = a2  ip = ip  r1 = r1  r2 = r2
    Alert = {a1, a2}
    Ip = {ip}
    Request = {r1, r2}
    Revoking = {a2}
    AlertIp <- MCAlertIp
    Config <- MCConfig
    MaxFaults = 2
SYMMETRY Threads
INVARIANTS
    TypeOK
    Accounted
    AnsweredComplete
    InOrder
    ModesApart
PROPERTIES
    NotReplayed
