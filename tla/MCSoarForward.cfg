SPECIFICATION FSpec
CONSTANTS
    a1 = a1  a2 = a2  ip = ip  NoThread = NoThread
    Alert = {a1, a2}
    Ip = {ip}
    Request = {r1, r2}
    Revoking = {a2}
    AlertIp <- MCAlertIp
    Config <- MCConfig
    File <- MCFile
    MaxFaults = 2
INVARIANTS
    PassedMeansDone
    FileInOrder
PROPERTIES
    EventuallyForwarded
    LockReleased
    ImplementsPlaybook
CHECK_DEADLOCK FALSE
