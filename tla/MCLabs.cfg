SPECIFICATION LSpec
CONSTANTS
    Call = {c1}
    j1 = j1
    Jti = {j1}
    Scope = {"pki:read", "admin"}
    Allowed = {"pki:read"}
    TTL = 2
    Patience = 1
    MaxClock = 2
    a1 = a1  ip = ip
    Alert = {a1}
    Ip = {ip}
    Request = {r1}
    Revoking = {a1}
    AlertIp <- MCAlertIp
    Config <- MCConfig
    JtiOf <- MCJtiOf
    MaxFaults = 1
    p1 = p1  p2 = p2  w1 = w1  w2 = w2
    MaxKeys = 4
    MaxVpnFaults = 2
    Runner = {p1, p2}
    MaxRuns = 3
    Worker = {w1, w2}
    LastAddress = 7
    LastPort = 3
    MaxAddresses = 4
    MaxConnections = 5
    NotUnicast = {7}
    TargetSpecs <- MCTargets
    PortSpecs <- MCPorts
    ScopeSpecs <- MCScopes
    Path = {f1, f2, f3}
    Directory = {{f1, f3}, {f2}}
    Excluded = {f3}
    Ignored = {f2}
    Rule = {"token", "key"}
    Grouped = {"token"}
    Content <- MCContent
    MaxEdits = 1
    MaxTries = 2
    MaxSetupFaults = 2
SYMMETRY Alike
INVARIANTS
    TypeOK
    LabsTypeOK
    RevocationHolds
    GrantsDeserved
    RemediationBars
    Confined
    PeersAgree
    PairsBelong
    OnlyCutShort
    ScanBounded
    ExitCodeTells
    SetupTrustworthy
PROPERTIES
    SecretsKept
    RevocationTakesHold
CHECK_DEADLOCK FALSE
