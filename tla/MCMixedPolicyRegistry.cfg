CONSTANTS
    u1 = u1
    r1 = r1
    r2 = r2
    iss = iss
    ct = ct
    dom = dom
    Users = {u1}
    Roots = {r1, r2}
    NoRoot = NoRoot
    Issuers = {iss}
    NoIssuer = NoIssuer
    CredentialTypes = {ct}
    NoType = NoType
    ZkDomains = {dom}
    NoDomain = NoDomain
    Configs <- MCConfigs
    NoHash = NoHash
    DELAY = 2
    MaxGrantTTL = 3
    MaxTime = 5
    MaxRevision = 4
    MaxUserEpoch = 3
SPECIFICATION RegistrySpec
INVARIANTS
    RegistryTypeOK
    HashIsCurrent
    DroppedRootStaysDead
    PendingStaysValid
PROPERTIES
    ChangeWaitsForDelay
    UnbanWaitsForDelay
