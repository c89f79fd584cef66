CONSTANTS
    u1 = u1
    u2 = u2
    r1 = r1
    r2 = r2
    iss = iss
    ct = ct
    dom = dom
    Users = {u1}
    Roots = {r1, r2}
    NoRoot = NoRoot
    Issuers = {iss}
    NoIssuer = NoIssuer
    CredentialTypes = {ct}
    NoType = NoType
    ZkDomains = {dom}
    NoDomain = NoDomain
    Configs <- EvolvingConfigs
    NoHash = NoHash
    DELAY = 1
    MaxGrantTTL = 2
    MaxTime = 4
    MaxRevision = 3
    MaxUserEpoch = 2
    TypeOf <- MCTypeOf
    MaxExpiry = 5
    Proofs <- EvolvingProofs
    NoProof = NoProof
    Nonces = {1, 2}
    Deadlines = {4}
    Expiries = {3, 5}
    CancelSpaces = {}
SPECIFICATION Spec
INVARIANTS
    StaleGrantNeverEligible
    EligibilityIsBounded
    EligibleAsSigned
PROPERTIES
    EligibilityOnlyByActivation
