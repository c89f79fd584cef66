CONSTANTS
    u1 = u1
    u2 = u2
    r1 = r1
    r2 = r2
    iss = iss
    ct = ct
    dom = dom
    Users = {u1, u2}
    Roots = {r1, r2}
    NoRoot = NoRoot
    Issuers = {iss}
    NoIssuer = NoIssuer
    CredentialTypes = {ct}
    NoType = NoType
    ZkDomains = {dom}
    NoDomain = NoDomain
    Configs <- EitherConfig
    NoHash = NoHash
    DELAY = 1
    MaxGrantTTL = 2
    MaxTime = 3
    MaxRevision = 1
    MaxUserEpoch = 1
    TypeOf <- MCTypeOf
    MaxExpiry = 5
    Proofs <- TwoUserProofs
    NoProof = NoProof
    Nonces = {1}
    Deadlines = {4}
    Expiries = {3}
    CancelSpaces = {2, 3}
SPECIFICATION Spec
INVARIANTS
    NonceSpentOnce
PROPERTIES
    EligibilityOnlyByActivation
