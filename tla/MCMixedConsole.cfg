CONSTANTS
    Q192 = 16
    MAX_AMOUNT = 13
    MinSqrt = 3
    MaxSqrt = 6
    Pages = {p}
    Manifests <- MCManifests
    World <- MCWorld
    Files <- MCFiles
    Lists <- MCLists
    Authorizations <- MCAuthorizations
    Genesis <- MCGenesis
    Prices = {3, 4}
    Funds = {0}
    MaxBlocks = 3
    MaxForks = 1
    MaxTime = 1
    MaxSent = 2
SPECIFICATION Spec
INVARIANTS
    StatusIsTheHooks
    QuoteIsTheSettlement
    CancelledStaysDead
CHECK_DEADLOCK FALSE
