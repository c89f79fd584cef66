CONSTANTS
    u1 = u1
    u2 = u2
    Q192 = 16
    MAX_AMOUNT = 9
    MinSqrt = 3
    MaxSqrt = 5
    Users = {u1, u2}
    Nonces = {1, 2}
    Orders <- MCOrders
    Signed <- MCSigned
    HashOf <- MCHashOf
    Prices = {2, 4, 5, 6}
    AmmOutputs = {0, 1, 2}
    Funds <- MCFunds
    Liquidity <- MCLiquidity
    MaxBatch = 3
    MaxTime = 2
    MaxActivations = 1
SPECIFICATION Spec
INVARIANTS
    NothingOutlivesACall
    AccountsSquare
    SubmitterHasNoSay
    PriceStaysInBand
PROPERTIES
    CallsAreSettlements
