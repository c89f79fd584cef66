CONSTANTS
    Q192 = 16
    MAX_AMOUNT = 13
    MinSqrt = 3
    MaxSqrt = 6
    ManyOrders = 4
    SmallUnits = 3
    FewOrders = 3
    LargeUnits = 7
    Batches <- MCBatches
    SqrtPrices = {2, 3, 4, 5}
SPECIFICATION Spec
INVARIANTS
    TypeOK
    HookBalanced
    AllocationsWithinOrders
    SharesAreProportional
    CrossesAtReferencePrice
    OnlyDustIsLeft
CHECK_DEADLOCK FALSE
