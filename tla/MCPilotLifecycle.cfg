CONSTANTS
    Setup <- MCSetup
    Foreign <- MCForeign
    Delay = 8
    MaxWrong = 2
    Exposed <- MCExposed
    MaxPerBlock = 2
SPECIFICATION Spec
INVARIANTS
    OneTransactionPerStep
    VerifiedAsAWhole
    RefusedForWhatIsTested
CHECK_DEADLOCK FALSE
