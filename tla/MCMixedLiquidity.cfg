CONSTANTS
    Users = {alice}
    Nonces = {1, 2}
    Prices = {0, 1}
    MaxPrice = 1
    Deltas = {1}
    Limits = {0, 1}
    Funds = 2
    MaxFees = 1
    MaxActivations = 1
SPECIFICATION Spec
PROPERTIES
    HoldersGetOut
