CONSTANTS
    Pages = {p1, p2}
    Ids = {i1, i2, i3}
    MaxPending = 2
    Lifetime = 1
SPECIFICATION Spec
PROPERTY SingleUse
