CONSTANTS
    NoValue = NoValue
    ana = ana
    bob = bob
    eve = eve
    c1 = c1
    c2 = c2
    Runs = {c1, c2}
    Invocations <- MCInvocations
    Owners = {ana, bob}
    MaxNonce = 1
SPECIFICATION Spec
SYMMETRY Symmetry
CHECK_DEADLOCK FALSE
INVARIANTS
    SubmittedIsAccepted
    PostedIsOnFile
