CONSTANTS
    NoValue = NoValue
    dep = dep
    iss = iss
    oth = oth
    Reviewed <- MCReviewed
    Invocations <- MCInvocations
    Checkout <- MCCheckout
    StartNonce = 1
    MaxWrong = 3
SPECIFICATION Spec
INVARIANTS
    ManifestOnlyWhenDeployed
    JournalIsTrue
    SignersAgree
PROPERTIES
    EndsWithManifest
