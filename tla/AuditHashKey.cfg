SPECIFICATION FairSpec
CONSTANTS
    Names = {g, b}
    GenName = g
    Keys = {k1, k2, k3, k4, o1, o2}
    OwnKeys = {o1, o2}
    NoKey = NoKey
    BadKey = BadKey
    MaxEdits = 3
    MaxCrashes = 1
    SecretLoss = TRUE
    SettledStarts = TRUE
INVARIANTS
    OneEffectiveKey
    EffectiveKeyIsOnRecord
    NoSelfLockout
PROPERTIES
    LostKeyIsNotRegenerated
    ImplementsWriteOnceKey
    KeyIsProvisioned
