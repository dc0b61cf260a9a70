SPECIFICATION Spec
CONSTANTS
    Names = {g, b}
    GenName = g
    Keys = {k1, k2, o1, o2}
    OwnKeys = {o1, o2}
    NoKey = NoKey
    BadKey = BadKey
    MaxEdits = 3
    MaxCrashes = 0
    SecretLoss = FALSE
    SettledStarts = FALSE
INVARIANTS
    OneEffectiveKey
