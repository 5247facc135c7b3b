SPECIFICATION Spec
CONSTANTS
    o1 = o1
    o2 = o2
    Object = {o1, o2}
    NoObject = NoObject
    Key <- TwoKeys
    NoKey = NoKey
    MaxTime = 1
    MaxEpoch = 2
    MaxIssued = 2
    MaxReset = 2
INVARIANTS
    ServedAuthorized
    RevocationSticksUntilReset
