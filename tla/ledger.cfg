SPECIFICATION FairSpec
CONSTANTS
    Replica = {r1, r2}
    NoReplica = NoReplica
    Fingerprint = {f1}
    B = 2
    MaxCrashes = 2
    MaxCorruptions = 1
    MaxResets = 1
INVARIANTS
    BudgetNeverExceeded
    FileCoversServed
    NeverTorn
    NoOvercharge
PROPERTIES
    ImplementsBudget
    MethodsReturn
