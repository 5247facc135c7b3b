SPECIFICATION Spec
CONSTANTS
    r1 = r1
    r2 = r2
    w1 = w1
    w2 = w2
    Reader = {r1, r2}
    Writer = {w1}
    Leaver = {r1}
    Streams = {{}, {r1}, {r1, r2}}
    Abortable = {r2}
    Extending <- PrefixRids
    MaxTokens = 2
    MaxRetracts = 1
INVARIANTS
    LockInv
    AbortFindsState
    StrandedOnlyByOthers
    UpdateSparesWaiters
PROPERTIES
    ImplementsLock
    DrainEnds
    CallsEnd
CHECK_DEADLOCK FALSE
