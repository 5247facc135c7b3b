SPECIFICATION Spec
CONSTANTS
    Mode = "balanced"
    u1 = u1
    u2 = u2
    o1 = o1
    q1 = q1
    q2 = q2
    q3 = q3
    User = {u1, u2}
    NoUser = NoUser
    Object = {}
    NoObject = NoObject
    PublicTokens <- NoPublic
    Request = {q1, q3}
    Meta <- PrivateMeta
    Token = {1}
    ClipOut = 1
    NumSlots = 5
    Slack = 1
    RetractSteps = 2
    Chunk = 2
    ChunkSizes = {5}
    FlushMidChunk = FALSE
    B = 1
    Watched = {}
INVARIANTS
    CheckMemory
