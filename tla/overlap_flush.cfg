SPECIFICATION Spec
CONSTANTS
    q1 = q1
    q2 = q2
    q3 = q3
    NoReq = NoReq
    Request = {q1, q2, q3}
    Meta <- Prompts
    NumSlots = 7
    ServerArgs <- StartedWith
    ClipOut = 3
    Slack = 0
    RetractSteps = 2
    Chunk = 2
    FlushInFlight = TRUE
INVARIANTS
    ResultIsLastBatch
