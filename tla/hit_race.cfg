SPECIFICATION PSpec
CONSTANTS
    l1 = l1
    l2 = l2
    d1 = d1
    p1 = p1
    n1 = n1
    n2 = n2
    NoNode = NoNode
    Lookup = {l1, l2}
    Detector = {d1}
    Promoter = {p1}
    Node = {n1, n2}
    Edge <- Tokens
    NoEdge = NoEdge
    Deployment <- Race
    B = 2
    MaxServed = 3
    Text <- Lines
    Tier1 <- Rules
    Tier2 <- Screen
    Prompt <- AllPrompts
    NoPrompt = NoPrompt
    Inserts <- Requests
    MaxTasks = 2
INVARIANTS
    NoOvershoot
