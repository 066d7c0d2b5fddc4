SPECIFICATION Spec
CONSTANTS
    c1 = c1
    c2 = c2
    p1 = p1
    p2 = p2
    i1 = i1
    i2 = i2
    k1 = k1
    None = None
    Clients <- BothClients
    Prompts <- OnePrompt
    Ids <- OneId
    Calls <- NoCalls
    ReplyKinds <- OnlyStops
    StdinCap = 1
    PipeCap = 1
    ChunkMax = 1
    Crashing <- NoClient
    Mortal = FALSE
PROPERTY StealOnlyAtBoundary
CHECK_DEADLOCK FALSE
