SPECIFICATION Spec
CONSTANTS
    c1 = c1
    c2 = c2
    p1 = p1
    p2 = p2
    i1 = i1
    i2 = i2
    k1 = k1
    None = None
    Clients <- BothClients
    Prompts <- TwoPrompts
    Ids <- TwoIds
    Calls <- OneCall
    ReplyKinds <- StopsAndErrors
    StdinCap = 1
    PipeCap = 2
    ChunkMax = 2
    Crashing <- NoClient
    Mortal = TRUE
INVARIANTS TypeOK BoundaryIsQuiet OpenTurnIsLive ExclusiveLease
SYMMETRY Symmetry
CHECK_DEADLOCK FALSE
