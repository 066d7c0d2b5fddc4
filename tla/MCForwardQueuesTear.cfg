SPECIFICATION FairSpec
CONSTANTS
    s1 = s1
    s2 = s2
    i1 = i1
    p1 = p1
    p2 = p2
    Shared = Shared
    Prompts <- NoPrompt
    IdOf <- SameId
    SessionOf <- ASessionEach
    Ids <- OneId
    ReplyKinds <- OnlyStops
    None = None
    LeaseBound = 2
    Sessions <- OneSession
    SoftBound = 2
    HardBound = 2
    BatchMax = 2
    FrameBound <- ThreeEach
    TotalBound = 5
    Size <- AllLight
    Crashing <- NoClient
    Mortal = FALSE
PROPERTY TearEndsOneLease
CHECK_DEADLOCK FALSE
