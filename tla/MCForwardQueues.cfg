SPECIFICATION FairSpec
CONSTANTS
    s1 = s1
    s2 = s2
    i1 = i1
    p1 = p1
    p2 = p2
    Shared = Shared
    Prompts <- TwoPrompts
    IdOf <- SameId
    SessionOf <- ASessionEach
    Ids <- OneId
    ReplyKinds <- OnlyStops
    None = None
    LeaseBound = 2
    Sessions <- TwoSessions
    SoftBound = 3
    HardBound = 3
    BatchMax = 2
    FrameBound <- ThreeAndOne
    TotalBound = 3
    Size <- HeavySecond
    Crashing <- OldClient
    Mortal = TRUE
INVARIANTS TypeOK FramesIntact FairShare
PROPERTIES LanesSpec EligibleLaneDrains
CHECK_DEADLOCK FALSE
