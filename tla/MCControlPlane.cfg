SPECIFICATION FairSpec
CONSTANTS
    h1 = h1
    h2 = h2
    a1 = a1
    None = None
    Holders <- TwoHolders
    Agents <- OneAgent
    Asks <- Divided
    CmdCap = 1
INVARIANTS TypeOK TaggedUnlessOverlapped
PROPERTIES PathOfPooled PeersAnswered
CHECK_DEADLOCK FALSE
