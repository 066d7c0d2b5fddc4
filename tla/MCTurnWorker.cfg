SPECIFICATION FairSpec
CONSTANTS
    c1 = c1
    c2 = c2
    c3 = c3
    None = None
    Clients <- ThreeClients
    Silent <- LastClient
    Big <- OneClient
    JobCap = 2
    Mortal = TRUE
INVARIANTS TypeOK OwnReply OneTurnAtATime
PROPERTIES EveryRequestAnswered TeardownEnds
CHECK_DEADLOCK FALSE
