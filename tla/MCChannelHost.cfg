SPECIFICATION FairSpec
CONSTANTS
    s1 = s1
    s2 = s2
    p1 = p1
    p2 = p2
    None = None
    Servers <- TwoServers
    Prompts <- TwoPrompts
INVARIANTS TypeOK OneConnection
PROPERTIES LinesArrive TurnsAnswered ConfirmedOnce
CHECK_DEADLOCK FALSE
