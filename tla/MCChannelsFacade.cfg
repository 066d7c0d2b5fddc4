SPECIFICATION FairSpec
CONSTANTS
    s1 = s1
    s2 = s2
    p1 = p1
    p2 = p2
    a1 = a1
    None = None
    Sessions <- TwoSessions
    Prompts <- TwoPrompts
    Asks <- OneAsk
    Obedient = FALSE
INVARIANTS TypeOK TimersMatchTurns
PROPERTIES OwnTurn AllowMeansAsked CancelAnswered EveryoneAnswered
CHECK_DEADLOCK FALSE
