SPECIFICATION FairSpec
CONSTANTS
    p1 = p1
    p2 = p2
    j1 = j1
    j2 = j2
    Main = Main
    None = None
    Sups <- TwoSups
    Jobs <- TwoJobs
    Prespawn = 1
    MaxSeq = 2
    Crashing <- OneSup
INVARIANTS TypeOK FilesTellPool TeardownLeavesNothing
PROPERTY StartUpServes
CHECK_DEADLOCK FALSE
