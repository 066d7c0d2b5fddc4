SPECIFICATION FairSpec
CONSTANTS
    d1 = d1
    d2 = d2
    c1 = c1
    c2 = c2
    None = None
    Daemons <- TwoDaemons
    Downs <- TwoDowns
    Crashing <- OneCrashes
INVARIANTS TypeOK FilesTellDaemon TeardownLeavesNothing
PROPERTY SignalEndsDaemon
CHECK_DEADLOCK FALSE
