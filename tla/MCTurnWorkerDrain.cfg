SPECIFICATION Spec
CONSTANTS
    c1 = c1
    c2 = c2
    c3 = c3
    None = None
    Clients <- TwoClients
    Silent <- NoClient
    Big <- NoClient
    JobCap = 1
    Mortal = FALSE
PROPERTY FailedDrainMeansWedged
CHECK_DEADLOCK FALSE
