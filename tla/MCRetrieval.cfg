SPECIFICATION RetrievalSpec
CONSTANTS
    t1 = t1
    t2 = t2
    t3 = t3
    t4 = t4
    Order <- MCOrder
    Worlds <- MCWorlds
    Evidence <- MCEvidence
    MaxVerified = 1
    TopK = 2
    MinNeighbors = 1
    Floor = 3
    MinFinalized = 2
    Null = Null
INVARIANT FirewallHolds
INVARIANT ShadowNeverBolder
CHECK_DEADLOCK FALSE
