SPECIFICATION MCSpec
CONSTANTS
    n1 = n1
    n2 = n2
    n3 = n3
    Nodes = {n1, n2, n3}
    Ttl = 1
    MaxCrashes = 1
INVARIANT OneEngine
PROPERTY ReapSparesPeers
PROPERTY CancelHolds
PROPERTY MCOrphanAdopted
CHECK_DEADLOCK FALSE
