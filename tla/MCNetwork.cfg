CONSTANTS
    Nodes <- Ids
    Nobody = Nobody
    Dist <- XorDist
    Topologies <- NearAndFar
    Pairs <- NearAndFarPairs
    ONLY_STABLE = FALSE
    REQUESTS = 2
    BREAKS = 1
SPECIFICATION Spec
INVARIANTS
    TypeOK
    
    
    GivenOnce
    
    
CONSTRAINT Followed
CHECK_DEADLOCK FALSE
