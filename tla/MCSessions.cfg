SPECIFICATION Spec
CONSTANTS
    Peer = {p, q}
    Session = {s1, s2, s3}
    Nobody = Nobody
    K_BUCKET = 1
    CHANNEL = 1
    REQUESTS = 2
CONSTRAINT Bounded
SYMMETRY Names
INVARIANTS
    TypeOK
    KeyMatch
    SingleOwner
    DhtIsDirect
    
    StablesGuarded
    
    UnstableGone
