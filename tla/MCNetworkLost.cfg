SPECIFICATION Spec
CONSTANTS
    Peer = {p, q}
    Session = {s1, s2}
    Nobody = Nobody
    K_BUCKET = 1
    CHANNEL = 1
    REQUESTS = 2
SYMMETRY Names
INVARIANT
    LostIsSeen
