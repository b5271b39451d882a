SPECIFICATION FairSpec
CONSTANTS
    Peer = {p, q}
    Session = {s1, s2}
    Nobody = Nobody
    K_BUCKET = 1
    CHANNEL = 2
    REQUESTS = 1
PROPERTIES
    
    
    CarrierLossEnds
    
