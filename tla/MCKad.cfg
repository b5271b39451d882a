CONSTANTS
    KEY_LENGTH = 4
    MAX_LEVEL = 2
    K_BUCKET = 2
    root_peer <- MCRoot
    root_ip <- MCRoot
    PeerId <- MCPeerId
    Socket <- MCSocket
    KadValue <- MCKadValue
    Draw = {1, 2, 3}
SPECIFICATION Spec
INVARIANTS
    TypeOK
    Findable
    ClosestAnswered
    Buckets
    ValuesExact
PROPERTIES
    ImplementsMap
