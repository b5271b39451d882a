CONSTANTS
    Peers = {"a", "b", "c"}
    NoId = "none"
    Nobody = "nobody"
    AddrOf <- TheAddrOf
    Public = {"a", "b"}
    Zero <- TheNone
    Kind <- TheKind
    MAIN = "quic"
    Config <- TheConfig
    BlockedIds = {}
    BlockedIps = {"2.2"}
    CRASHES = 2
    EVENTS = 4
SPECIFICATION Spec
INVARIANTS TypeOK SameIdentity SeedsOnce 
 
CHECK_DEADLOCK FALSE
