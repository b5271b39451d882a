SPECIFICATION FairSpec
CONSTANTS
    HEADER = 2
    BASE = 4
    Data <- MCData
    MESSAGES = 2
INVARIANTS
    TypeOK
    Framed
PROPERTY
    EndReported
CHECK_DEADLOCK FALSE
