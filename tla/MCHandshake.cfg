SPECIFICATION MCSpec
CONSTANTS
    Node = {a, b}
    KEYS = 4
    MISSED = 0
INVARIANTS
    TypeOK
    AnswerAgrees
    StreamAgrees

    
CHECK_DEADLOCK FALSE
