SPECIFICATION Spec
CONSTANTS
    Node = {a, b}
    KEYS = 3
    MISSED = 1
SYMMETRY Names
INVARIANT
    KeysMeet
CHECK_DEADLOCK FALSE
