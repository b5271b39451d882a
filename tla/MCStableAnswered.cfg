CONSTANTS
    KINDS = {"tcp"}
    CHANNEL = 1
    WINDOW = 1
    BEATS = 0
SPECIFICATION Spec
PROPERTY StableAnswered
CHECK_DEADLOCK FALSE
