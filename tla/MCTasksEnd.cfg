CONSTANTS
    KINDS = {"tcp"}
    CHANNEL = 1
    WINDOW = 1
    BEATS = 0
SPECIFICATION Spec
PROPERTY TasksEnd
CHECK_DEADLOCK FALSE
