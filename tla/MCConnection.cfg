CONSTANTS
    KINDS = {"tcp", "quic"}
    CHANNEL = 1
    WINDOW = 1
    BEATS = 0
SPECIFICATION Spec
INVARIANTS TypeOK AnsweredFirst
PROPERTIES  QuicTasksEnd
CHECK_DEADLOCK FALSE
