CONSTANTS
    Callers = {1, 2}
    SeqCount = 2
    NumbersReused = FALSE
    FrameSize = 2
    MaxBuffer = 5
    MaxCalls = 3
    MaxLogs = 2
    MaxLine = 6
    MaxFaults = 1
SPECIFICATION Spec
CHECK_DEADLOCK FALSE
INVARIANTS
    TypeOK
    RightAnswer
    LogsInOrder
    LogsKept
PROPERTIES
    CallIsAnswered
