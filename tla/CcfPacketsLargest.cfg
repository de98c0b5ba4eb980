CONSTANTS
    Base = 128
    EmbeddedMax = 3
    Prime = 5
    InitialHash = 100000007
    MaxPacket = 127
    RamSize = 130
    Calls <- Table
    Apply <- TableApply
    HostCalls <- Asked
    DamagedCalls <- Damageable
    ForeignCalls <- Strange
    LogCalls <- Logged
    MaxPackets = 2
SPECIFICATION Spec
CHECK_DEADLOCK FALSE
INVARIANTS
    AnswersEveryRun
