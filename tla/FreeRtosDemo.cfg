CONSTANTS
    RxSize = 4
    TxSize = 8
    MaxPacket = 3
    Kinds = {"ok", "fails", "short"}
    RxLength <- Requested
    TxLength <- Sent
    MaxRequests = 2
    PollLocks = TRUE
    Echo = FALSE
SPECIFICATION DemoFairSpec
INVARIANTS
    DemoTypeOK
    LineWhole
    BusyMeansSending
PROPERTIES
    UsesCcf
    RequestIsPolled
    TransmitterRuns
