CONSTANTS
    RxSize = 4
    TxSize = 8
    MaxPacket = 3
    Kinds = {"ok"}
    RxLength <- Requested
    TxLength <- Sent
    MaxRequests = 1
    PollLocks = TRUE
    Echo = FALSE
SPECIFICATION BusyDemoSpec
PROPERTIES
    QueuedIsSent
