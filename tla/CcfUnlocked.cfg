CONSTANTS
    RxSize = 4
    TxSize = 8
    MaxPacket = 3
    Kinds = {"ok", "fails", "corrupt", "short"}
    RxLength <- Requested
    TxLength <- Sent
    MaxRequests = 3
    PollLocks = FALSE
SPECIFICATION Spec
INVARIANTS
    TxWhole
