CONSTANTS
    Size = 4
    MaxPacketSize = 3
    CursorModulus = 8
    ByteModulus = 4
    Elements <- TwoValues
    EmptyNotifyWhenFull = FALSE
SPECIFICATION FairSpec
INVARIANTS
    TypeOK
    CursorsOrdered
    PublishedIntact
    HeldFrameIsOldest
    IndInv
PROPERTIES
    ImplementsFrameQueue
    PublishedIsTaken
