CONSTANTS
    MaxRunLength = 2
    PacketBytes <- Bits
    MaxLength = 5
    MaxFaults = 2
SPECIFICATION Spec
INVARIANTS
    TypeOK
    RoundTrip
    SelfDelimiting
    InStep
