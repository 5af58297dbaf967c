CONSTANTS
    ByteRange = 3
    FlapId = 2
    Channel <- MCChannel
    Payload <- MCPayload
    MaxLength = 2
    MaxPackets = 2
    MaxConnections = 2
SPECIFICATION Spec
INVARIANTS
    ErrorMeansBroken
    NothingLost
PROPERTIES
    ImplementsPacketStream
    EventuallyEmitted
CHECK_DEADLOCK FALSE
