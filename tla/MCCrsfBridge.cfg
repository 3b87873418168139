SPECIFICATION Spec
CONSTANTS
    MaxPayload = 2
    ChannelsLen = 1
    Slots = 1
    NoPacket = NoPacket
INVARIANTS
    TypeOK
    WholePackets
    InStep
PROPERTY IntactQueued
