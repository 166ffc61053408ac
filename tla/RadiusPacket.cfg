CONSTANTS
    Byte = {1, 2}
    MaxDataLength = 2
    DigestLength = 2
    HeaderLength = 20
    MaxAvps = 4
SPECIFICATION PacketSpec
INVARIANTS PacketInv IntactIsAccepted
