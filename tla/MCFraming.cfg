\* Two frames of up to two entries, over keys that exercise std::map order
\* and values with a byte of 255; every frame's CRC is computed twice or
\* more when the sender adds after a checksum.
CONSTANTS
    Types <- MCTypes
    Keys <- MCKeys
    Values <- MCValues
    CalculateCRC32 <- MCCalculateCRC32
    RefCRC32 <- MCRefCRC32
    MaxEntries = 2
    MaxFrames = 2
SPECIFICATION Spec
\* a sender that stops sending leaves the receiver blocked in readExact
CHECK_DEADLOCK FALSE
INVARIANT TypeOK
INVARIANT ReceiveRoundTrip
INVARIANT StreamFramingRoundTrip
INVARIANT ChecksumsVerify
INVARIANT CRCMatchesReference
