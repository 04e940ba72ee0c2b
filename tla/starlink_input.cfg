CONSTANTS
    Symbols <- MCSymbols
    LF = "LF"
    CR = "CR"
    Streams <- MCStreams
    MaxBufferBytes = 22
    MaxResets = 1
    Comma = ","
    Return = "CR"
    Heads <- MCHeads
    Checksum = "*"
    DeviceOf <- MCDeviceOf
    IntIn <- MCIntIn
    FloatIn <- MCFloatIn
    Digits <- MCDigits
    TimeIn <- MCTimeIn
    CoordinateIn <- MCCoordinateIn
    Null = Null
    FormatTags <- MCFormatTags
SPECIFICATION Spec
INVARIANTS TypeOK MemoryBounded LinesAreExact EveryMessageIsDecoded OnlySentIsDecoded
CHECK_DEADLOCK FALSE
