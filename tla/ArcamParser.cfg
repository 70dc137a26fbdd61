SPECIFICATION ParserSpec
CONSTANTS
    Byte <- MCByte
    Streams <- MCStreams
INVARIANT ParserTypeOK
PROPERTIES AllDelivered
CHECK_DEADLOCK FALSE
