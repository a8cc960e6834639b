SPECIFICATION FairSpec
CONSTANTS
    FallbackMaxDuration = 1
    ClockSkewDegradedMS = 3
    ClockSkewStaleMS = 9
    Streams <- OneStream
    Sockets <- OneSocket
    Instruments <- OneInstrument
    SocketOf <- OneSocketOf
    InstrumentOf <- OneInstrumentOf
    registered <- OneRegistered
    order <- OneOrder
    MetadataRequired = FALSE
    Reporters = {"r1", "r2"}
    SocketReasons = {""}
    MetadataReasons = {"metadata unavailable"}
    FailReasons = {"rest poll failed"}
    SkewValues <- OneSkewValue
    MaxLeaked = 1
    MaxRestarts = 1
    MaxReconnects = 1
    MaxNow = 2
    MaxReports = 3
    MaxLostWrites = 1
PROPERTIES
    PastMaximumNoticed
    KeysCatchUp
CHECK_DEADLOCK FALSE
