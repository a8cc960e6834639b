SPECIFICATION Spec
CONSTANTS
    FallbackMaxDuration = 1
    ClockSkewDegradedMS = 3
    ClockSkewStaleMS = 9
    Streams <- MCStreams
    Sockets <- MCSockets
    Instruments <- MCInstruments
    SocketOf <- MCSocketOf
    InstrumentOf <- MCInstrumentOf
    registered <- MCRegistered
    order <- MCOrder
    MetadataRequired = TRUE
    Reporters = {"r1"}
    SocketReasons = {""}
    MetadataReasons = {"metadata unavailable"}
    FailReasons = {"rest poll failed"}
    SkewValues <- MCSkewValues
    MaxLeaked = 1
    MaxRestarts = 0
    MaxReconnects = 0
    MaxNow = 2
    MaxReports = 4
    MaxLostWrites = 0
INVARIANTS
    StreamsCoherent
    InstrumentsCoherent
    VenueCoherent
    NeverOverstated
CHECK_DEADLOCK FALSE
