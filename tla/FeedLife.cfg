SPECIFICATION FairSpec
CONSTANTS
    i1 = i1
    i2 = i2
    Instruments <- TwoInstruments
    Definitions = {v1}
    Interval = 1
    MaxRefresh = 0
    Required = TRUE
    FallbackEnabled = TRUE
    HTTPEnabled = TRUE
    MaxKills = 1
    None = None
INVARIANTS
    NothingBeforeMetadata
    DrainedOrCounted
    NothingLeftOpen
PROPERTIES
    SignalEndsProcess
    StreamsStart
CHECK_DEADLOCK FALSE
