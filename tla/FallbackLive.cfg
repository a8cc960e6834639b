SPECIFICATION LiveSpec
CONSTANTS
    FallbackMaxDuration = 0
    ClockSkewDegradedMS = 0
    ClockSkewStaleMS = 0
    Streams <- TwoStreams
    order <- TwoOrder
    MaxConcurrentPolls = 1
    reasonCapacity = "failed"
    reasonPoll = "failed"
    reasonEmpty = "failed"
    Notifications = TRUE
    Stoppable = TRUE
    Slots = {1, 2}
    NoPoller = NoPoller
ACTION_CONSTRAINT OneAtATime
PROPERTIES
    SilenceIsReported
    ShutdownCompletes
