SPECIFICATION Spec
CONSTANTS
    FallbackMaxDuration = 0
    ClockSkewDegradedMS = 0
    ClockSkewStaleMS = 0
    Streams <- OneStream
    order <- OneOrder
    MaxConcurrentPolls = 1
    reasonCapacity = "fallback at capacity"
    reasonPoll = "rest poll failed"
    reasonEmpty = "rest returned no value"
    Notifications = TRUE
    Stoppable = FALSE
    Slots = {p1, p2}
    NoPoller = NoPoller
INVARIANT
    FallbackToldTruly
