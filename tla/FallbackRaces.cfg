SPECIFICATION Spec
CONSTANTS
    FallbackMaxDuration = 0
    ClockSkewDegradedMS = 0
    ClockSkewStaleMS = 0
    Streams <- TwoStreams
    order <- TwoOrder
    MaxConcurrentPolls = 1
    reasonCapacity = "failed"
    reasonPoll = "failed"
    reasonEmpty = "failed"
    Notifications = FALSE
    Stoppable = TRUE
    Slots = {p1, p2}
    NoPoller = NoPoller
CONSTRAINT OtherIsStuck
SYMMETRY SlotSymmetry
INVARIANTS
    OwnerAlive
    NoPollerForgotten
    ShutdownIsClean
    CapHolds
