SPECIFICATION FairSpec
CONSTANTS
    ConsecutiveFailures = 2
    OpenDuration = 2
    Streams = {s1, s2}
    ConnectGrace = 1
    ExpiryWindow = 1
    ConnMaxAge = TRUE
    Conns = {k1, k2, k3, k4}
    Wedgeable = {k1, k2}
    MaxLeaked = 1
    Stoppable = TRUE
    None = None
INVARIANTS
    NoConnectionForgotten
    LeaksCounted
PROPERTIES
    BreakerRespected
    ShutdownReturns
    FreedSessionEnds
