SPECIFICATION FairSpec
CONSTANTS
    ConsecutiveFailures = 2
    OpenDuration = 2
    Streams = {s1, s2}
    ConnectGrace = 1
    ExpiryWindow = 1
    ConnMaxAge = FALSE
    Conns = {k1, k2}
    Wedgeable = {k1}
    MaxLeaked = 0
    Stoppable = FALSE
    None = None
PROPERTY
    ClosedSessionEnds
