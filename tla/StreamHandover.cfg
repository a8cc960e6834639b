SPECIFICATION FairSpec
CONSTANTS
    Slots = {g1, g2}
    Readers = {r1, r2}
    MaxFrames = 3
    MaxLeaked = 1
    None = None
INVARIANTS
    NoLostWakeup
    StraysCounted
PROPERTIES
    KeepsRegister
    StaleRestartDropped
    NewestTaken
