SPECIFICATION MetadataSpec
CONSTANTS
    i1 = i1
    i2 = i2
    Instruments <- TwoInstruments
    Definitions = {v1, v2}
    Interval = 3
    MaxRefresh = 1
    Required = TRUE
    None = None
SYMMETRY DefinitionSymmetry
INVARIANTS
    FreshnessHonest
    KeptWhileRefreshed
    LogAccountsForKeys
CHECK_DEADLOCK FALSE
