SPECIFICATION Spec
CONSTANTS
    MaxInbox = 2
    PriceExp <- MCPriceExp
    SizeExp <- MCSizeExp
    RateExp <- MCRateExp
    MaxDigits = 2
    MaxInt = 92
    Millisecond = 4
    minTimestampMS = 5
    maxTimestampMS = 25
    Files <- MCFiles
    FramesOf <- MCFramesOf
    ResponsesOf <- MCResponsesOf
    ListingsOf <- MCListingsOf
INVARIANTS
    HandedOverLive
    NoSocketLeft
    PlanIsSound
    FiledUnderItsStream
    FramesWhole
    PricesExact
    NoContractPassedOver
PROPERTIES
    DialReturns
    PingerEnds
CHECK_DEADLOCK FALSE
