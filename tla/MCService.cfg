SPECIFICATION PartSpec
CONSTANTS
    Symbols = {btc, eth}
    Shapes <- MCShapes
    MmMarkets = {btc}
    Interval = 2
    MaxOrders = 3
    MaxClock = 2
    MaxFaults = 1
CONSTRAINT Bounded
INVARIANTS
    ReportsComplete
    FilePerSend
    HandedOverOnce
    DepthExact
PROPERTIES
    BufferedIsHandled
CHECK_DEADLOCK FALSE
