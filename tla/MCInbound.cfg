SPECIFICATION PartSpec
CONSTANTS
    Symbols <- MCSymbols
    SymbolOf <- MCThree
    InvalidSets = {{1}, {2}}
    QueueCapacity = 1
    PageSize = 1
    MaxCrashes = 1
    MaxRevokes = 1
INVARIANTS
    RestoredOnce
    RevokeHonoured
    StartSound
    OrdersExecutable
    
    ReplayExact
CHECK_DEADLOCK FALSE
