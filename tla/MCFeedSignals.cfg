SPECIFICATION Spec
CONSTANTS
    s1 = s1
    i1 = i1
    i2 = i2
    Items = {i1, i2}
    Symbols = {s1}
    Posts = {i2}
    SymbolOf <- OneSymbol
    PriorityOf <- Urgency
    Configs <- OneEach
    Calls = {1, 2}
    SeenMax = 1
    Keep = 1
    MaxParallel = 1
    Backlog = 1
    Ttl = 0
    Cool = 1
    Horizon = 1
 
PROPERTIES LockNeverShortens PromoOnce DispatcherReturns
