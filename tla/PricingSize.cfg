\* A client that never had a price, while prices stand still.
SPECIFICATION PricingSpec
CONSTANTS
    Calls = {c1, c2}
    Default = "futures"
    Budget = 4
    PriceSet = {1, 2}
    StepSet = {1, 2}
    MaxMoves = 0
INVARIANT SizeRailed
CHECK_DEADLOCK FALSE
