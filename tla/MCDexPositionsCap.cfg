\* Two candidates for two tokens and a cap of one live position.
CONSTANTS
    c1 = c1
    c2 = c2
    t1 = t1
    t2 = t2
    Cands = {c1, c2}
    Tokens = {t1, t2}
    TokenOf <- TwoTokens
    MaxLive = 1
    Size = 3
    Slip = 0
    Portions <- MCPortions
    Triggers <- MCTriggers
    StopAt = 88
    TrailPct = 10
    Prices = {80, 125, 140}
    MaxBoots = 1
SPECIFICATION DexSpec
INVARIANT LiveCap
CHECK_DEADLOCK FALSE
