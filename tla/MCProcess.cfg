\* Two ticks of one symbol; two candidates of one token and two restarts; two
\* daemons; a day with three fills; two calls that
\* ask for prices and filters, one of which changes.
SPECIFICATION Spec
CONSTANTS
    s1 = s1
    t1 = t1
    t2 = t2
    x1 = x1
    Ticks = {t1, t2}
    Symbols = {s1}
    SymbolOf <- OneSymbol
    Clusters = {x1}
    Rungs = 2
    Configs = {{"scalp", "momentum_rt"}, {"deepseek_v2", "hmm"}, {"trend_follow", "hmm", "ensemble"}, {"liquidation_sniper"}}
    Togglable = {"trend_follow"}
    Horizon = 2
    Cool = 1
    Lag = 1
    ThinkMax = 1
    c1 = c1
    c2 = c2
    token = token
    Cands = {c1, c2}
    Tokens = {token}
    TokenOf <- OneToken
    MaxLive = 2
    Size = 3
    Slip = 1
    Portions <- MCPortions
    Triggers <- MCTriggers
    StopAt = 88
    TrailPct = 10
    Prices = {80, 125, 140}
    MaxBoots = 3
    Daemons = {"alerts", "anomalies"}
    Rules <- ShippedRules
    MaxPerWindow = 1
    MaxHandled = 2
    Optional = {"guardian", "listing", "dexSniper", "momentum"}
    LossLimit = 2
    Saved <- SavedResults
    MaxTrades = 3
    Calls = {t1, t2}
    Default = "futures"
    Budget = 4
    PriceSet = {1, 2}
    StepSet = {1, 2}
    MaxMoves = 1
INVARIANTS TrendInv NoPhantomIndex DexLedgerInv AlertInv LifeInv PricingInv
SYMMETRY TicksAlike
CHECK_DEADLOCK FALSE
