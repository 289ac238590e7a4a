\* Two coins and one restart; two coins of money, a top-up that always has
\* work; two probes in parallel behind one slot.
SPECIFICATION Spec
CONSTANTS
    Coins = {c1, c2}
    Configured = {c1}
    TopN = 1
    Rest = 1
    MaxNews = 1
    MaxStarts = 2
    Rails = {app}
    Cash = 2
    MinFutures = 1
    Chunk = 1
    Floor = 1
    DrawdownPct = 50
    Cooldown = 2
    Probed = {s1, s2}
    PerRound = 2
    Parallel = 1
    ErrLimit = 2
    ErrRest = 1
    MaxKeys = 1
    MaxUnsure = 2
INVARIANTS UniverseInv EquityInv ProbeInv
PROPERTIES ChoiceIsAsked BreakerLifts RoundEnds
CHECK_DEADLOCK FALSE
