\* Two requests of two keys; three orders within a lock.
SPECIFICATION Spec
CONSTANTS
    Reqs = {r1, r2}
    HttpKeys = {h1}
    SignalKeys = {s1}
    Tags = {t1}
    Forms = {"full"}
    Notionals = {1, 2}
    a1 = a1
    b1 = b1
    k1 = k1
    Strategies = {a1, b1, k1}
    Traded = {btc, eth}
    Allowed = {btc, eth}
    Quotes = {0, 2, 3}
    Markets = {"spot", "margin"}
    Enabled = {"spot"}
    MinNotional = 1
    MaxNotional = 2
    Share <- Shares
    SymbolCap = 3
    TotalCap = 3
    MaxPerMin = 1
    Minute = 1
    LockTtl = 3
    LastInstant = 3
    MaxSent = 3
    MaxDrift = 1
INVARIANTS AdmissionInv OneInFlight PendingMatches CacheSound NoFillBookedTwice
PROPERTIES KeyOnce
SYMMETRY Alike
CHECK_DEADLOCK FALSE
