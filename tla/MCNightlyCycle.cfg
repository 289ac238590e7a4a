\* Two runs of the script, whose batches, seconds and files may coincide.
SPECIFICATION SideSpec
CONSTANTS
    Jobs = {n1, n2}
    Trainings = {n1, n2}
    LastCandle = 2
    LastRev = 1
    Batch = 2
    LastSec = 1
    Requests = {q1}
    Subscribers = {hmm}
PROPERTIES PromotionReachesAll
INVARIANTS LedgerInv StoreInv
CHECK_DEADLOCK FALSE
