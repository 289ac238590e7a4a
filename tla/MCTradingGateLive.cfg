\* Liveness of the gate's loops: one day of one process lifetime, a bus
\* with one slot that other publishers keep filling.
SPECIFICATION FairSpec
CONSTANTS
    LossLimit = 1
    QueueMax  = 1
    LastDay   = 0
    PnlBound  = 1
    MaxBoots  = 1
PROPERTIES
    
    PauseIsDelivered
    BreakerFollowsStream
