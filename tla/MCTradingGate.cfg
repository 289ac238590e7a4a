\* The trading gate: two days, two process lifetimes, a bus with one slot.
SPECIFICATION Spec
CONSTANTS
    LossLimit = 1
    QueueMax  = 1
    LastDay   = 1
    PnlBound  = 1
    MaxBoots  = 2
INVARIANTS
    
    LatchHasCause
PROPERTIES
    NoOrderWhileHalted
    OperatorOffHolds
CHECK_DEADLOCK TRUE
