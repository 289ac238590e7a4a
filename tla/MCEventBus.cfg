\* Two feed events, one of two handlers publishes in turn; a queue of one and
\* more slots than relays that may block.
SPECIFICATION FairSpec
CONSTANTS
    Roots = {e1, e2}
    Handlers = {relay, sink}
    Relays = {relay}
    QueueMax = 1
    Slots = 2
INVARIANTS SlotsAccounted StopDrains
PROPERTIES KeepsPromise BusDelivers
CHECK_DEADLOCK FALSE
