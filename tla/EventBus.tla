-------------------------------- MODULE EventBus --------------------------------
(***************************************************************************)
(* EventBus: the bounded queue, the worker that hands events to deliveries  *)
(* within the limit of a semaphore, the handlers, and the shutdown.         *)
(*                                                                         *)
(* Every event is published once, by a task of its own (fire, or a loop     *)
(* that awaits publish).  Some handlers publish an event themselves while   *)
(* they handle one, and wait for room in the queue like everybody else.     *)
(* Urgent publishes (used by no caller) and a second start after a stop are *)
(* left out, and so are the statistics and the thread pool: a synchronous   *)
(* handler is a handler that takes its time.                                *)
(***************************************************************************)
EXTENDS Integers, Sequences, FiniteSets

CONSTANTS Roots,       \* what feeds and strategies publish
          Handlers,
          Relays,      \* the handlers that publish an event while they handle one
          QueueMax,    \* EVENTBUS_QUEUE_MAX
          Slots        \* the limit of the semaphore

ASSUME BusAssumption ==
    /\ Relays \subseteq Handlers
    /\ QueueMax \in Nat \ {0} /\ Slots \in Nat \ {0}
    /\ "source" \notin Handlers

\* An event is a root event, or what a relay publishes while it handles one.
Events   == Roots \X ({"source"} \cup Relays)
Topics   == {"feed", "signal"}
Topic(e) == IF e[2] = "source" THEN "feed" ELSE "signal"
None     == <<>>

VARIABLES
    phase,    \* "running", "stopping" (stop() waits), "stopped"
    subs,     \* _subscribers
    queue,    \* _queue
    worker,   \* where _process_events is: "get", "slot", "gone"
    held,     \* the event the worker holds while it waits for a slot
    free,     \* the value of the semaphore
    st,       \* where each event is
    todo,     \* the handlers an active delivery still waits for
    owed      \* history: the events in the bus when stop() was called

vars == <<phase, subs, queue, worker, held, free, st, todo, owed>>

TypeOK ==
    /\ phase \in {"running", "stopping", "stopped"}
    /\ subs \in [Topics -> SUBSET Handlers]
    /\ queue \in Seq(Events) /\ Len(queue) <= QueueMax
    /\ worker \in {"get", "slot", "gone"}
    /\ held \in Events \cup {None} /\ (held # None <=> worker = "slot")
    /\ free \in 0..Slots
    /\ st \in [Events -> {"new", "skipped", "blocked", "accepted", "active", "done"}]
    /\ todo \in [Events -> SUBSET Handlers]
    /\ owed \subseteq Events

Init ==
    /\ phase = "running"
    /\ subs = [t \in Topics |-> {}]
    /\ queue = <<>> /\ worker = "get" /\ held = None /\ free = Slots
    /\ st = [e \in Events |-> "new"]
    /\ todo = [e \in Events |-> {}]
    /\ owed = {}

-----------------------------------------------------------------------------
(* subscribe and unsubscribe: a delivery under way keeps its own list.        *)

Subscribe(t, h) ==
    /\ h \notin subs[t]
    /\ subs' = [subs EXCEPT ![t] = @ \cup {h}]
    /\ UNCHANGED <<phase, queue, worker, held, free, st, todo, owed>>

Unsubscribe(t, h) ==
    /\ h \in subs[t]
    /\ subs' = [subs EXCEPT ![t] = @ \ {h}]
    /\ UNCHANGED <<phase, queue, worker, held, free, st, todo, owed>>

-----------------------------------------------------------------------------
(* publish: dropped unless the bus runs, else queued, or blocked while full.  *)

\* Root events come from outside, the others from a relay at work.
CanPublish(e) ==
    /\ st[e] = "new"
    /\ e[2] = "source" \/ e[2] \in todo[<<e[1], "source">>]

\* Wrong variant: off by one.
FullByOne == Len(queue) > QueueMax
Full      == Len(queue) >= QueueMax

Publish(e) ==
    /\ CanPublish(e)
    /\ \/ /\ phase # "running"
          /\ st' = [st EXCEPT ![e] = "skipped"] /\ UNCHANGED queue
       \/ /\ phase = "running" /\ ~Full
          /\ st' = [st EXCEPT ![e] = "accepted"] /\ queue' = Append(queue, e)
       \/ /\ phase = "running" /\ Full
          /\ st' = [st EXCEPT ![e] = "blocked"] /\ UNCHANGED queue
    /\ UNCHANGED <<phase, subs, worker, held, free, todo, owed>>

\* A blocked put goes on when there is room, whatever stop() has done since.
PutWakes(e) ==
    /\ st[e] = "blocked" /\ ~Full
    /\ st' = [st EXCEPT ![e] = "accepted"]
    /\ queue' = Append(queue, e)
    /\ UNCHANGED <<phase, subs, worker, held, free, todo, owed>>

-----------------------------------------------------------------------------
(* _process_events.                                                          *)

\* Wrong variant: the event stays in the queue.
WorkerPeeks ==
    /\ worker = "get" /\ queue # <<>>
    /\ held' = Head(queue)
    /\ worker' = "slot"
    /\ UNCHANGED <<phase, subs, queue, free, st, todo, owed>>

WorkerGet ==
    /\ worker = "get" /\ queue # <<>>
    /\ held' = Head(queue) /\ queue' = Tail(queue)
    /\ worker' = "slot"
    /\ UNCHANGED <<phase, subs, free, st, todo, owed>>

\* The worker spawns the delivery, which reads the subscribers as it starts.
WorkerDispatch ==
    /\ worker = "slot" /\ free > 0
    /\ free' = free - 1
    /\ st' = [st EXCEPT ![held] = "active"]
    /\ todo' = [todo EXCEPT ![held] = subs[Topic(held)]]
    /\ held' = None /\ worker' = "get"
    /\ UNCHANGED <<phase, subs, queue, owed>>

\* Wrong variant: the worker leaves events behind.
WorkerExitsEarly ==
    /\ worker = "get" /\ phase = "stopping"
    /\ worker' = "gone"
    /\ UNCHANGED <<phase, subs, queue, held, free, st, todo, owed>>

WorkerExits ==
    /\ worker = "get" /\ phase = "stopping" /\ queue = <<>>
    /\ worker' = "gone"
    /\ UNCHANGED <<phase, subs, queue, held, free, st, todo, owed>>

-----------------------------------------------------------------------------
(* _deliver_event: gather waits for all handlers; errors are isolated.        *)

\* A relay returns, or fails, unless it is blocked in its own publish.
HandlerEnds(e, h) ==
    /\ h \in todo[e]
    /\ e[2] = "source" /\ h \in Relays => st[<<e[1], h>>] # "blocked"
    /\ todo' = [todo EXCEPT ![e] = @ \ {h}]
    /\ UNCHANGED <<phase, subs, queue, worker, held, free, st, owed>>

\* Wrong variant: the slot is not released.
DeliveryKeepsSlot(e) ==
    /\ st[e] = "active" /\ todo[e] = {}
    /\ st' = [st EXCEPT ![e] = "done"]
    /\ UNCHANGED <<phase, subs, queue, worker, held, free, todo, owed>>

DeliveryEnds(e) ==
    /\ st[e] = "active" /\ todo[e] = {}
    /\ st' = [st EXCEPT ![e] = "done"]
    /\ free' = free + 1
    /\ UNCHANGED <<phase, subs, queue, worker, held, todo, owed>>

-----------------------------------------------------------------------------
(* stop: no new publishes; wait for the worker, then for the deliveries.      *)

Active == {e \in Events : st[e] = "active"}

Stop ==
    /\ phase = "running"
    /\ phase' = "stopping"
    /\ owed' = {e \in Events : st[e] \in {"accepted", "active"}}
    /\ UNCHANGED <<subs, queue, worker, held, free, st, todo>>

Stopped ==
    /\ phase = "stopping" /\ worker = "gone" /\ Active = {}
    /\ phase' = "stopped"
    /\ UNCHANGED <<subs, queue, worker, held, free, st, todo, owed>>

Worker == WorkerGet \/ WorkerDispatch \/ WorkerExits

Next ==
    \/ Worker \/ Stop \/ Stopped
    \/ \E t \in Topics, h \in Handlers : Subscribe(t, h) \/ Unsubscribe(t, h)
    \/ \E e \in Events : Publish(e) \/ PutWakes(e) \/ DeliveryEnds(e)
    \/ \E e \in Events, h \in Handlers : HandlerEnds(e, h)

\* The event loop runs what is ready, handlers return, and a blocked put that
\* finds room again and again takes it.  Publishers owe nothing.
Spec == Init /\ [][Next]_vars
FairSpec ==
    /\ Spec
    /\ WF_vars(Worker) /\ WF_vars(Stopped)
    /\ \A e \in Events : SF_vars(PutWakes(e)) /\ WF_vars(DeliveryEnds(e))
    /\ \A e \in Events, h \in Handlers : WF_vars(HandlerEnds(e, h))

-----------------------------------------------------------------------------
(* Properties.                                                               *)

\* The accepted events in order: the one the worker holds comes first.
Line == (IF held = None THEN <<>> ELSE <<held>>) \o queue

\* The bus keeps its promise: events begin once, in order, within the limit.
Promise == INSTANCE BusPromise
             WITH Room     <- QueueMax + 1,
                  waiting  <- Line,
                  handling <- Active,
                  handled  <- {e \in Events : st[e] = "done"}
KeepsPromise == Promise!Spec

\* No slot of the semaphore is lost or made up, however handlers end and
\* whoever unsubscribes meanwhile.
SlotsAccounted == free + Cardinality(Active) = Slots

\* stop() returns only when everything the bus had accepted by then is handled.
StopDrains == phase = "stopped" => \A e \in owed : st[e] = "done"

\* Every accepted event is handled unless the bus is stopped, although relays
\* publish from inside a delivery (with fewer blocked relays than slots).
EventIsHandled ==
    \A e \in Events : st[e] = "accepted" ~> (st[e] = "done" \/ phase # "running")

\* stop() returns.
StopReturns == phase = "stopping" ~> phase = "stopped"

\* The bus finishes what it takes on, and what stop() waits for.
BusDelivers == EventIsHandled /\ StopReturns
=============================================================================
