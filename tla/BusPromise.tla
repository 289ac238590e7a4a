------------------------------- MODULE BusPromise -------------------------------
(***************************************************************************)
(* What the event bus promises, without its queue, worker, semaphore or     *)
(* shutdown: an accepted event is handled once, handling begins in the      *)
(* order of acceptance, and at most Slots events are handled at a time.     *)
(***************************************************************************)
EXTENDS Sequences, FiniteSets, Integers

CONSTANTS Events, Slots, Room

VARIABLES waiting,    \* accepted events in order, at most Room of them
          handling,   \* events whose handlers run
          handled     \* events whose handlers have all returned

Known == {waiting[i] : i \in DOMAIN waiting} \cup handling \cup handled

Init == waiting = <<>> /\ handling = {} /\ handled = {}

Accept(e) ==
    /\ e \notin Known /\ Len(waiting) < Room
    /\ waiting' = Append(waiting, e)
    /\ UNCHANGED <<handling, handled>>

Begin ==
    /\ waiting # <<>> /\ Cardinality(handling) < Slots
    /\ handling' = handling \cup {Head(waiting)}
    /\ waiting' = Tail(waiting)
    /\ UNCHANGED handled

End(e) ==
    /\ e \in handling
    /\ handling' = handling \ {e}
    /\ handled' = handled \cup {e}
    /\ UNCHANGED waiting

Next == Begin \/ \E e \in Events : Accept(e) \/ End(e)
Spec == Init /\ [][Next]_<<waiting, handling, handled>>
=============================================================================
