---------------------------- MODULE EventBus_proof ----------------------------
(***************************************************************************)
(* Proofs about EventBus, for any events, handlers, queue size and number   *)
(* of slots: the bus keeps its promise (EventBus implements BusPromise), no  *)
(* slot is lost or made up, and stop() drains what the bus had accepted.     *)
(***************************************************************************)
EXTENDS EventBus, FiniteSetTheorems, SequenceTheorems, TLAPS

\* The state formulae the invariants below consist of.

\* An accepted event waits at one place: in the hands of the worker or in the
\* queue; and only accepted events wait there.
Kept ==
    \A e \in Events : st[e] = "accepted" =>
        e = held \/ \E i \in 1..Len(queue) : queue[i] = e
Distinct ==
    /\ \A i \in 1..Len(queue) : st[queue[i]] = "accepted" /\ queue[i] # held
    /\ \A i, j \in 1..Len(queue) : queue[i] = queue[j] => i = j
    /\ held # None => st[held] = "accepted"
QueueInv == TypeOK /\ Kept /\ Distinct

\* Every slot is free or stands for an active delivery.
SlotInv == IsFiniteSet(Active) /\ SlotsAccounted

\* What stop() owes has begun when the worker is gone.
OwedInv ==
    /\ phase = "running" => owed = {} /\ worker # "gone"
    /\ \A e \in owed : st[e] \in {"accepted", "active", "done"}
    /\ worker = "gone" => \A e \in owed : st[e] # "accepted"
    /\ phase = "stopped" => worker = "gone" /\ \A e \in owed : st[e] = "done"

-----------------------------------------------------------------------------
\* No event is the empty hand of the worker.
LEMMA NoneIsNoEvent == None \notin Events
BY DEF None, Events

\* Appending an event to the queue.
LEMMA AppendFacts ==
    ASSUME NEW S, NEW q \in Seq(S), NEW e \in S
    PROVE  /\ Append(q, e) \in Seq(S)
           /\ Len(Append(q, e)) = Len(q) + 1
           /\ Append(q, e)[Len(q) + 1] = e
           /\ \A i \in 1..Len(q) : Append(q, e)[i] = q[i]
OBVIOUS

\* Taking the first event from the queue.
LEMMA TailFacts ==
    ASSUME NEW S, NEW q \in Seq(S), q # <<>>
    PROVE  /\ Len(q) >= 1 /\ Head(q) = q[1] /\ Head(q) \in S
           /\ Tail(q) \in Seq(S) /\ Len(Tail(q)) = Len(q) - 1
           /\ \A i \in 1..(Len(q) - 1) : Tail(q)[i] = q[i + 1]
BY HeadTailProperties, EmptySeq, LenProperties

-----------------------------------------------------------------------------
\* A put into the queue, by a publisher that finds room or by a blocked one.
Puts(e) ==
    /\ st[e] \in {"new", "blocked"} /\ ~Full
    /\ st' = [st EXCEPT ![e] = "accepted"]
    /\ queue' = Append(queue, e)
    /\ UNCHANGED <<phase, subs, worker, held, free, todo, owed>>

\* A publish that reaches no queue: skipped, or blocked.
Misses(e) ==
    /\ st[e] = "new"
    /\ st' \in {[st EXCEPT ![e] = "skipped"], [st EXCEPT ![e] = "blocked"]}
    /\ UNCHANGED <<phase, subs, queue, worker, held, free, todo, owed>>

\* A step that only changes who listens, whom a delivery still waits for, or
\* the phase of the bus.
Aside ==
    /\ UNCHANGED <<queue, held, free, st>>
    /\ worker' = worker \/ (WorkerExits /\ worker' = "gone")

\* The steps of the bus, as far as events and slots are concerned.
LEMMA StepKinds ==
    ASSUME [Next]_vars
    PROVE  \/ Aside
           \/ \E e \in Events : Puts(e) \/ Misses(e) \/ DeliveryEnds(e)
           \/ WorkerGet \/ WorkerDispatch
<1> USE DEF Aside
<1>1. CASE UNCHANGED vars BY <1>1 DEF vars
<1>2. CASE Worker         BY <1>2 DEF Worker, WorkerExits
<1>3. CASE Stop \/ Stopped BY <1>3 DEF Stop, Stopped
<1>4. CASE \E t \in Topics, h \in Handlers : Subscribe(t, h) \/ Unsubscribe(t, h)
    BY <1>4 DEF Subscribe, Unsubscribe
<1>5. ASSUME NEW e \in Events, Publish(e) PROVE Puts(e) \/ Misses(e)
    BY <1>5 DEF Publish, CanPublish, Puts, Misses
<1>6. ASSUME NEW e \in Events, PutWakes(e) PROVE Puts(e)
    BY <1>6 DEF PutWakes, Puts
<1>7. CASE \E e \in Events, h \in Handlers : HandlerEnds(e, h)
    BY <1>7 DEF HandlerEnds
<1> QED BY <1>1, <1>2, <1>3, <1>4, <1>5, <1>6, <1>7 DEF Next

-----------------------------------------------------------------------------
\* Slots: an active delivery takes one; a dispatch adds a delivery, its end
\* removes it, and no other step changes the active ones.
LEMMA ActiveTakesSlot ==
    ASSUME TypeOK, SlotInv, NEW e \in Events, st[e] = "active"
    PROVE  free < Slots
<1>1. e \in Active BY DEF Active
<1>2. Cardinality(Active) \in Nat /\ Cardinality(Active) # 0
    BY <1>1, FS_CardinalityType, FS_EmptySet DEF SlotInv
<1> QED BY <1>2, BusAssumption DEF SlotInv, SlotsAccounted, TypeOK, BusAssumption

\* The active deliveries after each kind of step.
LEMMA ActiveAfter ==
    ASSUME TypeOK, Distinct, [Next]_vars
    PROVE  \/ Active' = Active /\ free' = free
           \/ WorkerDispatch /\ Active' = Active \cup {held} /\ held \in Events \ Active
           \/ \E e \in Active : DeliveryEnds(e) /\ Active' = Active \ {e}
<1> USE DEF TypeOK, Active
<1>1. CASE Aside BY <1>1 DEF Aside
<1>2. CASE \E e \in Events : Puts(e)   BY <1>2 DEF Puts
<1>3. CASE \E e \in Events : Misses(e) BY <1>3 DEF Misses
<1>4. ASSUME NEW e \in Events, DeliveryEnds(e)
      PROVE  e \in Active /\ Active' = Active \ {e}
    BY <1>4 DEF DeliveryEnds
<1>5. CASE WorkerGet BY <1>5 DEF WorkerGet
<1>6. CASE WorkerDispatch
  <2>1. held \in Events /\ st[held] = "accepted"
    BY <1>6 DEF WorkerDispatch, Distinct
  <2> QED BY <1>6, <2>1 DEF WorkerDispatch
<1> QED BY <1>1, <1>2, <1>3, <1>4, <1>5, <1>6, StepKinds

LEMMA SlotInit == Init => SlotInv
<1> SUFFICES ASSUME Init PROVE SlotInv
    OBVIOUS
<1>1. Active = {} BY DEF Init, Active
<1> QED BY <1>1, FS_EmptySet, BusAssumption DEF Init, SlotInv, SlotsAccounted, BusAssumption

LEMMA SlotStep == TypeOK /\ Distinct /\ SlotInv /\ [Next]_vars => SlotInv'
<1> SUFFICES ASSUME TypeOK, Distinct, SlotInv, [Next]_vars PROVE SlotInv'
    OBVIOUS
<1>0. Cardinality(Active) \in Nat /\ IsFiniteSet(Active) /\ free \in Int /\ Slots \in Nat
    BY FS_CardinalityType, BusAssumption DEF SlotInv, TypeOK, BusAssumption
<1>1. CASE Active' = Active /\ free' = free
    BY <1>1 DEF SlotInv, SlotsAccounted
<1>2. CASE WorkerDispatch /\ Active' = Active \cup {held} /\ held \in Events \ Active
  <2>1. IsFiniteSet(Active') /\ Cardinality(Active') = Cardinality(Active) + 1
    BY <1>0, <1>2, FS_AddElement
  <2> QED BY <1>0, <1>2, <2>1 DEF WorkerDispatch, SlotInv, SlotsAccounted
<1>3. ASSUME NEW e \in Active, DeliveryEnds(e), Active' = Active \ {e} PROVE SlotInv'
  <2>1. IsFiniteSet(Active') /\ Cardinality(Active') = Cardinality(Active) - 1
    BY <1>0, <1>3, FS_RemoveElement
  <2> QED BY <1>0, <1>3, <2>1 DEF DeliveryEnds, SlotInv, SlotsAccounted
<1> QED BY <1>1, <1>2, <1>3, ActiveAfter

-----------------------------------------------------------------------------
\* The queue, the worker and the events keep their types.
LEMMA TypeInit == Init => TypeOK
BY BusAssumption, NoneIsNoEvent DEF Init, TypeOK, BusAssumption

LEMMA TypeStep == TypeOK /\ SlotInv /\ [Next]_vars => TypeOK'
<1> SUFFICES ASSUME TypeOK, SlotInv, [Next]_vars PROVE TypeOK'
    OBVIOUS
<1> USE BusAssumption, NoneIsNoEvent DEF BusAssumption, TypeOK
<1>1. CASE UNCHANGED vars BY <1>1 DEF vars
<1>2. ASSUME NEW t \in Topics, NEW h \in Handlers, Subscribe(t, h) \/ Unsubscribe(t, h)
      PROVE  TypeOK'
    BY <1>2 DEF Subscribe, Unsubscribe
<1>3. ASSUME NEW e \in Events, Publish(e) PROVE TypeOK'
  <2>1. CASE queue' = queue BY <1>3, <2>1 DEF Publish
  <2>2. CASE queue' = Append(queue, e) /\ ~Full
    BY <1>3, <2>2, AppendFacts DEF Publish, Full
  <2> QED BY <1>3, <2>1, <2>2 DEF Publish
<1>4. ASSUME NEW e \in Events, PutWakes(e) PROVE TypeOK'
    BY <1>4, AppendFacts DEF PutWakes, Full
<1>5. CASE WorkerGet BY <1>5, TailFacts DEF WorkerGet
<1>6. CASE WorkerDispatch
  <2>1. held \in Events /\ subs[Topic(held)] \in SUBSET Handlers
    BY <1>6 DEF WorkerDispatch, Topic, Topics
  <2> QED BY <1>6, <2>1 DEF WorkerDispatch
<1>7. CASE WorkerExits BY <1>7 DEF WorkerExits
<1>8. CASE Stop BY <1>8 DEF Stop
<1>9. CASE Stopped BY <1>9 DEF Stopped
<1>10. ASSUME NEW e \in Events, NEW h \in Handlers, HandlerEnds(e, h) PROVE TypeOK'
    BY <1>10 DEF HandlerEnds
<1>11. ASSUME NEW e \in Events, DeliveryEnds(e) PROVE TypeOK'
  <2>1. free < Slots BY <1>11, ActiveTakesSlot DEF DeliveryEnds
  <2> QED BY <1>11, <2>1 DEF DeliveryEnds
<1> QED
    BY <1>1, <1>2, <1>3, <1>4, <1>5, <1>6, <1>7, <1>8, <1>9, <1>10, <1>11 DEF Next, Worker

-----------------------------------------------------------------------------
\* The queue: what a put and a get do to the place of the accepted events.
LEMMA PutKeeps ==
    ASSUME QueueInv, NEW e \in Events, Puts(e)
    PROVE  Kept' /\ Distinct'
<1> USE DEF QueueInv, TypeOK, Puts
<1>1. /\ Len(queue') = Len(queue) + 1 /\ queue'[Len(queue) + 1] = e
      /\ \A i \in 1..Len(queue) : queue'[i] = queue[i]
      /\ Len(queue) \in Nat
    BY AppendFacts
<1>2. st' = [st EXCEPT ![e] = "accepted"] /\ held' = held /\ st[e] # "accepted"
    OBVIOUS
<1>3. Kept'
  <2> SUFFICES ASSUME NEW f \in Events, st'[f] = "accepted"
               PROVE  f = held \/ \E i \in 1..Len(queue') : queue'[i] = f
    BY <1>2 DEF Kept
  <2>1. CASE f = e BY <1>1, <2>1
  <2>2. CASE f # e
    <3>1. f = held \/ \E i \in 1..Len(queue) : queue[i] = f
      BY <1>2, <2>2 DEF Kept
    <3> QED BY <1>1, <3>1
  <2> QED BY <2>1, <2>2
<1>4. Distinct'
  <2>1. \A i \in 1..Len(queue) : queue[i] # e
    BY <1>2 DEF Distinct
  <2>2. e # held
    BY <1>2, NoneIsNoEvent DEF Distinct
  <2>3. \A i \in 1..Len(queue') : i = Len(queue) + 1 \/ i \in 1..Len(queue)
    BY <1>1
  <2>4. ASSUME NEW i \in 1..Len(queue')
        PROVE  st'[queue'[i]] = "accepted" /\ queue'[i] # held'
    BY <1>1, <1>2, <2>1, <2>2, <2>3 DEF Distinct
  <2>5. ASSUME NEW i \in 1..Len(queue'), NEW j \in 1..Len(queue'), queue'[i] = queue'[j]
        PROVE  i = j
    BY <1>1, <2>1, <2>3, <2>5 DEF Distinct
  <2>6. held' # None => st'[held'] = "accepted"
    BY <1>2, <2>2 DEF Distinct
  <2> QED BY <2>4, <2>5, <2>6 DEF Distinct
<1> QED BY <1>3, <1>4

LEMMA GetKeeps ==
    ASSUME QueueInv, WorkerGet
    PROVE  Kept' /\ Distinct'
<1> USE DEF QueueInv, TypeOK, WorkerGet
<1>1. /\ Len(queue) >= 1 /\ held' = queue[1] /\ Len(queue) \in Nat
      /\ Len(queue') = Len(queue) - 1
      /\ \A i \in 1..(Len(queue) - 1) : queue'[i] = queue[i + 1]
    BY TailFacts
<1>2. st' = st /\ held = None
    OBVIOUS
<1>3. Kept'
  <2> SUFFICES ASSUME NEW f \in Events, st[f] = "accepted"
               PROVE  f = held' \/ \E i \in 1..Len(queue') : queue'[i] = f
    BY <1>2 DEF Kept
  <2>1. PICK i \in 1..Len(queue) : queue[i] = f
    BY <1>2, NoneIsNoEvent DEF Kept
  <2>2. CASE i = 1 BY <1>1, <2>1, <2>2
  <2>3. CASE i # 1
    <3>1. i - 1 \in 1..(Len(queue) - 1) /\ queue'[i - 1] = queue[(i - 1) + 1]
      BY <1>1, <2>3
    <3>2. queue'[i - 1] = f BY <2>1, <3>1
    <3> QED BY <1>1, <3>1, <3>2
  <2> QED BY <2>2, <2>3
<1>4. Distinct'
  <2>1. \A i \in 1..Len(queue') : i + 1 \in 1..Len(queue) /\ i + 1 # 1 /\ queue'[i] = queue[i + 1]
    BY <1>1
  <2>2. 1 \in 1..Len(queue)
    BY <1>1
  <2>3. ASSUME NEW i \in 1..Len(queue') PROVE st'[queue'[i]] = "accepted" /\ queue'[i] # held'
    BY <1>1, <1>2, <2>1, <2>2 DEF Distinct
  <2>4. ASSUME NEW i \in 1..Len(queue'), NEW j \in 1..Len(queue'), queue'[i] = queue'[j]
        PROVE  i = j
    <3>1. i + 1 = j + 1 BY <2>1, <2>4 DEF Distinct
    <3> QED BY <1>1, <3>1
  <2>5. st'[held'] = "accepted"
    BY <1>1, <1>2, <2>2 DEF Distinct
  <2> QED BY <2>3, <2>4, <2>5 DEF Distinct
<1> QED BY <1>3, <1>4

LEMMA DispatchKeeps ==
    ASSUME QueueInv, WorkerDispatch
    PROVE  Kept' /\ Distinct'
<1> USE DEF QueueInv, TypeOK, WorkerDispatch
<1>1. held \in Events /\ held' = None /\ queue' = queue /\ st' = [st EXCEPT ![held] = "active"]
    OBVIOUS
<1>2. \A i \in 1..Len(queue) : queue[i] \in Events
    BY ElementOfSeq
<1>3. Kept' BY <1>1 DEF Kept
<1>4. Distinct' BY <1>1, <1>2, NoneIsNoEvent DEF Distinct
<1> QED BY <1>3, <1>4

\* A step that touches neither the queue nor the place of an accepted event.
LEMMA OthersKeep ==
    ASSUME QueueInv, TypeOK', UNCHANGED <<queue, held>>,
           \A e \in Events : st'[e] = "accepted" <=> st[e] = "accepted"
    PROVE  Kept' /\ Distinct'
<1>1. \A i \in 1..Len(queue) : queue[i] \in Events
    BY ElementOfSeq DEF QueueInv, TypeOK
<1>2. Kept' BY DEF QueueInv, Kept
<1>3. Distinct' BY <1>1, NoneIsNoEvent DEF QueueInv, TypeOK, Distinct
<1> QED BY <1>2, <1>3

LEMMA QueueStep == QueueInv /\ SlotInv /\ [Next]_vars => QueueInv'
<1> SUFFICES ASSUME QueueInv, SlotInv, [Next]_vars PROVE QueueInv'
    OBVIOUS
<1>1. TypeOK' BY TypeStep DEF QueueInv
<1>2. CASE Aside
  <2>1. UNCHANGED <<queue, held, st>> BY <1>2 DEF Aside
  <2> QED BY <1>1, <2>1, OthersKeep DEF QueueInv
<1>3. ASSUME NEW e \in Events, Puts(e) PROVE QueueInv'
    BY <1>1, <1>3, PutKeeps DEF QueueInv
<1>4. ASSUME NEW e \in Events, Misses(e) \/ DeliveryEnds(e) PROVE QueueInv'
  <2>1. UNCHANGED <<queue, held>>
    BY <1>4 DEF Misses, DeliveryEnds
  <2>2. \A f \in Events : st'[f] = "accepted" <=> st[f] = "accepted"
    BY <1>4 DEF Misses, DeliveryEnds, QueueInv, TypeOK
  <2> QED BY <1>1, <2>1, <2>2, OthersKeep DEF QueueInv
<1>5. CASE WorkerGet BY <1>1, <1>5, GetKeeps DEF QueueInv
<1>6. CASE WorkerDispatch BY <1>1, <1>6, DispatchKeeps DEF QueueInv
<1> QED BY <1>2, <1>3, <1>4, <1>5, <1>6, StepKinds

LEMMA QueueInit == Init => QueueInv
BY TypeInit DEF Init, QueueInv, Kept, Distinct

LEMMA Sound == Spec => [](QueueInv /\ SlotInv)
<1>1. QueueInv /\ SlotInv /\ [Next]_vars => (QueueInv /\ SlotInv)'
    BY QueueStep, SlotStep DEF QueueInv
<1> QED BY <1>1, QueueInit, SlotInit, PTL DEF Spec

-----------------------------------------------------------------------------
\* The bus keeps its types and the bound of its queue (EventBus.__init__).
THEOREM TypeCorrect == Spec => []TypeOK
<1>1. QueueInv => TypeOK BY DEF QueueInv
<1> QED BY <1>1, Sound, PTL

\* No slot of the semaphore is lost or made up (_deliver_event_wrapper).
THEOREM SlotsKept == Spec => []SlotsAccounted
<1>1. SlotInv => SlotsAccounted BY DEF SlotInv
<1> QED BY <1>1, Sound, PTL

-----------------------------------------------------------------------------
\* stop(): what it owes has begun by the time the worker is gone.
LEMMA OwedInit == Init => OwedInv
BY DEF Init, OwedInv

LEMMA OwedStep == QueueInv /\ OwedInv /\ [Next]_vars => OwedInv'
<1> SUFFICES ASSUME QueueInv, OwedInv, [Next]_vars PROVE OwedInv'
    OBVIOUS
<1> USE DEF QueueInv, TypeOK, OwedInv
<1>1. CASE UNCHANGED vars BY <1>1 DEF vars
<1>2. ASSUME NEW t \in Topics, NEW h \in Handlers, Subscribe(t, h) \/ Unsubscribe(t, h)
      PROVE  OwedInv'
    BY <1>2 DEF Subscribe, Unsubscribe
<1>3. ASSUME NEW e \in Events, Publish(e) PROVE OwedInv'
    BY <1>3 DEF Publish, CanPublish
<1>4. ASSUME NEW e \in Events, PutWakes(e) PROVE OwedInv'
    BY <1>4 DEF PutWakes
<1>5. CASE WorkerGet BY <1>5 DEF WorkerGet
<1>6. CASE WorkerDispatch BY <1>6 DEF WorkerDispatch
<1>7. CASE WorkerExits
  <2>1. held = None /\ Len(queue) = 0
    BY <1>7 DEF WorkerExits
  <2>2. \A e \in Events : st[e] # "accepted"
    BY <2>1, NoneIsNoEvent DEF Kept
  <2> QED BY <1>7, <2>2 DEF WorkerExits
<1>8. CASE Stop BY <1>8 DEF Stop
<1>9. CASE Stopped BY <1>9 DEF Stopped, Active
<1>10. ASSUME NEW e \in Events, NEW h \in Handlers, HandlerEnds(e, h) PROVE OwedInv'
    BY <1>10 DEF HandlerEnds
<1>11. ASSUME NEW e \in Events, DeliveryEnds(e) PROVE OwedInv'
    BY <1>11 DEF DeliveryEnds
<1> QED
    BY <1>1, <1>2, <1>3, <1>4, <1>5, <1>6, <1>7, <1>8, <1>9, <1>10, <1>11 DEF Next, Worker

\* stop() returns only when all it owes is handled.
THEOREM StopDrained == Spec => []StopDrains
<1>1. QueueInv /\ OwedInv /\ [Next]_vars => OwedInv'
    BY OwedStep
<1>2. OwedInv => StopDrains BY DEF OwedInv, StopDrains
<1> QED BY <1>1, <1>2, OwedInit, Sound, PTL DEF Spec

-----------------------------------------------------------------------------
\* The refinement: what each kind of step does to the line of accepted events.
Done == {e \in Events : st[e] = "done"}

\* The first of the line is what the worker holds, the rest is the queue.
LEMMA LineFacts ==
    ASSUME TypeOK
    PROVE  /\ held = None => Line = queue
           /\ held # None => /\ Line = <<held>> \o queue /\ Line # <<>>
                             /\ Head(Line) = held /\ Tail(Line) = queue
           /\ Line \in Seq(Events)
           /\ Len(Line) = (IF held = None THEN 0 ELSE 1) + Len(queue)
<1> USE DEF TypeOK
<1>1. CASE held = None
  <2>1. Line = queue BY <1>1, ConcatEmptySeq DEF Line
  <2> QED BY <1>1, <2>1
<1>2. CASE held # None
  <2>1. Line = <<held>> \o queue /\ <<held>> \in Seq(Events) /\ queue \in Seq(Events)
    BY <1>2 DEF Line
  <2>2. Line \in Seq(Events) /\ Len(Line) = 1 + Len(queue) /\ Line[1] = held
    BY <2>1, ConcatProperties
  <2>3. \A i \in 1..Len(queue) : Line[i + 1] = queue[i]
    BY <2>1
  <2>4. Line # <<>> /\ Head(Line) = held BY <2>2, EmptySeq, LenProperties
  <2>5. Tail(Line) = queue
    BY <2>1, <2>2, <2>3, <2>4, TailFacts, SeqEqual
  <2> QED BY <1>2, <2>1, <2>2, <2>4, <2>5
<1> QED BY <1>1, <1>2

\* A put into the queue joins the line at its end, and there is room for it.
LEMMA PutAccepts ==
    ASSUME QueueInv, TypeOK', NEW e \in Events, Puts(e)
    PROVE  Promise!Accept(e)
<1> USE DEF QueueInv, TypeOK, Puts
<1>1. UNCHANGED <<Active, Done>> BY DEF Active, Done
<1>2. e \notin Active /\ e \notin Done BY DEF Active, Done
<1>3. \A i \in DOMAIN Line : Line[i] # e
  <2>1. CASE held = None
    <3>1. Line = queue /\ DOMAIN queue = 1..Len(queue) BY <2>1, LineFacts
    <3> QED BY <3>1 DEF Distinct
  <2>2. CASE held # None
    <3>1. Line = <<held>> \o queue /\ Line \in Seq(Events) /\ Len(Line) = 1 + Len(queue)
      BY <2>2, LineFacts
    <3>2. DOMAIN Line = 1..(1 + Len(queue)) /\ Line[1] = held
          /\ \A i \in 2..(1 + Len(queue)) : i - 1 \in 1..Len(queue) /\ Line[i] = queue[i - 1]
      BY <2>2, <3>1
    <3>3. held # e BY <2>2 DEF Distinct
    <3>4. \A i \in 1..(1 + Len(queue)) : i = 1 \/ i \in 2..(1 + Len(queue))
      OBVIOUS
    <3> QED BY <3>2, <3>3, <3>4 DEF Distinct
  <2> QED BY <2>1, <2>2
<1>4. Len(Line) < QueueMax + 1
    BY LineFacts, BusAssumption DEF Full, BusAssumption
<1>5. Line' = Append(Line, e)
  <2>1. CASE held = None
    <3>1. held' = None /\ Line = queue BY <2>1, LineFacts
    <3>2. Line' = queue' BY <3>1, ConcatEmptySeq DEF Line
    <3> QED BY <3>1, <3>2
  <2>2. CASE held # None
    <3>1. Line = <<held>> \o queue /\ Line' = <<held>> \o Append(queue, e)
      BY <2>2 DEF Line
    <3>2. <<held>> \in Seq(Events) /\ queue \in Seq(Events) /\ <<e>> \in Seq(Events)
      BY <2>2
    <3>3. Append(queue, e) = queue \o <<e>>
          /\ Append(<<held>> \o queue, e) = (<<held>> \o queue) \o <<e>>
      BY <3>2, AppendIsConcat, ConcatProperties
    <3> QED BY <3>1, <3>2, <3>3, ConcatAssociative
  <2> QED BY <2>1, <2>2
<1> QED BY <1>1, <1>2, <1>3, <1>4, <1>5 DEF Promise!Accept, Promise!Known, Done

\* The worker takes an event into its hands: the line stays as it is.
LEMMA GetStutters ==
    ASSUME QueueInv, TypeOK', WorkerGet
    PROVE  UNCHANGED <<Line, Active, Done>>
<1> USE DEF QueueInv, TypeOK, WorkerGet
<1>1. held = None /\ Line = queue BY LineFacts
<1>2. held' = Head(queue) /\ held' \in Events /\ held' # None
    BY TailFacts, NoneIsNoEvent
<1>3. Line' = <<Head(queue)>> \o Tail(queue) BY <1>2 DEF Line
<1>4. <<Head(queue)>> \o Tail(queue) = queue
  <2> DEFINE h == <<Head(queue)>>
             t == Tail(queue)
  <2>1. /\ Len(queue) >= 1 /\ Len(queue) \in Nat /\ h \in Seq(Events) /\ Len(h) = 1
        /\ h[1] = queue[1] /\ t \in Seq(Events) /\ Len(t) = Len(queue) - 1
        /\ \A i \in 1..(Len(queue) - 1) : t[i] = queue[i + 1]
    BY TailFacts
  <2>2. h \o t \in Seq(Events) /\ Len(h \o t) = Len(queue)
        /\ \A i \in 1..Len(queue) : (h \o t)[i] = IF i <= 1 THEN h[i] ELSE t[i - 1]
    <3> HIDE DEF h, t
    <3> USE <2>1
    <3>1. /\ h \o t \in Seq(Events) /\ Len(h \o t) = Len(h) + Len(t)
          /\ \A i \in 1..(Len(h) + Len(t)) :
                (h \o t)[i] = IF i <= Len(h) THEN h[i] ELSE t[i - Len(h)]
      BY ConcatProperties
    <3>2. Len(h) + Len(t) = Len(queue)
      OBVIOUS
    <3> QED BY <3>1, <3>2
  <2>3. ASSUME NEW i \in 1..Len(queue) PROVE (h \o t)[i] = queue[i]
    <3> HIDE DEF h, t
    <3>1. CASE i = 1 BY <2>1, <2>2, <3>1
    <3>2. CASE i # 1
      <4>1. i - 1 \in 1..(Len(queue) - 1) /\ (i - 1) + 1 = i BY <2>1, <3>2
      <4> QED BY <2>1, <2>2, <3>2, <4>1
    <3> QED BY <3>1, <3>2
  <2> QED
    <3> HIDE DEF h, t
    <3>1. h \o t = queue BY <2>2, <2>3, SeqEqual
    <3> QED BY <3>1 DEF h, t
<1>5. UNCHANGED <<Active, Done>> BY DEF Active, Done
<1> QED BY <1>1, <1>3, <1>4, <1>5

\* A dispatch begins the first of the line, within the limit.
LEMMA DispatchBegins ==
    ASSUME QueueInv, SlotInv, TypeOK', WorkerDispatch
    PROVE  Promise!Begin
<1> USE DEF QueueInv, TypeOK, WorkerDispatch
<1>1. held # None /\ held \in Events /\ st[held] = "accepted"
    BY DEF Distinct
<1>2. Line # <<>> /\ Head(Line) = held /\ Tail(Line) = queue
    BY <1>1, LineFacts
<1>3. Line' = queue
    BY ConcatEmptySeq DEF Line
<1>4. Active' = Active \cup {held} /\ Done' = Done
    BY <1>1 DEF Active, Done
<1>5. Cardinality(Active) < Slots
    BY FS_CardinalityType, BusAssumption DEF SlotInv, SlotsAccounted, BusAssumption
<1>6. Promise!Cardinality(Active) = Cardinality(Active)
    BY DEF Promise!Cardinality, Cardinality
<1> QED BY <1>2, <1>3, <1>4, <1>5, <1>6 DEF Promise!Begin, Done

\* The end of a delivery is the end of the handling of its event.
LEMMA EndEnds ==
    ASSUME QueueInv, NEW e \in Events, DeliveryEnds(e)
    PROVE  Promise!End(e)
<1> USE DEF QueueInv, TypeOK, DeliveryEnds
<1>1. e \in Active /\ Active' = Active \ {e} /\ Done' = Done \cup {e}
    BY DEF Active, Done
<1>2. Line' = Line BY DEF Line
<1> QED BY <1>1, <1>2 DEF Promise!End, Done

\* Every step of the bus is a step of its promise or none.
LEMMA PromiseStep ==
    ASSUME QueueInv, SlotInv, [Next]_vars
    PROVE  Promise!Next \/ UNCHANGED <<Line, Active, Done>>
<1>1. TypeOK' BY TypeStep DEF QueueInv
<1>2. CASE Aside BY <1>2 DEF Aside, Line, Active, Done
<1>3. ASSUME NEW e \in Events, Puts(e) PROVE Promise!Next
    BY <1>1, <1>3, PutAccepts DEF Promise!Next
<1>4. ASSUME NEW e \in Events, Misses(e) PROVE UNCHANGED <<Line, Active, Done>>
    BY <1>4 DEF Misses, Line, Active, Done, QueueInv, TypeOK
<1>5. ASSUME NEW e \in Events, DeliveryEnds(e) PROVE Promise!Next
    BY <1>5, EndEnds DEF Promise!Next
<1>6. CASE WorkerGet BY <1>1, <1>6, GetStutters
<1>7. CASE WorkerDispatch BY <1>1, <1>7, DispatchBegins DEF Promise!Next
<1> QED BY <1>2, <1>3, <1>4, <1>5, <1>6, <1>7, StepKinds

LEMMA PromiseInit == Init => Promise!Init
<1> SUFFICES ASSUME Init PROVE Promise!Init
    OBVIOUS
<1>1. Active = {} /\ Done = {} BY DEF Init, Active, Done
<1>2. Line = <<>> BY LineFacts, TypeInit DEF Init
<1> QED BY <1>1, <1>2 DEF Promise!Init, Done

\* The bus implements its promise: accepted events begin once, in order, and
\* never more at a time than there are slots (publish, _process_events).
THEOREM Implements == Spec => KeepsPromise
<1>1. QueueInv /\ SlotInv /\ [Next]_vars => [Promise!Next]_<<Line, Active, Done>>
    BY PromiseStep
<1> QED BY <1>1, PromiseInit, Sound, PTL DEF Spec, KeepsPromise, Promise!Spec, Done
=============================================================================
