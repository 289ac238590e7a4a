--------------------------- MODULE Strategies_proof ---------------------------
(***************************************************************************)
(* Proofs about two ways in which strategies come to positions, for any       *)
(* items, symbols, candidates, ladders, prices and limits.  FeedSignals: the  *)
(* listing sniper enters once and within its cap, the meme strategy's lock    *)
(* never ends earlier than it was said to, and a promotion bought is not      *)
(* looked at again.  DexPositions: the index of symbols has no phantom, and   *)
(* positions, ladder and wallet agree.                                      *)
(***************************************************************************)
EXTENDS FeedSignals, DexPositions, Sums, SequenceTheorems, TLAPS


-----------------------------------------------------------------------------
(* The queue.                                                                *)

\* The dispatcher finds an event to take: of those with the highest priority there
\* is an oldest one.
LEMMA SomethingIsNextUp ==
    ASSUME heap \in Seq(Events), heap # <<>>
    PROVE  NextUp \in 1..Len(heap)
<1>1. \A k \in 1..Len(heap) : Priority(heap[k]) \in 1..3
  <2> SUFFICES ASSUME NEW k \in 1..Len(heap) PROVE Priority(heap[k]) \in 1..3
    OBVIOUS
  <2>1. heap[k] \in Events OBVIOUS
  <2>2. heap[k].msg \in Messages BY <2>1 DEF Events
  <2>3. PriorityOf[heap[k].msg.item] \in 1..3 BY <2>2, FeedAssumption DEF FeedAssumption, Messages
  <2> QED BY <2>3 DEF Priority, BridgePriority
<1>2. Len(heap) \in Nat /\ Len(heap) > 0 /\ DOMAIN heap = 1..Len(heap) BY EmptySeq
<1>3. PICK p \in 1..3 : /\ \E k \in 1..Len(heap) : Priority(heap[k]) = p
                        /\ \A k \in 1..Len(heap) : Priority(heap[k]) <= p
  <2> DEFINE Has(p) == \E k \in 1..Len(heap) : Priority(heap[k]) = p
  <2>1. CASE Has(3) BY <1>1, <2>1
  <2>2. CASE ~Has(3) /\ Has(2) BY <1>1, <2>2
  <2>3. CASE ~Has(3) /\ ~Has(2)
    <3>1. \A k \in 1..Len(heap) : Priority(heap[k]) = 1 BY <1>1, <2>3
    <3>2. 1 \in 1..Len(heap) BY <1>2
    <3> QED BY <3>1, <3>2
  <2> QED BY <2>1, <2>2, <2>3
<1> DEFINE S == {k \in 1..Len(heap) : Priority(heap[k]) = p}
<1>4. S \in SUBSET Nat /\ S # {} BY <1>3
<1>5. PICK m \in S : \A x \in S : m <= x BY <1>4, LeastNatural
<1>6. /\ m \in DOMAIN heap
      /\ \A j \in DOMAIN heap :
            \/ Priority(heap[j]) < Priority(heap[m])
            \/ Priority(heap[j]) = Priority(heap[m]) /\ m <= j
  BY <1>1, <1>2, <1>3, <1>5
<1> QED BY <1>2, <1>6 DEF NextUp

LEMMA OneIsRemoved ==
    ASSUME NEW S, NEW s \in Seq(S), NEW k \in 1..Len(s)
    PROVE  RemoveAt(s, k) \in Seq(S) /\ Len(RemoveAt(s, k)) = Len(s) - 1
<1>1. Len(s) \in Nat /\ \A i \in 1..Len(s) : s[i] \in S OBVIOUS
<1>2. /\ SubSeq(s, 1, k - 1) \in Seq(S)
      /\ Len(SubSeq(s, 1, k - 1)) = IF 1 <= k - 1 THEN k - 1 - 1 + 1 ELSE 0
  <2>1. 1 \in Int /\ k - 1 \in Int /\ \A i \in 1..(k - 1) : s[i] \in S BY <1>1
  <2> QED BY <2>1, SubSeqProperties
<1>3. /\ SubSeq(s, k + 1, Len(s)) \in Seq(S)
      /\ Len(SubSeq(s, k + 1, Len(s))) = IF k + 1 <= Len(s) THEN Len(s) - (k + 1) + 1 ELSE 0
  <2>1. k + 1 \in Int /\ Len(s) \in Int /\ \A i \in (k + 1)..Len(s) : s[i] \in S BY <1>1
  <2> QED BY <2>1, SubSeqProperties
<1>4. /\ RemoveAt(s, k) \in Seq(S)
      /\ Len(RemoveAt(s, k)) = Len(SubSeq(s, 1, k - 1)) + Len(SubSeq(s, k + 1, Len(s)))
  BY <1>2, <1>3, ConcatProperties DEF RemoveAt
<1>5. Len(s) \in Nat /\ k \in Int /\ 1 <= k /\ k <= Len(s) BY <1>1
<1>6. Len(SubSeq(s, 1, k - 1)) = k - 1 BY <1>2, <1>5
<1>7. Len(SubSeq(s, k + 1, Len(s))) = Len(s) - k BY <1>3, <1>5
<1>8. \A n \in Nat, j \in Int : (j - 1) + (n - j) = n - 1 OBVIOUS
<1>9. Len(RemoveAt(s, k)) = (k - 1) + (Len(s) - k) BY <1>4, <1>6, <1>7, Zenon
<1> QED BY <1>4, <1>5, <1>8, <1>9, Zenon

-----------------------------------------------------------------------------
(* The inductive invariant.                                                  *)

CallRecord == [of : Strategies, msg : Messages, pc : Phases, at : 0..Horizon, key : Keys \cup {<<>>}]
MomoRecord == [pc : {"idle", "klines", "buying", "exits"}, sym : Symbols, at : 0..Horizon]

Timed ==
    /\ now \in 0..Horizon
    /\ <<enabled, feed>> \in Configs /\ enabled \subseteq Strategies
    /\ seen \subseteq Items /\ posted \subseteq Posts

\* The sniper's own announcements may make the queue longer than the feeds do: by
\* one for each symbol and second it has forwarded.
Queued ==
    /\ heap \in Seq(Events) /\ Len(heap) <= Backlog + Cardinality(forwarded)
    /\ forwarded \subseteq Symbols \X (0..Horizon) /\ IsFiniteSet(forwarded)
    /\ dispatch \in {"down", "up", "gone"}
    /\ held \in Seq(Events) /\ Len(held) <= 1

Calling == call \in [Calls -> {NoCall} \cup CallRecord] /\ ParallelCap

\* What has been bought is remembered.
Noted ==
    /\ cool \in [Strategies -> [Symbols -> 0..(Horizon + Cool)]]
    /\ lock \in 0..(Horizon + Cool)
    /\ promos \subseteq Items /\ bought \subseteq promos
    /\ momo \in MomoRecord
    /\ answered \in [Symbols -> -Cool..Horizon]

\* A key entered is remembered; a call that waits in _forward_legacy remembers a
\* key of its own, not yet entered.
Forwards(r) == r.of = "listing" /\ r.pc = "forwarding"
KeyedOnce ==
    /\ keys \subseteq Keys /\ entered \in [Keys -> Nat]
    /\ \A k \in Keys : entered[k] <= 1 /\ (entered[k] = 1 => k \in keys)
    /\ \A c \in Calls : Forwards(call[c]) =>
         /\ call[c].key \in keys /\ entered[call[c].key] = 0
         /\ \A d \in Calls : Forwards(call[d]) /\ call[d].key = call[c].key => d = c

FeedSafe == Timed /\ Queued /\ Calling /\ Noted /\ KeyedOnce

LEMMA FeedConstants ==
    /\ SymbolOf \in [Items -> Symbols] /\ PriorityOf \in [Items -> 1..3]
    /\ Symbols # {} /\ IsFiniteSet(Calls) /\ Posts \subseteq Items
    /\ Configs \subseteq (SUBSET Strategies) \X Feeds
    /\ MaxParallel \in Nat /\ MaxParallel >= 1
    /\ Backlog \in Nat /\ Ttl \in Nat /\ Cool \in Nat /\ Horizon \in Nat
BY FeedAssumption DEF FeedAssumption

LEMMA FeedStarts == ASSUME Init PROVE FeedSafe
<1>1. Timed
  <2>1. PICK config \in Configs : enabled = config[1] /\ feed = config[2] BY DEF Init
  <2>2. config \in (SUBSET Strategies) \X Feeds BY <2>1, FeedConstants
  <2>3. config = <<config[1], config[2]>> /\ config[1] \in SUBSET Strategies BY <2>2
  <2> QED BY <2>1, <2>3, FeedConstants DEF Init, Timed
<1>2. Queued
  <2>1. IsFiniteSet({}) /\ Cardinality({}) = 0 BY FS_EmptySet
  <2> QED BY <2>1, FeedConstants DEF Init, Queued
<1>3. Calling
  <2>1. Tasks = {} BY DEF Init, Tasks, NoCall
  <2>2. Cardinality(Tasks) = 0 BY <2>1, FS_EmptySet
  <2> QED BY <2>2, FeedConstants DEF Init, Calling, ParallelCap
<1>4. Noted
  <2>1. (CHOOSE s \in Symbols : TRUE) \in Symbols BY FeedConstants
  <2>2. momo \in MomoRecord BY <2>1, FeedConstants DEF Init, MomoRecord
  <2> QED BY <2>2, FeedConstants DEF Init, Noted
<1>5. KeyedOnce BY DEF Init, KeyedOnce, Forwards, NoCall
<1> QED BY <1>1, <1>2, <1>3, <1>4, <1>5 DEF FeedSafe

-----------------------------------------------------------------------------
(* What the steps do to the calls.                                           *)

Works(r) == r.of = "listing" /\ r.pc \in {"task", "entering"}

LEMMA TasksAreFinite ==
    ASSUME NEW T \in SUBSET Calls
    PROVE  IsFiniteSet(T) /\ Cardinality(T) \in Nat
<1>1. IsFiniteSet(T) BY FeedConstants, FS_Subset
<1> QED BY <1>1, FS_CardinalityType

\* Steps that leave the sniper's tasks and forwarding calls alone, or end them.
LEMMA FewerTasks ==
    ASSUME Calling, call' \in [Calls -> {NoCall} \cup CallRecord],
           \A c \in Calls : Works(call'[c]) => Works(call[c])
    PROVE  Calling'
<1>1. Tasks' \subseteq Tasks BY DEF Tasks, Works
<1>2. Tasks \in SUBSET Calls BY DEF Tasks
<1>3. Tasks' \in SUBSET Tasks BY <1>1
<1>4. IsFiniteSet(Tasks) /\ Cardinality(Tasks) \in Nat BY <1>2, TasksAreFinite
<1>5. IsFiniteSet(Tasks') /\ Cardinality(Tasks') <= Cardinality(Tasks) BY <1>3, <1>4, FS_Subset
<1>6. Cardinality(Tasks') \in Nat BY <1>5, FS_CardinalityType
<1> QED BY <1>4, <1>5, <1>6, FeedConstants DEF Calling, ParallelCap

LEMMA FewerForwards ==
    ASSUME KeyedOnce, UNCHANGED <<keys, entered>>,
           \A c \in Calls : Forwards(call'[c]) => call'[c] = call[c]
    PROVE  KeyedOnce'
BY DEF KeyedOnce, Forwards

\* The steps of a call that neither create a task nor forward.
Plain(c) ==
    \/ Unpriced(c) \/ MemeBegins(c) \/ MemeAnswered(c) \/ MemeTold(c)
    \/ AirdropBegins(c) \/ AirdropDeclines(c) \/ AirdropAnswered(c)
    \/ ListingKnows(c) \/ TaskBegins(c) \/ TaskEnds(c)

LEMMA PlainMoves ==
    ASSUME FeedSafe, NEW c \in Calls, Plain(c)
    PROVE  \E r \in {NoCall} \cup CallRecord :
              /\ call' = [call EXCEPT ![c] = r]
              /\ ~Forwards(r)
              /\ Works(r) => Works(call[c])
<1> DEFINE Fits(r) == r \in {NoCall} \cup CallRecord /\ ~Forwards(r) /\ (Works(r) => Works(call[c]))
<1> SUFFICES \E r : Fits(r) /\ call' = [call EXCEPT ![c] = r] OBVIOUS
<1>1. call[c].pc \in Phases => call[c] \in CallRecord
  BY DEF FeedSafe, Calling, NoCall, Phases
<1>2. Fits(NoCall) BY DEF NoCall, Forwards, Works
<1>3. ASSUME Ends(c) PROVE \E r : Fits(r) /\ call' = [call EXCEPT ![c] = r]
  BY <1>2, <1>3 DEF Ends, Ended
<1>4. ASSUME NEW verdict, call[c].of # "listing", call[c].pc = "called", call' = Began(c, verdict)
      PROVE  \E r : Fits(r) /\ call' = [call EXCEPT ![c] = r]
  <2>1. CASE verdict = "fit"
    <3> DEFINE q == [call[c] EXCEPT !.pc = "buying", !.at = now]
    <3>1. call[c] \in CallRecord BY <1>1, <1>4 DEF Phases
    <3>2. q \in CallRecord BY <3>1 DEF FeedSafe, Timed, CallRecord, Phases
    <3>3. q.of # "listing" BY <3>1, <1>4 DEF CallRecord
    <3>4. Fits(q) BY <3>2, <3>3 DEF Forwards, Works
    <3>5. call' = [call EXCEPT ![c] = q] BY <2>1, <1>4 DEF Began, FeedSafe, Calling
    <3> HIDE DEF q
    <3> QED BY <3>4, <3>5
  <2>2. CASE verdict # "fit" BY <2>2, <1>4, <1>3 DEF Began, Ends
  <2> QED BY <2>1, <2>2
<1>5. ASSUME NEW p \in {"telling", "entering"}, call[c].pc \in Phases, Moves(c, p),
             p = "entering" => Works(call[c])
      PROVE  \E r : Fits(r) /\ call' = [call EXCEPT ![c] = r]
  <2> DEFINE q == [call[c] EXCEPT !.pc = p]
  <2>1. call[c] \in CallRecord BY <1>1, <1>5
  <2>2. q \in CallRecord BY <2>1, <1>5 DEF CallRecord, Phases
  <2>3. q.pc = p BY <2>1 DEF CallRecord
  <2>4. Fits(q) BY <2>2, <2>3, <1>5 DEF Forwards, Works
  <2>5. call' = [call EXCEPT ![c] = q] BY <1>5 DEF Moves, Moved, FeedSafe, Calling
  <2> HIDE DEF q
  <2> QED BY <2>4, <2>5
<1> HIDE DEF Fits
<1>6. CASE Unpriced(c) BY <1>6, <1>3 DEF Unpriced
<1>7. CASE MemeBegins(c)
  <2>1. /\ call[c].of # "listing" /\ call[c].pc = "called"
        /\ \E verdict : call' = Began(c, verdict) \/ Ends(c)
    BY <1>7 DEF MemeBegins, Is, Ends
  <2> QED BY <2>1, <1>3, <1>4
<1>8. CASE MemeAnswered(c)
  <2>1. call[c].pc \in Phases /\ (Moves(c, "telling") \/ Ends(c))
    BY <1>8 DEF MemeAnswered, Is, Phases
  <2> QED BY <2>1, <1>3, <1>5
<1>9. CASE MemeTold(c) BY <1>9, <1>3 DEF MemeTold
<1>10. CASE AirdropBegins(c)
  <2>1. /\ call[c].of # "listing" /\ call[c].pc = "called"
        /\ \E verdict : call' = Began(c, verdict) \/ Ends(c)
    BY <1>10 DEF AirdropBegins, Is, Ends
  <2> QED BY <2>1, <1>3, <1>4
<1>11. CASE AirdropDeclines(c) BY <1>11, <1>3 DEF AirdropDeclines
<1>12. CASE AirdropAnswered(c) BY <1>12, <1>3 DEF AirdropAnswered
<1>13. CASE ListingKnows(c) BY <1>13, <1>3 DEF ListingKnows
<1>14. CASE TaskBegins(c)
  <2>1. call[c].pc \in Phases /\ Works(call[c]) /\ (Moves(c, "entering") \/ Ends(c))
    BY <1>14 DEF TaskBegins, Is, Phases, Works
  <2> QED BY <2>1, <1>3, <1>5
<1>15. CASE TaskEnds(c) BY <1>15, <1>3 DEF TaskEnds
<1> QED
  BY <1>6, <1>7, <1>8, <1>9, <1>10, <1>11, <1>12, <1>13, <1>14, <1>15 DEF Plain

-----------------------------------------------------------------------------
(* The listing sniper's steps.                                               *)

LEMMA KeysAreKeys ==
    ASSUME Timed, NEW m \in Messages
    PROVE  Key(m) \in Keys /\ <<SymbolOf[m.item], AnnouncedAt(m)>> \in Symbols \X (0..Horizon)
<1>1. m.item \in Items /\ SymbolOf[m.item] \in Symbols
  BY FeedConstants DEF Messages
<1>2. now \in 0..Horizon /\ 0 \in 0..Horizon BY FeedConstants DEF Timed
<1> QED BY <1>1, <1>2 DEF Key, Keys, AnnouncedAt

\* Waiting for the DEX pair, a call remembers a key nobody has entered.
LEMMA Forwarding ==
    ASSUME FeedSafe, NEW c \in Calls, ListingForwards(c)
    PROVE  Queued' /\ Calling' /\ KeyedOnce'
<1> DEFINE k == Key(call[c].msg)
<1>1. call[c] \in CallRecord /\ call[c].of = "listing" /\ call[c].pc = "called"
  BY DEF ListingForwards, Is, FeedSafe, Calling, NoCall
<1>2. call[c].msg \in Messages BY <1>1 DEF CallRecord
<1>3. k \in Keys /\ Announced(c) \in Symbols \X (0..Horizon)
  BY <1>2, KeysAreKeys DEF FeedSafe, Announced, Sym
<1> DEFINE q == [call[c] EXCEPT !.pc = "forwarding", !.key = k]
<1>4. q \in CallRecord /\ q.pc = "forwarding" /\ q.key = k /\ q.of = "listing"
  BY <1>1, <1>3 DEF CallRecord, Phases
<1>5. call' = [call EXCEPT ![c] = q] BY DEF ListingForwards, FeedSafe, Calling
<1>6. k \notin keys /\ keys' = keys \cup {k} /\ entered' = entered
  BY DEF ListingForwards, Remembered
<1>7. Announced(c) \notin forwarded /\ forwarded' = forwarded \cup {Announced(c)}
  BY DEF ListingForwards, Forwarded
<1>8. \E e \in Events : heap' = Append(heap, e)
  <2> DEFINE e == [msg |-> [call[c].msg EXCEPT !.bridged = TRUE], exp |-> Never]
  <2>1. e.msg \in Messages BY <1>2 DEF Messages
  <2>2. Never \in 0..Never BY FeedConstants DEF Never
  <2>3. e \in Events BY <2>1, <2>2 DEF Events
  <2>4. heap' = Append(heap, e) BY DEF ListingForwards
  <2> HIDE DEF e
  <2> QED BY <2>3, <2>4
<1>9. Queued'
  <2>1. /\ IsFiniteSet(forwarded') /\ Cardinality(forwarded) \in Nat
        /\ Cardinality(forwarded') = Cardinality(forwarded) + 1
    BY <1>7, FS_AddElement, FS_CardinalityType DEF FeedSafe, Queued
  <2>2. heap' \in Seq(Events) /\ Len(heap') = Len(heap) + 1 /\ Len(heap) \in Nat
    BY <1>8, AppendProperties DEF FeedSafe, Queued
  <2>3. Len(heap') <= Backlog + Cardinality(forwarded')
    BY <2>1, <2>2, FeedConstants DEF FeedSafe, Queued
  <2>4. forwarded' \subseteq Symbols \X (0..Horizon) BY <1>3, <1>7 DEF FeedSafe, Queued
  <2>5. UNCHANGED <<dispatch, held>> BY DEF ListingForwards
  <2> QED BY <2>1, <2>2, <2>3, <2>4, <2>5 DEF FeedSafe, Queued
<1> HIDE DEF q, k
<1>10. Calling'
  <2>1. call' \in [Calls -> {NoCall} \cup CallRecord] BY <1>4, <1>5 DEF FeedSafe, Calling
  <2>2. \A d \in Calls : Works(call'[d]) => Works(call[d])
    BY <1>4, <1>5 DEF FeedSafe, Calling, Works
  <2> QED BY <2>1, <2>2, FewerTasks DEF FeedSafe
<1>11. KeyedOnce'
  <2>1. \A d \in Calls : Forwards(call[d]) => call[d].key # k
    BY <1>6 DEF FeedSafe, KeyedOnce
  <2>2. entered[k] = 0 BY <1>3, <1>6 DEF FeedSafe, KeyedOnce
  <2>3. \A d \in Calls : d # c => call'[d] = call[d] BY <1>5 DEF FeedSafe, Calling
  <2>4. call'[c] = q BY <1>5 DEF FeedSafe, Calling
  <2> QED BY <1>3, <1>4, <1>6, <2>1, <2>2, <2>3, <2>4 DEF FeedSafe, KeyedOnce
<1> QED BY <1>9, <1>10, <1>11

\* A task is created for a key nobody has entered and only where there is room.
LEMMA Entering ==
    ASSUME FeedSafe, NEW c \in Calls, NEW k \in Keys, Enters(c, k),
           call[c].of = "listing", call[c].pc \in {"called", "forwarding"},
           entered[k] = 0, \A d \in Calls : Forwards(call[d]) /\ call[d].key = k => d = c
    PROVE  Calling' /\ KeyedOnce'
<1>1. call[c] \in CallRecord BY DEF FeedSafe, Calling, NoCall
<1>2. keys' = keys \cup {k} BY DEF Enters, Remembered
<1>3. CASE Room(c)
  <2> DEFINE q == [call[c] EXCEPT !.pc = "task", !.key = k]
  <2>1. q \in CallRecord /\ q.pc = "task" BY <1>1 DEF CallRecord, Phases
  <2>2. call' = [call EXCEPT ![c] = q] /\ entered' = [entered EXCEPT ![k] = @ + 1]
    BY <1>3 DEF Enters
  <2> HIDE DEF q
  <2>3. \A d \in Calls : call'[d] = IF d = c THEN q ELSE call[d]
    BY <2>2 DEF FeedSafe, Calling
  <2>4. Calling'
    <3>1. Tasks' \subseteq Tasks \cup {c} BY <2>3 DEF Tasks
    <3>2. IsFiniteSet(Tasks) /\ Cardinality(Tasks) \in Nat
      <4>1. Tasks \in SUBSET Calls BY DEF Tasks
      <4> QED BY <4>1, TasksAreFinite
    <3>3. /\ IsFiniteSet(Tasks \cup {c})
          /\ Cardinality(Tasks \cup {c}) <= Cardinality(Tasks) + 1
          /\ Cardinality(Tasks \cup {c}) \in Nat
      <4>1. /\ IsFiniteSet(Tasks \cup {c})
            /\ Cardinality(Tasks \cup {c}) = IF c \in Tasks THEN Cardinality(Tasks) ELSE Cardinality(Tasks) + 1
        BY <3>2, FS_AddElement
      <4>2. Cardinality(Tasks \cup {c}) \in Nat BY <4>1, FS_CardinalityType
      <4> QED BY <3>2, <4>1, <4>2
    <3>4. Tasks' \in SUBSET (Tasks \cup {c}) BY <3>1
    <3>5. IsFiniteSet(Tasks') /\ Cardinality(Tasks') <= Cardinality(Tasks \cup {c})
      BY <3>3, <3>4, FS_Subset
    <3>6. Cardinality(Tasks') \in Nat BY <3>5, FS_CardinalityType
    <3>7. Cardinality(Tasks) < MaxParallel BY <1>3 DEF Room
    <3>8. Cardinality(Tasks') <= MaxParallel
      BY <3>2, <3>3, <3>5, <3>6, <3>7, FeedConstants
    <3>9. call' \in [Calls -> {NoCall} \cup CallRecord] BY <2>1, <2>2 DEF FeedSafe, Calling
    <3> QED BY <3>8, <3>9 DEF Calling, ParallelCap
  <2>5. KeyedOnce'
    <3>1. entered' \in [Keys -> Nat] /\ entered'[k] = 1 /\ \A j \in Keys : j # k => entered'[j] = entered[j]
      BY <2>2 DEF FeedSafe, KeyedOnce
    <3>2. ~Forwards(call'[c]) BY <2>1, <2>3 DEF Forwards
    <3>3. \A d \in Calls : Forwards(call'[d]) => call'[d] = call[d] /\ d # c /\ call[d].key # k
      BY <2>3, <3>2
    <3>4. keys \subseteq Keys BY DEF FeedSafe, KeyedOnce
    <3>5. \A j \in Keys : entered'[j] <= 1 /\ (entered'[j] = 1 => j \in keys')
      BY <3>1, <1>2 DEF FeedSafe, KeyedOnce
    <3>6. \A d \in Calls : Forwards(call'[d]) =>
            /\ call'[d].key \in keys' /\ entered'[call'[d].key] = 0
            /\ \A e \in Calls : Forwards(call'[e]) /\ call'[e].key = call'[d].key => e = d
      BY <3>1, <3>3, <3>4, <1>2 DEF FeedSafe, KeyedOnce
    <3> QED BY <3>1, <3>4, <3>5, <3>6, <1>2 DEF KeyedOnce
  <2> QED BY <2>4, <2>5
<1>4. CASE ~Room(c)
  <2>1. call' = [call EXCEPT ![c] = NoCall] BY <1>4 DEF Enters
  <2>2. entered' = entered
    <3>1. entered' = [entered EXCEPT ![k] = entered[k]] BY <1>4 DEF Enters
    <3> QED BY <3>1 DEF FeedSafe, KeyedOnce
  <2>3. \A d \in Calls : call'[d] = IF d = c THEN NoCall ELSE call[d]
    BY <2>1 DEF FeedSafe, Calling
  <2>4. ~Works(NoCall) /\ ~Forwards(NoCall) BY DEF Works, Forwards, NoCall
  <2>5. call' \in [Calls -> {NoCall} \cup CallRecord] BY <2>1 DEF FeedSafe, Calling
  <2>6. Calling' BY <2>3, <2>4, <2>5, FewerTasks DEF FeedSafe
  <2>7. KeyedOnce'
    <3>1. \A d \in Calls : Forwards(call'[d]) => call'[d] = call[d] BY <2>3, <2>4
    <3>2. keys' \subseteq Keys /\ keys \subseteq keys' BY <1>2 DEF FeedSafe, KeyedOnce
    <3> QED BY <3>1, <3>2, <2>2 DEF FeedSafe, KeyedOnce
  <2> QED BY <2>6, <2>7
<1> QED BY <1>3, <1>4

LEMMA EnteringSteps ==
    ASSUME FeedSafe, NEW c \in Calls, ListingEnters(c)
    PROVE  Calling' /\ KeyedOnce'
<1>1. CASE Is(c, "listing", "called") /\ Key(call[c].msg) \notin keys /\ Enters(c, Key(call[c].msg))
  <2>1. call[c] \in CallRecord BY <1>1 DEF Is, FeedSafe, Calling, NoCall
  <2>2. call[c].msg \in Messages BY <2>1 DEF CallRecord
  <2>3. Key(call[c].msg) \in Keys BY <2>2, KeysAreKeys DEF FeedSafe
  <2>4. entered[Key(call[c].msg)] = 0 BY <1>1, <2>3 DEF FeedSafe, KeyedOnce
  <2>5. \A d \in Calls : Forwards(call[d]) => call[d].key # Key(call[c].msg)
    BY <1>1 DEF FeedSafe, KeyedOnce
  <2> QED BY <1>1, <2>3, <2>4, <2>5, Entering DEF Is
<1>2. CASE Is(c, "listing", "forwarding") /\ Enters(c, call[c].key)
  <2>1. Forwards(call[c]) BY <1>2 DEF Is, Forwards
  <2>2. call[c].key \in Keys /\ entered[call[c].key] = 0 BY <2>1 DEF FeedSafe, KeyedOnce
  <2>3. \A d \in Calls : Forwards(call[d]) /\ call[d].key = call[c].key => d = c
    BY <2>1 DEF FeedSafe, KeyedOnce
  <2> QED BY <1>2, <2>2, <2>3, Entering DEF Is
<1> QED BY <1>1, <1>2 DEF ListingEnters

-----------------------------------------------------------------------------
(* The other parts of the invariant.                                         *)

\* The connectors and the endpoint.
Takes(i) == Tweet(i) \/ Article(i) \/ Pair(i) \/ Macro(i) \/ Post(i)
Momentum == (\E s \in Symbols : MomoLooks(s)) \/ MomoDecides \/ MomoAnswered \/ MomoExits

LEMMA NextCases ==
    ASSUME [Next]_vars
    PROVE  \/ \E i \in Items : Takes(i)
           \/ Start \/ Dispatch \/ Publish
           \/ \E c \in Calls : Plain(c) \/ ListingForwards(c) \/ ListingEnters(c)
           \/ Momentum \/ TimePasses
           \/ UNCHANGED vars
<1>1. CASE UNCHANGED vars BY <1>1
<1>2. CASE Next
  <2>1. CASE \E c \in Calls : Handles(c) BY <2>1 DEF Handles, Plain
  <2>2. CASE \E i \in Items : Tweet(i) \/ Article(i) \/ Pair(i) \/ Macro(i) \/ Post(i)
    BY <2>2 DEF Takes
  <2>3. CASE PollsInVain BY <2>3 DEF PollsInVain
  <2>4. CASE \/ \E s \in Symbols : MomoLooks(s)
             \/ MomoDecides \/ MomoAnswered \/ MomoExits
    BY <2>4 DEF Momentum
  <2> QED BY <1>2, <2>1, <2>2, <2>3, <2>4 DEF Next
<1> QED BY <1>1, <1>2

\* What is taken in is queued while there is room; nothing else moves.
LEMMA TakenIn ==
    ASSUME FeedSafe, NEW i \in Items, Takes(i)
    PROVE  /\ seen' \subseteq Items /\ posted' \subseteq Posts
           /\ Len(heap) < Backlog
           /\ \E e \in Events : heap' = Append(heap, e)
           /\ UNCHANGED <<now, wired, dispatch, held, call, cool, meming, promoing, listing, momoing>>
<1>1. \A exp \in {now + Ttl, Never} : Feed(i, exp) \in Events
  <2>1. now + Ttl \in 0..Never /\ Never \in 0..Never
    BY FeedConstants DEF FeedSafe, Timed, Never
  <2> QED BY <2>1 DEF Feed, Events, Messages
<1>2. ASSUME NEW memories \in SUBSET (SUBSET Items), Collected(i, memories)
      PROVE  /\ seen' \subseteq Items /\ posted' \subseteq Posts
             /\ Len(heap) < Backlog
             /\ \E e \in Events : heap' = Append(heap, e)
             /\ UNCHANGED <<now, wired, dispatch, held, call, cool, meming, promoing, listing, momoing>>
  BY <1>1, <1>2 DEF Collected, Heard, FeedSafe, Timed
<1>3. (seen \cup {i}) \in SUBSET Items BY DEF FeedSafe, Timed
<1>4. Bounded(seen \cup {i}) \in SUBSET (SUBSET Items) BY <1>3 DEF Bounded, kSubset
<1>5. CASE Tweet(i)
  <2>1. {seen \cup {i}} \in SUBSET (SUBSET Items) BY <1>3
  <2> QED BY <1>2, <1>5, <2>1 DEF Tweet
<1>6. CASE Article(i) \/ Pair(i) \/ Macro(i) BY <1>2, <1>4, <1>6 DEF Article, Pair, Macro
<1>7. CASE Post(i)
  <2>1. posted' \subseteq Posts /\ seen' \subseteq Items
    BY <1>7 DEF Post, FeedSafe, Timed
  <2> QED BY <1>1, <1>7, <2>1 DEF Post, Heard
<1> QED BY <1>5, <1>6, <1>7 DEF Takes

LEMMA TimedStep == ASSUME FeedSafe, [Next]_vars PROVE Timed'
<1> USE DEF FeedSafe, Timed, wired, queueing
<1>1. CASE \E i \in Items : Takes(i) BY <1>1, TakenIn
<1>2. CASE Start \/ Dispatch \/ Publish BY <1>2 DEF Start, Dispatch, Publish
<1>3. CASE \E c \in Calls : Plain(c) \/ ListingForwards(c) \/ ListingEnters(c)
  BY <1>3 DEF Plain, Unpriced, MemeBegins, MemeAnswered, MemeTold, AirdropBegins, AirdropDeclines,
              AirdropAnswered, ListingKnows, TaskBegins, TaskEnds, ListingForwards, ListingEnters, Enters
<1>4. CASE Momentum BY <1>4 DEF Momentum, MomoLooks, MomoDecides, MomoAnswered, MomoExits
<1>5. CASE TimePasses BY <1>5, FeedConstants DEF TimePasses
<1>6. CASE UNCHANGED vars BY <1>6 DEF vars
<1> QED BY <1>1, <1>2, <1>3, <1>4, <1>5, <1>6, NextCases

LEMMA QueuedStep == ASSUME FeedSafe, [Next]_vars PROVE Queued'
<1> USE DEF FeedSafe
<1>0. Cardinality(forwarded) \in Nat /\ Len(heap) \in Nat BY FS_CardinalityType DEF Queued
<1>1. ASSUME NEW i \in Items, Takes(i) PROVE Queued'
  <2>1. PICK e \in Events : heap' = Append(heap, e) BY <1>1, TakenIn
  <2>2. heap' \in Seq(Events) /\ Len(heap') = Len(heap) + 1 BY <2>1, AppendProperties DEF Queued
  <2>3. UNCHANGED <<forwarded, dispatch, held>> /\ Len(heap) < Backlog
    BY <1>1, TakenIn DEF listing
  <2> QED BY <1>0, <2>2, <2>3, FeedConstants DEF Queued
<1>2. CASE Start BY <1>0, <1>2, FeedConstants DEF Start, Queued, listing
<1>3. CASE Dispatch
  <2>1. heap \in Seq(Events) /\ heap # <<>> BY <1>3 DEF Dispatch, Queued
  <2>2. NextUp \in 1..Len(heap) BY <2>1, SomethingIsNextUp
  <2>3. heap' \in Seq(Events) /\ Len(heap') = Len(heap) - 1
    BY <1>3, <2>1, <2>2, OneIsRemoved DEF Dispatch
  <2>4. heap[NextUp] \in Events BY <2>1, <2>2
  <2>5. held' \in Seq(Events) /\ Len(held') <= 1 BY <1>3, <2>4 DEF Dispatch
  <2>6. dispatch' \in {"down", "up", "gone"} BY <1>3 DEF Dispatch, AfterExpired
  <2>7. forwarded' = forwarded BY <1>3 DEF Dispatch, listing
  <2>8. Len(heap') <= Backlog + Cardinality(forwarded') BY <1>0, <2>3, <2>7, FeedConstants DEF Queued
  <2> QED BY <2>3, <2>5, <2>6, <2>7, <2>8 DEF Queued
<1>4. CASE Publish BY <1>4 DEF Publish, Queued, listing
<1>5. ASSUME NEW c \in Calls, Plain(c) \/ ListingEnters(c) PROVE Queued'
  BY <1>5 DEF Queued, queueing, listing,
              Plain, Unpriced, MemeBegins, MemeAnswered, MemeTold, AirdropBegins, AirdropDeclines,
              AirdropAnswered, ListingKnows, TaskBegins, TaskEnds, ListingEnters, Enters
<1>6. ASSUME NEW c \in Calls, ListingForwards(c) PROVE Queued' BY <1>6, Forwarding
<1>7. CASE Momentum
  BY <1>7 DEF Momentum, MomoLooks, MomoDecides, MomoAnswered, MomoExits, Queued, queueing, listing
<1>8. CASE TimePasses BY <1>8 DEF TimePasses, Queued, queueing, listing
<1>9. CASE UNCHANGED vars BY <1>9 DEF vars, Queued
<1> QED BY <1>1, <1>2, <1>3, <1>4, <1>5, <1>6, <1>7, <1>8, <1>9, NextCases

\* The dispatcher's event starts a call of every handler.
LEMMA Published ==
    ASSUME FeedSafe, Publish
    PROVE  /\ call' \in [Calls -> {NoCall} \cup CallRecord]
           /\ \A c \in Calls : call'[c] = call[c] \/ call'[c].pc = "called"
<1>1. held[1].msg \in Messages
  <2>1. held \in Seq(Events) /\ Len(held) >= 1 BY EmptySeq DEF Publish, FeedSafe, Queued
  <2>2. held[1] \in Events BY <2>1
  <2> QED BY <2>2 DEF Events
<1>2. \A h \in Handlers : Called(h, held[1].msg) \in CallRecord /\ Called(h, held[1].msg).pc = "called"
  BY <1>1, FeedConstants DEF FeedSafe, Timed, Handlers, Called, CallRecord, Phases
<1>3. PICK slot : call' = [c \in Calls |-> IF \E h \in Handlers : slot[h] = c
                 THEN Called(CHOOSE h \in Handlers : slot[h] = c, held[1].msg) ELSE call[c]]
  BY DEF Publish
<1>4. ASSUME NEW c \in Calls, \E h \in Handlers : slot[h] = c
      PROVE  (CHOOSE h \in Handlers : slot[h] = c) \in Handlers
  BY <1>4
<1>5. \A c \in Calls :
         \/ call'[c] = call[c]
         \/ call'[c] \in CallRecord /\ call'[c].pc = "called"
  BY <1>2, <1>3, <1>4
<1>6. \A c \in Calls : call'[c] \in {NoCall} \cup CallRecord BY <1>5 DEF FeedSafe, Calling
<1> QED BY <1>3, <1>5, <1>6

LEMMA CallStep == ASSUME FeedSafe, [Next]_vars PROVE Calling' /\ KeyedOnce'
<1>1. ASSUME UNCHANGED <<call, keys, entered>> PROVE Calling' /\ KeyedOnce'
  BY <1>1 DEF FeedSafe, Calling, ParallelCap, Tasks, KeyedOnce
<1>2. ASSUME NEW i \in Items, Takes(i) PROVE UNCHANGED <<call, keys, entered>>
  BY <1>2, TakenIn DEF listing
<1>3. CASE Start \/ Dispatch BY <1>1, <1>3 DEF Start, Dispatch, listing
<1>4. CASE Publish
  <2>1. \A c \in Calls : Works(call'[c]) => Works(call[c]) BY <1>4, Published DEF Works
  <2>2. \A c \in Calls : Forwards(call'[c]) => call'[c] = call[c]
    BY <1>4, Published DEF Forwards
  <2>3. UNCHANGED <<keys, entered>> BY <1>4 DEF Publish, listing
  <2> QED BY <1>4, <2>1, <2>2, <2>3, Published, FewerTasks, FewerForwards DEF FeedSafe
<1>5. ASSUME NEW c \in Calls, Plain(c) PROVE Calling' /\ KeyedOnce'
  <2>1. PICK r \in {NoCall} \cup CallRecord : /\ call' = [call EXCEPT ![c] = r]
                                              /\ ~Forwards(r)
                                              /\ Works(r) => Works(call[c])
    BY <1>5, PlainMoves
  <2>2. call' \in [Calls -> {NoCall} \cup CallRecord] BY <2>1 DEF FeedSafe, Calling
  <2>3. \A d \in Calls : call'[d] = IF d = c THEN r ELSE call[d] BY <2>1 DEF FeedSafe, Calling
  <2>4. \A d \in Calls : Works(call'[d]) => Works(call[d]) BY <2>1, <2>3
  <2>5. \A d \in Calls : Forwards(call'[d]) => call'[d] = call[d] BY <2>1, <2>3
  <2>6. UNCHANGED <<keys, entered>>
    BY <1>5 DEF listing, Plain, Unpriced, MemeBegins, MemeAnswered, MemeTold, AirdropBegins,
                AirdropDeclines, AirdropAnswered, ListingKnows, TaskBegins, TaskEnds
  <2> QED BY <2>2, <2>4, <2>5, <2>6, FewerTasks, FewerForwards DEF FeedSafe
<1>6. ASSUME NEW c \in Calls, ListingForwards(c) PROVE Calling' /\ KeyedOnce'
  BY <1>6, Forwarding
<1>7. ASSUME NEW c \in Calls, ListingEnters(c) PROVE Calling' /\ KeyedOnce'
  BY <1>7, EnteringSteps
<1>8. CASE Momentum
  BY <1>1, <1>8 DEF Momentum, MomoLooks, MomoDecides, MomoAnswered, MomoExits, listing
<1>9. CASE TimePasses BY <1>1, <1>9 DEF TimePasses, listing
<1>10. CASE UNCHANGED vars BY <1>1, <1>10 DEF vars
<1> QED BY <1>1, <1>2, <1>3, <1>4, <1>5, <1>6, <1>7, <1>8, <1>9, <1>10, NextCases

-----------------------------------------------------------------------------
(* Cooldowns, locks and promotions.                                          *)

\* The lock is the later of its old end and the one asked for.
LEMMA LockIsLater ==
    ASSUME FeedSafe, NEW t \in 0..Horizon
    PROVE  Locked(t) \in 0..(Horizon + Cool) /\ Locked(t) >= lock
<1>1. lock \in Int /\ t + Cool \in Int /\ lock \in 0..(Horizon + Cool) /\ t + Cool \in 0..(Horizon + Cool)
  BY FeedConstants DEF FeedSafe, Noted
<1>2. \E x \in {lock, t + Cool} : \A y \in {lock, t + Cool} : x >= y BY <1>1
<1>3. Locked(t) \in {lock, t + Cool} /\ \A y \in {lock, t + Cool} : Locked(t) >= y
  BY <1>2 DEF Locked, Max
<1> QED BY <1>1, <1>3

LEMMA CoolingTyped ==
    ASSUME FeedSafe, NEW h \in Strategies, NEW s \in Symbols, NEW t \in 0..Horizon
    PROVE  Cooling(h, s, t) \in [Strategies -> [Symbols -> 0..(Horizon + Cool)]]
<1>1. t + Cool \in 0..(Horizon + Cool) BY FeedConstants
<1> QED BY <1>1 DEF Cooling, FeedSafe, Noted

LEMMA MomoMoves ==
    ASSUME FeedSafe, Momentum
    PROVE  /\ momo' \in MomoRecord
           /\ cool' \in [Strategies -> [Symbols -> 0..(Horizon + Cool)]]
           /\ answered' \in [Symbols -> -Cool..Horizon]
           /\ UNCHANGED <<lock, promos, bought, call>>
<1> USE DEF meming, promoing
<1>1. momo \in MomoRecord /\ momo.sym \in Symbols /\ momo.at \in 0..Horizon /\ now \in 0..Horizon
  BY DEF FeedSafe, Noted, Timed, MomoRecord
<1>2. \A p \in {"idle", "klines", "buying", "exits"} : [momo EXCEPT !.pc = p] \in MomoRecord
  BY <1>1 DEF MomoRecord
<1>3. /\ Cooling("momentum", momo.sym, now) \in [Strategies -> [Symbols -> 0..(Horizon + Cool)]]
      /\ Cooling("momentum", momo.sym, momo.at) \in [Strategies -> [Symbols -> 0..(Horizon + Cool)]]
  BY <1>1, CoolingTyped DEF Strategies
<1>4. /\ cool \in [Strategies -> [Symbols -> 0..(Horizon + Cool)]]
      /\ answered \in [Symbols -> -Cool..Horizon]
  BY DEF FeedSafe, Noted
<1>5. ASSUME NEW s \in Symbols, MomoLooks(s)
      PROVE  momo' \in MomoRecord /\ UNCHANGED <<cool, answered, lock, promos, bought, call>>
  BY <1>1, <1>5 DEF MomoLooks, MomoRecord
<1>6. CASE MomoDecides
  <2>1. [momo EXCEPT !.pc = "buying", !.at = now] \in MomoRecord BY <1>1 DEF MomoRecord
  <2> QED BY <1>2, <1>3, <1>4, <1>6, <2>1 DEF MomoDecides
<1>7. CASE MomoAnswered
  <2>1. momo.at \in -Cool..Horizon BY <1>1, FeedConstants
  <2>2. CASE momo' = [momo EXCEPT !.pc = "idle"] /\ UNCHANGED <<cool, answered>>
    BY <1>2, <1>4, <1>7, <2>2 DEF MomoAnswered
  <2>3. CASE \E filled \in BOOLEAN :
                /\ momo' = [momo EXCEPT !.pc = IF filled THEN "exits" ELSE "idle"]
                /\ cool' = IF Armed(filled) THEN Cooling("momentum", momo.sym, momo.at) ELSE cool
                /\ answered' = [answered EXCEPT ![momo.sym] = momo.at]
    <3>1. momo' \in MomoRecord BY <1>2, <2>3
    <3>2. cool' \in [Strategies -> [Symbols -> 0..(Horizon + Cool)]] BY <1>3, <1>4, <2>3
    <3>3. answered' \in [Symbols -> -Cool..Horizon] BY <1>4, <2>1, <2>3
    <3> QED BY <1>7, <3>1, <3>2, <3>3 DEF MomoAnswered
  <2> QED BY <1>7, <2>2, <2>3 DEF MomoAnswered
<1>8. CASE MomoExits BY <1>2, <1>4, <1>8 DEF MomoExits
<1> QED BY <1>4, <1>5, <1>6, <1>7, <1>8 DEF Momentum

\* What a plain step of a call does to cooldowns, lock and promotions.
LEMMA PlainNotes ==
    ASSUME FeedSafe, NEW c \in Calls, Plain(c)
    PROVE  /\ cool' \in [Strategies -> [Symbols -> 0..(Horizon + Cool)]]
           /\ lock' \in 0..(Horizon + Cool) /\ lock' >= lock
           /\ promos' \subseteq Items /\ bought' \subseteq promos'
           /\ UNCHANGED <<momo, answered>>
<1> USE DEF meming, promoing, momoing
<1>1. /\ cool \in [Strategies -> [Symbols -> 0..(Horizon + Cool)]]
      /\ lock \in 0..(Horizon + Cool) /\ lock >= lock
      /\ promos \subseteq Items /\ bought \subseteq promos
  BY FeedConstants DEF FeedSafe, Noted
<1>2. ASSUME call[c].of # "none"
      PROVE  call[c].msg.item \in Items /\ Sym(c) \in Symbols /\ call[c].at \in 0..Horizon
  <2>1. call[c] \in CallRecord BY <1>2 DEF FeedSafe, Calling, NoCall
  <2>2. call[c].msg \in Messages /\ call[c].at \in 0..Horizon BY <2>1 DEF CallRecord
  <2> QED BY <2>2, FeedConstants DEF Messages, Sym
<1>3. CASE Unpriced(c) \/ MemeBegins(c) \/ AirdropBegins(c) \/ ListingKnows(c) \/ TaskBegins(c)
  BY <1>1, <1>3 DEF Unpriced, MemeBegins, AirdropBegins, ListingKnows, TaskBegins
<1>4. CASE MemeAnswered(c) \/ MemeTold(c)
  <2>1. call[c].of # "none" BY <1>4 DEF MemeAnswered, MemeTold, Is
  <2>2. Cooling("meme", Sym(c), call[c].at) \in [Strategies -> [Symbols -> 0..(Horizon + Cool)]]
    BY <1>2, <2>1, CoolingTyped DEF Strategies
  <2>3. Locked(call[c].at) \in 0..(Horizon + Cool) /\ Locked(call[c].at) >= lock
    BY <1>2, <2>1, LockIsLater
  <2>4. /\ cool' = cool \/ cool' = Cooling("meme", Sym(c), call[c].at)
        /\ lock' = lock \/ lock' = Locked(call[c].at)
        /\ UNCHANGED <<promos, bought, momo, answered>>
    BY <1>4 DEF MemeAnswered, MemeTold
  <2> QED BY <1>1, <2>2, <2>3, <2>4
<1>5. CASE AirdropDeclines(c)
  <2>1. call[c].msg.item \in Items BY <1>2, <1>5 DEF AirdropDeclines, Is
  <2> QED BY <1>1, <1>5, <2>1 DEF AirdropDeclines
<1>6. CASE AirdropAnswered(c)
  <2>1. call[c].of # "none" BY <1>6 DEF AirdropAnswered, Is
  <2>2. PICK out \in Outcomes :
          /\ promos' = IF SeenAfter(out) THEN promos \cup {call[c].msg.item} ELSE promos
          /\ bought' = IF out = "ok" THEN bought \cup {call[c].msg.item} ELSE bought
    BY <1>6 DEF AirdropAnswered
  <2>3. promos' \subseteq Items /\ bought' \subseteq promos'
    BY <1>1, <1>2, <2>1, <2>2 DEF SeenAfter
  <2>4. Cooling("airdrop", Sym(c), call[c].at) \in [Strategies -> [Symbols -> 0..(Horizon + Cool)]]
    BY <1>2, <2>1, CoolingTyped DEF Strategies
  <2> QED BY <1>1, <1>6, <2>3, <2>4 DEF AirdropAnswered
<1>7. CASE TaskEnds(c)
  <2>1. call[c].of # "none" BY <1>7 DEF TaskEnds, Is
  <2>2. now \in 0..Horizon BY DEF FeedSafe, Timed
  <2>3. Cooling("listing", Sym(c), now) \in [Strategies -> [Symbols -> 0..(Horizon + Cool)]]
    BY <1>2, <2>1, <2>2, CoolingTyped DEF Strategies
  <2> QED BY <1>1, <1>7, <2>3 DEF TaskEnds
<1> QED BY <1>3, <1>4, <1>5, <1>6, <1>7 DEF Plain

LEMMA NotedStep == ASSUME FeedSafe, [Next]_vars PROVE Noted' /\ lock' >= lock
<1>1. lock >= lock BY FeedConstants DEF FeedSafe, Noted
<1>2. ASSUME UNCHANGED <<cool, lock, promos, bought, momo, answered>> PROVE Noted' /\ lock' >= lock
  BY <1>1, <1>2 DEF FeedSafe, Noted
<1> USE DEF meming, promoing, momoing
<1>3. ASSUME NEW i \in Items, Takes(i) PROVE Noted' /\ lock' >= lock BY <1>2, <1>3, TakenIn
<1>4. CASE Start \/ Dispatch \/ Publish BY <1>2, <1>4 DEF Start, Dispatch, Publish
<1>5. ASSUME NEW c \in Calls, Plain(c) PROVE Noted' /\ lock' >= lock
  BY <1>5, PlainNotes DEF FeedSafe, Noted
<1>6. ASSUME NEW c \in Calls, ListingForwards(c) \/ ListingEnters(c) PROVE Noted' /\ lock' >= lock
  BY <1>2, <1>6 DEF ListingForwards, ListingEnters, Enters
<1>7. CASE Momentum BY <1>1, <1>7, MomoMoves DEF FeedSafe, Noted
<1>8. CASE TimePasses BY <1>2, <1>8 DEF TimePasses
<1>9. CASE UNCHANGED vars BY <1>2, <1>9 DEF vars
<1> QED BY <1>3, <1>4, <1>5, <1>6, <1>7, <1>8, <1>9, NextCases

-----------------------------------------------------------------------------
(* The theorems.                                                             *)

LEMMA FeedSafety == Spec => []FeedSafe
<1>1. FeedSafe /\ [Next]_vars => FeedSafe'
  BY TimedStep, QueuedStep, CallStep, NotedStep DEF FeedSafe
<1> QED BY <1>1, FeedStarts, PTL DEF Spec

\* The listing sniper enters an announcement once and runs no more tasks than its
\* cap, and the queue grows beyond the feeds' share only by what it has forwarded
\* (listing_sniper.py: handle_listing, _forward_legacy, _schedule_entry).
THEOREM SniperSound == Spec => []SniperInv
<1>1. FeedSafe => SniperInv
  BY DEF FeedSafe, Timed, Queued, Calling, Noted, KeyedOnce, SniperInv, TypeOK, KeyEnteredOnce,
         CallRecord, MomoRecord
<1> QED BY <1>1, FeedSafety, PTL

\* The meme strategy's global lock never ends earlier than it was said to, in
\* whatever order its overlapping calls finish (meme_coin_sentiment.py).
THEOREM LockOnlyGrows == Spec => LockNeverShortens
<1>1. FeedSafe /\ [Next]_vars => [lock' >= lock]_vars BY NotedStep
<1> QED BY <1>1, FeedSafety, PTL DEF Spec, LockNeverShortens

\* No call begins to buy a promotion that was bought, although calls overlap and
\* connectors forget it (airdrop_promo.py: _seen_promos).
THEOREM PromotionOnce == Spec => PromoOnce
<1> DEFINE Leaves(c) == ~(Is(c, "airdrop", "called") /\ call'[c].pc = "buying" /\ call[c].msg.item \in bought)
<1>1. ASSUME FeedSafe, [Next]_vars, NEW c \in Calls PROVE Leaves(c)
  <2>1. ASSUME call' = call PROVE Leaves(c) BY <2>1 DEF Is
  <2>2. ASSUME NEW i \in Items, Takes(i) PROVE Leaves(c) BY <1>1, <2>1, <2>2, TakenIn
  <2>3. CASE Start \/ Dispatch BY <2>1, <2>3 DEF Start, Dispatch
  <2>4. CASE Publish BY <1>1, <2>4, Published DEF Is
  <2>5. ASSUME NEW d \in Calls, d # c, Handles(d) PROVE Leaves(c)
    <3>1. Plain(d) \/ ListingForwards(d) \/ ListingEnters(d) BY <2>5 DEF Handles, Plain
    <3>2. \E r : call' = [call EXCEPT ![d] = r]
      <4>1. CASE Plain(d) BY <1>1, <4>1, PlainMoves
      <4>2. CASE ListingForwards(d)
        BY <1>1, <4>2 DEF ListingForwards, FeedSafe, Calling
      <4>3. CASE ListingEnters(d) BY <4>3 DEF ListingEnters, Enters
      <4> QED BY <3>1, <4>1, <4>2, <4>3
    <3> QED BY <1>1, <2>5, <3>2 DEF FeedSafe, Calling, Is
  <2>6. ASSUME Handles(c) PROVE Leaves(c)
    <3>1. CASE AirdropBegins(c)
      <4>1. bought \subseteq promos BY <1>1 DEF FeedSafe, Noted
      <4>2. AirdropFree(c) \/ call' = Ended(c) BY <3>1 DEF AirdropBegins
      <4>3. CASE AirdropFree(c) BY <4>1, <4>3 DEF AirdropFree
      <4>4. CASE call' = Ended(c) BY <1>1, <4>4 DEF Ended, FeedSafe, Calling, NoCall
      <4> QED BY <4>2, <4>3, <4>4
    <3>2. CASE ~AirdropBegins(c)
      BY <2>6, <3>2 DEF Handles, Is, Unpriced, MemeBegins, MemeAnswered, MemeTold, AirdropDeclines,
         AirdropAnswered, ListingForwards, ListingEnters, ListingKnows, TaskBegins, TaskEnds
    <3> QED BY <3>1, <3>2
  <2>7. CASE Momentum BY <1>1, <2>1, <2>7, MomoMoves
  <2>8. CASE TimePasses BY <2>1, <2>8 DEF TimePasses
  <2>9. CASE UNCHANGED vars BY <2>1, <2>9 DEF vars
  <2>10. CASE \E d \in Calls : Handles(d) BY <2>5, <2>6, <2>10
  <2> HIDE DEF Leaves
  <2>11. \/ \E d \in Calls : Handles(d)
         \/ \E i \in Items : Takes(i)
         \/ Start \/ Dispatch \/ Publish \/ Momentum \/ TimePasses \/ UNCHANGED vars
    BY <1>1, NextCases DEF Handles, Plain
  <2> QED BY <2>2, <2>3, <2>4, <2>7, <2>8, <2>9, <2>10, <2>11
<1> DEFINE Held == \A c \in Calls : Is(c, "airdrop", "called") /\ call'[c].pc = "buying"
                         => call[c].msg.item \notin bought
<1>2. FeedSafe /\ [Next]_vars => [Held]_vars BY <1>1
<1> QED BY <1>2, FeedSafety, PTL DEF Spec, PromoOnce

-----------------------------------------------------------------------------
(* DexPositions: positions and their index.                                 *)

\* The positions are records of the four fields.
Shape(q) == q = [status |-> q.status, qty |-> q.qty, high |-> q.high, filled |-> q.filled]
Shaped   == DOMAIN pos = Cands /\ pos = [c \in Cands |-> pos[c]] /\ \A c \in Cands : Shape(pos[c])

IndexInv == Shaped /\ NoPhantomIndex

\* What every step does to the positions and the index: at most one position is
\* replaced, and a token loses or lacks its entry when that position is closed.
Replaces(c, q) ==
    /\ Shape(q)
    /\ pos' = [pos EXCEPT ![c] = q]
    /\ index' \subseteq index \cup (IF q.status = "open" THEN {TokenOf[c]} ELSE {})
    /\ q.status # "open" /\ pos[c].status = "open" => TokenOf[c] \notin index'

\* A step of that form keeps the index sound.
LEMMA ReplacedSound ==
    ASSUME IndexInv, NEW c \in Cands, NEW q, Replaces(c, q)
    PROVE  IndexInv'
<1>1. Shaped'
  BY DEF IndexInv, Shaped, Replaces
<1>2. ASSUME NEW s \in index' PROVE OpenOf(s)' # {}
  <2>1. CASE s = TokenOf[c] /\ q.status = "open"
    BY <2>1 DEF IndexInv, Shaped, Replaces, OpenOf, OpenPositions
  <2>2. CASE ~(s = TokenOf[c] /\ q.status = "open")
    <3>1. s \in index
      BY <1>2, <2>2 DEF Replaces
    <3>2. PICK d \in Cands : pos[d].status = "open" /\ TokenOf[d] = s
      BY <3>1 DEF IndexInv, NoPhantomIndex, OpenOf, OpenPositions
    <3>3. d # c
      BY <1>2, <2>2, <3>2 DEF Replaces
    <3> QED BY <3>2, <3>3 DEF IndexInv, Shaped, Replaces, OpenOf, OpenPositions
  <2> QED BY <2>1, <2>2
<1> QED BY <1>1, <1>2 DEF IndexInv, NoPhantomIndex

\* Onward replaces the position by a record of the same status.
LEMMA OnwardReplaces ==
    ASSUME NEW c, NEW q, NEW x, NEW at, Shape(q), Onward(c, q, x, at)
    PROVE  \E r : Shape(r) /\ r.status = q.status /\ pos' = [pos EXCEPT ![c] = r]
<1> DEFINE sold == [q EXCEPT !.filled = q.filled \cup Due(q, x, at)]
<1>1. pos' = [pos EXCEPT ![c] = q] \/ pos' = [pos EXCEPT ![c] = sold]
  BY DEF Onward
<1>2. Shape(sold) /\ sold.status = q.status
  BY DEF Shape
<1> QED BY <1>1, <1>2

\* A sale of something that is no candidate would change no position.
LEMMA OtherUntouched ==
    ASSUME IndexInv, NEW c, c \notin Cands, NEW q, NEW x, NEW at, index' = Unindexed(c, q),
           Onward(c, q, x, at) \/ pos' = [pos EXCEPT ![c] = q]
    PROVE  IndexInv'
<1>1. \E r : pos' = [pos EXCEPT ![c] = r]
  BY DEF Onward
<1>2. pos' = pos
  BY <1>1 DEF IndexInv, Shaped
<1> QED BY <1>2 DEF IndexInv, Shaped, NoPhantomIndex, OpenOf, OpenPositions, Unindexed

LEMMA IndexInductive ==
    ASSUME IndexInv, [DexNext]_dexVars
    PROVE  IndexInv'
<1> USE DEF IndexInv
<1>1. ASSUME UNCHANGED <<pos, index>> PROVE IndexInv'
  BY <1>1 DEF Shaped, NoPhantomIndex, OpenOf, OpenPositions
<1>2. ASSUME NEW c \in Cands, BuyAnswered(c) PROVE IndexInv'
  <2> DEFINE q == NewPosition
  <2>1. Shape(q) /\ q.status = "open"
    BY DEF Shape, NewPosition
  <2>2. pos' = [pos EXCEPT ![c] = q] /\ index' = index \cup {TokenOf[c]}
    BY <1>2 DEF BuyAnswered
  <2> HIDE DEF q
  <2>3. Replaces(c, q)
    BY <2>1, <2>2 DEF Replaces
  <2> QED BY <2>3, ReplacedSound
<1>3. ASSUME NEW c \in Cands, NEW x \in Prices, WatcherPrices(c, x) PROVE IndexInv'
  <2> DEFINE q == [pos[c] EXCEPT !.high = Max({pos[c].high, x})]
  <2>1. Shape(q) /\ q.status = pos[c].status
    BY DEF Shaped, Shape
  <2>2. pos' = [pos EXCEPT ![c] = q] \/ Onward(c, q, x, 0)
    BY <1>3 DEF WatcherPrices
  <2>3. PICK r : Shape(r) /\ r.status = pos[c].status /\ pos' = [pos EXCEPT ![c] = r]
    BY <2>1, <2>2, OnwardReplaces
  <2>4. index' = index
    BY <1>3 DEF WatcherPrices
  <2>5. Shaped'
    BY <2>3 DEF Shaped
  <2>6. \A d \in Cands : pos'[d].status = pos[d].status
    BY <2>3 DEF Shaped
  <2> QED BY <2>4, <2>5, <2>6 DEF NoPhantomIndex, OpenOf, OpenPositions
<1>4. ASSUME NEW c \in Cands, NEW q, Shape(q), index' = Unindexed(c, q),
             q.status \in {pos[c].status, "closed"},
             \E r : Shape(r) /\ r.status = q.status /\ pos' = [pos EXCEPT ![c] = r]
      PROVE  IndexInv'
  <2>1. PICK r : Shape(r) /\ r.status = q.status /\ pos' = [pos EXCEPT ![c] = r]
    BY <1>4
  <2>2. CASE q.status = "closed"
    BY <1>4, <2>1, <2>2, ReplacedSound DEF Replaces, Unindexed
  <2>3. CASE q.status # "closed"
    BY <1>4, <2>1, <2>3 DEF Shaped, NoPhantomIndex, OpenOf, OpenPositions, Unindexed
  <2> QED BY <2>2, <2>3
<1>5. ASSUME SellAnswered PROVE IndexInv'
  <2> DEFINE c == watch.of
             q == IF watch.at = Exit THEN Closed(pos[c]) ELSE Registered(pos[c], watch.at, SaleQty)
  <2>1. Onward(c, q, watch.price, watch.at) /\ index' = Unindexed(c, q)
    BY <1>5 DEF SellAnswered
  <2>2. CASE c \in Cands
    <3>1. Shape(pos[c])
      BY <2>2 DEF Shaped
    <3>2. Shape(q) /\ q.status \in {pos[c].status, "closed"}
      BY <3>1 DEF Shape, Closed, Registered
    <3> HIDE DEF q
    <3> QED BY <1>4, <2>1, <2>2, <3>2, OnwardReplaces
  <2>3. CASE c \notin Cands
    <3> HIDE DEF q, c
    <3> QED BY <2>1, <2>3, OtherUntouched
  <2> QED BY <2>2, <2>3
<1>6. ASSUME NEW escapes \in BOOLEAN, SellRaises(escapes) PROVE IndexInv'
  <2> DEFINE c == watch.of
             q == IF watch.at = Exit THEN Closed(pos[c]) ELSE pos[c]
  <2>1. index' = Unindexed(c, q)
    BY <1>6 DEF SellRaises
  <2>2. Onward(c, q, watch.price, watch.at) \/ pos' = [pos EXCEPT ![c] = q]
    BY <1>6 DEF SellRaises
  <2>3. CASE c \in Cands
    <3>1. Shape(pos[c])
      BY <2>3 DEF Shaped
    <3>2. Shape(q) /\ q.status \in {pos[c].status, "closed"}
      BY <3>1 DEF Shape, Closed
    <3> HIDE DEF q
    <3>3. \E r : Shape(r) /\ r.status = q.status /\ pos' = [pos EXCEPT ![c] = r]
      BY <2>2, <3>2, OnwardReplaces
    <3> QED BY <1>4, <2>1, <2>3, <3>2, <3>3
  <2>4. CASE c \notin Cands
    <3> HIDE DEF q, c
    <3> QED BY <2>1, <2>2, <2>4, OtherUntouched
  <2> QED BY <2>3, <2>4
<1>7. ASSUME Restart PROVE IndexInv'
  BY <1>7 DEF Restart, Shaped, NoPhantomIndex, OpenOf, OpenPositions
<1>8. ASSUME NEW c \in Cands, CandidateArrives(c) \/ BuySends(c) \/ BuyRaises(c)
                                \/ WatcherUnpriced(c)
      PROVE  IndexInv'
  BY <1>1, <1>8 DEF CandidateArrives, BuySends, BuyRaises, WatcherUnpriced
<1>9. ASSUME WatcherTick \/ WatcherSleeps \/ SellSends \/ Mines \/ Reverts PROVE IndexInv'
  BY <1>1, <1>9 DEF WatcherTick, WatcherSleeps, SellSends, Mines, Reverts
<1>10. CASE UNCHANGED dexVars
  BY <1>1, <1>10 DEF dexVars
<1> QED BY <1>2, <1>3, <1>5, <1>6, <1>7, <1>8, <1>9, <1>10 DEF DexNext

-----------------------------------------------------------------------------
\* The symbol index never holds an entry without an open position, whatever the
\* chain, the oracle and the process do: no token is locked out for good.
THEOREM IndexSound == DexSpec => []NoPhantomIndex
<1>1. ASSUME DexInit PROVE IndexInv
  <2>1. Shape(NoPosition)
    BY DEF Shape, NoPosition
  <2>2. Shaped
    BY <1>1, <2>1 DEF DexInit, Shaped
  <2>3. NoPhantomIndex
    BY <1>1 DEF DexInit, NoPhantomIndex
  <2> QED BY <2>2, <2>3 DEF IndexInv
<1>2. IndexInv => NoPhantomIndex
  BY DEF IndexInv
<1> QED BY <1>1, <1>2, IndexInductive, PTL DEF DexSpec

-----------------------------------------------------------------------------
(* The ledger of the positions and the wallet.                               *)

Progress == {"new", "buying", "sent", "mined", "reverted", "done"}
Position == [status : {"none", "open", "closed"}, qty : 0..Size,
             high : Prices \cup {Entry}, filled : SUBSET Targets]
Sale == [pc : {"selling", "waiting", "mined", "reverted"}, todo : SUBSET Cands, of : Cands,
         at : Targets \cup {Exit}, price : Prices]
Rest == [pc : {"sleep", "tick", "dead"}, todo : SUBSET Cands, at : {Exit}, price : {0}]

Typed ==
    /\ cand \in [Cands -> Progress] /\ pos \in [Cands -> Position]
    /\ index \subseteq Tokens /\ watch \in Sale \cup Rest /\ mem \in Tx
    /\ balance \in [Tokens -> Nat] /\ boots \in 1..MaxBoots /\ adrift \subseteq Tokens

\* An open position holds what its targets left; a purchase under way has none yet.
Stated(q) == q.status = "open" => q.qty > 0 /\ q.qty = Size - SumOver(Portions, q.filled)
Recorded  == \A c \in Cands : Stated(pos[c]) /\ (cand[c] # "done" => pos[c].status = "none")

\* What the watcher sells or has yet to look at is open, and is looked at once;
\* the target it sells at is not filled.
Tended ==
    /\ watch.todo \subseteq OpenPositions
    /\ Selling => /\ watch.of \in OpenPositions /\ watch.of \notin watch.todo
                  /\ watch.at \notin pos[watch.of].filled

\* The transaction in the mempool is the one that is waited for, or its token is adrift.
Broadcast ==
    mem # NoTx =>
        /\ mem.side = "buy" => cand[mem.of] = "sent" \/ TokenOf[mem.of] \in adrift
        /\ mem.side = "sell" => IF watch.pc = "waiting"
                                THEN watch.of = mem.of /\ mem.qty = SaleQty
                                ELSE TokenOf[mem.of] \in adrift

\* What a candidate contributes to the balance of token s.
Share(s) ==
    [c \in Cands |->
        IF TokenOf[c] # s THEN 0
        ELSE IF pos[c].status = "open"
             THEN pos[c].qty - (IF watch.pc = "mined" /\ watch.of = c THEN SaleQty ELSE 0)
             ELSE IF cand[c] = "mined" THEN Size ELSE 0]
Backed == \A s \in Tokens \ adrift : balance[s] = SumOver(Share(s), Cands)

Ledger == Typed /\ Recorded /\ Tended /\ Broadcast /\ Backed

LEMMA TargetsFinite == IsFiniteSet(Targets) /\ Targets = 1..Len(Portions) /\ Exit \notin Targets
<1>1. Targets = 1..Len(Portions) /\ Len(Portions) \in Nat
  BY DexAssumption DEF Targets
<1>2. IsFiniteSet(1..Len(Portions))
  BY <1>1, FS_Interval
<1>3. Exit \notin 1..Len(Portions)
  BY <1>1 DEF Exit
<1> QED BY <1>1, <1>2, <1>3

LEMMA MinPair ==
    ASSUME NEW a \in Int, NEW b \in Int
    PROVE  Min({a, b}) \in {a, b} /\ Min({a, b}) <= a /\ Min({a, b}) <= b
BY DEF Min

LEMMA MaxPair ==
    ASSUME NEW a \in Int, NEW b \in Int
    PROVE  Max({a, b}) \in {a, b}
BY DEF Max

\* A sale takes something, and no more than there is; what it leaves is missing
\* exactly the portion of its target.
LEMMA SaleFits ==
    ASSUME Ledger, Selling
    PROVE  /\ watch.of \in Cands /\ SaleQty \in 1..Size /\ SaleQty <= pos[watch.of].qty
           /\ watch.at = Exit => SaleQty = pos[watch.of].qty
           /\ watch.at # Exit /\ SaleQty < pos[watch.of].qty => SaleQty = Portions[watch.at]
<1> DEFINE c == watch.of
           q == pos[c].qty
<1>1. watch \in Sale /\ c \in Cands /\ watch.at \in Targets \cup {Exit}
  BY DEF Ledger, Typed, Selling, Sale, Rest
<1>2. q \in 1..Size /\ Size \in Nat
  <2>1. pos[c] \in Position /\ pos[c].status = "open"
    BY <1>1 DEF Ledger, Typed, Tended, OpenPositions
  <2>2. pos[c].qty > 0 /\ pos[c].qty \in 0..Size
    BY <1>1, <2>1 DEF Ledger, Recorded, Stated, Position
  <2> QED BY <2>2, DexAssumption
<1> HIDE DEF c
<1>3. CASE watch.at = Exit
  BY <1>1, <1>2, <1>3 DEF SaleQty, c
<1>4. CASE watch.at # Exit
  <2> DEFINE p == Portions[watch.at]
  <2>1. p \in 1..Size
    <3>1. watch.at \in 1..Len(Portions)
      BY <1>1, <1>4, TargetsFinite
    <3> QED BY <3>1, DexAssumption
  <2>2. SaleQty = Min({p, q})
    BY <1>4 DEF SaleQty, c
  <2> HIDE DEF p, q
  <2>3. Min({p, q}) \in {p, q} /\ Min({p, q}) <= p /\ Min({p, q}) <= q
    BY <1>2, <2>1, MinPair
  <2>4. Min({p, q}) \in 1..Size /\ Min({p, q}) <= q /\ (Min({p, q}) < q => Min({p, q}) = p)
    BY <1>2, <2>1, <2>3
  <2> QED BY <1>1, <1>4, <2>2, <2>4 DEF p, q, c
<1> QED BY <1>3, <1>4

\* A step of the watcher: position c is recorded as r, and the sale of c is over,
\* begins or goes on with the next target.
Turns(c, r) ==
    /\ c \in OpenPositions /\ (Selling => watch.of = c)
    /\ r \in Position /\ Stated(r) /\ r.status \in {"open", "closed"}
    /\ pos' = [pos EXCEPT ![c] = r]
    /\ watch' \in Sale \cup Rest /\ watch'.todo \subseteq watch.todo \ {c}
    /\ \/ watch'.pc \in {"sleep", "tick", "dead"}
       \/ watch'.pc = "selling" /\ watch'.of = c /\ r.status = "open" /\ watch'.at \notin r.filled
    /\ index' \subseteq Tokens /\ adrift \subseteq adrift' /\ adrift' \subseteq Tokens
    /\ watch.pc = "waiting" => TokenOf[c] \in adrift'
    /\ TokenOf[c] \notin adrift'
         => (IF r.status = "open" THEN r.qty ELSE 0)
            = pos[c].qty - (IF watch.pc = "mined" THEN SaleQty ELSE 0)
    /\ UNCHANGED <<cand, mem, balance, boots>>

\* If no share of the other tokens changes, the wallet keeps matching.
LEMMA SharesKept ==
    ASSUME Ledger, UNCHANGED balance, adrift \subseteq adrift',
           \A s \in Tokens : s \notin adrift' => Share(s)' = Share(s)
    PROVE  Backed'
BY DEF Ledger, Backed

LEMMA TurnKeeps ==
    ASSUME Ledger, NEW c, NEW r, Turns(c, r)
    PROVE  Ledger'
<1>1. c \in Cands /\ pos[c].status = "open" /\ cand[c] = "done" /\ r \in Position
  BY DEF Turns, OpenPositions, Ledger, Recorded
<1>2. /\ \A d \in Cands : d # c => pos'[d] = pos[d]
      /\ pos'[c] = r /\ pos' \in [Cands -> Position] /\ cand' = cand
  BY <1>1 DEF Turns, Ledger, Typed
<1>3. Typed'
  BY <1>2 DEF Ledger, Typed, Turns
<1>4. Recorded'
  BY <1>1, <1>2 DEF Ledger, Recorded, Turns
<1>5. Tended'
  <2>1. watch'.todo \subseteq OpenPositions'
    BY <1>1, <1>2 DEF Turns, Ledger, Tended, OpenPositions
  <2>2. ASSUME Selling' PROVE watch'.pc = "selling" /\ watch'.of = c /\ r.status = "open" /\ watch'.at \notin r.filled
    BY <2>2 DEF Selling, Turns
  <2>3. Selling' => watch'.of \notin watch'.todo
    BY <2>2 DEF Turns
  <2>4. Selling' => watch'.of \in OpenPositions' /\ watch'.at \notin pos'[watch'.of].filled
    BY <1>1, <1>2, <2>2 DEF OpenPositions
  <2> QED BY <2>1, <2>3, <2>4 DEF Tended
<1>6. Broadcast'
  <2>1. mem' = mem /\ adrift \subseteq adrift' /\ watch'.pc # "waiting"
    BY DEF Turns
  <2>2. ASSUME mem # NoTx, mem.side = "sell" PROVE TokenOf[mem.of] \in adrift'
    <3>1. CASE watch.pc = "waiting"
      <4>1. watch.of = c /\ watch.of = mem.of
        BY <2>2, <3>1 DEF Ledger, Broadcast, Turns, Selling
      <4> QED BY <3>1, <4>1 DEF Turns
    <3>2. CASE watch.pc # "waiting"
      BY <2>1, <2>2, <3>2 DEF Ledger, Broadcast
    <3> QED BY <3>1, <3>2
  <2>3. ASSUME mem # NoTx, mem.side = "buy" PROVE cand[mem.of] = "sent" \/ TokenOf[mem.of] \in adrift'
    BY <2>1, <2>3 DEF Ledger, Broadcast
  <2> QED BY <1>2, <2>1, <2>2, <2>3 DEF Broadcast
<1>7. Backed'
  <2>1. ASSUME NEW s \in Tokens, s \notin adrift' PROVE Share(s)' = Share(s)
    <3>1. ASSUME NEW d \in Cands, d # c PROVE Share(s)'[d] = Share(s)[d]
      <4>1. ~(watch.pc = "mined" /\ watch.of = d) /\ watch'.pc # "mined"
        BY <3>1 DEF Turns, Selling
      <4>2. pos'[d] = pos[d] /\ cand'[d] = cand[d]
        BY <1>2, <3>1
      <4> QED BY <4>1, <4>2 DEF Share
    <3>2. Share(s)'[c] = Share(s)[c]
      <4>1. CASE TokenOf[c] # s
        BY <1>1, <4>1 DEF Share
      <4>2. CASE TokenOf[c] = s
        <5>1. watch'.pc # "mined" /\ (watch.pc = "mined" => watch.of = c)
          BY DEF Turns, Selling
        <5>2. (IF r.status = "open" THEN r.qty ELSE 0)
                = pos[c].qty - (IF watch.pc = "mined" THEN SaleQty ELSE 0)
          BY <2>1, <4>2 DEF Turns
        <5>3. Share(s)[c] = pos[c].qty - (IF watch.pc = "mined" THEN SaleQty ELSE 0)
          BY <1>1, <4>2, <5>1 DEF Share
        <5>4. Share(s)'[c] = IF r.status = "open" THEN r.qty - 0 ELSE 0
          BY <1>1, <1>2, <4>2, <5>1 DEF Share
        <5>5. r.qty - 0 = r.qty
          BY <1>1, DexAssumption DEF Position
        <5> QED BY <5>2, <5>3, <5>4, <5>5
      <4> QED BY <4>1, <4>2
    <3>3. \A d \in Cands : Share(s)'[d] = Share(s)[d]
      BY <3>1, <3>2
    <3>4. Share(s) = [d \in Cands |-> Share(s)[d]] /\ Share(s)' = [d \in Cands |-> Share(s)'[d]]
      BY DEF Share
    <3> QED BY <3>3, <3>4
  <2>2. balance' = balance /\ adrift \subseteq adrift'
    BY DEF Turns
  <2> QED BY <2>1, <2>2, SharesKept
<1> QED BY <1>3, <1>4, <1>5, <1>6, <1>7 DEF Ledger

\* What Onward does is a turn, if the record and what changes with it are right.
LEMMA OnwardTurns ==
    ASSUME Ledger, NEW c \in Cands, NEW q, NEW x \in Prices, NEW at, at \in Targets \cup {Exit},
           c \in OpenPositions, Selling => watch.of = c,
           q \in Position, Stated(q), q.status \in {"open", "closed"},
           Onward(c, q, x, at), UNCHANGED <<cand, mem, balance, boots>>,
           index' \subseteq Tokens, adrift \subseteq adrift', adrift' \subseteq Tokens,
           watch.pc = "waiting" => TokenOf[c] \in adrift',
           TokenOf[c] \notin adrift'
             => (IF q.status = "open" THEN q.qty ELSE 0)
                = pos[c].qty - (IF watch.pc = "mined" THEN SaleQty ELSE 0)
    PROVE  Ledger'
<1> DEFINE due  == Due(q, x, at)
           sale == IF due # {} THEN Min(due) ELSE Exit
           r    == [q EXCEPT !.filled = q.filled \cup due]
<1>1. watch.todo \subseteq Cands /\ due \subseteq Targets /\ due \cap q.filled = {}
  BY DEF Ledger, Typed, Sale, Rest, Due
<1>2. sale \in Targets \cup {Exit} /\ sale \notin q.filled
  <2>1. CASE due = {}
    BY <2>1, TargetsFinite DEF Position
  <2>2. CASE due # {}
    <3> HIDE DEF due
    <3>1. due \in SUBSET Nat
      BY <1>1, TargetsFinite
    <3>2. Min(due) \in due
      BY <2>2, <3>1, MinNat
    <3> QED BY <1>1, <2>2, <3>2
  <2> QED BY <2>1, <2>2
<1>3. CASE q.status = "open" /\ (due # {} \/ Trails(q, x))
  <2>1. /\ watch' = [pc |-> "selling", todo |-> watch.todo \ {c}, of |-> c, at |-> sale, price |-> x]
        /\ pos' = [pos EXCEPT ![c] = q]
    BY <1>3 DEF Onward
  <2> HIDE DEF sale, due, r
  <2>2. watch' \in Sale
    BY <1>1, <1>2, <2>1 DEF Sale
  <2>3. Turns(c, q)
    BY <1>2, <1>3, <2>1, <2>2 DEF Turns
  <2> QED BY <2>3, TurnKeeps
<1>4. CASE ~(q.status = "open" /\ (due # {} \/ Trails(q, x)))
  <2>1. /\ watch' = [Asleep EXCEPT !.pc = "tick", !.todo = watch.todo \ {c}]
        /\ pos' = [pos EXCEPT ![c] = IF q.status = "open" THEN q ELSE r]
    BY <1>4 DEF Onward
  <2>2. watch' \in Rest /\ watch'.pc = "tick" /\ watch'.todo = watch.todo \ {c}
    BY <1>1, <2>1 DEF Asleep, Rest
  <2>3. r \in Position /\ r.status = q.status /\ r.qty = q.qty
    BY <1>1 DEF Position
  <2> HIDE DEF sale, due, r
  <2>4. CASE q.status = "open"
    <3>1. Turns(c, q)
      BY <2>1, <2>2, <2>4 DEF Turns
    <3> QED BY <3>1, TurnKeeps
  <2>5. CASE q.status # "open"
    <3>1. Stated(r)
      BY <2>3, <2>5 DEF Stated
    <3>2. Turns(c, r)
      BY <2>1, <2>2, <2>3, <2>5, <3>1 DEF Turns
    <3> QED BY <3>2, TurnKeeps
  <2> QED BY <2>4, <2>5
<1> QED BY <1>3, <1>4

\* The watcher rests or looks at the next position.
LEMMA RestKeeps ==
    ASSUME Ledger, watch.pc \in {"sleep", "tick"}, watch' \in Rest, watch'.todo \subseteq OpenPositions,
           UNCHANGED <<cand, pos, index, mem, balance, boots, adrift>>
    PROVE  Ledger'
<1>1. watch'.pc \in {"sleep", "tick", "dead"}
  BY DEF Rest
<1>2. Typed'
  BY DEF Ledger, Typed
<1>3. Recorded'
  BY DEF Ledger, Recorded
<1>4. Tended'
  BY <1>1 DEF Ledger, Tended, Selling, OpenPositions
<1>5. Broadcast'
  BY <1>1 DEF Ledger, Broadcast
<1>6. Backed'
  BY <1>1, SharesKept DEF Share
<1> QED BY <1>2, <1>3, <1>4, <1>5, <1>6 DEF Ledger

\* A candidate moves on; if it had paid, or is said to have, its token is adrift.
LEMMA CandidateKeeps ==
    ASSUME Ledger, NEW c \in Cands, NEW n \in Progress, cand[c] # "done",
           cand' = [cand EXCEPT ![c] = n], mem' \in Tx, adrift \subseteq adrift', adrift' \subseteq Tokens,
           TokenOf[c] \notin adrift' => (cand[c] = "mined" <=> n = "mined"),
           UNCHANGED <<pos, index, watch, balance, boots>>
    PROVE  Typed' /\ Recorded' /\ Tended' /\ Backed'
<1>1. /\ \A d \in Cands : d # c => cand'[d] = cand[d]
      /\ cand'[c] = n
  BY DEF Ledger, Typed
<1>2. Typed'
  BY DEF Ledger, Typed
<1>3. Recorded'
  BY <1>1 DEF Ledger, Recorded
<1>4. Tended'
  BY DEF Ledger, Tended, Selling, OpenPositions
<1>5. ASSUME NEW s \in Tokens, s \notin adrift' PROVE Share(s)' = Share(s)
  <2>1. SaleQty' = SaleQty
    BY DEF SaleQty
  <2>2. ASSUME NEW d \in Cands PROVE Share(s)'[d] = Share(s)[d]
    <3>1. TokenOf[d] = s => (cand'[d] = "mined" <=> cand[d] = "mined")
      BY <1>1, <1>5
    <3> QED BY <2>1, <3>1 DEF Share
  <2>3. Share(s) = [d \in Cands |-> Share(s)[d]] /\ Share(s)' = [d \in Cands |-> Share(s)'[d]]
    BY DEF Share
  <2> QED BY <2>2, <2>3
<1>6. Backed'
  BY <1>5, SharesKept
<1> QED BY <1>2, <1>3, <1>4, <1>6

LEMMA CandidateActions ==
    ASSUME Ledger, NEW c \in Cands, CandidateArrives(c) \/ BuySends(c) \/ BuyRaises(c)
    PROVE  Ledger'
<1>1. CASE CandidateArrives(c)
  <2>1. PICK n \in {"done", "buying"} : cand' = [cand EXCEPT ![c] = n]
    BY <1>1 DEF CandidateArrives
  <2>2. cand[c] = "new" /\ UNCHANGED <<pos, index, watch, mem, balance, boots, adrift>>
    BY <1>1 DEF CandidateArrives
  <2>3. Typed' /\ Recorded' /\ Tended' /\ Backed'
    BY <2>1, <2>2, CandidateKeeps DEF Progress, Ledger, Typed
  <2>4. Broadcast'
    BY <2>1, <2>2 DEF Ledger, Typed, Broadcast, SaleQty
  <2> QED BY <2>3, <2>4 DEF Ledger
<1>2. CASE BuySends(c)
  <2>1. /\ cand[c] = "buying" /\ cand' = [cand EXCEPT ![c] = "sent"]
        /\ mem' = [of |-> c, side |-> "buy"] /\ UNCHANGED <<pos, index, watch, balance, boots, adrift>>
    BY <1>2 DEF BuySends
  <2>2. mem' \in Tx
    BY <2>1 DEF Tx
  <2>3. Typed' /\ Recorded' /\ Tended' /\ Backed'
    BY <2>1, <2>2, CandidateKeeps DEF Progress, Ledger, Typed
  <2>4. cand'[c] = "sent"
    BY <2>1 DEF Ledger, Typed
  <2>5. Broadcast'
    BY <2>1, <2>4 DEF Broadcast
  <2> QED BY <2>3, <2>5 DEF Ledger
<1>3. CASE BuyRaises(c)
  <2>1. /\ cand[c] \in {"buying", "sent", "mined", "reverted"} /\ cand' = [cand EXCEPT ![c] = "done"]
        /\ adrift' = IF cand[c] \in {"sent", "mined"} THEN adrift \cup {TokenOf[c]} ELSE adrift
        /\ UNCHANGED <<pos, index, watch, mem, balance, boots>>
    BY <1>3 DEF BuyRaises
  <2>2. TokenOf[c] \in Tokens /\ adrift \subseteq Tokens
    BY DexAssumption DEF Ledger, Typed
  <2>3. Typed' /\ Recorded' /\ Tended' /\ Backed'
    BY <2>1, <2>2, CandidateKeeps DEF Progress, Ledger, Typed
  <2>4. Broadcast'
    BY <2>1, <2>2 DEF Ledger, Typed, Broadcast, SaleQty
  <2> QED BY <2>3, <2>4 DEF Ledger
<1> QED BY <1>1, <1>2, <1>3

LEMMA BuyAnsweredKeeps ==
    ASSUME Ledger, NEW c \in Cands, BuyAnswered(c)
    PROVE  Ledger'
<1>1. /\ cand[c] = "mined" /\ cand' = [cand EXCEPT ![c] = "done"]
      /\ pos' = [pos EXCEPT ![c] = NewPosition] /\ index' = index \cup {TokenOf[c]}
      /\ UNCHANGED <<watch, mem, balance, boots, adrift>>
  BY DEF BuyAnswered
<1>2. pos[c].status = "none"
  BY <1>1 DEF Ledger, Recorded
<1>3. NewPosition \in Position /\ NewPosition.status = "open" /\ NewPosition.qty = Size
      /\ NewPosition.filled = {}
  BY DexAssumption DEF NewPosition, Position
<1>4. /\ \A d \in Cands : d # c => pos'[d] = pos[d] /\ cand'[d] = cand[d]
      /\ pos'[c] = NewPosition /\ cand'[c] = "done" /\ pos' \in [Cands -> Position]
  BY <1>1, <1>3 DEF Ledger, Typed
<1>5. Typed'
  <2>1. TokenOf[c] \in Tokens /\ cand' \in [Cands -> Progress]
    BY <1>1, DexAssumption DEF Ledger, Typed, Progress
  <2> QED BY <1>1, <1>4, <2>1 DEF Ledger, Typed
<1>6. Recorded'
  <2>1. Stated(NewPosition)
    <3>1. SumOver(Portions, {}) = 0 /\ Size > 0 /\ Size = Size - 0
      BY SumEmpty, DexAssumption
    <3> QED BY <1>3, <3>1 DEF Stated
  <2> QED BY <1>4, <2>1 DEF Ledger, Recorded
<1>7. Selling => watch.of # c /\ watch.of \in Cands
  BY <1>2 DEF Ledger, Tended, OpenPositions
<1>8. Tended'
  <2>1. OpenPositions \subseteq OpenPositions'
    BY <1>2, <1>4 DEF OpenPositions
  <2> QED BY <1>1, <1>4, <1>7, <2>1 DEF Ledger, Tended, Selling
<1>9. Selling => SaleQty' = SaleQty
  BY <1>1, <1>4, <1>7 DEF SaleQty
<1>10. Broadcast'
  <2>1. ASSUME mem # NoTx, mem.side = "buy" PROVE cand'[mem.of] = "sent" \/ TokenOf[mem.of] \in adrift
    BY <1>1, <1>4, <2>1 DEF Ledger, Broadcast, Typed
  <2>2. watch.pc = "waiting" => Selling
    BY DEF Selling
  <2> QED BY <1>1, <1>9, <2>1, <2>2 DEF Ledger, Broadcast
<1>11. Backed'
  <2>1. ASSUME NEW s \in Tokens, s \notin adrift' PROVE Share(s)' = Share(s)
    <3>1. ASSUME NEW d \in Cands, d # c PROVE Share(s)'[d] = Share(s)[d]
      <4>1. watch.pc = "mined" => SaleQty' = SaleQty
        BY <1>9 DEF Selling
      <4> QED BY <1>1, <1>4, <3>1, <4>1 DEF Share
    <3>2. Share(s)'[c] = Share(s)[c]
      <4>1. ~(watch.pc = "mined" /\ watch.of = c)
        BY <1>7 DEF Selling
      <4>2. Size - 0 = Size
        BY DexAssumption
      <4>3. Share(s)'[c] = IF TokenOf[c] # s THEN 0 ELSE Size - 0
        BY <1>1, <1>3, <1>4, <4>1 DEF Share
      <4>4. Share(s)[c] = IF TokenOf[c] # s THEN 0 ELSE Size
        BY <1>1, <1>2, <4>1 DEF Share
      <4> QED BY <4>2, <4>3, <4>4
    <3>3. \A d \in Cands : Share(s)'[d] = Share(s)[d]
      BY <3>1, <3>2
    <3>4. Share(s) = [d \in Cands |-> Share(s)[d]] /\ Share(s)' = [d \in Cands |-> Share(s)'[d]]
      BY DEF Share
    <3> QED BY <3>3, <3>4
  <2> QED BY <1>1, <2>1, SharesKept
<1> QED BY <1>5, <1>6, <1>8, <1>10, <1>11 DEF Ledger

\* What an open position is made of.
LEMMA OpenRecord ==
    ASSUME Ledger, NEW c \in OpenPositions
    PROVE  /\ c \in Cands /\ pos[c] \in Position /\ pos[c].status = "open" /\ Stated(pos[c])
           /\ pos[c].qty \in 1..Size /\ pos[c].high \in Prices \cup {Entry}
           /\ pos[c].filled \subseteq Targets
<1>1. c \in Cands /\ pos[c] \in Position /\ pos[c].status = "open" /\ Stated(pos[c])
  BY DEF OpenPositions, Ledger, Typed, Recorded
<1>2. pos[c].qty > 0 /\ pos[c].qty \in 0..Size /\ pos[c].high \in Prices \cup {Entry}
      /\ pos[c].filled \subseteq Targets
  BY <1>1 DEF Stated, Position
<1>3. pos[c].qty \in 1..Size
  BY <1>2, DexAssumption
<1> QED BY <1>1, <1>2, <1>3

LEMMA WatcherPricesKeeps ==
    ASSUME Ledger, NEW c \in Cands, NEW x \in Prices, WatcherPrices(c, x)
    PROVE  Ledger'
<1> DEFINE h == Max({pos[c].high, x})
           q == [pos[c] EXCEPT !.high = h]
<1>1. /\ watch.pc = "tick" /\ c \in watch.todo
      /\ UNCHANGED <<cand, index, mem, balance, boots, adrift>>
  BY DEF WatcherPrices
<1>2. c \in OpenPositions /\ ~Selling
  BY <1>1 DEF Ledger, Tended, Selling
<1>3. h \in Prices \cup {Entry}
  <2>1. pos[c].high \in Int /\ x \in Int
    <3>1. pos[c].high \in Prices \cup {Entry}
      BY <1>2, OpenRecord
    <3>2. Prices \subseteq Int /\ Entry \in Int
      BY DexAssumption DEF Entry
    <3> QED BY <3>1, <3>2
  <2>2. h \in {pos[c].high, x}
    BY <2>1, MaxPair
  <2> QED BY <1>2, <2>2, OpenRecord
<1>4. q \in Position /\ q.status = "open" /\ q.qty = pos[c].qty /\ q.filled = pos[c].filled
  <2> HIDE DEF h
  <2> QED BY <1>2, <1>3, OpenRecord DEF Position
<1>5. Stated(q)
  BY <1>2, <1>4, OpenRecord DEF Stated
<1>6. index' \subseteq Tokens /\ adrift' = adrift /\ adrift \subseteq Tokens
  BY <1>1 DEF Ledger, Typed
<1>7. (IF q.status = "open" THEN q.qty ELSE 0) = pos[c].qty - (IF watch.pc = "mined" THEN SaleQty ELSE 0)
  <2>1. pos[c].qty - 0 = pos[c].qty
    BY <1>2, OpenRecord, DexAssumption
  <2> QED BY <1>1, <1>4, <2>1
<1>8. CASE Stops(x)
  <2>1. /\ watch' = [pc |-> "selling", todo |-> watch.todo \ {c}, of |-> c, at |-> Exit, price |-> x]
        /\ pos' = [pos EXCEPT ![c] = q]
    BY <1>8 DEF WatcherPrices
  <2> HIDE DEF q
  <2>2. watch' \in Sale
    <3>1. watch.todo \ {c} \in SUBSET Cands
      BY DEF Ledger, Tended, OpenPositions
    <3> QED BY <2>1, <3>1 DEF Sale
  <2>3. Exit \notin q.filled
    BY <1>4, TargetsFinite DEF Position
  <2>4. Turns(c, q)
    BY <1>1, <1>2, <1>4, <1>5, <1>6, <1>7, <2>1, <2>2, <2>3 DEF Turns
  <2> QED BY <2>4, TurnKeeps
<1>9. CASE ~Stops(x)
  <2>1. Onward(c, q, x, 0)
    BY <1>9 DEF WatcherPrices
  <2> HIDE DEF q
  <2>2. 0 \in Targets \cup {Exit}
    BY DEF Exit
  <2> QED BY <1>1, <1>2, <1>4, <1>5, <1>6, <1>7, <2>1, <2>2, OnwardTurns
<1> QED BY <1>8, <1>9

\* What the sale's end makes of the position: closed, or a target further.
LEMMA SoldRecord ==
    ASSUME Ledger, Selling
    PROVE  LET c == watch.of
               q == Registered(pos[c], watch.at, SaleQty)
           IN /\ Closed(pos[c]) \in Position /\ Closed(pos[c]).status = "closed"
              /\ watch.at # Exit =>
                   /\ q \in Position /\ Stated(q) /\ q.status \in {"open", "closed"}
                   /\ (IF q.status = "open" THEN q.qty ELSE 0) = pos[c].qty - SaleQty
<1> DEFINE c == watch.of
           q == Registered(pos[c], watch.at, SaleQty)
           n == pos[c].qty - SaleQty
<1>1. c \in OpenPositions /\ watch.at \notin pos[c].filled /\ watch \in Sale
  BY DEF Ledger, Typed, Tended, Selling, Sale, Rest
<1>2. pos[c] \in Position /\ pos[c].status = "open" /\ Stated(pos[c]) /\ pos[c].qty \in 1..Size
      /\ pos[c].filled \subseteq Targets
  BY <1>1, OpenRecord
<1>3. Closed(pos[c]) \in Position /\ Closed(pos[c]).status = "closed"
  BY <1>2 DEF Closed, Position
<1>4. ASSUME watch.at # Exit
      PROVE  /\ q \in Position /\ Stated(q) /\ q.status \in {"open", "closed"}
             /\ (IF q.status = "open" THEN q.qty ELSE 0) = n
  <2>1. watch.at \in Targets
    BY <1>1, <1>4 DEF Sale
  <2>2. SaleQty \in 1..Size /\ SaleQty <= pos[c].qty /\ (SaleQty < pos[c].qty => SaleQty = Portions[watch.at])
    BY <1>4, SaleFits
  <2>3. n \in 0..Size /\ (n > 0 => SaleQty < pos[c].qty)
    <3>1. \A a \in 1..Size, b \in 1..Size : b <= a => a - b \in 0..Size /\ (a - b > 0 => b < a)
      BY DexAssumption
    <3> QED BY <1>2, <2>2, <3>1
  <2>4. /\ q = [pos[c] EXCEPT !.qty = n, !.filled = @ \cup {watch.at},
                              !.status = IF n <= 0 THEN "closed" ELSE @]
    BY DEF Registered
  <2> HIDE DEF n, q
  <2>5. /\ q \in Position /\ q.qty = n /\ q.filled = pos[c].filled \cup {watch.at}
        /\ q.status = IF n <= 0 THEN "closed" ELSE "open"
    BY <1>2, <2>1, <2>3, <2>4 DEF Position
  <2>6. CASE n <= 0
    <3>1. n = 0
      BY <2>3, <2>6, DexAssumption
    <3> QED BY <2>5, <2>6, <3>1 DEF Stated
  <2>7. CASE ~(n <= 0)
    <3>1. n > 0
      BY <2>3, <2>7, DexAssumption
    <3>2. SaleQty = Portions[watch.at] /\ Portions[watch.at] \in Int
      BY <2>2, <2>3, <3>1
    <3>3. /\ IsFiniteSet(pos[c].filled)
          /\ \A i \in pos[c].filled \cup {watch.at} : Portions[i] \in Int
      <4>1. IsFiniteSet(pos[c].filled)
        BY <1>2, TargetsFinite, FS_Subset
      <4>2. ASSUME NEW i \in Targets PROVE Portions[i] \in Int
        <5>1. Portions[i] \in 1..Size
          BY <4>2, TargetsFinite, DexAssumption
        <5> QED BY <5>1, DexAssumption
      <4> QED BY <1>2, <2>1, <4>1, <4>2
    <3>4. SumOver(Portions, pos[c].filled \cup {watch.at}) = SumOver(Portions, pos[c].filled) + Portions[watch.at]
      BY <1>1, <3>3, SumAdd
    <3>5. SumOver(Portions, pos[c].filled) \in Int
      BY <3>3, SumType
    <3>6. pos[c].qty = Size - SumOver(Portions, pos[c].filled)
      BY <1>2 DEF Stated
    <3>7. n = Size - (SumOver(Portions, pos[c].filled) + Portions[watch.at])
      <4>1. \A t, p \in Int : (Size - t) - p = Size - (t + p)
        BY DexAssumption
      <4>2. n = (Size - SumOver(Portions, pos[c].filled)) - Portions[watch.at]
        BY <3>2, <3>6 DEF n
      <4> QED BY <3>2, <3>5, <4>1, <4>2, Zenon
    <3> QED BY <2>5, <2>7, <3>1, <3>4, <3>7 DEF Stated
  <2> QED BY <2>6, <2>7
<1> QED BY <1>3, <1>4

LEMMA SellAnsweredKeeps ==
    ASSUME Ledger, SellAnswered
    PROVE  Ledger'
<1> DEFINE c == watch.of
           q == IF watch.at = Exit THEN Closed(pos[c]) ELSE Registered(pos[c], watch.at, SaleQty)
<1>1. /\ watch.pc = "mined" /\ Onward(c, q, watch.price, watch.at) /\ index' = Unindexed(c, q)
      /\ UNCHANGED <<cand, mem, balance, boots, adrift>>
  BY DEF SellAnswered
<1>2. Selling /\ watch \in Sale /\ c \in OpenPositions /\ c \in Cands
  BY <1>1 DEF Selling, Ledger, Typed, Tended, Sale, Rest
<1>3. watch.price \in Prices /\ watch.at \in Targets \cup {Exit}
  BY <1>2 DEF Sale
<1>4. /\ q \in Position /\ Stated(q) /\ q.status \in {"open", "closed"}
      /\ (IF q.status = "open" THEN q.qty ELSE 0) = pos[c].qty - SaleQty
  <2>1. CASE watch.at = Exit
    <3>1. q \in Position /\ q.status = "closed"
      BY <1>2, <2>1, SoldRecord
    <3>2. SaleQty = pos[c].qty /\ pos[c].qty \in 1..Size
      BY <1>2, <2>1, SaleFits
    <3>3. pos[c].qty - pos[c].qty = 0
      BY <3>2, DexAssumption
    <3> HIDE DEF q
    <3> QED BY <3>1, <3>2, <3>3 DEF Stated
  <2>2. CASE watch.at # Exit
    BY <1>2, <2>2, SoldRecord
  <2> QED BY <2>1, <2>2
<1>5. index' \subseteq Tokens /\ adrift' = adrift /\ adrift \subseteq Tokens
  BY <1>1 DEF Ledger, Typed, Unindexed
<1> HIDE DEF q
<1> QED BY <1>1, <1>2, <1>3, <1>4, <1>5, OnwardTurns

LEMMA SellRaisesKeeps ==
    ASSUME Ledger, NEW escapes \in BOOLEAN, SellRaises(escapes)
    PROVE  Ledger'
<1> DEFINE c == watch.of
           q == IF watch.at = Exit THEN Closed(pos[c]) ELSE pos[c]
<1>1. /\ Selling /\ index' = Unindexed(c, q) /\ UNCHANGED <<cand, mem, balance, boots>>
      /\ adrift' = IF watch.at = Exit \/ watch.pc \in {"waiting", "mined"}
                   THEN adrift \cup {TokenOf[c]} ELSE adrift
      /\ IF escapes THEN watch' = [Asleep EXCEPT !.pc = "dead"] /\ pos' = [pos EXCEPT ![c] = q]
         ELSE Onward(c, q, watch.price, watch.at)
  BY DEF SellRaises
<1>2. watch \in Sale /\ c \in OpenPositions /\ c \in Cands
  BY <1>1 DEF Selling, Ledger, Typed, Tended, Sale, Rest
<1>3. watch.price \in Prices /\ watch.at \in Targets \cup {Exit}
  BY <1>2 DEF Sale
<1>4. q \in Position /\ Stated(q) /\ q.status \in {"open", "closed"}
      /\ (watch.at # Exit => q = pos[c] /\ q.status = "open")
  <2>1. CASE watch.at = Exit
    <3>1. q \in Position /\ q.status = "closed"
      BY <1>1, <2>1, SoldRecord
    <3> HIDE DEF q
    <3> QED BY <2>1, <3>1 DEF Stated
  <2>2. CASE watch.at # Exit
    BY <1>2, <2>2, OpenRecord
  <2> QED BY <2>1, <2>2
<1>5. TokenOf[c] \in Tokens /\ index' \subseteq Tokens /\ adrift' \subseteq Tokens /\ adrift \subseteq adrift'
  BY <1>1, <1>2, DexAssumption DEF Ledger, Typed, Unindexed
<1>6. TokenOf[c] \notin adrift'
        => (IF q.status = "open" THEN q.qty ELSE 0) = pos[c].qty - (IF watch.pc = "mined" THEN SaleQty ELSE 0)
  <2>1. SUFFICES ASSUME TokenOf[c] \notin adrift'
                 PROVE (IF q.status = "open" THEN q.qty ELSE 0) = pos[c].qty - (IF watch.pc = "mined" THEN SaleQty ELSE 0)
    OBVIOUS
  <2>2. watch.at # Exit /\ watch.pc # "mined"
    BY <1>1, <2>1
  <2>3. pos[c].qty - 0 = pos[c].qty
    BY <1>2, OpenRecord, DexAssumption
  <2> HIDE DEF q
  <2> QED BY <1>4, <2>2, <2>3
<1>7. watch.pc = "waiting" => TokenOf[c] \in adrift'
  BY <1>1
<1> HIDE DEF q
<1>8. CASE escapes
  <2>1. watch' = [Asleep EXCEPT !.pc = "dead"] /\ pos' = [pos EXCEPT ![c] = q]
    BY <1>1, <1>8
  <2>2. watch' \in Rest /\ watch'.pc = "dead" /\ watch'.todo = {}
    BY <2>1 DEF Asleep, Rest
  <2>3. Turns(c, q)
    BY <1>1, <1>2, <1>4, <1>5, <1>6, <1>7, <2>1, <2>2 DEF Turns
  <2> QED BY <2>3, TurnKeeps
<1>9. CASE ~escapes
  BY <1>1, <1>2, <1>3, <1>4, <1>5, <1>6, <1>7, <1>9, OnwardTurns
<1> QED BY <1>8, <1>9

LEMMA SellSendsKeeps ==
    ASSUME Ledger, SellSends
    PROVE  Ledger'
<1>1. /\ watch.pc = "selling" /\ watch' = [watch EXCEPT !.pc = "waiting"]
      /\ mem' = [of |-> watch.of, side |-> "sell", qty |-> SaleQty]
      /\ UNCHANGED <<cand, pos, index, balance, boots, adrift>>
  BY DEF SellSends
<1>2. Selling /\ watch \in Sale
  BY <1>1 DEF Selling, Ledger, Typed, Sale, Rest
<1>3. /\ watch' \in Sale /\ watch'.pc = "waiting" /\ watch'.of = watch.of /\ watch'.at = watch.at
      /\ watch'.todo = watch.todo
  BY <1>1, <1>2 DEF Sale
<1>4. SaleQty' = SaleQty
  BY <1>1, <1>3 DEF SaleQty
<1>5. mem' \in Tx
  BY <1>1, <1>2, SaleFits DEF Tx
<1>6. Typed'
  BY <1>1, <1>3, <1>5 DEF Ledger, Typed
<1>7. Recorded'
  BY <1>1 DEF Ledger, Recorded
<1>8. Tended'
  BY <1>1, <1>2, <1>3 DEF Ledger, Tended, OpenPositions
<1>9. Broadcast'
  BY <1>1, <1>3, <1>4 DEF Broadcast
<1>10. Backed'
  <2>1. watch.pc # "mined" /\ watch'.pc # "mined"
    BY <1>1, <1>3
  <2> QED BY <1>1, <2>1, SharesKept DEF Share
<1> QED BY <1>6, <1>7, <1>8, <1>9, <1>10 DEF Ledger

\* The waiting coroutine is told how its transaction ended.
LEMMA SettlesTypes ==
    ASSUME Ledger, mem # NoTx, NEW ok \in BOOLEAN, Settles(ok), UNCHANGED pos
    PROVE  /\ cand' \in [Cands -> Progress] /\ watch' \in Sale \cup Rest
           /\ \A c \in Cands : cand[c] = "done" <=> cand'[c] = "done"
           /\ watch'.todo = watch.todo /\ (Selling' <=> Selling)
           /\ Selling => watch'.of = watch.of /\ watch'.at = watch.at
           /\ Recorded' /\ Tended'
<1> DEFINE end == IF ok THEN "mined" ELSE "reverted"
<1>1. CASE mem.side = "buy"
  <2>1. cand' = [cand EXCEPT ![mem.of] = IF @ = "sent" THEN end ELSE @] /\ watch' = watch
    BY <1>1 DEF Settles
  <2>2. cand' \in [Cands -> Progress] /\ \A c \in Cands : cand[c] = "done" <=> cand'[c] = "done"
    BY <2>1 DEF Ledger, Typed, Progress
  <2>3. Recorded'
    BY <2>2 DEF Ledger, Recorded
  <2>4. Tended'
    BY <2>1 DEF Ledger, Tended, OpenPositions, Selling
  <2> QED BY <2>1, <2>2, <2>3, <2>4 DEF Ledger, Typed, Selling
<1>2. CASE mem.side # "buy"
  <2>1. watch' = (IF watch.pc = "waiting" THEN [watch EXCEPT !.pc = end] ELSE watch) /\ cand' = cand
    BY <1>2 DEF Settles
  <2>2. CASE watch.pc = "waiting"
    <3>1. watch \in Sale
      BY <2>2 DEF Ledger, Typed, Sale, Rest
    <3>2. /\ watch' \in Sale /\ watch'.of = watch.of /\ watch'.at = watch.at /\ watch'.todo = watch.todo
          /\ watch'.pc \in {"mined", "reverted"}
      BY <2>1, <2>2, <3>1 DEF Sale
    <3>3. Selling /\ Selling'
      BY <2>2, <3>2 DEF Selling
    <3>4. Recorded' /\ Tended'
      BY <2>1, <3>2, <3>3 DEF Ledger, Recorded, Tended, OpenPositions
    <3> QED BY <2>1, <3>2, <3>3, <3>4 DEF Ledger, Typed
  <2>3. CASE watch.pc # "waiting"
    <3>1. watch' = watch /\ cand' = cand
      BY <2>1, <2>3
    <3>2. Selling' <=> Selling
      BY <3>1 DEF Selling
    <3>3. Recorded' /\ Tended'
      BY <3>1, <3>2 DEF Ledger, Recorded, Tended, OpenPositions
    <3> QED BY <3>1, <3>2, <3>3 DEF Ledger, Typed
  <2> QED BY <2>2, <2>3
<1> QED BY <1>1, <1>2

LEMMA RevertsKeeps ==
    ASSUME Ledger, Reverts
    PROVE  Ledger'
<1>1. mem # NoTx /\ mem' = NoTx /\ Settles(FALSE) /\ UNCHANGED <<pos, index, balance, boots, adrift>>
  BY DEF Reverts
<1>2. /\ cand' \in [Cands -> Progress] /\ watch' \in Sale \cup Rest
      /\ Selling => watch'.of = watch.of /\ watch'.at = watch.at
      /\ Recorded' /\ Tended'
  BY <1>1, SettlesTypes
<1>3. Typed'
  BY <1>1, <1>2 DEF Ledger, Typed, Tx
<1>4. Broadcast'
  BY <1>1 DEF Broadcast
<1>5. Backed'
  <2>1. \A c \in Cands : cand'[c] = "mined" <=> cand[c] = "mined"
    BY <1>1 DEF Settles, Ledger, Typed
  <2>2. watch'.pc = "mined" <=> watch.pc = "mined"
    BY <1>1 DEF Settles, Ledger, Typed, Sale, Rest
  <2>3. watch.pc = "mined" => watch' = watch
    BY <1>1 DEF Settles
  <2>4. watch.pc = "mined" => watch'.of = watch.of /\ SaleQty' = SaleQty
    BY <1>1, <2>3 DEF SaleQty
  <2>5. ASSUME NEW s \in Tokens PROVE Share(s)' = Share(s)
    BY <1>1, <2>1, <2>2, <2>4 DEF Share
  <2> QED BY <1>1, <2>5, SharesKept
<1> QED BY <1>2, <1>3, <1>4, <1>5 DEF Ledger

LEMMA RestartKeeps ==
    ASSUME Ledger, Restart
    PROVE  Ledger'
<1> DEFINE paid == {TokenOf[c] : c \in {d \in Cands : cand[d] \in {"sent", "mined"}}}
           sold == IF watch.pc \in {"waiting", "mined"} THEN {TokenOf[watch.of]} ELSE {}
<1>1. /\ boots < MaxBoots /\ boots' = boots + 1
      /\ cand' = [c \in Cands |-> IF cand[c] = "new" THEN "new" ELSE "done"]
      /\ index' = {TokenOf[c] : c \in OpenPositions} /\ watch' = Asleep
      /\ adrift' = adrift \cup paid \cup sold /\ UNCHANGED <<pos, mem, balance>>
  BY DEF Restart
<1>2. adrift' \subseteq Tokens /\ index' \subseteq Tokens
  <2>1. paid \subseteq Tokens /\ index' \subseteq Tokens /\ adrift \subseteq Tokens
    BY <1>1, DexAssumption DEF OpenPositions, Ledger, Typed
  <2>2. sold \subseteq Tokens
    BY DexAssumption DEF Ledger, Typed, Sale, Rest
  <2> QED BY <1>1, <2>1, <2>2
<1>3. watch' \in Rest /\ watch'.pc = "sleep" /\ watch'.todo = {}
  BY <1>1 DEF Asleep, Rest
<1>4. boots' \in 1..MaxBoots
  BY <1>1, DexAssumption DEF Ledger, Typed
<1>5. cand' \in [Cands -> Progress]
  BY <1>1 DEF Progress
<1>6. Typed'
  BY <1>1, <1>2, <1>3, <1>4, <1>5 DEF Ledger, Typed
<1>7. Recorded'
  BY <1>1 DEF Ledger, Recorded
<1>8. Tended'
  BY <1>3 DEF Tended, Selling
<1>9. Broadcast'
  <2>1. ASSUME mem # NoTx, mem.side = "buy" PROVE TokenOf[mem.of] \in adrift'
    <3>1. mem.of \in Cands
      BY <2>1 DEF Ledger, Typed, Tx
    <3>2. cand[mem.of] = "sent" \/ TokenOf[mem.of] \in adrift
      BY <2>1 DEF Ledger, Broadcast
    <3> QED BY <1>1, <3>1, <3>2
  <2>2. ASSUME mem # NoTx, mem.side = "sell" PROVE TokenOf[mem.of] \in adrift'
    BY <1>1, <2>2 DEF Ledger, Broadcast
  <2> HIDE DEF paid, sold
  <2> QED BY <1>1, <1>3, <2>1, <2>2 DEF Broadcast
<1>10. Backed'
  <2>1. ASSUME NEW s \in Tokens, s \notin adrift' PROVE Share(s)' = Share(s)
    <3>1. ASSUME NEW d \in Cands PROVE Share(s)'[d] = Share(s)[d]
      <4>1. CASE TokenOf[d] # s
        BY <4>1 DEF Share
      <4>2. CASE TokenOf[d] = s
        <5>1. cand[d] # "mined" /\ cand'[d] # "mined"
          BY <1>1, <2>1, <4>2
        <5>2. ~(watch.pc = "mined" /\ watch.of = d) /\ watch'.pc # "mined"
          BY <1>1, <1>3, <2>1, <4>2
        <5> QED BY <1>1, <5>1, <5>2 DEF Share
      <4> QED BY <4>1, <4>2
    <3>2. Share(s) = [d \in Cands |-> Share(s)[d]] /\ Share(s)' = [d \in Cands |-> Share(s)'[d]]
      BY DEF Share
    <3> QED BY <3>1, <3>2
  <2>2. balance' = balance /\ adrift \subseteq adrift'
    BY <1>1
  <2> QED BY <2>1, <2>2, SharesKept
<1> QED BY <1>6, <1>7, <1>8, <1>9, <1>10 DEF Ledger

LEMMA ShareType ==
    ASSUME Ledger, NEW s
    PROVE  \A d \in Cands : Share(s)[d] \in Int
<1>1. SUFFICES ASSUME NEW d \in Cands PROVE Share(s)[d] \in Int
  OBVIOUS
<1>2. pos[d].qty \in Int /\ Size \in Int
  <2>1. pos[d] \in Position
    BY DEF Ledger, Typed
  <2> QED BY <2>1, DexAssumption DEF Position
<1>3. watch.pc = "mined" => SaleQty \in Int
  <2>1. watch.pc = "mined" => SaleQty \in 1..Size
    BY SaleFits DEF Selling
  <2> QED BY <2>1, DexAssumption
<1> QED BY <1>2, <1>3 DEF Share

\* A purchase is mined: its token's balance grows by what was delivered, and its
\* share by what was quoted, unless that was less or nobody waits.
LEMMA MinesBuyKeeps ==
    ASSUME Ledger, Mines, mem.side = "buy"
    PROVE  Ledger'
<1> DEFINE c == mem.of
           t == TokenOf[c]
<1>1. mem # NoTx /\ mem' = NoTx /\ Settles(TRUE) /\ UNCHANGED <<pos, index, boots>>
  BY DEF Mines
<1>2. PICK short \in 0..Slip : /\ balance' = [balance EXCEPT ![t] = @ + Size - short]
                               /\ adrift' = IF short > 0 THEN adrift \cup {t} ELSE adrift
  BY DEF Mines
<1>3. c \in Cands /\ t \in Tokens
  BY <1>1, DexAssumption DEF Ledger, Typed, Tx
<1>4. /\ cand' \in [Cands -> Progress] /\ watch' \in Sale \cup Rest /\ Recorded' /\ Tended'
  BY <1>1, SettlesTypes
<1>5. watch' = watch /\ cand' = [cand EXCEPT ![c] = IF @ = "sent" THEN "mined" ELSE @]
  BY <1>1 DEF Settles
<1>6. adrift \subseteq adrift' /\ adrift' \subseteq Tokens
  BY <1>2, <1>3 DEF Ledger, Typed
<1>7. balance[t] \in Nat /\ balance'[t] = balance[t] + Size - short /\ balance'[t] \in Nat
      /\ balance' \in [Tokens -> Nat] /\ \A s \in Tokens : s # t => balance'[s] = balance[s]
  <2>1. balance[t] \in Nat /\ balance \in [Tokens -> Nat]
    BY <1>3 DEF Ledger, Typed
  <2>2. Size - short > 0 /\ Size \in Nat /\ short \in Nat
    BY DexAssumption
  <2>3. balance[t] + Size - short \in Nat
    BY <2>1, <2>2
  <2> QED BY <1>2, <1>3, <2>1, <2>3
<1>8. Typed'
  BY <1>1, <1>4, <1>6, <1>7 DEF Ledger, Typed, Tx
<1>9. Broadcast'
  BY <1>1 DEF Broadcast
<1>10. ASSUME NEW s \in Tokens, s \notin adrift' PROVE balance'[s] = SumOver(Share(s)', Cands)
  <2>1. SaleQty' = SaleQty
    BY <1>1, <1>5 DEF SaleQty
  <2>2. balance[s] = SumOver(Share(s), Cands)
    BY <1>6, <1>10 DEF Ledger, Backed
  <2>3. ASSUME NEW d \in Cands, d # c \/ s # t PROVE Share(s)'[d] = Share(s)[d]
    <3>1. TokenOf[d] = s => cand'[d] = cand[d]
      BY <1>3, <1>5, <2>3 DEF Ledger, Typed
    <3> QED BY <1>1, <1>5, <2>1, <3>1 DEF Share
  <2>4. CASE s # t
    <3>1. Share(s)' = Share(s)
      <4>1. Share(s) = [d \in Cands |-> Share(s)[d]] /\ Share(s)' = [d \in Cands |-> Share(s)'[d]]
        BY DEF Share
      <4> QED BY <2>3, <2>4, <4>1
    <3> QED BY <1>7, <2>2, <2>4, <3>1
  <2>5. CASE s = t
    <3>1. cand[c] = "sent" /\ short = 0
      BY <1>1, <1>2, <1>10, <2>5 DEF Ledger, Broadcast
    <3>2. cand'[c] = "mined" /\ pos[c].status = "none"
      BY <1>3, <1>5, <3>1 DEF Ledger, Typed, Recorded
    <3>3. Share(s)[c] = 0 /\ Share(s)'[c] = Size
      BY <1>1, <1>3, <2>5, <3>1, <3>2 DEF Share
    <3>4. \A d \in Cands : Share(s)[d] \in Int /\ Share(s)'[d] \in Int
      BY <2>3, <3>3, ShareType, DexAssumption
    <3>5. SumOver(Share(s)', Cands) = SumOver(Share(s), Cands) + (Share(s)'[c] - Share(s)[c])
      <4> DEFINE F == Share(s)
                 G == Share(s)'
      <4>1. \A d \in Cands : F[d] \in Int /\ G[d] \in Int
        BY <3>4
      <4>2. \A d \in Cands : d # c => F[d] = G[d]
        BY <2>3
      <4> HIDE DEF F, G
      <4>3. IsFiniteSet(Cands) /\ c \in Cands
        BY <1>3, DexAssumption
      <4> HIDE DEF c
      <4>4. SumOver(G, Cands) = SumOver(F, Cands) + (G[c] - F[c])
        BY <4>1, <4>2, <4>3, SumChange
      <4> QED BY <4>4 DEF F, G, c
    <3>6. Size - 0 = Size /\ balance[t] + Size - 0 = balance[t] + Size
      BY <1>7, DexAssumption
    <3>7. balance'[s] = balance[s] + Size
      BY <1>7, <2>5, <3>1, <3>6
    <3> QED BY <2>2, <3>3, <3>5, <3>6, <3>7
  <2> QED BY <2>4, <2>5
<1>11. Backed'
  BY <1>10 DEF Backed
<1> QED BY <1>4, <1>8, <1>9, <1>11 DEF Ledger

\* A sale is mined: balance and share shrink by the quantity that was sent.
LEMMA MinesSellKeeps ==
    ASSUME Ledger, Mines, mem.side = "sell"
    PROVE  Ledger'
<1> DEFINE t == TokenOf[mem.of]
<1>1. /\ mem # NoTx /\ mem' = NoTx /\ Settles(TRUE) /\ balance[t] >= mem.qty
      /\ balance' = [balance EXCEPT ![t] = @ - mem.qty] /\ UNCHANGED <<pos, index, boots, adrift>>
  BY DEF Mines
<1>2. mem.of \in Cands /\ mem.qty \in 1..Size /\ t \in Tokens
  BY <1>1, DexAssumption DEF Ledger, Typed, Tx
<1>3. /\ cand' \in [Cands -> Progress] /\ watch' \in Sale \cup Rest /\ Recorded' /\ Tended'
      /\ (Selling => watch'.of = watch.of /\ watch'.at = watch.at)
  BY <1>1, SettlesTypes
<1>4. cand' = cand /\ watch' = IF watch.pc = "waiting" THEN [watch EXCEPT !.pc = "mined"] ELSE watch
  BY <1>1 DEF Settles
<1>5. /\ balance[t] \in Nat /\ balance'[t] = balance[t] - mem.qty /\ balance' \in [Tokens -> Nat]
      /\ \A s \in Tokens : s # t => balance'[s] = balance[s]
  <2>1. balance[t] \in Nat /\ balance \in [Tokens -> Nat]
    BY <1>2 DEF Ledger, Typed
  <2>2. balance[t] - mem.qty \in Nat
    BY <1>1, <1>2, <2>1, DexAssumption
  <2> QED BY <1>1, <1>2, <2>1, <2>2
<1>6. Typed'
  BY <1>1, <1>3, <1>5 DEF Ledger, Typed, Tx
<1>7. Broadcast'
  BY <1>1 DEF Broadcast
<1>8. ASSUME NEW s \in Tokens, s \notin adrift' PROVE balance'[s] = SumOver(Share(s)', Cands)
  <2>1. balance[s] = SumOver(Share(s), Cands)
    BY <1>1, <1>8 DEF Ledger, Backed
  <2>2. CASE watch.pc # "waiting"
    <3>1. t \in adrift /\ watch' = watch
      BY <1>1, <1>4, <2>2 DEF Ledger, Broadcast
    <3>2. Share(s)' = Share(s)
      BY <1>1, <1>4, <3>1 DEF Share, SaleQty
    <3> QED BY <1>1, <1>5, <1>8, <2>1, <3>1, <3>2
  <2>3. CASE watch.pc = "waiting"
    <3> DEFINE c == watch.of
    <3>1. Selling /\ mem.of = c /\ mem.qty = SaleQty /\ watch \in Sale
      BY <1>1, <2>3 DEF Selling, Ledger, Typed, Broadcast, Sale, Rest
    <3>2. watch'.pc = "mined" /\ watch'.of = c /\ SaleQty' = SaleQty
      BY <1>1, <1>3, <1>4, <2>3, <3>1 DEF SaleQty, Sale
    <3>3. c \in Cands /\ pos[c].status = "open" /\ SaleQty \in Int /\ pos[c].qty \in Int
      <4>1. c \in OpenPositions
        BY <3>1 DEF Ledger, Tended
      <4>2. SaleQty \in 1..Size /\ pos[c].qty \in 1..Size
        BY <3>1, <4>1, SaleFits, OpenRecord
      <4> QED BY <4>1, <4>2, DexAssumption DEF OpenPositions
    <3>4. ASSUME NEW d \in Cands, d # c \/ s # t PROVE Share(s)'[d] = Share(s)[d]
      <4>1. d = c => TokenOf[d] # s
        BY <3>1, <3>4
      <4> QED BY <1>1, <1>4, <2>3, <3>2, <4>1 DEF Share
    <3>5. CASE s # t
      <4>1. Share(s)' = Share(s)
        <5>1. Share(s) = [d \in Cands |-> Share(s)[d]] /\ Share(s)' = [d \in Cands |-> Share(s)'[d]]
          BY DEF Share
        <5> QED BY <3>4, <3>5, <5>1
      <4> QED BY <1>5, <2>1, <3>5, <4>1
    <3>6. CASE s = t
      <4>1. Share(s)[c] = pos[c].qty - 0 /\ Share(s)'[c] = pos[c].qty - SaleQty
        BY <1>1, <2>3, <3>1, <3>2, <3>3, <3>6 DEF Share
      <4>2. \A d \in Cands : Share(s)[d] \in Int /\ Share(s)'[d] \in Int
        BY <3>3, <3>4, <4>1, ShareType
      <4>3. SumOver(Share(s)', Cands) = SumOver(Share(s), Cands) + (Share(s)'[c] - Share(s)[c])
        <5> DEFINE F == Share(s)
                   G == Share(s)'
        <5>1. \A d \in Cands : F[d] \in Int /\ G[d] \in Int
          BY <4>2
        <5>2. \A d \in Cands : d # c => F[d] = G[d]
          BY <3>4
        <5> HIDE DEF F, G
        <5>3. IsFiniteSet(Cands) /\ c \in Cands
          BY <3>3, DexAssumption
        <5> HIDE DEF c
        <5>4. SumOver(G, Cands) = SumOver(F, Cands) + (G[c] - F[c])
          BY <5>1, <5>2, <5>3, SumChange
        <5> QED BY <5>4 DEF F, G, c
      <4>4. balance[s] \in Int /\ balance'[s] = balance[s] - SaleQty
        BY <1>5, <3>1, <3>6
      <4>5. \A b, q, n \in Int : b - n = b + ((q - n) - (q - 0))
        OBVIOUS
      <4> QED BY <2>1, <3>3, <4>1, <4>3, <4>4, <4>5, Zenon
    <3> QED BY <3>5, <3>6
  <2> QED BY <2>2, <2>3
<1>9. Backed'
  BY <1>8 DEF Backed
<1> QED BY <1>3, <1>6, <1>7, <1>9 DEF Ledger

LEMMA LedgerInductive ==
    ASSUME Ledger, [DexNext]_dexVars
    PROVE  Ledger'
<1>1. ASSUME NEW c \in Cands, CandidateArrives(c) \/ BuySends(c) \/ BuyRaises(c) \/ BuyAnswered(c)
      PROVE  Ledger'
  BY <1>1, CandidateActions, BuyAnsweredKeeps
<1>2. CASE WatcherTick
  <2>1. /\ watch.pc = "sleep" /\ watch' = [watch EXCEPT !.pc = "tick", !.todo = OpenPositions]
        /\ UNCHANGED <<cand, pos, index, mem, balance, boots, adrift>>
    BY <1>2 DEF WatcherTick
  <2>2. watch' \in Rest /\ watch'.todo = OpenPositions
    <3>1. watch \in Rest /\ OpenPositions \in SUBSET Cands
      BY <2>1 DEF Ledger, Typed, Sale, Rest, OpenPositions
    <3> QED BY <2>1, <3>1 DEF Rest
  <2> QED BY <2>1, <2>2, RestKeeps
<1>3. CASE WatcherSleeps
  <2>1. watch.pc = "tick" /\ watch' = Asleep /\ UNCHANGED <<cand, pos, index, mem, balance, boots, adrift>>
    BY <1>3 DEF WatcherSleeps
  <2>2. watch' \in Rest /\ watch'.todo = {}
    BY <2>1 DEF Asleep, Rest
  <2> QED BY <2>1, <2>2, RestKeeps
<1>4. ASSUME NEW c \in Cands, WatcherUnpriced(c) PROVE Ledger'
  <2>1. /\ watch.pc = "tick" /\ UNCHANGED <<cand, pos, index, mem, balance, boots, adrift>>
        /\ watch' \in {[watch EXCEPT !.todo = @ \ {c}], Asleep, [Asleep EXCEPT !.pc = "dead"]}
    BY <1>4 DEF WatcherUnpriced
  <2>2. watch \in Rest /\ watch.todo \subseteq OpenPositions
    BY <2>1 DEF Ledger, Typed, Tended, Sale, Rest
  <2>3. CASE watch' = [watch EXCEPT !.todo = @ \ {c}]
    <3>1. watch' \in Rest /\ watch'.todo \subseteq OpenPositions
      BY <2>2, <2>3 DEF Rest
    <3> QED BY <2>1, <3>1, RestKeeps
  <2>4. CASE watch' \in {Asleep, [Asleep EXCEPT !.pc = "dead"]}
    <3>1. watch' \in Rest /\ watch'.todo = {}
      BY <2>4 DEF Asleep, Rest
    <3> QED BY <2>1, <3>1, RestKeeps
  <2> QED BY <2>1, <2>3, <2>4
<1>5. CASE Mines
  <2>1. mem.side \in {"buy", "sell"}
    BY <1>5 DEF Mines
  <2> QED BY <1>5, <2>1, MinesBuyKeeps, MinesSellKeeps
<1>6. CASE UNCHANGED dexVars
  <2>1. cand' = cand /\ pos' = pos /\ index' = index /\ watch' = watch /\ mem' = mem
        /\ balance' = balance /\ boots' = boots /\ adrift' = adrift
    BY <1>6 DEF dexVars
  <2>2. Backed'
    BY <2>1 DEF Ledger, Backed, Share, SaleQty
  <2>3. Broadcast'
    BY <2>1 DEF Ledger, Broadcast, SaleQty
  <2>4. Typed' /\ Recorded' /\ Tended'
    BY <2>1 DEF Ledger, Typed, Recorded, Tended, Selling, OpenPositions
  <2> QED BY <2>2, <2>3, <2>4 DEF Ledger
<1> QED BY <1>1, <1>2, <1>3, <1>4, <1>5, <1>6, WatcherPricesKeeps, SellSendsKeeps,
           SellAnsweredKeeps, SellRaisesKeeps, RevertsKeeps, RestartKeeps DEF DexNext

LEMMA LedgerInitially ==
    ASSUME DexInit
    PROVE  Ledger
<1> USE DEF DexInit
<1>1. NoPosition \in Position /\ NoPosition.status = "none"
  BY DexAssumption DEF NoPosition, Position
<1>2. watch \in Rest /\ watch.pc = "sleep" /\ watch.todo = {}
  BY DEF Asleep, Rest
<1>3. Typed
  BY <1>1, <1>2, DexAssumption DEF Typed, Progress, Tx
<1>4. Recorded
  BY <1>1 DEF Recorded, Stated
<1>5. Tended /\ Broadcast
  BY <1>2 DEF Tended, Broadcast, Selling
<1>6. Backed
  <2>1. ASSUME NEW s \in Tokens PROVE balance[s] = SumOver(Share(s), Cands)
    <3>1. \A c \in Cands : Share(s)[c] = 0
      BY <1>1 DEF Share
    <3>2. SumOver(Share(s), Cands) = 0 * Cardinality(Cands)
      BY <3>1, SumConst, DexAssumption
    <3>3. Cardinality(Cands) \in Nat /\ \A n \in Nat : 0 * n = 0
      BY FS_CardinalityType, DexAssumption
    <3> QED BY <3>2, <3>3
  <2> QED BY <2>1 DEF Backed
<1> QED BY <1>3, <1>4, <1>5, <1>6 DEF Ledger

\* The sum of the quantities, as WalletMatches writes it.
LEMMA QtySum ==
    ASSUME NEW f, NEW S, IsFiniteSet(S), NEW G, \A c \in S : G[c] = f[c].qty
    PROVE  MapThenSumSet(LAMBDA c : f[c].qty, S) = SumOver(G, S)
<1> DEFINE Adds(g) == g = [s \in SUBSET S |-> IF s = {} THEN 0 ELSE f[Some(s)].qty + g[s \ {Some(s)}]]
           h == CHOOSE g : Adds(g)
<1>1. MapThenSumSet(LAMBDA c : f[c].qty, S) = h[S]
  BY DEF MapThenSumSet, MapThenFoldSet, Some
<1>2. PICK g : Summed(g, G, S) /\ \A T \in SUBSET S : SumOver(G, T) = g[T]
  BY SumIs
<1>3. \A s \in SUBSET S : s # {} => G[Some(s)] = f[Some(s)].qty
  BY SomeIn
<1>4. \A k : Adds(k) <=> Summed(k, G, S)
  BY <1>3 DEF Summed
<1>5. Adds(h)
  BY <1>2, <1>4, Zenon
<1> HIDE DEF h, Adds
<1>6. h[S] = g[S]
  BY <1>2, <1>4, <1>5, SummedUnique
<1> QED BY <1>1, <1>2, <1>6

LEMMA BackedMatches ==
    ASSUME Ledger
    PROVE  WalletMatches
<1> SUFFICES ASSUME NEW s \in Tokens \ adrift
             PROVE  balance[s] = MapThenSumSet(LAMBDA c : pos[c].qty, OpenOf(s))
                                 + Size * Cardinality({c \in Cands : cand[c] = "mined" /\ TokenOf[c] = s})
                                 - IF watch.pc = "mined" /\ TokenOf[watch.of] = s THEN SaleQty ELSE 0
  BY DEF WalletMatches
<1> DEFINE paidOf == {c \in Cands : cand[c] = "mined" /\ TokenOf[c] = s}
           Held == [c \in Cands |-> IF c \in OpenOf(s) THEN pos[c].qty ELSE 0]
           Paid == [c \in Cands |-> IF c \in paidOf THEN Size ELSE 0]
           Both == [c \in Cands |-> Held[c] + Paid[c]]
           sum  == MapThenSumSet(LAMBDA c : pos[c].qty, OpenOf(s))
           n    == Cardinality(paidOf)
<1>1. IsFiniteSet(Cands) /\ Size \in Nat
  BY DexAssumption
<1>2. /\ OpenOf(s) \subseteq Cands /\ paidOf \subseteq Cands
      /\ IsFiniteSet(OpenOf(s)) /\ IsFiniteSet(paidOf)
  <2>1. OpenOf(s) \subseteq Cands /\ paidOf \subseteq Cands
    BY DEF OpenOf, OpenPositions
  <2> HIDE DEF paidOf
  <2> QED BY <1>1, <2>1, FS_Subset
<1>3. \A c \in Cands : pos[c].qty \in Nat
  <2>1. \A c \in Cands : pos[c] \in Position
    BY DEF Ledger, Typed
  <2> QED BY <1>1, <2>1 DEF Position
<1>4. \A c \in Cands : /\ Held[c] = (IF c \in OpenOf(s) THEN pos[c].qty ELSE 0)
                       /\ Paid[c] = (IF c \in paidOf THEN Size ELSE 0)
                       /\ Both[c] = Held[c] + Paid[c] /\ Held[c] \in Int /\ Paid[c] \in Int /\ Both[c] \in Int
  BY <1>1, <1>3
<1>5. balance[s] = SumOver(Share(s), Cands)
  BY DEF Ledger, Backed
<1>6. \A c \in Cands :
         Share(s)[c] = IF watch.pc = "mined" /\ watch.of = c /\ TokenOf[c] = s
                       THEN Both[c] - SaleQty ELSE Both[c]
  <2> SUFFICES ASSUME NEW c \in Cands
               PROVE  Share(s)[c] = IF watch.pc = "mined" /\ watch.of = c /\ TokenOf[c] = s
                                    THEN Both[c] - SaleQty ELSE Both[c]
    OBVIOUS
  <2>1. c \in OpenOf(s) <=> TokenOf[c] = s /\ pos[c].status = "open"
    BY DEF OpenOf, OpenPositions
  <2>2. c \in paidOf <=> cand[c] = "mined" /\ TokenOf[c] = s
    OBVIOUS
  <2>3. pos[c].status = "open" => cand[c] = "done"
    BY DEF Ledger, Recorded
  <2>4. watch.pc = "mined" /\ watch.of = c => pos[c].status = "open"
    BY DEF Ledger, Tended, Selling, OpenPositions
  <2>5. /\ pos[c].qty - 0 = pos[c].qty /\ pos[c].qty + 0 = pos[c].qty /\ 0 + 0 = 0 /\ 0 + Size = Size
    BY <1>1, <1>3
  <2>6. Both[c] = Held[c] + Paid[c] /\ Held[c] = (IF c \in OpenOf(s) THEN pos[c].qty ELSE 0)
        /\ Paid[c] = (IF c \in paidOf THEN Size ELSE 0)
    BY <1>4
  <2> HIDE DEF Both, Held, Paid, paidOf
  <2>7. CASE TokenOf[c] # s
    BY <2>1, <2>2, <2>5, <2>6, <2>7 DEF Share
  <2>8. CASE TokenOf[c] = s /\ pos[c].status = "open"
    <3>1. Both[c] = pos[c].qty
      BY <2>1, <2>2, <2>3, <2>5, <2>6, <2>8
    <3> QED BY <2>5, <2>8, <3>1 DEF Share
  <2>9. CASE TokenOf[c] = s /\ pos[c].status # "open"
    BY <2>1, <2>2, <2>4, <2>5, <2>6, <2>9 DEF Share
  <2> QED BY <2>7, <2>8, <2>9
<1> HIDE DEF Both, Held, Paid, paidOf
<1>7. SumOver(Both, Cands) = SumOver(Held, Cands) + SumOver(Paid, Cands)
  BY <1>1, <1>4, SumPlus
<1>8. SumOver(Held, Cands) = SumOver(Held, OpenOf(s))
  BY <1>1, <1>2, <1>4, SumSupport
<1>9. sum = SumOver(Held, OpenOf(s)) /\ SumOver(Held, OpenOf(s)) \in Int /\ sum \in Int
  <2>1. \A c \in OpenOf(s) : Held[c] = pos[c].qty /\ Held[c] \in Int
    BY <1>2, <1>4
  <2>2. sum = SumOver(Held, OpenOf(s))
    BY <1>2, <2>1, QtySum
  <2>3. SumOver(Held, OpenOf(s)) \in Int
    BY <1>2, <2>1, SumType
  <2> HIDE DEF sum
  <2> QED BY <2>2, <2>3
<1>10. SumOver(Paid, Cands) = Size * n
  <2>1. SumOver(Paid, Cands) = SumOver(Paid, paidOf)
    BY <1>1, <1>2, <1>4, SumSupport
  <2>2. \A c \in paidOf : Paid[c] = Size
    BY <1>2, <1>4
  <2>3. SumOver(Paid, paidOf) = Size * n
    BY <1>1, <1>2, <2>2, SumConst
  <2> QED BY <2>1, <2>3
<1>11. n \in Nat /\ Size * n \in Int
  <2>1. n \in Nat
    BY <1>2, FS_CardinalityType
  <2> QED BY <1>1, <2>1
<1> HIDE DEF sum, n
<1>12. SumOver(Both, Cands) = sum + Size * n
  BY <1>7, <1>8, <1>9, <1>10
<1>13. CASE watch.pc = "mined" /\ TokenOf[watch.of] = s
  <2> DEFINE c == watch.of
             F == Share(s)
  <2>1. c \in Cands /\ SaleQty \in Int
    <3>1. SaleQty \in 1..Size /\ c \in Cands
      BY <1>13, SaleFits DEF Selling
    <3> QED BY <1>1, <3>1
  <2>2. F[c] = Both[c] - SaleQty /\ \A d \in Cands : d # c => Both[d] = F[d]
    BY <1>6, <1>13, <2>1
  <2>3. \A d \in Cands : Both[d] \in Int /\ F[d] \in Int
    BY <1>4, ShareType
  <2> HIDE DEF F, c
  <2>4. SumOver(F, Cands) = SumOver(Both, Cands) + (F[c] - Both[c])
    BY <1>1, <2>1, <2>2, <2>3, SumChange
  <2>5. \A t, b, q \in Int : t + ((b - q) - b) = t - q
    OBVIOUS
  <2>6. Both[c] \in Int /\ sum + Size * n \in Int
    BY <1>9, <1>11, <2>1, <2>3
  <2>7. (sum + Size * n) + ((Both[c] - SaleQty) - Both[c]) = (sum + Size * n) - SaleQty
    BY <2>1, <2>5, <2>6, Zenon
  <2>8. SumOver(F, Cands) = (sum + Size * n) - SaleQty
    BY <1>12, <2>2, <2>4, <2>7, Zenon
  <2>9. balance[s] = sum + Size * n - (IF watch.pc = "mined" /\ TokenOf[watch.of] = s THEN SaleQty ELSE 0)
    <3>1. balance[s] = (sum + Size * n) - SaleQty
      BY <1>5, <2>8, Zenon DEF F
    <3> DEFINE due == IF watch.pc = "mined" /\ TokenOf[watch.of] = s THEN SaleQty ELSE 0
    <3>2. due = SaleQty
      BY <1>13
    <3> HIDE DEF due
    <3>3. \A a, b, q \in Int : (a + b) - q = a + (b - q)
      OBVIOUS
    <3>4. (sum + Size * n) - SaleQty = sum + (Size * n - SaleQty)
      BY <1>9, <1>11, <2>1, <3>3, Zenon
    <3>5. balance[s] = sum + (Size * n - due)
      BY <3>1, <3>2, <3>4, Zenon
    <3> QED BY <3>5 DEF due
  <2> QED BY <2>9 DEF sum, n, paidOf
<1>14. CASE ~(watch.pc = "mined" /\ TokenOf[watch.of] = s)
  <2>1. \A c \in Cands : Share(s)[c] = Both[c]
    BY <1>6, <1>14
  <2>2. SumOver(Share(s), Cands) = SumOver(Both, Cands)
    BY <1>1, <2>1, SumSame
  <2>3. sum + Size * n - 0 = sum + Size * n
    BY <1>9, <1>11
  <2>4. balance[s] = sum + Size * n - (IF watch.pc = "mined" /\ TokenOf[watch.of] = s THEN SaleQty ELSE 0)
    BY <1>5, <1>12, <1>14, <2>2, <2>3
  <2> QED BY <2>4 DEF sum, n, paidOf
<1> QED BY <1>13, <1>14

\* Every open position holds its purchase less the targets it filled, none twice,
\* and the wallet of a token with no answer lost, short or failed holds what its
\* positions say, for any ladder, prices, chain and restarts.
THEOREM DexLedgerSound == DexSpec => []DexLedgerInv
<1>1. Ledger => DexLedgerInv
  <2> SUFFICES ASSUME Ledger PROVE DexLedgerInv
    OBVIOUS
  <2>1. DexTypeOK
    <3>1. /\ cand \in [Cands -> {"new", "buying", "sent", "mined", "reverted", "done"}]
          /\ pos \in [Cands -> [status : {"none", "open", "closed"}, qty : 0..Size,
                                high : Prices \cup {Entry}, filled : SUBSET Targets]]
          /\ index \subseteq Tokens /\ mem \in Tx /\ balance \in [Tokens -> Nat]
          /\ boots \in 1..MaxBoots /\ adrift \subseteq Tokens
      BY DEF Ledger, Typed, Progress, Position
    <3>2. \A c \in OpenPositions : pos[c].qty > 0
      BY OpenRecord DEF Stated
    <3>3. Selling => /\ watch.of \in OpenPositions /\ watch.todo \subseteq Cands
                     /\ watch.at \in Targets \cup {Exit} /\ watch.price \in Prices
      BY DEF Ledger, Typed, Tended, Selling, Sale, Rest
    <3>4. ~Selling => watch.pc \in {"sleep", "tick", "dead"}
      BY DEF Ledger, Typed, Selling, Sale, Rest
    <3> QED BY <3>1, <3>2, <3>3, <3>4 DEF DexTypeOK
  <2>2. LadderLedger
    <3>1. ASSUME NEW c \in OpenPositions PROVE pos[c].qty = Size - SumOver(Portions, pos[c].filled)
      BY <3>1, OpenRecord DEF Stated
    <3> QED BY <3>1 DEF LadderLedger, SumOver
  <2> QED BY <2>1, <2>2, BackedMatches DEF DexLedgerInv
<1> QED BY <1>1, LedgerInitially, LedgerInductive, PTL DEF DexSpec
=============================================================================
