----------------------------- MODULE Process_proof -----------------------------
(***************************************************************************)
(* Proofs about four parts of the engine process, for any rules and daemons,  *)
(* overlapping ticks, optional services, calls and quotes: the windows of the *)
(* alert daemons keep their limit but for what was being sent; the trend      *)
(* module enters and leaves a symbol in turn; what the shutdown closes is no  *)
(* longer used by the strategies with tasks of their own; and an order whose  *)
(* questions were answered in still markets commits no more than its quote.   *)
(***************************************************************************)
EXTENDS AlertDaemon, TickLoop, Lifespan, Pricing, FiniteSetTheorems, SequenceTheorems, TLAPS

-----------------------------------------------------------------------------
(* The alert daemons.                                                       *)

Alert    == [topic : Topics, hot : BOOLEAN]
Handling == [topic : Topics \cup {"none"}, rule : 0..Len(Rules) + 1, at : {"free", "rule", "send"}]

\* A handling that is not free has a topic; it judges a rule, or is past the last
\* one; it sends for a rule.
Handled ==
    /\ handling \in [Slots -> Handling]
    /\ turn \in Slots \cup {NoOne}
    /\ \A h \in Slots :
         /\ handling[h].at # "free" => handling[h].topic \in Topics /\ handling[h].rule >= 1
         /\ handling[h].at = "send" => handling[h].rule <= Len(Rules)

\* What of a daemon is being sent.
Sending(d) == {n \in 1..MaxHandled : handling[<<d, n>>].at = "send"}

Windowed ==
    /\ alerts \in [Daemons -> Seq(Alert)]
    /\ \A d \in Daemons : Len(alerts[d]) + Cardinality(Sending(d)) <= MaxPerWindow + MaxHandled - 1

AlertSafe == Handled /\ Windowed

LEMMA AlertConstants ==
    /\ MaxPerWindow \in Nat /\ MaxPerWindow > 0 /\ MaxHandled \in Nat /\ MaxHandled > 0
    /\ Len(Rules) \in Nat /\ DOMAIN Rules = 1..Len(Rules)
    /\ \A i \in 1..Len(Rules) : Rules[i].topic \in Topics
<1>1. Rules \in Seq([topic : STRING, cools : BOOLEAN, awaits : BOOLEAN])
  BY AlertAssumption DEF AlertAssumption
<1>2. Len(Rules) \in Nat /\ DOMAIN Rules = 1..Len(Rules) BY <1>1
<1> QED BY <1>2, AlertAssumption DEF AlertAssumption, Topics

\* At most all handlings of a daemon send, and if one does not, one less.
LEMMA SendingBounds ==
    ASSUME NEW d
    PROVE  /\ IsFiniteSet(Sending(d)) /\ Cardinality(Sending(d)) \in Nat
           /\ \A n \in 1..MaxHandled : n \notin Sending(d) => Cardinality(Sending(d)) <= MaxHandled - 1
<1>1. IsFiniteSet(1..MaxHandled) /\ Cardinality(1..MaxHandled) = MaxHandled
  BY AlertConstants, FS_Interval
<1>2. Sending(d) \in SUBSET (1..MaxHandled) BY DEF Sending
<1>3. IsFiniteSet(Sending(d)) BY <1>1, <1>2, FS_Subset
<1>4. ASSUME NEW n \in 1..MaxHandled, n \notin Sending(d) PROVE Cardinality(Sending(d)) <= MaxHandled - 1
  <2>1. Sending(d) \in SUBSET ((1..MaxHandled) \ {n}) BY <1>2, <1>4
  <2>2. /\ IsFiniteSet((1..MaxHandled) \ {n})
        /\ Cardinality((1..MaxHandled) \ {n}) = MaxHandled - 1
    BY <1>1, <1>4, FS_RemoveElement
  <2> QED BY <2>1, <2>2, FS_Subset
<1> QED BY <1>3, <1>4, FS_CardinalityType

\* Where the same is sent and no window has grown, the windows keep their bound.
LEMMA SameSending ==
    ASSUME AlertSafe, alerts' \in [Daemons -> Seq(Alert)],
           \A d \in Daemons : Len(alerts'[d]) <= Len(alerts[d]) /\ Sending(d)' \subseteq Sending(d)
    PROVE  Windowed'
<1> SUFFICES ASSUME NEW d \in Daemons
             PROVE  Len(alerts'[d]) + Cardinality(Sending(d)') <= MaxPerWindow + MaxHandled - 1
  BY DEF Windowed
<1>1. IsFiniteSet(Sending(d)) /\ Cardinality(Sending(d)) \in Nat BY SendingBounds
<1>2. /\ IsFiniteSet(Sending(d)') /\ Cardinality(Sending(d)') <= Cardinality(Sending(d))
      /\ Cardinality(Sending(d)') \in Nat
  BY <1>1, FS_Subset, FS_CardinalityType
<1>3. Len(alerts[d]) \in Nat /\ Len(alerts'[d]) \in Nat BY DEF AlertSafe, Windowed
<1> QED BY <1>1, <1>2, <1>3, AlertConstants DEF AlertSafe, Windowed

LEMMA AlertStarts == ASSUME AlertInit PROVE AlertSafe
<1>1. Free \in Handling BY AlertConstants DEF Free, Handling
<1>2. Handled BY <1>1 DEF AlertInit, Handled, Free
<1>3. ASSUME NEW d \in Daemons PROVE Sending(d) = {} /\ alerts[d] = <<>>
  BY <1>3 DEF AlertInit, Sending, Slots, Free
<1>4. alerts \in [Daemons -> Seq(Alert)] BY <1>3 DEF AlertInit
<1>5. ASSUME NEW d \in Daemons PROVE Len(alerts[d]) = 0 /\ Cardinality(Sending(d)) = 0
  BY <1>3, FS_EmptySet
<1>6. Windowed BY <1>4, <1>5, AlertConstants DEF Windowed
<1> QED BY <1>2, <1>6 DEF AlertSafe

LEMMA DeliveredKeeps == ASSUME AlertSafe, Delivered PROVE AlertSafe'
<1> PICK n \in 1..MaxHandled, t \in Topics :
      handling' = [h \in Slots |-> IF h[2] = n THEN [topic |-> t, rule |-> 1, at |-> "rule"]
                                   ELSE handling[h]]
  BY DEF Delivered
<1>1. UNCHANGED <<alerts, turn>> BY DEF Delivered
<1>2. [topic |-> t, rule |-> 1, at |-> "rule"] \in Handling BY AlertConstants DEF Handling
<1>3. Handled' BY <1>1, <1>2, AlertConstants DEF AlertSafe, Handled
<1>4. ASSUME NEW d \in Daemons PROVE Sending(d)' \subseteq Sending(d)
  BY DEF Sending, Slots
<1>5. ASSUME NEW d \in Daemons PROVE Len(alerts'[d]) <= Len(alerts[d])
  BY <1>1 DEF AlertSafe, Windowed
<1>6. Windowed' BY <1>1, <1>4, <1>5, SameSending DEF AlertSafe, Windowed
<1> QED BY <1>3, <1>6 DEF AlertSafe

LEMMA WindowMovesKeeps == ASSUME AlertSafe, WindowMoves PROVE AlertSafe'
<1>1. UNCHANGED <<handling, turn>> BY DEF WindowMoves
<1>2. ASSUME NEW d \in Daemons, NEW s \in Seq(Alert), Len(s) <= Len(alerts[d]),
             alerts' = [alerts EXCEPT ![d] = s]
      PROVE  AlertSafe'
  <2>1. alerts' \in [Daemons -> Seq(Alert)] BY <1>2 DEF AlertSafe, Windowed
  <2>2. ASSUME NEW x \in Daemons
        PROVE  Len(alerts'[x]) <= Len(alerts[x]) /\ Sending(x)' \subseteq Sending(x)
    BY <1>1, <1>2 DEF AlertSafe, Windowed, Sending
  <2>3. Windowed' BY <2>1, <2>2, SameSending
  <2> QED BY <1>1, <2>3 DEF AlertSafe, Handled
<1> PICK d \in Daemons :
      \/ alerts[d] # <<>> /\ ~Head(alerts[d]).hot /\ alerts' = [alerts EXCEPT ![d] = Tail(alerts[d])]
      \/ \E i \in DOMAIN alerts[d] : alerts' = [alerts EXCEPT ![d][i].hot = FALSE]
  BY DEF WindowMoves
<1>3. alerts[d] \in Seq(Alert) BY DEF AlertSafe, Windowed
<1>4. CASE alerts[d] # <<>> /\ alerts' = [alerts EXCEPT ![d] = Tail(alerts[d])]
  <2>1. Tail(alerts[d]) \in Seq(Alert) /\ Len(Tail(alerts[d])) <= Len(alerts[d])
    BY <1>3, <1>4, HeadTailProperties
  <2> QED BY <1>2, <1>4, <2>1
<1>5. ASSUME NEW i \in DOMAIN alerts[d], alerts' = [alerts EXCEPT ![d][i].hot = FALSE]
      PROVE  AlertSafe'
  <2> DEFINE a == [alerts[d][i] EXCEPT !.hot = FALSE]
  <2>1. i \in 1..Len(alerts[d]) /\ alerts[d][i] \in Alert BY <1>3
  <2>2. a \in Alert BY <2>1 DEF Alert
  <2>3. alerts' = [alerts EXCEPT ![d] = [alerts[d] EXCEPT ![i] = a]] BY <1>5
  <2> HIDE DEF a
  <2>4. /\ [alerts[d] EXCEPT ![i] = a] \in Seq(Alert)
        /\ Len([alerts[d] EXCEPT ![i] = a]) = Len(alerts[d])
    BY <1>3, <2>1, <2>2, ExceptSeq
  <2>5. Len(alerts[d]) \in Nat BY <1>3
  <2>6. Len([alerts[d] EXCEPT ![i] = a]) <= Len(alerts[d]) BY <2>4, <2>5
  <2> DEFINE s == [alerts[d] EXCEPT ![i] = a]
  <2>7. s \in Seq(Alert) /\ Len(s) <= Len(alerts[d]) /\ alerts' = [alerts EXCEPT ![d] = s]
    BY <2>3, <2>4, <2>6
  <2> HIDE DEF s
  <2> QED BY <1>2, <2>7
<1> QED BY <1>4, <1>5

\* A handling that moves on without an alert and does not begin to send.
LEMMA HandlingMoves ==
    ASSUME AlertSafe, NEW h \in Slots, NEW q \in Handling, q.at # "send",
           q.at # "free" => q.topic \in Topics /\ q.rule >= 1,
           handling' = [handling EXCEPT ![h] = q], UNCHANGED alerts, turn' \in Slots \cup {NoOne}
    PROVE  AlertSafe'
<1>1. \A x \in Slots : handling'[x] = IF x = h THEN q ELSE handling[x]
  BY DEF AlertSafe, Handled
<1>2. Handled' BY <1>1 DEF AlertSafe, Handled
<1>3. ASSUME NEW d \in Daemons PROVE Sending(d)' \subseteq Sending(d)
  BY <1>1 DEF Sending, Slots
<1>4. ASSUME NEW d \in Daemons PROVE Len(alerts'[d]) <= Len(alerts[d])
  BY DEF AlertSafe, Windowed
<1> QED BY <1>2, <1>3, <1>4, SameSending DEF AlertSafe, Windowed

\* The alert is recorded by a handling that does not send afterwards: its window
\* had room, or it was counted among those that send.
LEMMA RecordedKeeps ==
    ASSUME AlertSafe, NEW h \in Slots, NEW q \in Handling, q.at = "rule", q.topic \in Topics, q.rule >= 1,
           handling' = [handling EXCEPT ![h] = q], NEW t \in Topics, alerts' = Recorded(h[1], t),
           turn' \in Slots \cup {NoOne},
           ~Throttles(h[1]) \/ handling[h].at = "send"
    PROVE  AlertSafe'
<1> DEFINE a == [topic |-> t, hot |-> TRUE]
<1>0. PICK d \in Daemons, n \in 1..MaxHandled : h = <<d, n>> BY DEF Slots
<1>1. \A x \in Slots : handling'[x] = IF x = h THEN q ELSE handling[x]
  BY DEF AlertSafe, Handled
<1>2. Handled' BY <1>1 DEF AlertSafe, Handled
<1>3. a \in Alert BY DEF Alert
<1>4. alerts' = [alerts EXCEPT ![d] = Append(alerts[d], a)] BY <1>0 DEF Recorded
<1>5. alerts[d] \in Seq(Alert) /\ Len(alerts[d]) \in Nat BY DEF AlertSafe, Windowed
<1> HIDE DEF a
<1>6. Append(alerts[d], a) \in Seq(Alert) /\ Len(Append(alerts[d], a)) = Len(alerts[d]) + 1
  BY <1>3, <1>5, AppendProperties
<1>7. alerts' \in [Daemons -> Seq(Alert)] BY <1>4, <1>6 DEF AlertSafe, Windowed
<1>8. ASSUME NEW x \in Daemons
      PROVE  Len(alerts'[x]) + Cardinality(Sending(x)') <= MaxPerWindow + MaxHandled - 1
  <2>1. \A y \in 1..MaxHandled : handling'[<<x, y>>] = IF x = d /\ y = n THEN q ELSE handling[<<x, y>>]
    BY <1>0, <1>1 DEF Slots
  <2>2. CASE x # d
    <3>1. Sending(x)' = Sending(x) BY <2>1, <2>2 DEF Sending
    <3>2. alerts'[x] = alerts[x] BY <1>4, <2>2 DEF AlertSafe, Windowed
    <3> QED BY <3>1, <3>2 DEF AlertSafe, Windowed
  <2>3. CASE x = d
    <3>1. Sending(d)' = Sending(d) \ {n} BY <2>1, <2>3 DEF Sending
    <3>2. Len(alerts'[d]) = Len(alerts[d]) + 1 BY <1>4, <1>6 DEF AlertSafe, Windowed
    <3>3. /\ IsFiniteSet(Sending(d)) /\ Cardinality(Sending(d)) \in Nat
          /\ n \notin Sending(d) => Cardinality(Sending(d)) <= MaxHandled - 1
      BY SendingBounds
    <3>4. CASE n \in Sending(d)
      <4>1. Cardinality(Sending(d)') = Cardinality(Sending(d)) - 1
        BY <3>1, <3>3, <3>4, FS_RemoveElement
      <4>2. Len(alerts[d]) + Cardinality(Sending(d)) <= MaxPerWindow + MaxHandled - 1
        BY DEF AlertSafe, Windowed
      <4> QED BY <1>5, <2>3, <3>2, <3>3, <4>1, <4>2, AlertConstants
    <3>5. CASE n \notin Sending(d)
      <4>1. Sending(d)' = Sending(d) BY <3>1, <3>5
      <4>2. handling[h].at # "send" BY <1>0, <3>5 DEF Sending
      <4>3. Len(alerts[d]) < MaxPerWindow
        BY <1>0, <1>5, <4>2, AlertConstants DEF Throttles
      <4> QED BY <1>5, <2>3, <3>2, <3>3, <3>5, <4>1, <4>3, AlertConstants
    <3> QED BY <3>4, <3>5
  <2> QED BY <2>2, <2>3
<1>9. Windowed' BY <1>7, <1>8 DEF Windowed
<1> QED BY <1>2, <1>9 DEF AlertSafe

\* A handling begins to send while its window has room.
LEMMA SendingStarts ==
    ASSUME AlertSafe, NEW h \in Slots, handling[h].at = "rule", handling[h].rule <= Len(Rules),
           ~Throttles(h[1]), handling' = [handling EXCEPT ![h].at = "send"],
           UNCHANGED alerts, turn' \in Slots \cup {NoOne}
    PROVE  AlertSafe'
<1>0. PICK d \in Daemons, n \in 1..MaxHandled : h = <<d, n>> BY DEF Slots
<1> DEFINE q == [handling[h] EXCEPT !.at = "send"]
<1>1. /\ q \in Handling /\ q.at = "send" /\ q.topic = handling[h].topic /\ q.rule = handling[h].rule
      /\ handling' = [handling EXCEPT ![h] = q]
  BY DEF AlertSafe, Handled, Handling
<1> HIDE DEF q
<1>2. \A x \in Slots : handling'[x] = IF x = h THEN q ELSE handling[x]
  BY <1>1 DEF AlertSafe, Handled
<1>3. Handled' BY <1>1, <1>2 DEF AlertSafe, Handled
<1>4. ASSUME NEW x \in Daemons
      PROVE  Len(alerts'[x]) + Cardinality(Sending(x)') <= MaxPerWindow + MaxHandled - 1
  <2>1. \A y \in 1..MaxHandled : handling'[<<x, y>>] = IF x = d /\ y = n THEN q ELSE handling[<<x, y>>]
    BY <1>0, <1>2 DEF Slots
  <2>2. CASE x # d
    <3>1. Sending(x)' = Sending(x) BY <2>1, <2>2 DEF Sending
    <3> QED BY <3>1 DEF AlertSafe, Windowed
  <2>3. CASE x = d
    <3>1. Sending(d)' = Sending(d) \cup {n} /\ n \notin Sending(d)
      BY <1>0, <1>1, <2>1, <2>3 DEF Sending
    <3>2. /\ IsFiniteSet(Sending(d)) /\ Cardinality(Sending(d)) \in Nat
          /\ Cardinality(Sending(d)) <= MaxHandled - 1
      BY <3>1, SendingBounds
    <3>3. Cardinality(Sending(d)') = Cardinality(Sending(d)) + 1 BY <3>1, <3>2, FS_AddElement
    <3>4. Len(alerts[d]) \in Nat /\ Len(alerts[d]) < MaxPerWindow
      BY <1>0, AlertConstants DEF AlertSafe, Windowed, Throttles
    <3> QED BY <2>3, <3>2, <3>3, <3>4, AlertConstants
  <2> QED BY <2>2, <2>3
<1> QED BY <1>3, <1>4 DEF AlertSafe, Windowed

LEMMA HandlingFacts ==
    ASSUME AlertSafe, NEW h \in Slots
    PROVE  /\ handling[h] \in Handling /\ Free \in Handling /\ Free.at = "free"
           /\ handling[h].at # "free" => handling[h].topic \in Topics /\ handling[h].rule >= 1
           /\ handling[h].at = "send" => handling[h].rule <= Len(Rules)
           /\ NoOne \in Slots \cup {NoOne} /\ h \in Slots \cup {NoOne}
BY AlertConstants DEF AlertSafe, Handled, Handling, Free

LEMMA RuleJudgedKeeps == ASSUME AlertSafe, NEW h \in Slots, RuleJudged(h) PROVE AlertSafe'
<1> DEFINE i == handling[h].rule
           q == [handling[h] EXCEPT !.rule = i + 1]
<1>1. turn = h /\ handling[h].at = "rule" /\ i <= Len(Rules) BY DEF RuleJudged
<1>2. i \in 1..Len(Rules) BY <1>1, HandlingFacts, AlertConstants DEF Handling
<1>3. /\ q \in Handling /\ q.at = "rule" /\ q.topic \in Topics /\ q.rule >= 1
      /\ [handling EXCEPT ![h].rule = i + 1] = [handling EXCEPT ![h] = q]
  BY <1>1, <1>2, HandlingFacts, AlertConstants DEF Handling
<1>4. \/ handling' = [handling EXCEPT ![h] = q] /\ UNCHANGED <<alerts, turn>>
      \/ handling' = [handling EXCEPT ![h] = Free] /\ turn' = NoOne /\ UNCHANGED alerts
      \/ /\ Rules[i].topic = handling[h].topic /\ ~Throttles(h[1])
         /\ \/ handling' = [handling EXCEPT ![h].at = "send"] /\ turn' = NoOne /\ UNCHANGED alerts
            \/ /\ handling' = [handling EXCEPT ![h] = q]
               /\ alerts' = Recorded(h[1], Rules[i].topic) /\ UNCHANGED turn
  BY <1>3 DEF RuleJudged
<1> HIDE DEF q
<1>5. CASE handling' = [handling EXCEPT ![h] = q] /\ UNCHANGED <<alerts, turn>>
  BY <1>1, <1>3, <1>5, HandlingFacts, HandlingMoves
<1>6. CASE handling' = [handling EXCEPT ![h] = Free] /\ turn' = NoOne /\ UNCHANGED alerts
  BY <1>6, HandlingFacts, HandlingMoves
<1>7. CASE /\ ~Throttles(h[1]) /\ handling' = [handling EXCEPT ![h].at = "send"]
           /\ turn' = NoOne /\ UNCHANGED alerts
  BY <1>1, <1>7, HandlingFacts, SendingStarts
<1>8. CASE /\ ~Throttles(h[1]) /\ handling' = [handling EXCEPT ![h] = q]
           /\ alerts' = Recorded(h[1], Rules[i].topic) /\ UNCHANGED turn
  <2>1. Rules[i].topic \in Topics BY <1>2, AlertConstants
  <2> QED BY <1>1, <1>3, <1>8, <2>1, HandlingFacts, RecordedKeeps
<1> QED BY <1>4, <1>5, <1>6, <1>7, <1>8

LEMMA SentKeeps == ASSUME AlertSafe, NEW h \in Slots, Sent(h) PROVE AlertSafe'
<1> DEFINE q == [handling[h] EXCEPT !.at = "rule", !.rule = handling[h].rule + 1]
<1>1. /\ handling[h].at = "send" /\ turn' = h /\ alerts' = Recorded(h[1], handling[h].topic)
      /\ handling' = [handling EXCEPT ![h] = q]
  BY DEF Sent
<1>2. /\ q \in Handling /\ q.at = "rule" /\ q.topic \in Topics /\ q.rule >= 1
      /\ handling[h].topic \in Topics
  <2>1. /\ handling[h] \in Handling /\ handling[h].topic \in Topics
        /\ handling[h].rule \in 1..Len(Rules)
    BY <1>1, HandlingFacts, AlertConstants DEF Handling
  <2>2. handling[h].rule + 1 \in 0..Len(Rules) + 1 /\ handling[h].rule + 1 >= 1
    BY <2>1, AlertConstants
  <2> QED BY <2>1, <2>2 DEF Handling
<1> HIDE DEF q
<1> QED BY <1>1, <1>2, HandlingFacts, RecordedKeeps

\* However deliveries overlap and channels delay them, a daemon's window holds
\* its limit, and beyond it at most what was being sent when it was reached.
THEOREM AlertsBounded == AlertSpec => []AlertInv
<1>1. ASSUME AlertSafe, [AlertNext]_alertVars PROVE AlertSafe'
  <2>1. CASE UNCHANGED alertVars
    BY <1>1, <2>1 DEF AlertSafe, Handled, Windowed, Sending, alertVars
  <2>2. ASSUME NEW h \in Slots, TakenUp(h) PROVE AlertSafe'
    BY <1>1, <2>2 DEF TakenUp, AlertSafe, Handled, Windowed, Sending
  <2>3. ASSUME NEW h \in Slots, RulesDone(h) PROVE AlertSafe'
    BY <1>1, <2>3, HandlingFacts, HandlingMoves DEF RulesDone
  <2> QED BY <1>1, <2>1, <2>2, <2>3, DeliveredKeeps, WindowMovesKeeps, RuleJudgedKeeps, SentKeeps
          DEF AlertNext
<1>2. ASSUME AlertSafe PROVE AlertInv
  <2>1. AlertTypeOK
    BY <1>2 DEF AlertSafe, Handled, Handling, Windowed, Alert, AlertTypeOK
  <2>2. WindowBounded BY <1>2 DEF AlertSafe, Windowed, Sending, WindowBounded
  <2> QED BY <2>1, <2>2 DEF AlertInv
<1> QED BY <1>1, <1>2, AlertStarts, PTL DEF AlertSpec

-----------------------------------------------------------------------------
(* The ticks.                                                               *)

Instants == 0..(Horizon + Cool)
Cools    == [Timers -> [Symbols -> Instants]]
Phases   == [Orders -> {"idle", "watching", "sent", "over"}]
Stages  == [Ticks -> {"new", "queued", "trend", "done"}]
Origins  == [Ticks -> Sources \cup {"none"}]

\* The part of the state that orders and cooldowns make.
Working == cool \in Cools /\ ex \in Phases /\ pc \in Stages /\ src \in Origins
Queueing == think \in Seq(Ticks) /\ Len(think) <= ThinkMax
Trending ==
    /\ trend \in [Symbols -> {"FLAT", "LONG_ACTIVE", "COOLDOWN"}]
    /\ bought \in [Symbols -> Int]
    /\ TrendAlternates
Resting ==
    /\ now \in 0..Horizon
    /\ on \in [Modules -> {"on", "off", "absent"}]
    /\ at \in [Ticks -> 0..Horizon]
    /\ book \in [Symbols -> BOOLEAN]
    /\ news \in [{"base", "qualified"} -> [Symbols -> -2..2]]
    /\ ladder \in [Clusters -> 0..Rungs]

TickSafe == Working /\ Queueing /\ Trending /\ Resting

LEMMA TickConstants ==
    /\ SymbolOf \in [Ticks -> Symbols] /\ Horizon \in Nat /\ Cool \in Nat /\ Cool > 0
    /\ ThinkMax \in Nat /\ Rungs \in Nat
    /\ \A t \in Ticks : /\ SymbolOf[t] \in Symbols
                        /\ <<"entry", t>> \in Orders /\ <<"exit", t>> \in Orders
                        /\ <<"brain", t>> \in Orders
    /\ {"scalp", "deepseek_v2", "momentum_rt", "trend_follow", "hmm_v1", "ensemble"} = Timers
    /\ {"scalp", "momentum_rt", "trend_buy", "trend_sell", "fused", "solo"} = Sources
BY TickAssumption DEF TickAssumption, Orders, Timers, Sources

LEMMA CoolingTyped ==
    ASSUME NEW base \in Cools, NEW m \in Timers, NEW s \in Symbols, NEW t \in Instants
    PROVE  [base EXCEPT ![m][s] = t] \in Cools
<1>1. base[m] \in [Symbols -> Instants] BY DEF Cools
<1>2. [base[m] EXCEPT ![s] = t] \in [Symbols -> Instants] BY <1>1
<1> QED BY <1>2 DEF Cools

LEMMA ExecutesTyped ==
    ASSUME TickSafe, NEW e \in Orders, Executes(e) PROVE ex' \in Phases
BY DEF TickSafe, Working, Executes, Phases

LEMMA WatchTyped ==
    ASSUME NEW t \in Ticks, NEW phases \in Phases, NEW x \in MayWatch(t, phases)
    PROVE  x \in Phases
BY TickConstants DEF MayWatch, Phases

\* A decision executed.
LEMMA DecidesTyped ==
    ASSUME TickSafe, NEW t \in Ticks, NEW m \in Sources, Decides(t, m)
    PROVE  pc' \in Stages /\ src' \in Origins /\ ex' \in Phases
<1>1. src' = [src EXCEPT ![t] = m] /\ pc' = [pc EXCEPT ![t] = "done"] BY DEF Decides
<1>2. ex' \in Phases BY TickConstants, ExecutesTyped DEF Decides
<1> QED BY <1>1, <1>2 DEF TickSafe, Working, Stages, Origins

\* The votes at the end of on_tick.
LEMMA VotesTyped ==
    ASSUME TickSafe, NEW t \in Ticks, NEW base \in Cools, Votes(t, base) PROVE Working'
<1>1. PICK told \in Cools, source \in {"fused", "solo"} :
        EnsembleTrades(t, told, source) \/ Passes(t, told)
  <2> PICK regime \in Readings, ma \in Crossings : \E hmm \in HmmDecisions(regime, SymbolOf[t]) :
        \E river \in RiverVotes(regime) : \E fused \in Combined(ma, hmm, river) :
        LET s == SymbolOf[t]
            signal == Signal(fused, ma, hmm)
            told  == IF hmm = "none" THEN base ELSE [base EXCEPT !["hmm_v1"][s] = now + Cool]
        IN  IF /\ signal # "none" /\ signal = BrainSide(regime, news[TickKey][s])
               /\ Cooled("ensemble", s, now)
            THEN EnsembleTrades(t, told, IF fused = "none" THEN "solo" ELSE "fused")
            ELSE Passes(t, told)
    BY DEF Votes
  <2> PICK hmm \in HmmDecisions(regime, SymbolOf[t]), river \in RiverVotes(regime) :
        \E fused \in Combined(ma, hmm, river) :
        LET s == SymbolOf[t]
            signal == Signal(fused, ma, hmm)
            told  == IF hmm = "none" THEN base ELSE [base EXCEPT !["hmm_v1"][s] = now + Cool]
        IN  IF /\ signal # "none" /\ signal = BrainSide(regime, news[TickKey][s])
               /\ Cooled("ensemble", s, now)
            THEN EnsembleTrades(t, told, IF fused = "none" THEN "solo" ELSE "fused")
            ELSE Passes(t, told)
    OBVIOUS
  <2> DEFINE told == IF hmm = "none" THEN base
                      ELSE [base EXCEPT !["hmm_v1"][SymbolOf[t]] = now + Cool]
  <2>1. now + Cool \in Instants BY TickConstants DEF TickSafe, Resting, Instants
  <2>2. "hmm_v1" \in Timers /\ SymbolOf[t] \in Symbols BY TickConstants
  <2>3. told \in Cools BY <2>1, <2>2, CoolingTyped
  <2>4. \E source \in {"fused", "solo"} : EnsembleTrades(t, told, source) \/ Passes(t, told)
    OBVIOUS
  <2> QED BY <2>3, <2>4
<1>2. CASE EnsembleTrades(t, told, source)
  <2>1. PICK window \in Windows :
          cool' = [told EXCEPT !["ensemble"][SymbolOf[t]] = now + window]
    BY <1>2 DEF EnsembleTrades
  <2>2. now + window \in Instants BY TickConstants DEF TickSafe, Resting, Instants, Windows
  <2>3. cool' \in Cools BY <2>1, <2>2, CoolingTyped, TickConstants
  <2>4. src' = [src EXCEPT ![t] = source] /\ pc' = [pc EXCEPT ![t] = "done"]
    BY <1>2 DEF EnsembleTrades
  <2>5. src' \in Origins /\ pc' \in Stages
    BY <2>4, TickConstants DEF TickSafe, Working, Stages, Origins
  <2>6. ex' \in Phases
    <3> DEFINE over == [ex EXCEPT ![<<"entry", t>>] = "over"]
    <3>1. over \in Phases /\ [ex EXCEPT ![<<"entry", t>>] = "sent"] \in Phases
      BY TickConstants DEF TickSafe, Working, Phases
    <3>2. \/ ex' = [ex EXCEPT ![<<"entry", t>>] = "sent"] \/ ex' \in MayWatch(t, over) \/ ex' = over
      BY <1>2 DEF EnsembleTrades
    <3> HIDE DEF over
    <3> QED BY <3>1, <3>2, WatchTyped
  <2> QED BY <2>3, <2>5, <2>6 DEF Working
<1>3. CASE Passes(t, told)
  <2>1. pc' = [pc EXCEPT ![t] = "done"] /\ cool' = told /\ UNCHANGED <<src, ex>>
    BY <1>3 DEF Passes
  <2> QED BY <2>1 DEF TickSafe, Working, Stages
<1> QED BY <1>1, <1>2, <1>3

LEMMA TickStarts == ASSUME TickInit PROVE TickSafe
<1>1. on \in [Modules -> {"on", "off", "absent"}]
  <2>1. PICK config \in Configs : on = [m \in Modules |-> IF m \in config THEN "on" ELSE "absent"]
    BY DEF TickInit
  <2> QED BY <2>1
<1>2. Working
  <2>1. 0 \in Instants BY TickConstants DEF Instants
  <2> QED BY <2>1 DEF TickInit, Working, Cools, Phases, Stages, Origins
<1>3. Queueing BY TickConstants DEF TickInit, Queueing
<1>4. Trending BY DEF TickInit, Trending, TrendAlternates
<1>5. Resting
  <2>1. now \in 0..Horizon /\ at \in [Ticks -> 0..Horizon] /\ ladder \in [Clusters -> 0..Rungs]
    BY TickConstants DEF TickInit
  <2>2. book \in [Symbols -> BOOLEAN] BY DEF TickInit
  <2>3. news \in [{"base", "qualified"} -> [Symbols -> -2..2]] BY DEF TickInit
  <2> QED BY <1>1, <2>1, <2>2, <2>3 DEF Resting
<1> QED BY <1>2, <1>3, <1>4, <1>5 DEF TickSafe

\* DeepSeek's poll.
LEMMA PollTyped ==
    ASSUME TickSafe, NEW t \in Ticks
    PROVE  /\ Enqueued(t) \in Seq(Ticks) /\ Len(Enqueued(t)) <= ThinkMax
           /\ Polled(t) \in Cools
<1>1. think \in Seq(Ticks) /\ Len(think) \in Nat /\ Len(think) <= ThinkMax
  BY DEF TickSafe, Queueing
<1>2. Append(think, t) \in Seq(Ticks) /\ Len(Append(think, t)) = Len(think) + 1
  BY <1>1, AppendProperties
<1>3. Len(think) < ThinkMax => Len(Append(think, t)) <= ThinkMax BY <1>1, <1>2, TickConstants
<1>4. Enqueued(t) \in Seq(Ticks) /\ Len(Enqueued(t)) <= ThinkMax
  BY <1>1, <1>2, <1>3 DEF Enqueued
<1>5. now + Cool \in Instants BY TickConstants DEF TickSafe, Resting, Instants
<1>6. Polled(t) \in Cools
  BY <1>5, CoolingTyped, TickConstants DEF Polled, Cooling, TickSafe, Working
<1> QED BY <1>4, <1>6

LEMMA ArrivesKeeps == ASSUME TickSafe, NEW t \in Ticks, Arrives(t) PROVE TickSafe'
<1>1. UNCHANGED <<now, on, at, book, news, ladder>> BY DEF Arrives
<1>2. Resting' BY <1>1 DEF TickSafe, Resting
<1>3. at[t] + Cool \in Instants BY TickConstants DEF TickSafe, Resting, Instants
<1>4. CASE ScalpTrades(t, at[t])
  <2>1. cool' = [cool EXCEPT !["scalp"][SymbolOf[t]] = at[t] + Cool] /\ Decides(t, "scalp")
        /\ UNCHANGED <<trend, bought, think>>
    BY <1>4 DEF ScalpTrades, Cooling
  <2>2. cool' \in Cools BY <1>3, <2>1, CoolingTyped, TickConstants DEF TickSafe, Working
  <2>3. Working' BY <2>1, <2>2, DecidesTyped, TickConstants DEF Working
  <2> QED BY <1>2, <2>1, <2>3 DEF TickSafe, Queueing, Trending, TrendAlternates
<1>5. CASE MomentumTrades(t, at[t])
  <2>1. /\ cool' = [Polled(t) EXCEPT !["momentum_rt"][SymbolOf[t]] = at[t] + Cool]
        /\ Decides(t, "momentum_rt") /\ think' = Enqueued(t) /\ UNCHANGED <<trend, bought>>
    BY <1>5 DEF MomentumTrades
  <2>2. cool' \in Cools BY <1>3, <2>1, PollTyped, CoolingTyped, TickConstants
  <2>3. Working' BY <2>1, <2>2, DecidesTyped, TickConstants DEF Working
  <2>4. Queueing' BY <2>1, PollTyped DEF Queueing
  <2> QED BY <1>2, <2>1, <2>3, <2>4 DEF TickSafe, Trending, TrendAlternates
<1>6. CASE /\ think' = Enqueued(t)
           /\ trend' = [trend EXCEPT ![SymbolOf[t]] =
                           IF On("trend_follow") THEN TrendWakes(SymbolOf[t], at[t]) ELSE @]
           /\ IF TrendLooks(SymbolOf[t], at[t])
              THEN pc' = [pc EXCEPT ![t] = "trend"] /\ cool' = Polled(t) /\ UNCHANGED <<src, ex>>
              ELSE Votes(t, Polled(t))
           /\ UNCHANGED bought
  <2>1. Queueing' BY <1>6, PollTyped DEF Queueing
  <2>2. Working'
    <3>1. CASE pc' = [pc EXCEPT ![t] = "trend"] /\ cool' = Polled(t) /\ UNCHANGED <<src, ex>>
      BY <3>1, PollTyped DEF TickSafe, Working, Stages
    <3>2. CASE Votes(t, Polled(t)) BY <3>2, PollTyped, VotesTyped
    <3> QED BY <1>6, <3>1, <3>2
  <2>3. Trending'
    <3> DEFINE s == SymbolOf[t]
               v == IF On("trend_follow") THEN TrendWakes(s, at[t]) ELSE trend[s]
    <3>1. s \in Symbols BY TickConstants
    <3>2. v = trend[s] \/ (trend[s] = "COOLDOWN" /\ v = "FLAT") BY DEF TrendWakes
    <3>3. trend' = [trend EXCEPT ![s] = v] BY <1>6
    <3> HIDE DEF v, s
    <3>4. UNCHANGED bought BY <1>6
    <3>5. trend' \in [Symbols -> {"FLAT", "LONG_ACTIVE", "COOLDOWN"}]
      BY <3>1, <3>2, <3>3 DEF TickSafe, Trending
    <3>6. \A x \in Symbols : trend'[x] = trend[x] \/ (trend[x] = "COOLDOWN" /\ trend'[x] = "FLAT")
      BY <3>1, <3>2, <3>3 DEF TickSafe, Trending
    <3> QED BY <3>4, <3>5, <3>6 DEF TickSafe, Trending, TrendAlternates
  <2> QED BY <1>2, <2>1, <2>2, <2>3 DEF TickSafe
<1> QED BY <1>4, <1>5, <1>6 DEF Arrives

\* The state the module finds after its await is the one that counts: a symbol is
\* entered when flat, and left when long.
LEMMA TrendTradesKeeps == ASSUME TickSafe, NEW t \in Ticks, TrendTrades(t) PROVE TickSafe'
<1> DEFINE s == SymbolOf[t]
<1>1. UNCHANGED <<now, on, at, book, news, think, ladder>> BY DEF TrendTrades, minds
<1>2. Resting' /\ Queueing' BY <1>1 DEF TickSafe, Resting, Queueing
<1>3. s \in Symbols BY TickConstants
<1>4. PICK snap \in Snapshots : TrendEnters(t, s, snap) \/ TrendLeaves(t, s, snap)
  BY DEF TrendTrades
<1> HIDE DEF s
<1>5. CASE TrendEnters(t, s, snap)
  <2>1. /\ trend[s] = "FLAT" /\ trend' = [trend EXCEPT ![s] = "LONG_ACTIVE"]
        /\ bought' = [bought EXCEPT ![s] = bought[s] + 1] /\ Decides(t, "trend_buy")
        /\ UNCHANGED cool
    BY <1>5 DEF TrendEnters, TrendSees
  <2>2. bought[s] = 0 BY <1>3, <2>1 DEF TickSafe, Trending, TrendAlternates
  <2>3. Trending' BY <1>3, <2>1, <2>2 DEF TickSafe, Trending, TrendAlternates
  <2>4. Working' BY <2>1, DecidesTyped, TickConstants DEF TickSafe, Working
  <2> QED BY <1>2, <2>3, <2>4 DEF TickSafe
<1>6. CASE TrendLeaves(t, s, snap)
  <2>1. /\ trend[s] = "LONG_ACTIVE" /\ trend' = [trend EXCEPT ![s] = "COOLDOWN"]
        /\ bought' = [bought EXCEPT ![s] = bought[s] - 1] /\ Decides(t, "trend_sell")
        /\ cool' = [cool EXCEPT !["trend_follow"][s] = at[t] + Cool]
    BY <1>6 DEF TrendLeaves, TrendSees, Cooling
  <2>2. bought[s] = 1 BY <1>3, <2>1 DEF TickSafe, Trending, TrendAlternates
  <2>3. Trending' BY <1>3, <2>1, <2>2 DEF TickSafe, Trending, TrendAlternates
  <2>4. at[t] + Cool \in Instants BY TickConstants DEF TickSafe, Resting, Instants
  <2>5. cool' \in Cools
    BY <1>3, <2>1, <2>4, CoolingTyped, TickConstants DEF TickSafe, Working
  <2>6. Working' BY <2>1, <2>5, DecidesTyped, TickConstants DEF Working
  <2> QED BY <1>2, <2>3, <2>6 DEF TickSafe
<1> QED BY <1>4, <1>5, <1>6

\* The other steps of a tick.
LEMMA CallKeeps ==
    ASSUME TickSafe, NEW t \in Ticks, Emits(t) \/ GoesOn(t) \/ Returns(t) \/ HmmExit(t)
    PROVE  TickSafe'
<1>1. CASE Emits(t)
  <2>1. /\ pc' = [pc EXCEPT ![t] = "queued"]
        /\ UNCHANGED <<now, on, book, src, cool, trend, bought, news, think, ex, ladder>>
    BY <1>1 DEF Emits, minds
  <2>2. PICK ts \in Stamps : at' = [at EXCEPT ![t] = ts] BY <1>1 DEF Emits
  <2>3. ts \in 0..Horizon BY TickConstants DEF Stamps, TickSafe, Resting
  <2>4. Resting' BY <2>1, <2>2, <2>3 DEF TickSafe, Resting
  <2>5. Working' BY <2>1 DEF TickSafe, Working, Stages
  <2> QED BY <2>1, <2>4, <2>5 DEF TickSafe, Queueing, Trending, TrendAlternates
<1>2. CASE GoesOn(t)
  <2>1. Votes(t, cool) /\ UNCHANGED <<now, on, at, book, trend, bought, news, think, ladder>>
    BY <1>2 DEF GoesOn, minds
  <2>2. Working' BY <2>1, VotesTyped DEF TickSafe, Working
  <2> QED BY <2>1, <2>2 DEF TickSafe, Resting, Queueing, Trending, TrendAlternates
<1>3. CASE Returns(t)
  <2>1. /\ pc' = [pc EXCEPT ![t] = "new"] /\ at' = [at EXCEPT ![t] = 0]
        /\ src' = [src EXCEPT ![t] = "none"]
        /\ ex' = [e \in Orders |-> IF e \in Led(t) THEN "idle" ELSE ex[e]]
        /\ UNCHANGED <<now, on, book, cool, trend, bought, news, think, ladder>>
    BY <1>3 DEF Returns, minds
  <2>2. Resting' BY <2>1, TickConstants DEF TickSafe, Resting
  <2>3. Working' BY <2>1 DEF TickSafe, Working, Stages, Origins, Phases
  <2> QED BY <2>1, <2>2, <2>3 DEF TickSafe, Queueing, Trending, TrendAlternates
<1>4. CASE HmmExit(t)
  <2>1. Executes(<<"exit", t>>) /\ UNCHANGED <<now, on, ticking, minds, ladder>>
    BY <1>4 DEF HmmExit
  <2>2. ex' \in Phases BY <2>1, ExecutesTyped, TickConstants
  <2> QED BY <2>1, <2>2
        DEF TickSafe, Working, Resting, Queueing, Trending, TrendAlternates, ticking, minds
<1> QED BY <1>1, <1>2, <1>3, <1>4

\* What else submits orders.
LEMMA ThinkKeeps == ASSUME TickSafe, ThinkFails \/ DeepseekSignal PROVE TickSafe'
<1>1. think # <<>> /\ think' = Tail(think) /\ UNCHANGED <<now, on, ticking, ladder>>
  BY DEF ThinkFails, DeepseekSignal
<1>2. think \in Seq(Ticks) /\ Head(think) \in Ticks
  BY <1>1 DEF TickSafe, Queueing
<1>3. Queueing'
  <2>1. Tail(think) \in Seq(Ticks) /\ Len(Tail(think)) = Len(think) - 1 /\ Len(think) \in Nat
    BY <1>1, <1>2, HeadTailProperties
  <2> QED BY <1>1, <2>1, TickConstants DEF TickSafe, Queueing
<1>4. news' \in [{"base", "qualified"} -> [Symbols -> -2..2]] /\ ex' \in Phases
  <2>1. CASE ThinkFails BY <2>1 DEF ThinkFails, TickSafe, Resting, Working
  <2>2. CASE DeepseekSignal
    <3>1. PICK score \in Scores, regime \in Readings :
            /\ news' = [news EXCEPT ![NewsKey][SymbolOf[Head(think)]] = score]
            /\ IF BrainSide(regime, score) = "none" THEN UNCHANGED ex
               ELSE Executes(<<"brain", Head(think)>>)
      BY <2>2 DEF DeepseekSignal
    <3>2. SymbolOf[Head(think)] \in Symbols /\ <<"brain", Head(think)>> \in Orders
      BY <1>2, TickConstants
    <3>3. news' \in [{"base", "qualified"} -> [Symbols -> -2..2]]
      BY <3>1, <3>2 DEF NewsKey, Scores, TickSafe, Resting
    <3>4. ex' \in Phases BY <3>1, <3>2, ExecutesTyped DEF TickSafe, Working
    <3> QED BY <3>3, <3>4
  <2> QED BY <2>1, <2>2
<1>5. Resting' /\ Working' /\ Trending'
  BY <1>1, <1>4 DEF TickSafe, Resting, Working, Trending, TrendAlternates, ticking
<1> QED BY <1>3, <1>5 DEF TickSafe

LEMMA AnsweredKeeps ==
    ASSUME TickSafe, NEW e \in Orders, Answered(e) PROVE TickSafe'
<1> DEFINE over == [ex EXCEPT ![e] = "over"]
<1>1. over \in Phases BY DEF TickSafe, Working, Phases
<1>2. e[2] \in Ticks BY DEF Orders
<1>3. ex' \in MayWatch(e[2], over) \/ ex' = over BY DEF Answered
<1> HIDE DEF over
<1>4. ex' \in Phases BY <1>1, <1>2, <1>3, WatchTyped
<1>5. UNCHANGED <<now, on, ticking, minds, ladder>> BY DEF Answered
<1> QED BY <1>4, <1>5
      DEF TickSafe, Working, Resting, Queueing, Trending, TrendAlternates, ticking, minds

LEMMA OthersKeep ==
    ASSUME TickSafe,
           \/ \E x \in Clusters : Cluster(x) \/ Rung(x)
           \/ \E k \in {"base", "qualified"}, s \in Symbols : NewsExpires(k, s)
           \/ \E s \in Symbols : BookQuoted(s) \/ BookAges(s)
           \/ \E m \in Togglable : Toggle(m)
           \/ TimePasses
    PROVE  TickSafe'
<1>1. UNCHANGED <<pc, at, src, cool, trend, bought, think, ex>>
  BY DEF Cluster, Rung, NewsExpires, BookQuoted, BookAges, Toggle, TimePasses, ticking, minds
<1>2. ASSUME NEW x \in Clusters, Cluster(x) \/ Rung(x) PROVE Resting'
  <2>1. UNCHANGED <<now, on, ticking, minds, ex>> BY <1>2 DEF Cluster, Rung
  <2>2. ladder' \in [Clusters -> 0..Rungs]
    BY <1>2, TickConstants DEF Cluster, Rung, TickSafe, Resting
  <2> QED BY <2>1, <2>2 DEF TickSafe, Resting, ticking, minds
<1>3. ASSUME NEW k \in {"base", "qualified"}, NEW s \in Symbols, NewsExpires(k, s) PROVE Resting'
  <2>1. /\ news' = [news EXCEPT ![k][s] = 0]
        /\ UNCHANGED <<now, on, ticking, think, ex, ladder>>
    BY <1>3 DEF NewsExpires
  <2> QED BY <2>1 DEF TickSafe, Resting, ticking
<1>4. ASSUME NEW s \in Symbols, BookQuoted(s) \/ BookAges(s) PROVE Resting'
  BY <1>4 DEF BookQuoted, BookAges, TickSafe, Resting, minds
<1>5. ASSUME NEW m \in Togglable, Toggle(m) PROVE Resting'
  BY <1>5, TickAssumption DEF Toggle, TickSafe, Resting, ticking, minds, TickAssumption
<1>6. ASSUME TimePasses PROVE Resting'
  BY <1>6, TickConstants DEF TimePasses, TickSafe, Resting, ticking, minds
<1>7. Resting' BY <1>2, <1>3, <1>4, <1>5, <1>6
<1> QED BY <1>1, <1>7 DEF TickSafe, Working, Queueing, Trending, TrendAlternates

\* Ticks of one symbol overlap across the klines await: the trend module never
\* enters twice nor leaves twice, and its state tells which is next.
THEOREM TrendSound == TickSpec => []TrendInv
<1>1. ASSUME TickSafe, [TickNext]_tickVars PROVE TickSafe'
  <2>1. CASE UNCHANGED tickVars
    BY <1>1, <2>1 DEF TickSafe, Working, Queueing, Trending, TrendAlternates, Resting, tickVars
  <2> QED BY <1>1, <2>1, ArrivesKeeps, TrendTradesKeeps, CallKeeps, ThinkKeeps, AnsweredKeeps,
             OthersKeep DEF TickNext
<1>2. ASSUME TickSafe PROVE TrendInv
  BY <1>2 DEF TickSafe, Working, Queueing, Trending, Resting, Cools, Phases, Stages, Origins,
              Instants, TickTypeOK, TrendInv
<1> QED BY <1>1, <1>2, TickStarts, PTL DEF TickSpec

-----------------------------------------------------------------------------
(* The startup and the shutdown.                                             *)

EarlyParts == {"telemetry", "skew", "prices", "liquidations", "scheduler", "bus", "balances",
               "specs", "params", "model", "topup", "wallet", "ibkr"}
LateParts  == {"dexFeed", "dexSniper", "dexWatcher", "momentum", "meme", "listing", "airdrop",
               "digest", "depeg", "funding", "restore", "feeds", "queue", "alerts", "governance",
               "brackets", "stopValidator", "hooks", "user", "market", "staleness", "venue", "watchdog"}

\* A sequence over S of length n.
Fits(s, S, n) == s \in Seq(S) /\ Len(s) = n

\* The elements of s, then those of t.
Follows(st, s, t, m, n) ==
    /\ \A i \in 1..m : st[i] = s[i]
    /\ \A i \in (m + 1)..(m + n) : st[i] = t[i - m]

LEMMA Joined ==
    ASSUME NEW S, NEW m, NEW n, NEW s, NEW t, Fits(s, S, m), Fits(t, S, n)
    PROVE  Fits(s \o t, S, m + n) /\ Follows(s \o t, s, t, m, n)
<1>1. m \in Nat /\ n \in Nat /\ m = Len(s) /\ n = Len(t) /\ s \in Seq(S) /\ t \in Seq(S) BY DEF Fits
<1>2. /\ s \o t \in Seq(S) /\ Len(s \o t) = Len(s) + Len(t)
      /\ \A i \in 1..(Len(s) + Len(t)) : (s \o t)[i] = IF i <= Len(s) THEN s[i] ELSE t[i - Len(s)]
  BY <1>1, ConcatProperties
<1>3. Fits(s \o t, S, m + n) BY <1>1, <1>2 DEF Fits
<1>4. \A i \in 1..m : i \in 1..(m + n) /\ i <= m BY <1>1
<1>5. \A i \in (m + 1)..(m + n) : i \in 1..(m + n) /\ ~(i <= m) BY <1>1
<1> QED BY <1>1, <1>2, <1>3, <1>4, <1>5 DEF Follows

LEMMA FitsAt == ASSUME NEW S, NEW s, NEW n, Fits(s, S, n) PROVE \A i \in 1..n : s[i] \in S
<1>1. s \in Seq(S) /\ n = Len(s) BY DEF Fits
<1>2. \A i \in 1..Len(s) : s[i] \in S BY <1>1
<1> QED BY <1>1, <1>2

LEMMA Wider == ASSUME NEW S, NEW T, S \subseteq T, NEW s, NEW n, Fits(s, S, n) PROVE Fits(s, T, n)
BY DEF Fits

LEMMA BeforeIsEarly == Fits(BeforeRisk, EarlyParts, 13)
<1>1. /\ Fits(StartWsBridge, EarlyParts, 1) /\ Fits(ClockSkewProbe, EarlyParts, 1)
      /\ Fits(BootstrapServices, EarlyParts, 2) /\ Fits(StrategyStartup, EarlyParts, 1)
      /\ Fits(OnStartup, EarlyParts, 2) /\ Fits(StartSpecsRefresh, EarlyParts, 1)
      /\ Fits(StartParamBridge, EarlyParts, 1) /\ Fits(StartModelWatcher, EarlyParts, 1)
      /\ Fits(StartWallets, EarlyParts, 2) /\ Fits(MultiVenue, EarlyParts, 1)
  BY DEF Fits, StartWsBridge, ClockSkewProbe, BootstrapServices, StrategyStartup, OnStartup,
         StartSpecsRefresh, StartParamBridge, StartModelWatcher, StartWallets, MultiVenue, EarlyParts
<1>2. Fits(BeforeRisk, EarlyParts, 1 + 1 + 2 + 1 + 2 + 1 + 1 + 1 + 2 + 1)
  BY <1>1, Joined, Zenon DEF BeforeRisk
<1> QED BY <1>2

LEMMA AfterIsLate == Fits(AfterRisk, LateParts, 23)
<1>1. /\ Fits(DexWiring, LateParts, 3) /\ Fits(FeedWiring, LateParts, 4)
      /\ Fits(DigestWiring, LateParts, 1) /\ Fits(GuardWiring, LateParts, 2)
      /\ Fits(Restoration, LateParts, 1) /\ Fits(StartFeeds, LateParts, 1)
      /\ Fits(StartSignals, LateParts, 1) /\ Fits(StartAlerting, LateParts, 1)
      /\ Fits(StartGovernance, LateParts, 1) /\ Fits(StartBrackets, LateParts, 1)
      /\ Fits(StartValidator, LateParts, 1) /\ Fits(GovernanceHooks, LateParts, 1)
      /\ Fits(StartStreams, LateParts, 2) /\ Fits(StartMonitors, LateParts, 3)
  BY DEF Fits, DexWiring, FeedWiring, DigestWiring, GuardWiring, Restoration, StartFeeds, StartSignals,
         StartAlerting, StartGovernance, StartBrackets, StartValidator, GovernanceHooks, StartStreams,
         StartMonitors, LateParts
<1>2. Fits(AfterRisk, LateParts, 3 + 4 + 1 + 2 + 1 + 1 + 1 + 1 + 1 + 1 + 1 + 1 + 2 + 3)
  BY <1>1, Joined, Zenon DEF AfterRisk
<1> QED BY <1>2

\* The pause, then the guardian, after the early parts and before the late ones.
LEMMA StartupOrder ==
    /\ Len(Startup) = 38 /\ DOMAIN Startup = 1..38
    /\ \A i \in 1..13 : Startup[i] \in EarlyParts
    /\ Startup[14] = "pause" /\ Startup[15] = "guardian"
    /\ \A i \in 16..38 : Startup[i] \in LateParts
<1> DEFINE P == EarlyParts \cup LateParts \cup {"pause", "guardian"}
           S == BeforeRisk \o RiskWiring
<1>1. Fits(BeforeRisk, P, 13) /\ Fits(AfterRisk, P, 23)
  <2>1. EarlyParts \subseteq P /\ LateParts \subseteq P OBVIOUS
  <2> HIDE DEF P
  <2> QED BY <2>1, BeforeIsEarly, AfterIsLate, Wider, Zenon
<1>2. Fits(RiskWiring, P, 2) /\ RiskWiring[1] = "pause" /\ RiskWiring[2] = "guardian"
  BY DEF RiskWiring, Fits
<1> HIDE DEF P
<1>3. /\ \A i \in 1..13 : BeforeRisk[i] \in EarlyParts
      /\ \A i \in 1..23 : AfterRisk[i] \in LateParts
  <2>1. \A i \in 1..13 : BeforeRisk[i] \in EarlyParts BY BeforeIsEarly, FitsAt, Zenon
  <2>2. \A i \in 1..23 : AfterRisk[i] \in LateParts BY AfterIsLate, FitsAt, Zenon
  <2> QED BY <2>1, <2>2
<1>4. Fits(S, P, 13 + 2) /\ Follows(S, BeforeRisk, RiskWiring, 13, 2)
  BY <1>1, <1>2, Joined, Zenon
<1>5. Fits(S \o AfterRisk, P, 13 + 2 + 23) /\ Follows(S \o AfterRisk, S, AfterRisk, 13 + 2, 23)
  BY <1>1, <1>4, Joined, Zenon
<1>6. Startup = S \o AfterRisk BY DEF Startup
<1> HIDE DEF S
<1>7. /\ \A i \in 1..13 : S[i] = BeforeRisk[i]
      /\ S[14] = RiskWiring[1] /\ S[15] = RiskWiring[2]
  BY <1>4 DEF Follows
<1>8. /\ Len(Startup) = 38 /\ DOMAIN Startup = 1..38
      /\ \A i \in 1..15 : Startup[i] = S[i]
      /\ \A i \in 16..38 : Startup[i] = AfterRisk[i - 15] /\ i - 15 \in 1..23
  <2>1. Len(Startup) = 38 /\ DOMAIN Startup = 1..38
    <3>1. Startup \in Seq(P) /\ Len(Startup) = 13 + 2 + 23 BY <1>5, <1>6 DEF Fits
    <3>2. DOMAIN Startup = 1..Len(Startup) BY <3>1
    <3> QED BY <3>1, <3>2
  <2>2. 13 + 2 = 15 /\ 15 + 1 = 16 /\ 15 + 23 = 38 OBVIOUS
  <2>3. /\ \A i \in 1..15 : Startup[i] = S[i]
        /\ \A i \in 16..38 : Startup[i] = AfterRisk[i - 15]
    BY <1>5, <1>6, <2>2, Zenon DEF Follows
  <2>4. \A i \in 16..38 : i - 15 \in 1..23 OBVIOUS
  <2> QED BY <2>1, <2>3, <2>4
<1> QED BY <1>2, <1>3, <1>7, <1>8

\* The client is the last thing that is stopped, after the strategies of their own.
StoppedFirst == {"momentum", "listingTasks", "meme", "airdrop", "queue"}
StopParts    == StoppedFirst \cup {"prices", "liquidations", "params", "model", "client"}

LEMMA ShutdownOrder ==
    /\ Len(Shutdown) = 10 /\ Shutdown[10] = "client"
    /\ \A i \in 1..9 : Shutdown[i] # "client"
    /\ \A i \in 1..10 : Shutdown[i] # "pause"
    /\ \A p \in StoppedFirst : \E i \in 1..9 : Shutdown[i] = p
<1> DEFINE S == ShutdownServices \o StopModelWatcher
<1>1. /\ Fits(ShutdownServices, StopParts, 2) /\ Fits(StopModelWatcher, StopParts, 2)
      /\ Fits(OnShutdown, StopParts, 6)
  BY DEF ShutdownServices, StopModelWatcher, OnShutdown, Fits, StopParts, StoppedFirst
<1>2. Fits(S, StopParts, 2 + 2) /\ Follows(S, ShutdownServices, StopModelWatcher, 2, 2)
  BY <1>1, Joined, Zenon
<1>3. Fits(S \o OnShutdown, StopParts, 2 + 2 + 6) /\ Follows(S \o OnShutdown, S, OnShutdown, 2 + 2, 6)
  BY <1>1, <1>2, Joined, Zenon
<1>4. Shutdown = S \o OnShutdown BY DEF Shutdown
<1> HIDE DEF S
<1>5. S[1] = "prices" /\ S[2] = "liquidations" /\ S[3] = "params" /\ S[4] = "model"
  BY <1>2 DEF ShutdownServices, StopModelWatcher, Follows
<1>6. 2 + 2 = 4 /\ 4 + 1 = 5 /\ 4 + 6 = 10 OBVIOUS
<1>7. /\ \A i \in 1..4 : Shutdown[i] = S[i]
      /\ \A i \in 5..10 : Shutdown[i] = OnShutdown[i - 4]
  BY <1>3, <1>4, <1>6, Zenon DEF Follows
<1>8. /\ Shutdown[1] = "prices" /\ Shutdown[2] = "liquidations" /\ Shutdown[3] = "params"
      /\ Shutdown[4] = "model"
  BY <1>5, <1>7
<1>9. /\ Shutdown[5] = "momentum" /\ Shutdown[6] = "listingTasks"
      /\ Shutdown[7] = "meme" /\ Shutdown[8] = "airdrop" /\ Shutdown[9] = "queue"
      /\ Shutdown[10] = "client"
  BY <1>7 DEF OnShutdown
<1>10. \A i \in 1..10 : i \in {1, 2, 3, 4, 5, 6, 7, 8, 9, 10} OBVIOUS
<1>11. \A i \in 1..9 : Shutdown[i] # "client" BY <1>8, <1>9, <1>10
<1>12. \A i \in 1..10 : Shutdown[i] # "pause" BY <1>8, <1>9, <1>10
<1>13. \A p \in StoppedFirst : \E i \in 1..9 : Shutdown[i] = p
  <2>1. 5 \in 1..9 /\ 6 \in 1..9 /\ 7 \in 1..9 /\ 8 \in 1..9 /\ 9 \in 1..9 OBVIOUS
  <2> QED BY <1>9, <2>1 DEF StoppedFirst
<1>14. Len(Shutdown) = 10 BY <1>3, <1>4 DEF Fits
<1> QED BY <1>9, <1>11, <1>12, <1>13, <1>14

\* While the pause and the guardian have not had their turn only early parts run;
\* the client runs until it is the last to be stopped.
Ordered ==
    /\ phase \in {"boot", "up", "closing", "closed"}
    /\ step \in 1..(Len(Startup) + 1)
    /\ running \subseteq Range(Startup) \cup {"client", "listingTasks"}
    /\ phase = "boot" /\ step <= 15 => running \subseteq EarlyParts \cup {"client", "pause"}
    /\ phase = "boot" /\ step = 15 => "pause" \in running
    /\ "guardian" \in running => "pause" \in running
    /\ phase \in {"boot", "up"} => "client" \in running
    /\ phase = "closing" =>
         /\ step <= 11
         /\ step <= 10 => "client" \in running
         /\ \A i \in 1..10 : i < step => Shutdown[i] \notin running

\* An anchor taken after the restoration differs from the result by what has been
\* earned since.
Paid ==
    /\ realized \in Results /\ loss \in Results
    /\ trades \in 0..MaxTrades /\ earned \in -trades..trades
    /\ restored \in {"no", "loaded", "over"}
    /\ anchor \in Results \cup {NoAnchor}
    /\ tripped \in BOOLEAN /\ early \in BOOLEAN
    /\ anchor = NoAnchor => ~tripped /\ earned = 0
    /\ anchor # NoAnchor /\ ~early => restored = "over" /\ realized = anchor + earned
    /\ tripped /\ ~early => loss <= -LossLimit

LifeSafe == Ordered /\ Paid

LEMMA LifeConstants ==
    /\ LossLimit \in Nat /\ MaxTrades \in Nat /\ Furthest \in Nat /\ Furthest >= LossLimit
    /\ Furthest >= MaxTrades /\ Saved \subseteq Results /\ NoAnchor \notin Results /\ NoAnchor \in Int
    /\ Results \subseteq Int /\ "pause" \notin Optional
<1>1. LossLimit \in Nat /\ MaxTrades \in Nat /\ Saved \subseteq -LossLimit..LossLimit /\ "pause" \notin Optional
  BY LifespanAssumption DEF LifespanAssumption
<1>2. Furthest \in Nat /\ Furthest >= LossLimit /\ Furthest >= MaxTrades BY <1>1 DEF Furthest
<1>3. -LossLimit..LossLimit \subseteq Results BY <1>1, <1>2 DEF Results
<1>4. NoAnchor \notin Results /\ NoAnchor \in Int /\ Results \subseteq Int
  BY <1>2 DEF NoAnchor, Results
<1> QED BY <1>1, <1>2, <1>3, <1>4

LEMMA LifeStarts == ASSUME LifeInit PROVE LifeSafe
<1>1. Ordered BY StartupOrder DEF LifeInit, Ordered
<1>2. Paid
  <2>1. 0 \in Results /\ 0 \in 0..MaxTrades /\ 0 \in -0..0 BY LifeConstants DEF Results
  <2>2. /\ realized = 0 /\ loss = 0 /\ trades = 0 /\ earned = 0 /\ restored = "no"
        /\ anchor = NoAnchor /\ tripped = FALSE /\ early = FALSE
    BY DEF LifeInit
  <2> QED BY <2>1, <2>2 DEF Paid
<1> QED BY <1>1, <1>2 DEF LifeSafe

LEMMA StartPartOrdered == ASSUME LifeSafe, StartPart PROVE Ordered'
<1> DEFINE p == Startup[step]
<1>1. /\ phase = "boot" /\ phase' = "boot" /\ step \in 1..38 /\ step' = step + 1
  BY StartupOrder DEF StartPart, LifeSafe, Ordered
<1>2. p \in Range(Startup)
  <2>1. step \in DOMAIN Startup BY <1>1, StartupOrder
  <2> QED BY <2>1 DEF Range
<1>3. \/ running' = running \cup {p} \cup (IF p = "listing" THEN {"listingTasks"} ELSE {})
      \/ (p \in Optional \/ ~May(p)) /\ running' = running
  BY DEF StartPart
<1>4. running' \subseteq Range(Startup) \cup {"client", "listingTasks"} /\ running \subseteq running'
  BY <1>2, <1>3 DEF LifeSafe, Ordered
<1>5. "client" \in running' BY <1>1, <1>4 DEF LifeSafe, Ordered
<1>6. step' \in 1..(Len(Startup) + 1) BY <1>1, StartupOrder
<1>7. CASE step <= 13
  <2>1. p \in EarlyParts BY <1>1, <1>7, StartupOrder
  <2>2. running' \subseteq EarlyParts \cup {"client", "pause"} /\ "guardian" \notin running'
    BY <1>1, <1>3, <1>7, <2>1 DEF LifeSafe, Ordered, EarlyParts
  <2> QED BY <1>1, <1>4, <1>5, <1>6, <1>7, <2>2 DEF Ordered
<1>8. CASE step = 14
  <2>1. p = "pause" /\ May(p) /\ p \notin Optional
    BY <1>8, StartupOrder, LifeConstants DEF May, Needs
  <2>2. running' = running \cup {"pause"} BY <1>3, <2>1
  <2>3. running' \subseteq EarlyParts \cup {"client", "pause"} BY <1>1, <1>8, <2>2 DEF LifeSafe, Ordered
  <2> QED BY <1>1, <1>4, <1>5, <1>6, <1>8, <2>2, <2>3 DEF Ordered
<1>9. CASE step >= 15
  <2>1. "guardian" \in running' => "pause" \in running'
    <3>1. CASE step = 15 BY <1>1, <1>4, <3>1 DEF LifeSafe, Ordered
    <3>2. CASE step # 15
      <4>1. p \in LateParts BY <1>1, <1>9, <3>2, StartupOrder
      <4>2. p # "guardian" BY <4>1 DEF LateParts
      <4> QED BY <1>3, <1>4, <4>2 DEF LifeSafe, Ordered
    <3> QED BY <3>1, <3>2
  <2>2. ~(step' <= 15) /\ step' # 15 BY <1>1, <1>9
  <2> QED BY <1>1, <1>4, <1>5, <1>6, <2>1, <2>2 DEF Ordered
<1> QED BY <1>1, <1>7, <1>8, <1>9

LEMMA StopPartOrdered == ASSUME LifeSafe, StopPart PROVE Ordered'
<1>1. /\ phase = "closing" /\ phase' = "closing" /\ step \in 1..10 /\ step' = step + 1
      /\ running' = running \ {Shutdown[step]}
  BY ShutdownOrder DEF StopPart, LifeSafe, Ordered
<1>2. step' \in 1..(Len(Startup) + 1) /\ step' <= 11 BY <1>1, StartupOrder
<1>3. "pause" \in running => "pause" \in running' BY <1>1, ShutdownOrder
<1>4. step' <= 10 => "client" \in running'
  BY <1>1, ShutdownOrder DEF LifeSafe, Ordered
<1>5. \A i \in 1..10 : i < step' => Shutdown[i] \notin running'
  BY <1>1 DEF LifeSafe, Ordered
<1> QED BY <1>1, <1>2, <1>3, <1>4, <1>5 DEF LifeSafe, Ordered

LEMMA OrderedStep == ASSUME LifeSafe, [LifeNext]_lifeVars PROVE Ordered'
<1>1. CASE Load \/ CatchUp \/ GuardianPoll \/ Trade \/ UNCHANGED lifeVars
  BY <1>1 DEF Load, CatchUp, GuardianPoll, Trade, lifeVars, LifeSafe, Ordered
<1>2. CASE Started BY <1>2 DEF Started, LifeSafe, Ordered
<1>3. CASE Terminate
  <2>1. phase' = "closing" /\ step' = 1 /\ running' = running /\ "client" \in running
    BY <1>3 DEF Terminate, LifeSafe, Ordered
  <2>2. 1 \in 1..(Len(Startup) + 1) BY StartupOrder
  <2> QED BY <2>1, <2>2 DEF LifeSafe, Ordered
<1>4. CASE LoopEnds BY <1>4 DEF LoopEnds, LifeSafe, Ordered
<1> QED BY <1>1, <1>2, <1>3, <1>4, StartPartOrdered, StopPartOrdered DEF LifeNext

LEMMA PaidStep == ASSUME LifeSafe, [LifeNext]_lifeVars PROVE Paid'
<1> USE DEF LifeSafe
<1>1. CASE StartPart \/ Started \/ Terminate \/ StopPart \/ LoopEnds \/ UNCHANGED lifeVars
  BY <1>1 DEF StartPart, Started, Terminate, StopPart, LoopEnds, lifeVars, day, Paid
<1>2. CASE Load
  <2>1. realized' \in Results BY <1>2, LifeConstants DEF Load, Paid
  <2>2. anchor # NoAnchor => early BY <1>2 DEF Load, Paid
  <2> QED BY <1>2, <2>1, <2>2 DEF Load, Paid, day
<1>3. CASE CatchUp
  <2>1. realized' \in Results BY <1>3 DEF CatchUp
  <2>2. anchor # NoAnchor => early BY <1>3 DEF CatchUp, Paid
  <2> QED BY <1>3, <2>1, <2>2 DEF CatchUp, Paid, day
<1>4. CASE GuardianPoll
  <2>1. UNCHANGED <<realized, restored, earned, trades>> BY <1>4 DEF GuardianPoll
  <2>2. CASE anchor = NoAnchor
    <3>1. anchor' = realized /\ early' = (restored # "over") /\ tripped' = tripped /\ loss' = loss
      BY <1>4, <2>2 DEF GuardianPoll
    <3>2. anchor' \in Results /\ anchor' # NoAnchor BY <3>1, LifeConstants DEF Paid
    <3>3. early' \in BOOLEAN /\ (~early' => restored = "over") BY <3>1
    <3>4. ~tripped /\ earned = 0 /\ realized \in Int BY <2>2, LifeConstants DEF Paid
    <3>5. realized' = anchor' + earned' BY <2>1, <3>1, <3>4
    <3> QED BY <2>1, <3>1, <3>2, <3>3, <3>4, <3>5 DEF Paid
  <2>3. CASE anchor # NoAnchor
    <3>1. DayResult <= -LossLimit /\ tripped' = TRUE /\ loss' = earned /\ UNCHANGED <<anchor, early>>
      BY <1>4, <2>3 DEF GuardianPoll
    <3>2. /\ earned \in Results /\ earned \in Int /\ anchor \in Int /\ realized \in Int
      <4>1. trades \in Nat /\ trades <= Furthest /\ earned \in -trades..trades
        BY LifeConstants DEF Paid
      <4> QED BY <2>3, <4>1, LifeConstants DEF Paid, Results
    <3>3. ~early => earned <= -LossLimit
      BY <2>3, <3>1, <3>2, LifeConstants DEF Paid, DayResult
    <3>4. tripped' \in BOOLEAN BY <3>1
    <3> QED BY <2>1, <2>3, <3>1, <3>2, <3>3, <3>4 DEF Paid
  <2> QED BY <2>2, <2>3
<1>5. CASE Trade
  <2>1. PICK result \in {-1, 1} :
           /\ realized' = realized + result /\ realized' \in Results
           /\ earned' = IF anchor = NoAnchor THEN 0 ELSE earned + result
    BY <1>5 DEF Trade
  <2>2. trades \in Nat /\ trades < MaxTrades /\ trades' = trades + 1 /\ UNCHANGED <<restored, day>>
    BY <1>5 DEF Trade, Paid
  <2>3. trades' \in 0..MaxTrades /\ earned' \in -trades'..trades'
    <3>1. earned \in -trades..trades BY DEF Paid
    <3>2. earned' = 0 \/ earned' = earned + result BY <2>1
    <3> QED BY <2>1, <2>2, <3>1, <3>2, LifeConstants
  <2>4. anchor # NoAnchor /\ ~early => realized' = anchor + earned'
    <3>1. ASSUME anchor # NoAnchor, ~early PROVE realized' = anchor + earned'
      <4>1. realized = anchor + earned /\ earned \in Int /\ anchor \in Int
        BY <2>2, <3>1, LifeConstants DEF Paid
      <4>2. earned' = earned + result BY <2>1, <3>1
      <4> QED BY <2>1, <4>1, <4>2
    <3> QED BY <3>1
  <2> QED BY <2>1, <2>2, <2>3, <2>4 DEF Paid, day
<1> QED BY <1>1, <1>2, <1>3, <1>4, <1>5 DEF LifeNext

LEMMA LifeSafety == LifeSpec => []LifeSafe
<1>1. LifeSafe /\ [LifeNext]_lifeVars => LifeSafe' BY OrderedStep, PaidStep DEF LifeSafe
<1> QED BY <1>1, LifeStarts, PTL DEF LifeSpec

\* A guardian that polls is heard, the client outlives the strategies that trade by
\* tasks of their own, and a stop whose anchor was taken after the restoration is
\* for fills that lost the limit (the startup and shutdown handlers of app.py,
\* risk_guardian.py: _enforce_daily_stop).
THEOREM LifeSound == LifeSpec => []LifeInv
<1>1. ASSUME LifeSafe PROVE PauseIsHeard
  <2>1. ASSUME running \cap {"momentum", "feeds", "user", "market"} # {}, phase = "boot", step <= Len(Startup),
               NEW i \in step..Len(Startup), Startup[i] = "guardian"
        PROVE  FALSE
    <3>1. ~(step <= 15) BY <1>1, <2>1 DEF LifeSafe, Ordered, EarlyParts
    <3>2. i \in 16..38
      <4>1. step \in Int BY <1>1, StartupOrder DEF LifeSafe, Ordered
      <4> QED BY <2>1, <3>1, <4>1, StartupOrder
    <3>3. Startup[i] \in LateParts BY <3>2, StartupOrder
    <3> QED BY <2>1, <3>3 DEF LateParts
  <2>2. step \in Int /\ Len(Startup) \in Int BY <1>1, StartupOrder DEF LifeSafe, Ordered
  <2>3. "guardian" \in running => "pause" \in running BY <1>1 DEF LifeSafe, Ordered
  <2> QED BY <2>1, <2>2, <2>3 DEF PauseIsHeard
<1>2. ASSUME LifeSafe PROVE ClientOutlives
  <2>1. ASSUME phase \in {"up", "closing"}, "client" \notin running, NEW p \in StoppedFirst, p \in running
        PROVE  FALSE
    <3>1. phase = "closing" /\ ~(step <= 10) /\ step \in Int
      BY <1>2, <2>1, StartupOrder DEF LifeSafe, Ordered
    <3>2. PICK i \in 1..9 : Shutdown[i] = p BY ShutdownOrder
    <3>3. i \in 1..10 /\ i < step BY <3>1
    <3> QED BY <1>2, <2>1, <3>1, <3>2, <3>3 DEF LifeSafe, Ordered
  <2> QED BY <2>1 DEF ClientOutlives, StoppedFirst
<1>3. ASSUME LifeSafe PROVE LifeTypeOK /\ StopIsEarned
  <2>1. earned \in Results
    <3>1. trades \in Nat /\ trades <= Furthest /\ earned \in -trades..trades
      BY <1>3, LifeConstants DEF LifeSafe, Paid
    <3> QED BY <3>1, LifeConstants DEF Results
  <2> QED BY <1>3, <2>1 DEF LifeSafe, Ordered, Paid, LifeTypeOK, StopIsEarned
<1>4. LifeSafe => LifeInv BY <1>1, <1>2, <1>3 DEF LifeInv
<1> QED BY <1>4, LifeSafety, PTL

-----------------------------------------------------------------------------
(* The prices, filters and quantities of orders.                             *)

\* What a call is made of.
CallRecord == [pc : Asking \cup Limiting \cup {"new", "book", "placed", "over"},
               hop : {"primary", "fallback"}, market : Places, px : Nat, bid : Nat, qty : Nat,
               still : BOOLEAN, answered : BOOLEAN]

CallsTyped ==
    /\ mark \in [Places -> PriceSet] /\ rules \in [Places -> StepSet] /\ moves \in 0..MaxMoves
    /\ call \in [Calls -> CallRecord]
    /\ priceCache \in [Places -> PriceSet \cup {0}]
    /\ filters \in [Places -> StepSet \cup {0}]
    /\ fetchers \in SUBSET Calls

\* A limit order that is being prepared has a price and a quantity.
Prepared(q) ==
    /\ q.pc \in {"size", "book", "maker", "taker"} => q.px > 0
    /\ q.pc \in {"book", "maker", "taker"} => q.qty > 0

\* While the markets agree and stand still and the venue answers, every price a
\* call holds is that of the market.
Fresh(q, p) ==
    /\ q.pc \in Asking => q.hop = "primary"
    /\ q.pc \in {"size", "book", "maker", "taker", "step"} => q.px = p
    /\ q.pc \in {"book", "maker", "taker"} => q.qty = Budget \div p
    /\ q.pc = "maker" => q.bid = p
Steady(q) ==
    q.still =>
      /\ q.pc \notin {"placed", "over"} => mark["spot"] = mark["futures"]
      /\ q.answered /\ q.pc \notin {"placed", "over"} => Fresh(q, mark[Default])
      /\ q.answered /\ q.pc = "placed" => q.qty * q.px <= Budget

\* A market that was heard of has its price in the cache.
Remembers == ~forgot /\ \A m \in heard : m \in Places /\ priceCache[m] > 0

\* The lock: one caller at a time fetches, for a market without a filter; what
\* callers were given is what is cached.
OneFetches ==
    /\ \A c, d \in fetchers : c = d
    /\ \A c \in fetchers : call[c].pc \in Limiting /\ filters[FilterOf(call[c])] = 0
    /\ \A m \in Places : handed[m] = IF filters[m] = 0 THEN {} ELSE {filters[m]}
    /\ DOMAIN handed = Places

PriceInv == CallsTyped /\ (\A c \in Calls : Prepared(call[c]) /\ Steady(call[c])) /\ Remembers /\ OneFetches

-----------------------------------------------------------------------------
(* The arithmetic of orders.                                                 *)

LEMMA ConstantFacts ==
    /\ Default \in Places /\ Budget \in Nat /\ Budget > 0 /\ MaxMoves \in Nat
    /\ \A p \in PriceSet : p \in Nat /\ p > 0
    /\ \A p \in StepSet : p \in Nat /\ p > 0
BY PricingAssumption DEF PricingAssumption

\* A quantity divided out of the quote never commits more than the quote.
LEMMA DividedQuote ==
    ASSUME NEW p \in Nat, p > 0
    PROVE  /\ Budget \div p \in Nat
           /\ (Budget \div p) * p <= Budget
BY ConstantFacts

\* Rounding goes down.
LEMMA RoundedDown ==
    ASSUME NEW x \in Nat, NEW lot \in Nat
    PROVE  Down(x, lot) \in Nat /\ Down(x, lot) <= x
<1>1. CASE lot = 0 BY <1>1 DEF Down
<1>2. CASE lot # 0
  <2>a. lot > 0 BY <1>2
  <2>b. x % lot \in 0..(lot - 1) BY <2>a
  <2>c. x = lot * (x \div lot) + (x % lot) /\ x \div lot \in Nat BY <2>a
  <2>1. lot * (x \div lot) \in Nat BY <2>c
  <2>2. x - (x % lot) = lot * (x \div lot) BY <2>b, <2>c, <2>1
  <2>3. x - (x % lot) \in Nat /\ x - (x % lot) <= x BY <2>b, <2>1, <2>2
  <2> QED BY <1>2, <2>3 DEF Down
<1> QED BY <1>1, <1>2

\* A smaller factor, a smaller product.
LEMMA SmallerFactor ==
    ASSUME NEW a \in Nat, NEW b \in Nat, NEW c \in Nat, b <= c
    PROVE  a * b <= a * c /\ b * a <= c * a
<1>1. a * (c - b) >= 0 OBVIOUS
<1>2. a * (c - b) = a * c - a * b OBVIOUS
<1>3. b * a = a * b /\ c * a = a * c OBVIOUS
<1>4. a * b \in Nat /\ a * c \in Nat OBVIOUS
<1> QED BY <1>1, <1>2, <1>3, <1>4
-----------------------------------------------------------------------------
(* A step of a call.                                                         *)

\* A call that ends without an order to show.
LEMMA OverFits ==
    ASSUME NEW r PROVE Over(r) \in CallRecord /\ Prepared(Over(r)) /\ Steady(Over(r))
BY ConstantFacts DEF Over, NewCall, CallRecord, Prepared, Steady

\* What is done with a price keeps what is known of the call.
LEMMA PriceFits ==
    ASSUME CallsTyped, NEW r \in CallRecord, r.pc \in Asking, Prepared(r), Steady(r), NEW p \in Nat,
           r.still /\ r.answered => p = mark[Default], NEW q \in Onwards(r, p)
    PROVE  q \in CallRecord /\ Prepared(q) /\ Steady(q)
<1>0. mark[Default] \in Nat /\ mark[Default] > 0 /\ Default \in Places
  BY ConstantFacts DEF CallsTyped
<1>a. Over(r) \in CallRecord /\ Prepared(Over(r)) /\ Steady(Over(r)) BY OverFits
<1>1. CASE r.pc = "look"
  <2>1. q = Over(r) BY <1>1 DEF Onwards
  <2> QED BY <1>a, <2>1
<1>2. ASSUME q = Unpriced(r) PROVE q \in CallRecord /\ Prepared(q) /\ Steady(q)
  <2>1. CASE r.market = "futures"
    <3>1. q = [r EXCEPT !.pc = "blind", !.hop = "primary", !.px = 0] BY <1>2, <2>1 DEF Unpriced
    <3>2. q \in CallRecord BY <3>1 DEF CallRecord, Asking
    <3>3. Prepared(q) BY <3>1 DEF CallRecord, Prepared
    <3>4. r.pc \notin {"placed", "over"} BY DEF Asking
    <3>5. Steady(q) BY <3>1, <3>4 DEF CallRecord, Steady, Fresh
    <3> QED BY <3>2, <3>3, <3>5
  <2>2. CASE r.market # "futures"
    BY <1>2, <1>a, <2>2 DEF Unpriced
  <2> QED BY <2>1, <2>2
<1>3. CASE r.pc = "limit"
  <2>1. CASE p = 0 BY <1>2, <1>3, <2>1 DEF Onwards
  <2>2. CASE p # 0
    <3>1. q = [r EXCEPT !.pc = "size", !.hop = "primary", !.px = p] BY <1>3, <2>2 DEF Onwards
    <3>2. q \in CallRecord BY <3>1 DEF CallRecord, Asking
    <3>3. Prepared(q) BY <2>2, <3>1 DEF CallRecord, Prepared
    <3>4. Steady(q) BY <1>3, <3>1 DEF CallRecord, Steady, Fresh
    <3> QED BY <3>2, <3>3, <3>4
  <2> QED BY <2>1, <2>2
<1>4. CASE r.pc = "size"
  <2>1. CASE Quantity(p) = 0 BY <1>2, <1>4, <2>1 DEF Onwards
  <2>2. CASE Quantity(p) # 0
    <3>1. PICK next \in {"book", "taker"} : q = [r EXCEPT !.pc = next, !.qty = Quantity(p)]
      BY <1>4, <2>2 DEF Onwards
    <3>2. p # 0 /\ Quantity(p) = Budget \div p BY <2>2 DEF Quantity
    <3>3. Quantity(p) \in Nat /\ Quantity(p) > 0 BY <2>2, <3>2, DividedQuote
    <3>4. r.px > 0 BY <1>4 DEF Prepared
    <3>5. q \in CallRecord /\ Prepared(q)
      BY <3>1, <3>3, <3>4 DEF CallRecord, Prepared, Asking, Limiting
    <3>6. Steady(q) BY <1>4, <3>1, <3>2 DEF CallRecord, Steady, Fresh, Asking
    <3> QED BY <3>5, <3>6
  <2> QED BY <2>1, <2>2
<1>5. CASE r.pc = "blind"
  <2>1. q = [r EXCEPT !.pc = "step", !.px = p] BY <1>5 DEF Onwards
  <2> QED BY <1>5, <2>1 DEF CallRecord, Prepared, Steady, Fresh, Asking, Limiting
<1> QED BY <1>1, <1>3, <1>4, <1>5 DEF Asking

\* An order rounded and sent.
LEMMA SentFits ==
    ASSUME CallsTyped, NEW r \in CallRecord, r.pc \in Limiting, Prepared(r), Steady(r), NEW lot \in Nat,
           NEW q \in Submitted(r, lot)
    PROVE  q \in CallRecord /\ Prepared(q) /\ Steady(q)
<1> DEFINE m == mark[Default]
<1>0. m \in Nat /\ m > 0 BY ConstantFacts DEF CallsTyped
<1>1. /\ r.px \in Nat /\ r.bid \in Nat /\ r.qty \in Nat /\ mark["futures"] \in Nat /\ mark["futures"] > 0
      /\ mark["spot"] = mark["futures"] => mark["futures"] = m
  BY ConstantFacts DEF CallsTyped, CallRecord, Places
<1>2. r.still => mark["futures"] = m /\ (r.answered => Fresh(r, m))
  <2>1. r.pc \notin {"placed", "over"} BY DEF Limiting
  <2> QED BY <1>1, <2>1 DEF Steady
<1>3. Over(r) \in CallRecord /\ Prepared(Over(r)) /\ Steady(Over(r)) BY OverFits
<1>4. ASSUME NEW p \in Nat, q = Limit(r, p, lot), r.pc \in {"maker", "taker"}, Fresh(r, m) => p = m
      PROVE  q \in CallRecord /\ Prepared(q) /\ Steady(q)
  <2>1. Down(p, lot) \in Nat /\ Down(p, lot) <= p BY RoundedDown
  <2>2. CASE Down(p, lot) = 0 BY <1>3, <1>4, <2>2 DEF Limit
  <2>3. CASE Down(p, lot) # 0
    <3>1. q = [r EXCEPT !.pc = "placed", !.px = Down(p, lot)] BY <1>4, <2>3 DEF Limit
    <3>2. q \in CallRecord /\ Prepared(q) BY <2>1, <3>1 DEF CallRecord, Prepared
    <3>3. ASSUME r.still, r.answered PROVE r.qty * Down(p, lot) <= Budget
      <4>1. p = m /\ r.qty = Budget \div m BY <1>2, <1>4, <3>3 DEF Fresh
      <4>2. r.qty * m <= Budget BY <1>0, <4>1, DividedQuote
      <4>3. r.qty * Down(p, lot) <= r.qty * m BY <1>0, <1>1, <2>1, <4>1, SmallerFactor
      <4>4. r.qty * m \in Nat /\ r.qty * Down(p, lot) \in Nat BY <1>0, <1>1, <2>1
      <4> QED BY <4>2, <4>3, <4>4, ConstantFacts
    <3>4. Steady(q) BY <3>1, <3>3 DEF Steady, CallRecord
    <3> QED BY <3>2, <3>4
  <2> QED BY <2>2, <2>3
<1>5. CASE r.pc = "info" BY <1>3, <1>5 DEF Submitted
<1>6. CASE r.pc = "maker"
  <2>1. CASE q = Limit(r, r.bid, lot) BY <1>1, <1>4, <1>6, <2>1 DEF Fresh
  <2>2. CASE q = [r EXCEPT !.pc = "taker"]
    BY <1>6, <2>2 DEF CallRecord, Limiting, Prepared, Steady, Fresh, Asking
  <2> QED BY <1>6, <2>1, <2>2 DEF Submitted
<1>7. CASE r.pc = "taker" BY <1>1, <1>4, <1>7 DEF Submitted, Fresh
<1>8. CASE r.pc = "step"
  <2> DEFINE s == StandIn(r.px)
             n == Down(Budget \div s, lot)
  <2>1. s \in Nat /\ s > 0 BY <1>1 DEF StandIn
  <2>2. Budget \div s \in Nat /\ (Budget \div s) * s <= Budget BY <2>1, DividedQuote
  <2>3. n \in Nat /\ n <= Budget \div s BY <2>2, RoundedDown
  <2>4. q = AtMarket(r, lot) BY <1>8 DEF Submitted
  <2>5. CASE n = 0 BY <1>3, <2>4, <2>5 DEF AtMarket
  <2>6. CASE n # 0
    <3>1. q = [r EXCEPT !.pc = "placed", !.qty = n, !.px = mark["futures"]]
      BY <2>4, <2>6 DEF AtMarket
    <3>2. q \in CallRecord /\ Prepared(q) BY <1>1, <2>3, <3>1 DEF CallRecord, Prepared
    <3>3. ASSUME r.still, r.answered PROVE n * mark["futures"] <= Budget
      <4>1. s = m /\ mark["futures"] = m BY <1>0, <1>2, <1>8, <3>3 DEF Fresh, StandIn
      <4>2. n * m <= (Budget \div s) * m BY <1>0, <2>2, <2>3, SmallerFactor
      <4>3. n * m \in Nat /\ (Budget \div s) * m \in Nat BY <1>0, <2>2, <2>3
      <4> HIDE DEF n, m, s
      <4> QED BY <2>2, <4>1, <4>2, <4>3, ConstantFacts
    <3>4. Steady(q) BY <3>1, <3>3 DEF Steady, CallRecord
    <3> QED BY <3>2, <3>4
  <2> QED BY <2>5, <2>6
<1> QED BY <1>5, <1>6, <1>7, <1>8 DEF Limiting

-----------------------------------------------------------------------------
(* The inductive step.                                                       *)

\* One call is replaced by a record that fits, the markets stand still.
LEMMA OneCall ==
    ASSUME PriceInv, NEW c \in Calls, NEW q, call' = [call EXCEPT ![c] = q], UNCHANGED <<mark>>,
           q \in CallRecord, Prepared(q), Steady(q)
    PROVE  /\ call' \in [Calls -> CallRecord]
           /\ \A d \in Calls : (Prepared(call[d]) /\ Steady(call[d]))'
<1>1. call' \in [Calls -> CallRecord] BY DEF PriceInv, CallsTyped
<1>2. ASSUME NEW d \in Calls PROVE (Prepared(call[d]) /\ Steady(call[d]))'
  <2>1. Prepared(call[d]) /\ Steady(call[d]) BY DEF PriceInv
  <2>2. call'[d] = IF d = c THEN q ELSE call[d] BY DEF PriceInv, CallsTyped
  <2> QED BY <2>1, <2>2 DEF Prepared, Steady, Fresh
<1> QED BY <1>1, <1>2

\* Who does not hold the lock may go on without the filters noticing.
LEMMA OtherCall ==
    ASSUME PriceInv, NEW c \in Calls, c \notin fetchers, NEW q, call' = [call EXCEPT ![c] = q],
           UNCHANGED ruleVars
    PROVE  OneFetches'
<1>1. \A d \in fetchers : call'[d] = call[d] BY DEF PriceInv, CallsTyped
<1> QED BY <1>1 DEF PriceInv, OneFetches, ruleVars, FilterOf

LEMMA CallFacts ==
    ASSUME PriceInv, NEW c \in Calls
    PROVE  /\ call[c] \in CallRecord /\ Prepared(call[c]) /\ Steady(call[c])
           /\ call[c].pc \notin Limiting => c \notin fetchers
           /\ KeyOf(call[c]) \in Places /\ FilterOf(call[c]) \in Places
<1>1. call[c] \in CallRecord BY DEF PriceInv, CallsTyped
<1> QED BY <1>1, ConstantFacts DEF PriceInv, OneFetches, KeyOf, FilterOf, CallRecord

\* A call begins.
LEMMA BeginsKeeps == ASSUME PriceInv, NEW c \in Calls, Begins(c) PROVE PriceInv'
<1>1. PICK q : /\ call' = [call EXCEPT ![c] = q]
               /\ \/ \E asks \in {"look", "info"} : q = [NewCall EXCEPT !.pc = asks]
                  \/ \E hint \in Places \cup {"none"} :
                       q = [NewCall EXCEPT !.pc = "limit", !.market = Resolved(hint), !.answered = TRUE,
                                           !.still = mark["spot"] = mark["futures"]]
  BY DEF Begins
<1>2. \A hint \in Places \cup {"none"} : Resolved(hint) \in Places
  BY ConstantFacts DEF Resolved
<1>3. q \in CallRecord /\ Prepared(q) /\ Steady(q)
  <2>1. ASSUME NEW asks \in {"look", "info"}, q = [NewCall EXCEPT !.pc = asks]
        PROVE  q \in CallRecord /\ Prepared(q) /\ Steady(q)
    BY <2>1, ConstantFacts DEF NewCall, CallRecord, Asking, Limiting, Prepared, Steady
  <2>2. ASSUME NEW hint \in Places \cup {"none"},
               q = [NewCall EXCEPT !.pc = "limit", !.market = Resolved(hint), !.answered = TRUE,
                                   !.still = mark["spot"] = mark["futures"]]
        PROVE  q \in CallRecord /\ Prepared(q) /\ Steady(q)
    <3>1. /\ q.pc = "limit" /\ q.hop = "primary" /\ q.market = Resolved(hint) /\ q.px = 0
          /\ q.answered = TRUE /\ q.still = (mark["spot"] = mark["futures"])
      BY <2>2 DEF NewCall
    <3>2. q \in CallRecord BY <1>2, <2>2 DEF NewCall, CallRecord, Asking
    <3>3. Prepared(q) BY <3>1 DEF Prepared
    <3>4. Steady(q) BY <3>1 DEF Steady, Fresh
    <3> QED BY <3>2, <3>3, <3>4
  <2> QED BY <1>1, <2>1, <2>2
<1>6. call[c].pc \notin Limiting BY DEF Begins, Limiting
<1>7. c \notin fetchers BY <1>6, CallFacts
<1>8. UNCHANGED <<marketVars, askVars, ruleVars>> BY DEF Begins
<1>9. OneFetches' BY <1>1, <1>7, <1>8, OtherCall
<1>10. /\ call' \in [Calls -> CallRecord]
       /\ \A d \in Calls : (Prepared(call[d]) /\ Steady(call[d]))'
  BY <1>1, <1>3, <1>8, OneCall DEF marketVars
<1>11. CallsTyped' BY <1>8, <1>10 DEF PriceInv, CallsTyped, marketVars, askVars, ruleVars
<1>12. Remembers' BY <1>8 DEF PriceInv, Remembers, askVars
<1> QED BY <1>9, <1>10, <1>11, <1>12 DEF PriceInv

\* A price is had, or none: the caches agree with what was heard.
LEMMA GetsKeeps ==
    ASSUME PriceInv, NEW c \in Calls, call[c].pc \in Asking, NEW p \in Nat, Gets(c, p),
           call[c].still /\ call[c].answered => p = mark[Default],
           priceCache' \in [Places -> PriceSet \cup {0}],
           \A m \in Places : priceCache[m] > 0 => priceCache'[m] > 0,
           p > 0 => priceCache'[KeyOf(call[c])] > 0,
           p = 0 => priceCache[KeyOf(call[c])] = 0
    PROVE  PriceInv'
<1> DEFINE r == call[c]
<1>1. /\ r \in CallRecord /\ Prepared(r) /\ Steady(r) /\ c \notin fetchers /\ KeyOf(r) \in Places
  BY CallFacts DEF Asking, Limiting
<1>2. PICK q \in Onwards(r, p) : call' = [call EXCEPT ![c] = q]
  BY DEF Gets
<1>3. UNCHANGED <<marketVars, ruleVars>> BY DEF Gets
<1>4. q \in CallRecord /\ Prepared(q) /\ Steady(q)
  BY <1>1, <1>2, PriceFits DEF PriceInv
<1>5. OneFetches' BY <1>1, <1>2, <1>3, OtherCall
<1>6. /\ call' \in [Calls -> CallRecord]
      /\ \A d \in Calls : (Prepared(call[d]) /\ Steady(call[d]))'
  BY <1>2, <1>3, <1>4, OneCall DEF marketVars
<1>7. CallsTyped' BY <1>3, <1>6 DEF PriceInv, CallsTyped, marketVars, ruleVars
<1>8. Remembers'
  <2>1. Remembers BY DEF PriceInv
  <2>a. p = 0 => KeyOf(r) \notin heard BY <1>1, <2>1 DEF Remembers
  <2>b. forgot' = (forgot \/ (p = 0 /\ KeyOf(r) \in heard)) BY DEF Gets
  <2>c. ~forgot BY <2>1 DEF Remembers
  <2>2. ~forgot' BY <2>a, <2>b, <2>c
  <2>3. ASSUME NEW m \in heard' PROVE m \in Places /\ priceCache'[m] > 0
    <3>1. CASE m \in heard BY <2>1, <3>1 DEF Remembers
    <3>2. CASE m \notin heard BY <1>1, <2>3, <3>2 DEF Gets
    <3> QED BY <3>1, <3>2
  <2> QED BY <2>2, <2>3 DEF Remembers
<1> QED BY <1>5, <1>6, <1>7, <1>8 DEF PriceInv

LEMMA PrimaryKeeps ==
    ASSUME PriceInv, NEW c \in Calls, PrimaryAnswers(c) \/ PrimaryFails(c) PROVE PriceInv'
<1> DEFINE r == call[c]
           m == KeyOf(r)
<1>1. /\ r \in CallRecord /\ Prepared(r) /\ Steady(r) /\ m \in Places
      /\ r.pc \in Asking /\ r.pc \notin {"placed", "over"}
  BY CallFacts DEF PrimaryAnswers, PrimaryFails, Asks, Asking
<1>2. CASE PrimaryAnswers(c)
  <2>1. mark[m] \in Nat /\ mark[m] > 0 /\ mark[m] \in PriceSet
    BY <1>1, ConstantFacts DEF PriceInv, CallsTyped
  <2>2. /\ priceCache' = [priceCache EXCEPT ![m] = mark[m]] /\ Gets(c, mark[m])
    BY <1>2 DEF PrimaryAnswers, Answer
  <2>3. priceCache' \in [Places -> PriceSet \cup {0}] BY <2>1, <2>2 DEF PriceInv, CallsTyped
  <2>4. /\ \A x \in Places : priceCache[x] > 0 => priceCache'[x] > 0
        /\ priceCache'[m] > 0
    BY <1>1, <2>1, <2>2 DEF PriceInv, CallsTyped
  <2>5. r.still /\ r.answered => mark[m] = mark[Default]
    BY <1>1, ConstantFacts DEF Steady, Places
  <2> QED BY <1>1, <2>1, <2>2, <2>3, <2>4, <2>5, GetsKeeps
<1>3. CASE PrimaryFails(c)
  <2> DEFINE q == [r EXCEPT !.hop = "fallback", !.answered = FALSE]
  <2>1. call' = [call EXCEPT ![c] = q] /\ UNCHANGED <<marketVars, askVars, ruleVars>>
    BY <1>3 DEF PrimaryFails
  <2>2. q \in CallRecord BY <1>1 DEF CallRecord
  <2>3. Prepared(q) /\ Steady(q) BY <1>1 DEF Prepared, Steady, CallRecord
  <2>4. c \notin fetchers BY <1>1, CallFacts DEF Asking, Limiting
  <2> HIDE DEF q, r
  <2>5. OneFetches' BY <2>1, <2>4, OtherCall
  <2>6. /\ call' \in [Calls -> CallRecord]
        /\ \A d \in Calls : (Prepared(call[d]) /\ Steady(call[d]))'
    BY <2>1, <2>2, <2>3, OneCall DEF marketVars
  <2>7. CallsTyped' BY <2>1, <2>6 DEF PriceInv, CallsTyped, marketVars, askVars, ruleVars
  <2>8. Remembers' BY <2>1 DEF PriceInv, Remembers, askVars
  <2> QED BY <2>5, <2>6, <2>7, <2>8 DEF PriceInv
<1> QED BY <1>2, <1>3

\* The fallback keeps a price under the market asked for; when it fails as well,
\* the cache answers.
LEMMA FallbackKeeps ==
    ASSUME PriceInv, NEW c \in Calls, FallbackAnswers(c) \/ FallbackFails(c) PROVE PriceInv'
<1> DEFINE r == call[c]
           m == KeyOf(r)
<1>1. /\ r \in CallRecord /\ Steady(r) /\ m \in Places
      /\ r.pc \in Asking /\ r.hop = "fallback"
  BY CallFacts DEF FallbackAnswers, FallbackFails, Asks
<1>2. ~(r.still /\ r.answered)
  BY <1>1 DEF Steady, Fresh, Asking
<1>3. CASE FallbackAnswers(c)
  <2> DEFINE p == mark[Other(m)]
  <2>1. p \in Nat /\ p > 0 /\ p \in PriceSet
    BY <1>1, ConstantFacts DEF PriceInv, CallsTyped, Other, Places
  <2>2. priceCache' = [priceCache EXCEPT ![m] = p] /\ Gets(c, p)
    BY <1>3 DEF FallbackAnswers, Kept
  <2>3. priceCache' \in [Places -> PriceSet \cup {0}] BY <2>1, <2>2 DEF PriceInv, CallsTyped
  <2>4. /\ \A x \in Places : priceCache[x] > 0 => priceCache'[x] > 0
        /\ priceCache'[m] > 0
    BY <1>1, <2>1, <2>2 DEF PriceInv, CallsTyped
  <2> HIDE DEF p
  <2> QED BY <1>1, <1>2, <2>1, <2>2, <2>3, <2>4, GetsKeeps
<1>4. CASE FallbackFails(c)
  <2>1. priceCache[m] \in Nat /\ priceCache' = priceCache /\ Gets(c, priceCache[m])
    BY <1>1, <1>4, ConstantFacts DEF FallbackFails, PriceInv, CallsTyped
  <2>2. priceCache' \in [Places -> PriceSet \cup {0}] BY <2>1 DEF PriceInv, CallsTyped
  <2> QED BY <1>1, <1>2, <2>1, <2>2, GetsKeeps
<1> QED BY <1>3, <1>4

LEMMA BookKeeps ==
    ASSUME PriceInv, NEW c \in Calls, BookAnswers(c) \/ BookFails(c) PROVE PriceInv'
<1> DEFINE r == call[c]
<1>1. r \in CallRecord /\ Prepared(r) /\ Steady(r) /\ r.pc = "book" /\ c \notin fetchers
  BY CallFacts DEF BookAnswers, BookFails, Limiting
<1>2. UNCHANGED <<marketVars, askVars, ruleVars>> BY DEF BookAnswers, BookFails
<1>3. PICK q \in {[r EXCEPT !.pc = "maker", !.bid = mark[Default]], [r EXCEPT !.pc = "taker"]} :
        call' = [call EXCEPT ![c] = q]
  BY DEF BookAnswers, BookFails
<1>4. mark[Default] \in Nat BY ConstantFacts DEF PriceInv, CallsTyped
<1>5. q \in CallRecord /\ Prepared(q) /\ Steady(q)
  <2>1. q \in CallRecord BY <1>1, <1>3, <1>4 DEF CallRecord, Limiting
  <2>2. Prepared(q) BY <1>1, <1>3 DEF CallRecord, Prepared
  <2>3. Steady(q) BY <1>1, <1>3 DEF CallRecord, Steady, Fresh, Asking
  <2> QED BY <2>1, <2>2, <2>3
<1>6. OneFetches' BY <1>1, <1>2, <1>3, OtherCall
<1>7. /\ call' \in [Calls -> CallRecord]
      /\ \A d \in Calls : (Prepared(call[d]) /\ Steady(call[d]))'
  BY <1>2, <1>3, <1>5, OneCall DEF marketVars
<1>8. CallsTyped' BY <1>2, <1>7 DEF PriceInv, CallsTyped, marketVars, askVars, ruleVars
<1>9. Remembers' BY <1>2 DEF PriceInv, Remembers, askVars
<1> QED BY <1>6, <1>7, <1>8, <1>9 DEF PriceInv

\* A caller that sends with the filter it was given, or without one.
LEMMA SendsKeep ==
    ASSUME PriceInv, NEW c \in Calls, call[c].pc \in Limiting, NEW lot \in Nat, Sends(c, lot),
           UNCHANGED <<marketVars, askVars>>
    PROVE  /\ call' \in [Calls -> CallRecord]
           /\ \A d \in Calls : (Prepared(call[d]) /\ Steady(call[d]))'
           /\ \A d \in Calls : d # c => call'[d] = call[d]
<1>1. call[c] \in CallRecord /\ Prepared(call[c]) /\ Steady(call[c]) BY CallFacts
<1>2. PICK q \in Submitted(call[c], lot) : call' = [call EXCEPT ![c] = q] BY DEF Sends
<1>3. q \in CallRecord /\ Prepared(q) /\ Steady(q) BY <1>1, <1>2, SentFits DEF PriceInv
<1>4. \A d \in Calls : d # c => call'[d] = call[d] BY <1>2 DEF PriceInv, CallsTyped
<1> QED BY <1>2, <1>3, <1>4, OneCall DEF marketVars

LEMMA FilterKnownKeeps == ASSUME PriceInv, NEW c \in Calls, FilterKnown(c) PROVE PriceInv'
<1> DEFINE m == FilterOf(call[c])
<1>1. m \in Places BY CallFacts
<1>2. /\ call[c].pc \in Limiting /\ fetchers = {} /\ filters[m] > 0 /\ Sends(c, filters[m])
      /\ handed' = [handed EXCEPT ![m] = @ \cup {filters[m]}]
      /\ UNCHANGED <<marketVars, askVars, filters, fetchers>>
  BY DEF FilterKnown, Wants, Unlocked
<1>3. filters[m] \in Nat /\ filters[m] # 0 BY <1>1, <1>2, ConstantFacts DEF PriceInv, CallsTyped
<1>4. handed[m] = {filters[m]} BY <1>1, <1>3 DEF PriceInv, OneFetches
<1>5. /\ call' \in [Calls -> CallRecord]
      /\ \A d \in Calls : (Prepared(call[d]) /\ Steady(call[d]))'
  BY <1>2, <1>3, SendsKeep
<1>6. CallsTyped' BY <1>2, <1>5 DEF PriceInv, CallsTyped, marketVars, askVars
<1>7. Remembers' BY <1>2 DEF PriceInv, Remembers, askVars
<1>8. OneFetches' BY <1>2, <1>4 DEF PriceInv, OneFetches
<1> QED BY <1>5, <1>6, <1>7, <1>8 DEF PriceInv

LEMMA FilterAskedKeeps == ASSUME PriceInv, NEW c \in Calls, FilterAsked(c) PROVE PriceInv'
<1>1. /\ call[c].pc \in Limiting /\ fetchers' = {c} /\ filters[FilterOf(call[c])] = 0
      /\ UNCHANGED <<marketVars, call, askVars, filters, handed>>
  BY DEF FilterAsked, Wants, Unlocked
<1>2. CallsTyped' BY <1>1 DEF PriceInv, CallsTyped, marketVars, askVars
<1>3. Remembers' BY <1>1 DEF PriceInv, Remembers, askVars
<1>4. OneFetches' BY <1>1 DEF PriceInv, OneFetches, FilterOf
<1>5. \A d \in Calls : (Prepared(call[d]) /\ Steady(call[d]))'
  BY <1>1 DEF PriceInv, Prepared, Steady, Fresh, marketVars
<1> QED BY <1>2, <1>3, <1>4, <1>5 DEF PriceInv

LEMMA FetchKeeps ==
    ASSUME PriceInv, NEW c \in Calls, FilterAnswers(c) \/ FilterFails(c) PROVE PriceInv'
<1> DEFINE m == FilterOf(call[c])
<1>1. m \in Places BY CallFacts
<1>2. /\ call[c].pc \in Limiting /\ filters[m] = 0 /\ handed[m] = {} /\ fetchers' = {}
      /\ UNCHANGED <<marketVars, askVars>>
  BY <1>1 DEF FilterAnswers, FilterFails, PriceInv, OneFetches
<1>3. rules[m] \in StepSet /\ rules[m] \in Nat /\ rules[m] # 0
  BY <1>1, ConstantFacts DEF PriceInv, CallsTyped
<1>4. \E lot \in Nat : Sends(c, lot) BY <1>3 DEF FilterAnswers, FilterFails
<1>5. /\ call' \in [Calls -> CallRecord]
      /\ \A d \in Calls : (Prepared(call[d]) /\ Steady(call[d]))'
  BY <1>2, <1>4, SendsKeep
<1>6. \/ filters' = filters /\ handed' = handed
      \/ /\ filters' = [filters EXCEPT ![m] = rules[m]]
         /\ handed' = [handed EXCEPT ![m] = @ \cup {rules[m]}]
  BY DEF FilterAnswers, FilterFails
<1>7. filters' \in [Places -> StepSet \cup {0}] BY <1>3, <1>6 DEF PriceInv, CallsTyped
<1>8. CallsTyped' BY <1>2, <1>5, <1>7 DEF PriceInv, CallsTyped, marketVars, askVars
<1>9. Remembers' BY <1>2 DEF PriceInv, Remembers, askVars
<1>10. OneFetches'
  <2>1. CASE filters' = filters /\ handed' = handed
    BY <1>2, <2>1 DEF PriceInv, OneFetches
  <2>2. CASE /\ filters' = [filters EXCEPT ![m] = rules[m]]
             /\ handed' = [handed EXCEPT ![m] = @ \cup {rules[m]}]
    <3>1. handed' = [handed EXCEPT ![m] = {rules[m]}] BY <1>2, <2>2
    <3>2. DOMAIN filters = Places BY DEF PriceInv, CallsTyped
    <3> QED BY <1>1, <1>2, <1>3, <2>2, <3>1, <3>2 DEF PriceInv, OneFetches
  <2> QED BY <1>6, <2>1, <2>2
<1> QED BY <1>5, <1>8, <1>9, <1>10 DEF PriceInv

\* A price moves: nobody's orders are told to have found the markets still.
LEMMA MarkMovesKeeps == ASSUME PriceInv, NEW m \in Places, MarkMoves(m) PROVE PriceInv'
<1>1. /\ moves < MaxMoves /\ moves' = moves + 1 /\ UNCHANGED <<rules, askVars, ruleVars>>
      /\ \E p \in PriceSet : mark' = [mark EXCEPT ![m] = p]
      /\ call' = [c \in Calls |-> IF call[c].pc \in {"placed", "over"} THEN call[c]
                                  ELSE [call[c] EXCEPT !.still = FALSE]]
  BY DEF MarkMoves
<1>2. call' \in [Calls -> CallRecord]
  <2>1. ASSUME NEW c \in Calls
        PROVE  (IF call[c].pc \in {"placed", "over"} THEN call[c]
                ELSE [call[c] EXCEPT !.still = FALSE]) \in CallRecord
    <3>1. call[c] \in CallRecord BY CallFacts
    <3>2. [call[c] EXCEPT !.still = FALSE] \in CallRecord BY <3>1 DEF CallRecord
    <3> QED BY <3>1, <3>2
  <2> QED BY <1>1, <2>1
<1>3. ASSUME NEW c \in Calls PROVE (Prepared(call[c]) /\ Steady(call[c]))'
  <2>1. call[c] \in CallRecord /\ Prepared(call[c]) /\ Steady(call[c]) BY CallFacts
  <2>2. CASE call[c].pc \in {"placed", "over"} BY <1>1, <2>1, <2>2 DEF Prepared, Steady
  <2>3. CASE call[c].pc \notin {"placed", "over"}
    BY <1>1, <2>1, <2>3 DEF Prepared, Steady, CallRecord
  <2> QED BY <2>2, <2>3
<1>4. mark' \in [Places -> PriceSet] BY <1>1 DEF PriceInv, CallsTyped
<1>5. moves' \in 0..MaxMoves BY <1>1, ConstantFacts DEF PriceInv, CallsTyped
<1>6. CallsTyped' BY <1>1, <1>2, <1>4, <1>5 DEF PriceInv, CallsTyped, askVars, ruleVars
<1>7. Remembers' BY <1>1 DEF PriceInv, Remembers, askVars
<1>8. \A c \in fetchers : call'[c].pc = call[c].pc /\ call'[c].market = call[c].market
  BY <1>1 DEF PriceInv, CallsTyped, CallRecord
<1>9. OneFetches' BY <1>1, <1>8 DEF PriceInv, OneFetches, FilterOf, ruleVars
<1> QED BY <1>3, <1>6, <1>7, <1>9 DEF PriceInv

LEMMA RulesChangeKeeps == ASSUME PriceInv, NEW m \in Places, RulesChange(m) PROVE PriceInv'
<1>1. /\ moves < MaxMoves /\ moves' = moves + 1 /\ UNCHANGED <<mark, call, askVars, ruleVars>>
      /\ \E x \in StepSet : rules' = [rules EXCEPT ![m] = x]
  BY DEF RulesChange
<1>2. CallsTyped' BY <1>1, ConstantFacts DEF PriceInv, CallsTyped, askVars, ruleVars
<1>3. Remembers' /\ OneFetches' BY <1>1 DEF PriceInv, Remembers, OneFetches, FilterOf, askVars, ruleVars
<1>4. \A d \in Calls : (Prepared(call[d]) /\ Steady(call[d]))'
  BY <1>1 DEF PriceInv, Prepared, Steady, Fresh
<1> QED BY <1>2, <1>3, <1>4 DEF PriceInv

LEMMA PriceInvariant == PricingSpec => []PriceInv
<1>1. ASSUME PricingInit PROVE PriceInv
  <2>1. NewCall \in CallRecord /\ Prepared(NewCall) /\ Steady(NewCall)
    BY ConstantFacts DEF NewCall, CallRecord, Prepared, Steady
  <2>2. CallsTyped BY <1>1, <2>1, ConstantFacts DEF PricingInit, CallsTyped
  <2>3. \A c \in Calls : Prepared(call[c]) /\ Steady(call[c])
    BY <1>1, <2>1 DEF PricingInit, NewCall, Prepared, Steady
  <2>4. Remembers /\ OneFetches BY <1>1 DEF PricingInit, Remembers, OneFetches
  <2> QED BY <2>2, <2>3, <2>4 DEF PriceInv
<1>2. ASSUME PriceInv, [PricingNext]_pricingVars PROVE PriceInv'
  <2>1. CASE UNCHANGED pricingVars
    BY <1>2, <2>1 DEF PriceInv, CallsTyped, Prepared, Steady, Fresh, Remembers, OneFetches, FilterOf,
                      pricingVars, marketVars, askVars, ruleVars
  <2> QED BY <1>2, <2>1, BeginsKeeps, PrimaryKeeps, FallbackKeeps, BookKeeps, FilterKnownKeeps,
             FilterAskedKeeps, FetchKeeps, MarkMovesKeeps, RulesChangeKeeps DEF PricingNext
<1> QED BY <1>1, <1>2, PTL DEF PricingSpec

-----------------------------------------------------------------------------
\* Overlapping calls that price orders with an untrustworthy venue behind them:
\* what was asked while the markets stood still keeps its quote, a client that
\* had a price always has one, and a market has one filter for all callers.
THEOREM PricesSound == PricingSpec => []PricingInv
<1>1. ASSUME PriceInv PROVE PricingTypeOK
  BY <1>1 DEF PriceInv, CallsTyped, Prepared, CallRecord, PricingTypeOK
<1>2. ASSUME PriceInv PROVE QuoteKept
  BY <1>2 DEF PriceInv, CallsTyped, CallRecord, Steady, QuoteKept, Commits
<1>3. ASSUME PriceInv PROVE NeverForgets
  BY <1>3 DEF PriceInv, Remembers, NeverForgets
<1>4. ASSUME PriceInv PROVE FiltersAgree
  <2> SUFFICES ASSUME NEW m \in Places PROVE Cardinality(handed[m]) <= 1 BY DEF FiltersAgree
  <2>1. CASE handed[m] = {} BY <2>1, FS_EmptySet
  <2>2. CASE handed[m] = {filters[m]}
    <3>1. Cardinality({filters[m]}) = 1 BY FS_Singleton
    <3> QED BY <2>2, <3>1
  <2> QED BY <1>4, <2>1, <2>2 DEF PriceInv, OneFetches
<1> QED BY <1>1, <1>2, <1>3, <1>4, PriceInvariant, PTL DEF PricingInv
=============================================================================
