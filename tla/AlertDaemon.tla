----------------------------- MODULE AlertDaemon -----------------------------
(***************************************************************************)
(* The alert daemons on the event bus.  Start-up builds two of them, one     *)
(* inside the anomaly watcher, and both subscribe.  A delivered event is      *)
(* handled by each daemon beside the others: rule by rule its condition, the  *)
(* throttle, the cooldown, the message, the channels, the record.  The event  *)
(* loop stays with a handling until it awaits a channel, so what the throttle *)
(* counted may be old when the alert is recorded.                           *)
(*                                                                         *)
(* The watcher's own handler makes a task from a thread that has no loop, so  *)
(* it never detects anything: the watcher is only its daemon here.          *)
(***************************************************************************)
EXTENDS Naturals, Sequences, FiniteSets

CONSTANTS Daemons,       \* _alert_daemon and the one of _anomaly_watcher
          Rules,         \* the rules of alerts.yaml: topic, cools, awaits
          MaxPerWindow,  \* throttling.max_alerts_per_window
          MaxHandled     \* bound: events in delivery at a time (the bus: 100)

ASSUME AlertAssumption ==
    /\ IsFiniteSet(Daemons) /\ MaxPerWindow \in Nat \ {0} /\ MaxHandled \in Nat \ {0}
    /\ Rules \in Seq([topic : STRING, cools : BOOLEAN, awaits : BOOLEAN])

VARIABLES
    alerts,    \* _alert_history: the alerts of the window, oldest first
    handling,  \* of each daemon and delivery: its topic, rule and place
    turn       \* the handling the event loop stays with

alertVars == <<alerts, handling, turn>>

Topics == {Rules[i].topic : i \in DOMAIN Rules}
Slots  == Daemons \X (1..MaxHandled)
NoOne  == <<>>
Free   == [topic |-> "none", rule |-> 0, at |-> "free"]

AlertTypeOK ==
    /\ \A d \in Daemons : alerts[d] \in Seq([topic : Topics, hot : BOOLEAN])
    /\ handling \in [Slots -> [topic : Topics \cup {"none"}, rule : 0..Len(Rules) + 1,
                               at : {"free", "rule", "send"}]]
    /\ turn \in Slots \cup {NoOne}

AlertInit ==
    /\ alerts = [d \in Daemons |-> <<>>]
    /\ handling = [h \in Slots |-> Free]
    /\ turn = NoOne

\* A delivery of the bus: the handler of every daemon is started.
Delivered ==
    /\ turn = NoOne
    /\ \E n \in 1..MaxHandled, t \in Topics :
         /\ \A d \in Daemons : handling[<<d, n>>] = Free
         /\ handling' = [h \in Slots |-> IF h[2] = n
                                         THEN [topic |-> t, rule |-> 1, at |-> "rule"]
                                         ELSE handling[h]]
    /\ UNCHANGED <<alerts, turn>>

\* A wrong variant, which the property must tell from the code: the throttle
\* lets one more pass.
ThrottlesLate(d) == Len(alerts[d]) > MaxPerWindow

Throttles(d) == Len(alerts[d]) >= MaxPerWindow

CoolsDown(d, r) == r.cools /\ \E i \in DOMAIN alerts[d] :
                                 alerts[d][i].topic = r.topic /\ alerts[d][i].hot

Recorded(d, t) == [alerts EXCEPT ![d] = Append(@, [topic |-> t, hot |-> TRUE])]

\* The loop takes up a handling that may go on.
TakenUp(h) ==
    /\ turn = NoOne /\ handling[h].at = "rule"
    /\ turn' = h /\ UNCHANGED <<alerts, handling>>

\* One rule: it may be another topic's, not hold, be throttled or cool down; a
\* condition or a message that fails ends the handling; the alert is sent, at
\* once or across an await.
RuleJudged(h) ==
    LET d == h[1]
        i == handling[h].rule
        r == Rules[i]
        next == [handling EXCEPT ![h].rule = i + 1]
    IN  /\ turn = h /\ handling[h].at = "rule" /\ i <= Len(Rules)
        /\ \/ handling' = next /\ UNCHANGED <<alerts, turn>>
           \/ /\ r.topic = handling[h].topic
              /\ handling' = [handling EXCEPT ![h] = Free]
              /\ turn' = NoOne /\ UNCHANGED alerts
           \/ /\ r.topic = handling[h].topic /\ ~Throttles(d) /\ ~CoolsDown(d, r)
              /\ IF r.awaits
                 THEN /\ handling' = [handling EXCEPT ![h].at = "send"]
                      /\ turn' = NoOne /\ UNCHANGED alerts
                 ELSE /\ handling' = next /\ alerts' = Recorded(d, r.topic)
                      /\ UNCHANGED turn

\* The channels have answered or failed: the alert is recorded.
Sent(h) ==
    /\ turn = NoOne /\ handling[h].at = "send"
    /\ alerts' = Recorded(h[1], handling[h].topic)
    /\ handling' = [handling EXCEPT ![h].at = "rule", ![h].rule = @ + 1]
    /\ turn' = h

RulesDone(h) ==
    /\ turn = h /\ handling[h].at = "rule" /\ handling[h].rule > Len(Rules)
    /\ handling' = [handling EXCEPT ![h] = Free]
    /\ turn' = NoOne /\ UNCHANGED alerts

\* The oldest alert leaves the window; the oldest cooldown ends.
WindowMoves ==
    /\ \E d \in Daemons :
         \/ alerts[d] # <<>> /\ ~Head(alerts[d]).hot /\ alerts' = [alerts EXCEPT ![d] = Tail(@)]
         \/ \E i \in DOMAIN alerts[d] :
              /\ alerts[d][i].hot /\ \A j \in 1..(i - 1) : ~alerts[d][j].hot
              /\ alerts' = [alerts EXCEPT ![d][i].hot = FALSE]
    /\ UNCHANGED <<handling, turn>>

AlertNext == \/ Delivered \/ WindowMoves
             \/ \E h \in Slots : TakenUp(h) \/ RuleJudged(h) \/ Sent(h) \/ RulesDone(h)

AlertSpec == AlertInit /\ [][AlertNext]_alertVars

-----------------------------------------------------------------------------
\* A daemon's alerts in one window exceed the limit at most by the handlings
\* that were sending while it was reached (alert_daemon.py: _should_throttle is
\* asked before the channels are awaited, _record_alert called after).
WindowBounded ==
    \A d \in Daemons :
        Len(alerts[d]) + Cardinality({n \in 1..MaxHandled : handling[<<d, n>>].at = "send"})
            <= MaxPerWindow + MaxHandled - 1

\* The daemons, typed, with windows that hold their limit.
AlertInv == AlertTypeOK /\ WindowBounded
=============================================================================
