----------------------------- MODULE Control_proof -----------------------------
(***************************************************************************)
(* What switches trading on and off and sets its limits: the trading gate,  *)
(* for every loss limit, queue size and number of days and process          *)
(* lifetimes, and the governance daemon with its promotions, for every       *)
(* policy file, every set of events, models and engines, and any number of  *)
(* handlers at work.  The two share no variable.                            *)
(***************************************************************************)
EXTENDS TradingGate, Governance, Sums, TLAPS

-----------------------------------------------------------------------------
(* The trading gate.                                                        *)

\* The variables change type-correctly: every action keeps TypeOK.
THEOREM TypeCorrect == Spec => []TypeOK
<1> USE GateAssumption DEF GateAssumption, TypeOK, Rails, Days, Pnl, GuardPc, Outcomes, None, NoVerdict
<1>1. Init => TypeOK
  <2> SUFFICES ASSUME Init PROVE TypeOK
    OBVIOUS
  <2>1. queue \in Seq({"PAUSE", "info"}) /\ Len(queue) <= QueueMax
    BY DEF Init
  <2>2. cause \in BOOLEAN
    BY ZenonT(30) DEF Init
  <2>3. day \in Days /\ realized \in Pnl /\ boots \in 1..MaxBoots /\ stopDay \in Days \cup {-1}
    BY DEF Init
  <2> QED BY <2>1, <2>2, <2>3 DEF Init
<1>2. TypeOK /\ [Next]_vars => TypeOK'
  <2> SUFFICES ASSUME TypeOK, [Next]_vars PROVE TypeOK'
    OBVIOUS
  <2> USE DEF guardVars, gateVars, dogVars, worldVars, noteVars
  <2>p. ASSUME NEW evt \in {"PAUSE", "info"}, Published(evt)
        PROVE  queue' \in Seq({"PAUSE", "info"}) /\ Len(queue') <= QueueMax
    BY <2>p DEF Published
  <2>1. ASSUME NEW r \in Rails, CheckOrder(r) PROVE TypeOK'
    <3>1. GateAnswer(r) \in Outcomes
      BY DEF GateAnswer
    <3>2. verdict' \in [rails : Rails, outcome : Outcomes]
      BY <2>1, <3>1 DEF CheckOrder
    <3>3. latch' \in [Rails -> BOOLEAN]
      BY <2>1 DEF CheckOrder
    <3> QED BY <2>1, <3>2, <3>3 DEF CheckOrder
  <2>3. CASE OtherPublish  BY <2>3, <2>p DEF OtherPublish
  <2>4. CASE BusDeliver
    <3>1. queue' \in Seq({"PAUSE", "info"}) /\ Len(queue') <= QueueMax
      BY <2>4 DEF BusDeliver, LatchedBy
    <3>2. latch' \in [Rails -> BOOLEAN]
      BY <2>4 DEF BusDeliver, LatchedBy
    <3> QED BY <2>4, <3>1, <3>2 DEF BusDeliver, LatchedBy
  <2>5. CASE GuardianTurn
    <3>1. CASE GuardianRollover
      <4>1. anchor' \in [day : Days, realized : Pnl]
        BY <3>1 DEF GuardianRollover
      <4> QED BY <3>1, <4>1 DEF GuardianRollover
    <3>2. CASE GuardianStop    BY <3>2 DEF GuardianStop
    <3>3. CASE GuardianQuiet   BY <3>3 DEF GuardianQuiet
    <3>4. CASE GuardianHealth  BY <3>4 DEF GuardianHealth
    <3> QED BY <2>5, <3>1, <3>2, <3>3, <3>4 DEF GuardianTurn
  <2>6. CASE GuardianPublish
    <3>1. CASE GuardianPublishStop  BY <3>1, <2>p DEF GuardianPublishStop
    <3>2. CASE GuardianPublishSoft  BY <3>2, <2>p DEF GuardianPublishSoft
    <3>3. CASE GuardianCritical     BY <3>3, <2>p DEF GuardianCritical
    <3> QED BY <2>6, <3>1, <3>2, <3>3 DEF GuardianPublish
  <2>7. CASE StreamChanges BY <2>7 DEF StreamChanges
  <2>8. CASE GraceEnds     BY <2>8 DEF GraceEnds
  <2>9. CASE WatchdogTick  BY <2>9 DEF WatchdogTick, BreakerSet
  <2>10. CASE WatchdogAlert BY <2>10, <2>p DEF WatchdogAlert
  <2>11. ASSUME NEW on \in BOOLEAN, OpsToggle(on) PROVE TypeOK'
    <3>1. cause' \in BOOLEAN /\ opsOff' \in BOOLEAN /\ halted' \in BOOLEAN
      BY <2>11, ZenonT(30) DEF OpsToggle
    <3>2. cfgOn' \in [Rails -> BOOLEAN] /\ flag' \in {"true", "false"}
      BY <2>11 DEF OpsToggle
    <3>3. stopDay' \in Days \cup {-1}
      BY <2>11 DEF OpsToggle
    <3> QED BY <2>11, <3>1, <3>2, <3>3 DEF OpsToggle
  <2>12. CASE RiskReload
    <3>1. cfgOn' \in [Rails -> BOOLEAN] BY <2>12 DEF RiskReload
    <3>2. /\ UNCHANGED <<latch, breaker, flag, gpc, anchor, paused, queue, wpc, stale>>
          /\ UNCHANGED <<graceOver, day, realized, boots, halted, stopDay, cause>>
          /\ opsOff' = FALSE /\ verdict' = NoVerdict
      BY <2>12 DEF RiskReload
    <3>3. opsOff' \in BOOLEAN /\ halted' \in BOOLEAN /\ cause' \in BOOLEAN
      BY <3>2
    <3> QED BY <3>1, <3>2, <3>3
  <2>13. CASE Fill         BY <2>13 DEF Fill
  <2>14. CASE DayPasses
    <3>1. day' \in Days BY <2>14 DEF DayPasses
    <3> QED BY <2>14, <3>1 DEF DayPasses
  <2>15. CASE Restart
    <3>1. cause' \in BOOLEAN
      BY <2>15, ZenonT(30) DEF Restart
    <3>2. queue' \in Seq({"PAUSE", "info"}) /\ Len(queue') <= QueueMax
      BY <2>15 DEF Restart
    <3>3. boots' \in 1..MaxBoots
      BY <2>15 DEF Restart
    <3> QED BY <2>15, <3>1, <3>2, <3>3 DEF Restart
  <2>16. CASE UNCHANGED vars BY <2>16 DEF vars
  <2> QED
    BY <2>1, <2>3, <2>4, <2>5, <2>6, <2>7, <2>8, <2>9, <2>10, <2>11, <2>12,
       <2>13, <2>14, <2>15, <2>16 DEF Next
<1>3. QED BY <1>1, <1>2, PTL DEF Spec

-----------------------------------------------------------------------------
\* The inductive invariant of the gate.  A halt keeps the flag down; a lowered
\* flag, a latch and a PAUSE under way all have a cause; the operator's switch
\* is the configuration of the application's rails.
GateInv ==
    /\ HaltKeepsFlagDown
    /\ LatchHasCause
    /\ flag = "false" => cause
    /\ opsOff => ~cfgOn["app"]

\* GateInv is kept by every step of the gate.
LEMMA GateInductive == Spec => []GateInv
<1> USE DEF GateInv, HaltKeepsFlagDown, LatchHasCause, Rails
<1>1. Init => GateInv
  <2> SUFFICES ASSUME Init PROVE GateInv
    OBVIOUS
  <2>1. flag = "false" => cause
    BY ZenonT(30) DEF Init
  <2>2. DOMAIN queue = {}
    BY DEF Init
  <2> QED BY <2>1, <2>2 DEF Init
<1>2. TypeOK /\ GateInv /\ [Next]_vars => GateInv'
  <2> SUFFICES ASSUME TypeOK, GateInv, [Next]_vars PROVE GateInv'
    OBVIOUS
  <2> USE DEF guardVars, gateVars, dogVars, worldVars, noteVars
  \* A publish adds at most the event it publishes to the queue.
  <2>p. ASSUME NEW evt, Published(evt), NEW i \in DOMAIN queue', queue'[i] = "PAUSE"
        PROVE  evt = "PAUSE" \/ \E j \in DOMAIN queue : queue[j] = "PAUSE"
    BY <2>p DEF Published, TypeOK
  <2>1. ASSUME NEW r \in Rails, CheckOrder(r) PROVE GateInv'
    BY <2>1 DEF CheckOrder, GateAnswer, TypeOK
  <2>3. CASE OtherPublish  BY <2>3, <2>p DEF OtherPublish
  <2>4. CASE BusDeliver
    <3>1. \A i \in DOMAIN queue' : i + 1 \in DOMAIN queue /\ queue'[i] = queue[i + 1]
      BY <2>4 DEF BusDeliver, LatchedBy, TypeOK
    <3>2. Head(queue) = queue[1] /\ 1 \in DOMAIN queue
      BY <2>4 DEF BusDeliver, LatchedBy, TypeOK
    <3> QED BY <2>4, <3>1, <3>2 DEF BusDeliver, LatchedBy, TypeOK
  <2>5. CASE GuardianTurn
    BY <2>5 DEF GuardianTurn, GuardianRollover, GuardianStop, GuardianQuiet, GuardianHealth
  <2>6. CASE GuardianPublish
    <3>1. CASE GuardianPublishStop  BY <3>1, <2>p DEF GuardianPublishStop
    <3>2. CASE GuardianPublishSoft  BY <3>2, <2>p DEF GuardianPublishSoft
    <3>3. CASE GuardianCritical     BY <3>3, <2>p DEF GuardianCritical
    <3> QED BY <2>6, <3>1, <3>2, <3>3 DEF GuardianPublish
  <2>7. CASE StreamChanges BY <2>7 DEF StreamChanges
  <2>8. CASE GraceEnds     BY <2>8 DEF GraceEnds
  <2>9. CASE WatchdogTick  BY <2>9 DEF WatchdogTick, BreakerSet
  <2>10. CASE WatchdogAlert BY <2>10, <2>p DEF WatchdogAlert
  <2>11. ASSUME NEW on \in BOOLEAN, OpsToggle(on) PROVE GateInv'
    BY <2>11 DEF OpsToggle, TypeOK
  <2>12. CASE RiskReload   BY <2>12 DEF RiskReload, TypeOK
  <2>13. CASE Fill         BY <2>13 DEF Fill
  <2>14. CASE DayPasses    BY <2>14 DEF DayPasses
  <2>15. CASE Restart
    <3>1. flag' = "false" => cause'
      BY <2>15, ZenonT(30) DEF Restart
    <3>2. DOMAIN queue' = {}
      BY <2>15 DEF Restart
    <3> QED BY <2>15, <3>1, <3>2 DEF Restart
  <2>16. CASE UNCHANGED vars BY <2>16 DEF vars
  <2> QED
    BY <2>1, <2>3, <2>4, <2>5, <2>6, <2>7, <2>8, <2>9, <2>10, <2>11, <2>12,
       <2>13, <2>14, <2>15, <2>16 DEF Next
<1>3. QED BY <1>1, <1>2, TypeCorrect, PTL DEF Spec

-----------------------------------------------------------------------------
\* A halt of the guardian keeps the flag file down until someone re-arms it.
THEOREM HaltKeepsFlag == Spec => []HaltKeepsFlagDown
<1>1. GateInv => HaltKeepsFlagDown
  BY DEF GateInv
<1> QED BY <1>1, GateInductive, PTL

\* Nothing locks the rails without a cause in this process.
THEOREM LatchCause == Spec => []LatchHasCause
<1>1. GateInv => LatchHasCause
  BY DEF GateInv
<1> QED BY <1>1, GateInductive, PTL

\* What a step that answers an order does: it is check_order on some rails, and
\* an "OK" means that its flag is not down and its configuration is on.
LEMMA OkStep ==
    ASSUME TypeOK, Next, verdict'.outcome = "OK"
    PROVE  /\ flag # "false" /\ UNCHANGED <<halted, opsOff, stopDay, day>>
           /\ verdict'.rails \in Rails /\ cfgOn[verdict'.rails]
<1>1. ASSUME ~ \E r \in Rails : CheckOrder(r) PROVE verdict' = NoVerdict
  BY <1>1 DEF Next, GuardianTurn, GuardianPublish, OtherPublish, BusDeliver, LatchedBy,
     GuardianRollover, GuardianStop, GuardianQuiet, GuardianPublishStop, GuardianHealth,
     GuardianPublishSoft, GuardianCritical, StreamChanges, GraceEnds, WatchdogTick, BreakerSet,
     WatchdogAlert, OpsToggle, RiskReload, Fill, DayPasses, Restart
<1>2. PICK r \in Rails : CheckOrder(r)
  BY <1>1 DEF NoVerdict
<1>3. GateAnswer(r) = "OK" /\ verdict'.rails = r
  BY <1>2 DEF CheckOrder
<1>4. flag # "false" /\ cfgOn[r]
  BY <1>3 DEF GateAnswer, TypeOK, Rails
<1> QED BY <1>2, <1>3, <1>4 DEF CheckOrder, noteVars, worldVars

\* No order is admitted, by either rails, while a halt stands.
THEOREM HaltedAdmitsNothing == Spec => NoOrderWhileHalted
<1>1. TypeOK /\ GateInv /\ [Next]_vars => [verdict'.outcome = "OK" => ~halted]_vars
  <2> SUFFICES ASSUME TypeOK, GateInv, Next, verdict'.outcome = "OK"
               PROVE  ~halted
    OBVIOUS
  <2> QED BY OkStep DEF GateInv, HaltKeepsFlagDown
<1> QED BY <1>1, TypeCorrect, GateInductive, PTL DEF Spec, NoOrderWhileHalted

\* The endpoints admit no order while the operator has switched trading off.
THEOREM OperatorOffAdmitsNothing == Spec => OperatorOffHolds
<1>1. TypeOK /\ GateInv /\ [Next]_vars
        => [(verdict'.outcome = "OK" /\ verdict'.rails = "app") => ~opsOff]_vars
  <2> SUFFICES ASSUME TypeOK, GateInv, Next,
                      verdict'.outcome = "OK", verdict'.rails = "app"
               PROVE  ~opsOff
    OBVIOUS
  <2> QED BY OkStep DEF GateInv
<1> QED BY <1>1, TypeCorrect, GateInductive, PTL DEF Spec, OperatorOffHolds

-----------------------------------------------------------------------------
(* Promotions.                                                              *)

Promotion == [at : {"idle", "check", "save", "block", "sync", "push"}, view : Books,
              best : Models \cup {NoModel}, todo : SUBSET Engines]

PromotionTyped ==
    /\ book \in Books /\ router \in Models \cup {NoModel}
    /\ tag \in [Engines -> Models \cup {NoModel}]
    /\ rules \in [alerts : BOOLEAN, approval : BOOLEAN]
    /\ run \in [Runs -> Promotion]
    /\ edits \in 0..MaxEdits /\ clean \in BOOLEAN /\ missed \subseteq Engines
    /\ \A r \in Runs : run[r].at # "idle" => run[r].best \in Models

\* The registry b, the router w and the engines that answer name one model.
Agree(b, w, g, away) == w = b.current /\ \A e \in Engines \ away : g[e] = b.current

\* What a promotion at work leaves true of the places, as far as it has come.
Underway(p, b, w, g, away) ==
    /\ p.at \in {"check", "save", "block"} => Agree(b, w, g, away) /\ p.view.current = b.current
    /\ p.at = "sync" => b.current = p.best
    /\ p.at = "push" => /\ b.current = p.best /\ w = p.best
                        /\ \A e \in Engines \ (away \cup p.todo) : g[e] = p.best

AllIdle(p)  == \A r \in Runs : p[r].at = "idle"
OneAtWork(p) == \A r, q \in Runs : p[r].at # "idle" /\ p[q].at # "idle" => r = q

Orderly ==
    clean => /\ OneAtWork(run)
             /\ AllIdle(run) => Agree(book, router, tag, missed)
             /\ \A r \in Runs : Underway(run[r], book, router, tag, missed)

PromotionSafe == PromotionTyped /\ Orderly

\* One run goes on, which leaves the places as it says it does.
LEMMA RunGoesOn ==
    ASSUME PromotionSafe, NEW r \in Runs, NEW new \in Promotion, Set(r, new),
           new.at # "idle" => new.best \in Models,
           run[r].at # "idle", clean' = clean,
           book' \in Books, router' \in Models \cup {NoModel},
           tag' \in [Engines -> Models \cup {NoModel}], missed' \subseteq Engines,
           UNCHANGED <<rules, edits>>,
           clean => /\ Underway(new, book', router', tag', missed')
                    /\ new.at = "idle" => Agree(book', router', tag', missed')
    PROVE  PromotionSafe'
<1>1. /\ run \in [Runs -> Promotion] /\ run' = [run EXCEPT ![r] = new]
      /\ \A q \in Runs : run[q].at # "idle" => run[q].best \in Models
  BY DEF PromotionSafe, PromotionTyped, Set
<1>2. run' \in [Runs -> Promotion] /\ run'[r] = new /\ \A q \in Runs \ {r} : run'[q] = run[q]
  BY <1>1
<1>3. PromotionTyped'
  <2>1. \A q \in Runs : run'[q].at # "idle" => run'[q].best \in Models
    BY <1>1, <1>2
  <2>2. rules' \in [alerts : BOOLEAN, approval : BOOLEAN] /\ edits' \in 0..MaxEdits
    BY DEF PromotionSafe, PromotionTyped
  <2>3. clean' \in BOOLEAN
    BY Zenon DEF PromotionSafe, PromotionTyped
  <2> QED BY <1>2, <2>1, <2>2, <2>3 DEF PromotionTyped
<1>4. ASSUME clean' PROVE /\ OneAtWork(run')
                          /\ AllIdle(run') => Agree(book', router', tag', missed')
                          /\ \A q \in Runs : Underway(run'[q], book', router', tag', missed')
  <2>1. clean
    BY <1>4
  <2>2. \A q \in Runs \ {r} : run[q].at = "idle"
    BY <2>1 DEF PromotionSafe, Orderly, OneAtWork
  <2>3. \A q \in Runs \ {r} : run'[q].at = "idle"
    BY <1>2, <2>2
  <2>4. OneAtWork(run')
    BY <2>3 DEF OneAtWork
  <2>5. AllIdle(run') => Agree(book', router', tag', missed')
    BY <1>2, <2>1 DEF AllIdle
  <2>6. ASSUME NEW q \in Runs PROVE Underway(run'[q], book', router', tag', missed')
    <3>1. CASE q = r
      BY <1>2, <2>1, <3>1
    <3>2. CASE q # r
      <4>1. run'[q].at = "idle"
        BY <2>3, <3>2
      <4> QED BY <4>1 DEF Underway
    <3> QED BY <3>1, <3>2
  <2> QED BY <2>4, <2>5, <2>6
<1> QED BY <1>3, <1>4 DEF PromotionSafe, Orderly

\* What is known of a run at work.
LEMMA AtWork ==
    ASSUME PromotionSafe, NEW r \in Runs
    PROVE  /\ run[r] \in Promotion /\ book \in Books /\ router \in Models \cup {NoModel}
           /\ tag \in [Engines -> Models \cup {NoModel}] /\ missed \subseteq Engines
           /\ run[r].at # "idle" => run[r].best \in Models
           /\ clean => Underway(run[r], book, router, tag, missed)
BY DEF PromotionSafe, PromotionTyped, Orderly

\* The first registry and a run at rest are typed, and a run at rest asks for nothing.
LEMMA RestFacts ==
    /\ Blank \in Books /\ AtRest \in Promotion /\ AtRest.at = "idle"
    /\ \A b, w, g, away : Underway(AtRest, b, w, g, away)
<1>1. -1 \in -1..TopScore
  BY PromotionAssumption
<1>2. Blank \in Books
  BY <1>1 DEF Blank, Books
<1>3. AtRest \in Promotion /\ AtRest.at = "idle"
  BY <1>2 DEF AtRest, Promotion
<1> QED BY <1>2, <1>3 DEF Underway

\* A promotion begins: it reads the registry.
LEMMA ReadKept == ASSUME PromotionSafe, NEW r \in Runs, PromoteRead(r) PROVE PromotionSafe'
<1>1. UNCHANGED <<book, router, tag, rules, edits, missed>>
  BY DEF PromoteRead, Kept
<1>2. CASE UNCHANGED <<run, clean>>
  BY <1>1, <1>2 DEF PromotionSafe, PromotionTyped, Orderly
<1>3. ASSUME NEW m \in Best(book), Set(r, [at |-> "check", view |-> book, best |-> m, todo |-> {}]),
             clean' = (clean /\ AllIdle(run))
      PROVE  PromotionSafe'
  <2> DEFINE new == [at |-> "check", view |-> book, best |-> m, todo |-> {}]
  <2>1. m \in Models
    BY DEF Best, Ranked
  <2>2. PromotionTyped /\ book \in Books /\ run \in [Runs -> Promotion]
    BY DEF PromotionSafe, PromotionTyped
  <2>3. /\ new \in Promotion /\ new.at = "check" /\ new.best = m /\ new.view = book
    BY <2>1, <2>2 DEF Promotion
  <2>4. run' = [run EXCEPT ![r] = new]
    BY <1>3 DEF Set
  <2> HIDE DEF new
  <2>5. run' \in [Runs -> Promotion] /\ run'[r] = new /\ \A q \in Runs \ {r} : run'[q] = run[q]
    BY <2>2, <2>3, <2>4
  <2>6. clean' \in BOOLEAN /\ (clean' => clean /\ AllIdle(run))
    BY <1>3, Zenon
  <2>7. PromotionTyped'
    <3>1. \A q \in Runs : run'[q].at # "idle" => run'[q].best \in Models
      BY <2>1, <2>2, <2>3, <2>5 DEF PromotionTyped
    <3> QED BY <1>1, <2>2, <2>5, <2>6, <3>1 DEF PromotionTyped
  <2>8. ASSUME clean' PROVE /\ OneAtWork(run') /\ ~AllIdle(run')
                            /\ \A q \in Runs : Underway(run'[q], book', router', tag', missed')
    <3>1. \A q \in Runs \ {r} : run'[q].at = "idle"
      BY <2>5, <2>6, <2>8 DEF AllIdle
    <3>2. OneAtWork(run') /\ ~AllIdle(run')
      BY <2>3, <2>5, <3>1 DEF OneAtWork, AllIdle
    <3>3. Agree(book, router, tag, missed)
      BY <2>6, <2>8 DEF PromotionSafe, Orderly
    <3>4. Underway(new, book, router, tag, missed)
      BY <2>3, <3>3 DEF Underway
    <3>5. ASSUME NEW q \in Runs PROVE Underway(run'[q], book', router', tag', missed')
      <4>1. CASE q = r
        BY <1>1, <2>5, <3>4, <4>1
      <4>2. CASE q # r
        <5>1. run'[q].at = "idle"
          BY <3>1, <4>2
        <5> QED BY <5>1 DEF Underway
      <4> QED BY <4>1, <4>2
    <3> QED BY <3>2, <3>5
  <2> QED BY <2>7, <2>8 DEF PromotionSafe, Orderly
<1>4. \/ UNCHANGED <<run, clean>>
      \/ \E m \in Best(book) : /\ Set(r, [at |-> "check", view |-> book, best |-> m, todo |-> {}])
                               /\ clean' = (clean /\ AllIdle(run))
  BY DEF PromoteRead, AllIdle
<1> QED BY <1>2, <1>3, <1>4

\* The policy and the risk snapshot are looked at.
LEMMA CheckKept == ASSUME PromotionSafe, NEW r \in Runs, PromoteCheck(r) PROVE PromotionSafe'
<1>1. /\ run[r].at = "check" /\ UNCHANGED <<book, router, tag, clean, rules, edits, missed>>
  BY DEF PromoteCheck, Kept
<1>2. PICK a \in {"block", "save"} : Set(r, [run[r] EXCEPT !.at = a])
  BY DEF PromoteCheck
<1> DEFINE new == [run[r] EXCEPT !.at = a]
<1>3. run[r] \in Promotion /\ run[r].best \in Models /\ (clean => Underway(run[r], book, router, tag, missed))
  BY <1>1, AtWork
<1>4. /\ new \in Promotion /\ new.at = a /\ new.best = run[r].best /\ new.view = run[r].view
  BY <1>3 DEF Promotion
<1> HIDE DEF new
<1>5. new.at # "idle"
  BY <1>4
<1>6. clean => Underway(new, book', router', tag', missed')
  BY <1>1, <1>3, <1>4 DEF Underway
<1> QED BY <1>1, <1>2, <1>3, <1>4, <1>5, <1>6, AtWork, RunGoesOn DEF new

\* The promotion is blocked, or waits for an approval.
LEMMA BlockKept == ASSUME PromotionSafe, NEW r \in Runs, PromoteBlock(r) PROVE PromotionSafe'
<1>1. /\ run[r].at = "block" /\ UNCHANGED <<router, tag, clean, rules, edits, missed>>
      /\ book' = [run[r].view EXCEPT !.pending = @ \cup {run[r].best}] /\ Set(r, AtRest)
  BY DEF PromoteBlock, Kept
<1>2. run[r] \in Promotion /\ run[r].best \in Models /\ (clean => Underway(run[r], book, router, tag, missed))
  BY <1>1, AtWork
<1>3. book' \in Books /\ book'.current = run[r].view.current
  BY <1>1, <1>2 DEF Promotion, Books
<1>4. clean => Agree(book', router', tag', missed')
  BY <1>1, <1>2, <1>3 DEF Underway, Agree
<1>5. AtRest \in Promotion /\ AtRest.at = "idle" /\ Underway(AtRest, book', router', tag', missed')
  BY RestFacts
<1>6. run[r].at # "idle"
  BY <1>1
<1> QED BY <1>1, <1>3, <1>4, <1>5, <1>6, AtWork, RunGoesOn

\* The registry is replaced.
LEMMA SaveKept == ASSUME PromotionSafe, NEW r \in Runs, PromoteSave(r) PROVE PromotionSafe'
<1> DEFINE b == run[r].best
           new == [run[r] EXCEPT !.at = "sync", !.view = Blank]
<1>1. /\ run[r].at = "save" /\ UNCHANGED <<router, tag, clean, rules, edits, missed>> /\ Set(r, new)
      /\ book' = [run[r].view EXCEPT !.current = b, !.approved = @ \ {b}, !.pending = @ \ {b}]
  BY DEF PromoteSave, Kept
<1>2. run[r] \in Promotion /\ b \in Models
  BY <1>1, AtWork
<1>3. /\ new \in Promotion /\ new.at = "sync" /\ new.best = b
  BY <1>2, RestFacts DEF Promotion
<1>4. book' \in Books /\ book'.current = b
  BY <1>1, <1>2 DEF Promotion, Books
<1> HIDE DEF new, b
<1>5. Underway(new, book', router', tag', missed') /\ new.at # "idle" /\ run[r].at # "idle"
  BY <1>1, <1>3, <1>4 DEF Underway
<1> QED BY <1>1, <1>2, <1>3, <1>4, <1>5, AtWork, RunGoesOn

\* The router is given the model of the registry.
LEMMA SyncKept == ASSUME PromotionSafe, NEW r \in Runs, PromoteSync(r) PROVE PromotionSafe'
<1> DEFINE new == [run[r] EXCEPT !.at = "push", !.todo = Engines]
<1>1. /\ run[r].at = "sync" /\ UNCHANGED <<book, tag, clean, rules, edits, missed>> /\ Set(r, new)
      /\ router' = run[r].best
  BY DEF PromoteSync, Kept, WeightsSynced
<1>2. run[r] \in Promotion /\ run[r].best \in Models /\ (clean => Underway(run[r], book, router, tag, missed))
  BY <1>1, AtWork
<1>3. /\ new \in Promotion /\ new.at = "push" /\ new.best = run[r].best /\ new.todo = Engines
  BY <1>2 DEF Promotion
<1> HIDE DEF new
<1>4. clean => Underway(new, book', router', tag', missed')
  BY <1>1, <1>2, <1>3 DEF Underway
<1>5. new.at # "idle" /\ run[r].at # "idle"
  BY <1>1, <1>3
<1> QED BY <1>1, <1>2, <1>3, <1>4, <1>5, AtWork, RunGoesOn

\* One engine is told: it has the model, or is one that a promotion missed.
LEMMA PushKept == ASSUME PromotionSafe, NEW r \in Runs, PromotePush(r) PROVE PromotionSafe'
<1>1. run[r].at = "push" /\ UNCHANGED <<book, router, rules, edits, clean>>
  BY DEF PromotePush
<1>2. PICK e \in run[r].todo, told \in BOOLEAN, served \in BOOLEAN :
        /\ told => served
        /\ tag' = IF served THEN [tag EXCEPT ![e] = run[r].best] ELSE tag
        /\ missed' = IF told THEN missed \ {e} ELSE missed \cup {e}
        /\ Set(r, IF run[r].todo = {e} THEN AtRest ELSE [run[r] EXCEPT !.todo = @ \ {e}])
  BY DEF PromotePush
<1> DEFINE b == run[r].best
           more == [run[r] EXCEPT !.todo = @ \ {e}]
<1>3. /\ run[r] \in Promotion /\ b \in Models /\ (clean => Underway(run[r], book, router, tag, missed))
      /\ tag \in [Engines -> Models \cup {NoModel}] /\ missed \subseteq Engines
      /\ book \in Books /\ router \in Models \cup {NoModel}
  BY <1>1, AtWork
<1>4. e \in Engines /\ run[r].todo \subseteq Engines
  BY <1>3 DEF Promotion
<1>5. more \in Promotion /\ more.at = "push" /\ more.best = b /\ more.todo = run[r].todo \ {e}
  BY <1>1, <1>3 DEF Promotion
<1> HIDE DEF b, more
<1>6. /\ tag' \in [Engines -> Models \cup {NoModel}] /\ missed' \subseteq Engines
      /\ \A f \in Engines \ {e} : tag'[f] = tag[f] /\ (f \in missed' <=> f \in missed)
      /\ e \notin missed' => tag'[e] = b
  <2>1. CASE told
    BY <1>2, <1>3, <1>4, <2>1 DEF b
  <2>2. CASE ~told /\ served
    BY <1>2, <1>3, <1>4, <2>2 DEF b
  <2>3. CASE ~told /\ ~served
    BY <1>2, <1>3, <1>4, <2>3 DEF b
  <2> QED BY <2>1, <2>2, <2>3
<1>7. clean => /\ book.current = b /\ router = b
               /\ \A f \in Engines \ (missed \cup run[r].todo) : tag[f] = b
  BY <1>1, <1>3 DEF Underway, b
<1>8. CASE run[r].todo = {e}
  <2>1. Set(r, AtRest)
    BY <1>2, <1>8
  <2>2. clean => Agree(book', router', tag', missed')
    <3>1. ASSUME clean, NEW f \in Engines \ missed' PROVE tag'[f] = b
      BY <1>6, <1>7, <1>8, <3>1
    <3> QED BY <1>1, <1>7, <3>1 DEF Agree
  <2>3. AtRest \in Promotion /\ AtRest.at = "idle" /\ Underway(AtRest, book', router', tag', missed')
    BY RestFacts
  <2>4. run[r].at # "idle"
    BY <1>1
  <2> QED BY <1>1, <1>3, <1>6, <2>1, <2>2, <2>3, <2>4, RunGoesOn
<1>9. CASE run[r].todo # {e}
  <2>1. Set(r, more)
    BY <1>2, <1>9 DEF more
  <2>2. clean => Underway(more, book', router', tag', missed')
    <3>1. ASSUME clean, NEW f \in Engines \ (missed' \cup more.todo) PROVE tag'[f] = b
      BY <1>5, <1>6, <1>7, <3>1
    <3> QED BY <1>1, <1>5, <1>7, <3>1 DEF Underway
  <2>3. run[r].at # "idle" /\ more.at # "idle"
    BY <1>1, <1>5
  <2> QED BY <1>1, <1>3, <1>5, <1>6, <2>1, <2>2, <2>3, RunGoesOn
<1> QED BY <1>8, <1>9

\* The registry is edited, risk changes, an engine but the daemon's own starts again.
LEMMA EnvKept ==
    ASSUME PromotionSafe, edits' \in 0..MaxEdits, UNCHANGED <<router, run, clean>>,
           book' \in Books, book'.current = book.current,
           rules' \in [alerts : BOOLEAN, approval : BOOLEAN],
           (UNCHANGED <<tag, missed>>) \/ \E e \in Engines : Forgets(e)
    PROVE  PromotionSafe'
<1>1. PromotionTyped /\ tag \in [Engines -> Models \cup {NoModel}] /\ missed \subseteq Engines
  BY DEF PromotionSafe, PromotionTyped
<1>2. /\ tag' \in [Engines -> Models \cup {NoModel}] /\ missed' \subseteq Engines
      /\ missed \subseteq missed' /\ \A f \in Engines \ missed' : tag'[f] = tag[f]
  <2>1. CASE UNCHANGED <<tag, missed>>
    BY <1>1, <2>1
  <2>2. ASSUME NEW e \in Engines, Forgets(e)
        PROVE  /\ tag' \in [Engines -> Models \cup {NoModel}] /\ missed' \subseteq Engines
               /\ missed \subseteq missed' /\ \A f \in Engines \ missed' : tag'[f] = tag[f]
    BY <1>1, <2>2 DEF Forgets
  <2> QED BY <2>1, <2>2
<1>3. PromotionTyped'
  BY <1>1, <1>2 DEF PromotionTyped
<1>4. Agree(book, router, tag, missed) => Agree(book', router', tag', missed')
  BY <1>2 DEF Agree
<1>5. \A r \in Runs : Underway(run[r], book, router, tag, missed)
                        => Underway(run[r], book', router', tag', missed')
  BY <1>2, <1>4 DEF Underway
<1> QED BY <1>3, <1>4, <1>5 DEF PromotionSafe, Orderly

\* What others do to registry, risk and engines.
LEMMA EnvironmentKept == ASSUME PromotionSafe, PromotionEnv PROVE PromotionSafe'
<1>1. /\ book \in Books /\ rules \in [alerts : BOOLEAN, approval : BOOLEAN] /\ edits \in 0..MaxEdits
  BY DEF PromotionSafe, PromotionTyped
<1>2. edits' \in 0..MaxEdits
  BY <1>1, PromotionAssumption DEF PromotionEnv, RegistryEdited, RiskChanges, EngineRestarts, Edited
<1>3. CASE RegistryEdited
  <2>1. UNCHANGED <<router, tag, rules, run, clean, missed>>
    BY <1>3 DEF RegistryEdited
  <2>2. PICK m \in Models :
          \/ \E s \in 0..TopScore : book' = [book EXCEPT !.score[m] = s]
          \/ book' = [book EXCEPT !.approved = @ \cup {m}]
          \/ book' = [book EXCEPT !.manual = IF m \in @ THEN @ \ {m} ELSE @ \cup {m}]
    BY <1>3 DEF RegistryEdited
  <2>3. book' \in Books /\ book'.current = book.current
    <3>1. ASSUME NEW s \in 0..TopScore, book' = [book EXCEPT !.score[m] = s]
          PROVE  book' \in Books /\ book'.current = book.current
      <4>1. [book.score EXCEPT ![m] = s] \in [Models -> -1..TopScore]
        BY <1>1, PromotionAssumption DEF Books
      <4>2. book' = [book EXCEPT !.score = [book.score EXCEPT ![m] = s]]
        BY <3>1
      <4> QED BY <1>1, <4>1, <4>2 DEF Books
    <3>2. CASE book' = [book EXCEPT !.approved = @ \cup {m}]
      BY <1>1, <3>2 DEF Books
    <3>3. CASE book' = [book EXCEPT !.manual = IF m \in @ THEN @ \ {m} ELSE @ \cup {m}]
      BY <1>1, <3>3 DEF Books
    <3> QED BY <2>2, <3>1, <3>2, <3>3
  <2> QED BY <1>1, <1>2, <2>1, <2>3, EnvKept
<1>4. CASE RiskChanges
  <2>1. UNCHANGED <<book, router, tag, run, clean, missed>> /\ rules' = [rules EXCEPT !.alerts = ~@]
    BY <1>4 DEF RiskChanges
  <2>2. rules' \in [alerts : BOOLEAN, approval : BOOLEAN]
    BY <1>1, <2>1
  <2> QED BY <1>1, <1>2, <2>1, <2>2, EnvKept
<1>5. CASE EngineRestarts
  <2>1. UNCHANGED <<book, router, rules, run, clean>> /\ \E e \in Engines : Forgets(e)
    BY <1>5 DEF EngineRestarts
  <2> QED BY <1>1, <1>2, <2>1, EnvKept
<1> QED BY <1>3, <1>4, <1>5 DEF PromotionEnv

\* Any step of a promotion or of what surrounds it.
LEMMA PromotingKept == ASSUME PromotionSafe, Promoting PROVE PromotionSafe'
<1>1. ASSUME NEW r \in Runs, PromoteStep(r) PROVE PromotionSafe'
  BY <1>1, CheckKept, BlockKept, SaveKept, SyncKept, PushKept DEF PromoteStep
<1> QED BY <1>1, EnvironmentKept DEF Promoting

\* A run that fails before it has written anything.
LEMMA FailKept ==
    ASSUME PromotionSafe, NEW r \in Runs, run[r].at = "check", Set(r, AtRest),
           UNCHANGED <<book, router, tag, clean, rules, edits, missed>>
    PROVE  PromotionSafe'
<1>1. run[r].at # "idle" /\ (clean => Agree(book', router', tag', missed'))
  BY AtWork DEF Underway
<1>2. AtRest \in Promotion /\ AtRest.at = "idle" /\ Underway(AtRest, book', router', tag', missed')
  BY RestFacts
<1> QED BY <1>1, <1>2, AtWork, RunGoesOn

\* The engine of the daemon starts again, and with it every run is gone.
LEMMA RestartKept ==
    ASSUME PromotionSafe, edits' \in 0..MaxEdits, run' = [r \in Runs |-> AtRest],
           clean' = (clean /\ \A r \in Runs : run[r].at = "idle"), Forgets(Home),
           UNCHANGED <<book, router, rules>>
    PROVE  PromotionSafe'
<1>1. PromotionTyped /\ tag \in [Engines -> Models \cup {NoModel}] /\ missed \subseteq Engines
  BY DEF PromotionSafe, PromotionTyped
<1>2. /\ tag' \in [Engines -> Models \cup {NoModel}] /\ missed' \subseteq Engines
      /\ missed \subseteq missed' /\ \A f \in Engines \ missed' : tag'[f] = tag[f]
  BY <1>1, PromotionAssumption DEF Forgets
<1>3. clean' \in BOOLEAN /\ (clean' => clean /\ AllIdle(run))
  BY Zenon DEF AllIdle
<1>4. run' \in [Runs -> Promotion] /\ \A r \in Runs : run'[r] = AtRest /\ run'[r].at = "idle"
  BY RestFacts
<1>5. PromotionTyped'
  BY <1>1, <1>2, <1>3, <1>4 DEF PromotionTyped
<1>6. clean' => Agree(book', router', tag', missed')
  <2>1. clean' => Agree(book, router, tag, missed)
    BY <1>3 DEF PromotionSafe, Orderly
  <2> QED BY <1>2, <2>1 DEF Agree
<1>7. OneAtWork(run') /\ \A r \in Runs : Underway(run'[r], book', router', tag', missed')
  BY <1>4 DEF OneAtWork, Underway
<1> QED BY <1>5, <1>6, <1>7 DEF PromotionSafe, Orderly

-----------------------------------------------------------------------------
(* The governor.                                                            *)

Handler == [at : {"idle", "ready", "run", "promote", "publish", "failed"},
            left : SUBSET Indices, holds : SUBSET Indices]

\* A handler that waits does so in the middle of a rule.
Waits(x)       == x.at \in {"publish", "promote"}
WaitsFor(x, a) == Waits(x) /\ Policies[Min(x.left)].action = a
InPlace(x)     == /\ Waits(x) => x.left # {}
                  /\ x.at = "promote" => Policies[Min(x.left)].action = "promote_model"

HandlersTyped == task \in [Tasks -> Handler] /\ \A t \in Tasks : InPlace(task[t])
Limits == 5..1000
Envs   == [trading : BOOLEAN, max : Limits]
EnvTyped      == env \in Envs
LoadTyped     == loaded \subseteq Indices /\ loop \in Tasks \cup {NoTask} /\ events \in 0..MaxEvents

\* Every reload adds a handler to a topic at most, at its end.
Subscribed ==
    /\ reload \in {"idle", "cleared", "loaded"} /\ handlers \in [Topics -> Nat]
    /\ \A p \in Topics : handlers[p] + (IF reload = "idle" THEN 0 ELSE 1) <= 1 + edits

StampsTyped ==
    /\ clock \in 0..Horizon
    /\ stamp \in [Actions -> Never..clock] /\ ran \in [Actions -> Never..clock]

\* An action that was executed is waiting to be announced, or its cooldown has begun
\* no earlier.
Spaced == \A a \in Actions : ran[a] # Never =>
              stamp[a] >= ran[a] \/ \E t \in Tasks : WaitsFor(task[t], a)

GovernorSafe ==
    /\ PromotionSafe
    /\ HandlersTyped /\ EnvTyped /\ LoadTyped /\ Subscribed /\ StampsTyped /\ Spaced

\* The next rule of a handler is one of the policy file.
LEMMA NextRule ==
    ASSUME NEW x \in Handler, x.left # {}
    PROVE  /\ Min(x.left) \in Indices /\ Policies[Min(x.left)].action \in Actions
           /\ x.left \ {Min(x.left)} \in SUBSET Indices
<1>1. x.left \in SUBSET Nat /\ x.left \subseteq Indices
  BY GovernanceAssumption DEF Handler
<1>2. Min(x.left) \in x.left
  BY <1>1, MinNat
<1> QED BY <1>1, <1>2 DEF Actions

\* One handler goes on.
LEMMA HandlerMoves ==
    ASSUME HandlersTyped, NEW t \in Tasks, NEW new \in Handler, InPlace(new),
           task' = [task EXCEPT ![t] = new]
    PROVE  HandlersTyped' /\ task'[t] = new /\ \A q \in Tasks \ {t} : task'[q] = task[q]
<1>1. task \in [Tasks -> Handler] /\ \A q \in Tasks : InPlace(task[q])
  BY DEF HandlersTyped
<1>2. task' \in [Tasks -> Handler] /\ task'[t] = new /\ \A q \in Tasks \ {t} : task'[q] = task[q]
  BY <1>1
<1>3. \A q \in Tasks : InPlace(task'[q])
  BY <1>1, <1>2
<1> QED BY <1>2, <1>3 DEF HandlersTyped

\* Of the actions in A none is left executed without a cooldown or a handler, in x,
\* that will begin it; the others do not change, and the handler x waits for none.
Accounted(x, A) == \A b \in A : ran'[b] = Never \/ stamp'[b] >= ran'[b] \/ WaitsFor(x, b)
Apart(x, A)     == \A b \in Actions \ A :
                       stamp'[b] = stamp[b] /\ ran'[b] = ran[b] /\ ~WaitsFor(x, b)

\* What waited still waits, but for the handler t, and no cooldown or execution
\* changes but those of actions in A, which are accounted for.
LEMMA SpacedMoves ==
    ASSUME Spaced, NEW t \in Tasks, NEW A,
           \A q \in Tasks \ {t} : task'[q] = task[q],
           Apart(task[t], A), Accounted(task'[t], A)
    PROVE  Spaced'
<1> SUFFICES ASSUME NEW b \in Actions, ran'[b] # Never
             PROVE  stamp'[b] >= ran'[b] \/ \E q \in Tasks : WaitsFor(task'[q], b)
  BY DEF Spaced, WaitsFor, Waits
<1>1. CASE b \in A
  BY <1>1 DEF Accounted
<1>2. CASE b \notin A
  <2>1. stamp'[b] = stamp[b] /\ ran'[b] = ran[b] /\ ~WaitsFor(task[t], b)
    BY <1>2 DEF Apart
  <2>2. stamp[b] >= ran[b] \/ \E q \in Tasks : WaitsFor(task[q], b)
    BY <2>1 DEF Spaced
  <2>3. ASSUME NEW q \in Tasks, WaitsFor(task[q], b) PROVE WaitsFor(task'[q], b)
    <3>1. q # t
      BY <2>1, <2>3
    <3>2. task'[q] = task[q]
      BY <3>1
    <3> QED BY <2>3, <3>2
  <2> QED BY <2>1, <2>2, <2>3
<1> QED BY <1>1, <1>2

\* What an action does to the environment keeps the maximum within its bounds.
LEMMA EffectTyped == ASSUME NEW a, NEW e \in Envs PROVE Effect(a, e) \in Envs
<1> DEFINE m == e.max
<1>1. m \in 5..1000
  BY DEF Envs, Limits
<1>2. ASSUME NEW x \in Limits PROVE [e EXCEPT !.max = x] \in Envs
  BY <1>2 DEF Envs
<1>3. Start \in Limits
  BY GovernanceAssumption DEF Limits
<1>4. /\ Atleast((m * 7) \div 10, 10) \in Limits /\ Atleast((m * 17) \div 20, 20) \in Limits
      /\ Atleast(m \div 2, 5) \in Limits
  <2> HIDE DEF m
  <2> QED BY <1>1 DEF Atleast, Limits
<1>5. /\ Atmost((m * 6) \div 5, 1000) \in Limits /\ Atmost((m * 23) \div 20, 500) \in Limits
      /\ Atmost(m, 50) \in Limits
  <2> HIDE DEF m
  <2> QED BY <1>1 DEF Atmost, Limits
<1>6. [trading |-> TRUE, max |-> Atmost(e.max, 50)] \in Envs
  BY <1>5 DEF Envs
<1>7. ASSUME NEW w \in BOOLEAN PROVE [e EXCEPT !.trading = w] \in Envs
  BY <1>7 DEF Envs
<1>8. CASE a = "pause_trading"
  <2>1. PICK w \in BOOLEAN : w = FALSE
    OBVIOUS
  <2>2. Effect(a, e) = [e EXCEPT !.trading = w]
    BY <1>8, <2>1 DEF Effect
  <2> QED BY <1>7, <2>2
<1>9. CASE a \in {"resume_trading", "immediate_resume"}
  <2>1. PICK w \in BOOLEAN : w = TRUE
    OBVIOUS
  <2>2. Effect(a, e) = [e EXCEPT !.trading = w]
    BY <1>9, <2>1 DEF Effect
  <2> QED BY <1>7, <2>2
<1>11. CASE a = "gradual_resume"
  BY <1>6, <1>11 DEF Effect
<1>12. CASE a = "reduce_exposure"
  <2>1. PICK x \in Limits : x = Atleast((e.max * 7) \div 10, 10)
    BY <1>4
  <2>2. Effect(a, e) = [e EXCEPT !.max = x]
    BY <1>12, <2>1 DEF Effect
  <2> QED BY <1>2, <2>2
<1>13. CASE a = "moderate_reductions"
  <2>1. PICK x \in Limits : x = Atleast((e.max * 17) \div 20, 20)
    BY <1>4
  <2>2. Effect(a, e) = [e EXCEPT !.max = x]
    BY <1>13, <2>1 DEF Effect
  <2> QED BY <1>2, <2>2
<1>14. CASE a = "emergency_reductions"
  <2>1. PICK x \in Limits : x = Atleast(e.max \div 2, 5)
    BY <1>4
  <2>2. Effect(a, e) = [e EXCEPT !.max = x]
    BY <1>14, <2>1 DEF Effect
  <2> QED BY <1>2, <2>2
<1>15. CASE a = "increase_exposure"
  <2>1. PICK x \in Limits : x = Atmost((e.max * 6) \div 5, 1000)
    BY <1>5
  <2>2. Effect(a, e) = [e EXCEPT !.max = x]
    BY <1>15, <2>1 DEF Effect
  <2> QED BY <1>2, <2>2
<1>16. CASE a = "gradual_risk_increase"
  <2>1. PICK x \in Limits : x = Atmost((e.max * 23) \div 20, 500)
    BY <1>5
  <2>2. Effect(a, e) = [e EXCEPT !.max = x]
    BY <1>16, <2>1 DEF Effect
  <2> QED BY <1>2, <2>2
<1>17. CASE a = "set_max_notional"
  <2>1. PICK x \in Limits : x = Start
    BY <1>3
  <2>2. Effect(a, e) = [e EXCEPT !.max = x]
    BY <1>17, <2>1 DEF Effect
  <2> QED BY <1>2, <2>2
<1>18. CASE a \notin {"pause_trading", "resume_trading", "immediate_resume", "gradual_resume",
                     "reduce_exposure", "moderate_reductions", "emergency_reductions",
                     "increase_exposure", "gradual_risk_increase", "set_max_notional"}
  <2>1. Effect(a, e) = e
    BY <1>18 DEF Effect
  <2> QED BY <2>1
<1> QED BY <1>8, <1>9, <1>11, <1>12, <1>13, <1>14, <1>15, <1>16, <1>17, <1>18

\* A step that leaves the promotions alone leaves them as they were.
LEMMA PromotionStays == ASSUME PromotionSafe, UNCHANGED promotionVars PROVE PromotionSafe'
<1>1. UNCHANGED <<book, router, tag, rules, run, edits, clean, missed>>
  BY DEF promotionVars
<1> QED BY <1>1 DEF PromotionSafe, PromotionTyped, Orderly

\* A handler t goes on to new, which touches the actions in A.
LEMMA HandlerKept ==
    ASSUME GovernorSafe, NEW t \in Tasks, NEW new \in Handler, InPlace(new),
           task' = [task EXCEPT ![t] = new], Rest, edits' = edits, PromotionSafe',
           loop' \in Tasks \cup {NoTask}, env' \in Envs, NEW A,
           stamp' \in [Actions -> Never..clock], ran' \in [Actions -> Never..clock],
           Apart(task[t], A), Accounted(new, A)
    PROVE  GovernorSafe'
<1>1. HandlersTyped' /\ task'[t] = new /\ \A q \in Tasks \ {t} : task'[q] = task[q]
  BY HandlerMoves DEF GovernorSafe
<1>2. Spaced'
  <2>1. Spaced /\ Accounted(task'[t], A)
    BY <1>1 DEF GovernorSafe
  <2> QED BY <1>1, <2>1, SpacedMoves
<1>3. EnvTyped' /\ LoadTyped' /\ Subscribed' /\ StampsTyped'
  BY DEF GovernorSafe, EnvTyped, LoadTyped, Subscribed, StampsTyped, Rest
<1> QED BY <1>1, <1>2, <1>3 DEF GovernorSafe

\* A handler that touches nothing but itself.
LEMMA QuietKept ==
    ASSUME GovernorSafe, NEW t \in Tasks, NEW new \in Handler, ~Waits(new), ~Waits(task[t]),
           task' = [task EXCEPT ![t] = new], Rest, UNCHANGED promotionVars,
           loop' \in Tasks \cup {NoTask}, UNCHANGED <<env, stamp, ran>>
    PROVE  GovernorSafe'
<1>1. PromotionSafe' /\ edits' = edits
  BY PromotionStays DEF GovernorSafe, promotionVars
<1>2. InPlace(new) /\ \A b \in Actions : ~WaitsFor(task[t], b)
  BY DEF InPlace, Waits, WaitsFor
<1>3. /\ env' \in Envs /\ stamp' \in [Actions -> Never..clock] /\ ran' \in [Actions -> Never..clock]
  BY DEF GovernorSafe, EnvTyped, StampsTyped
<1>4. Apart(task[t], {})
  BY <1>2 DEF Apart
<1>5. Accounted(new, {})
  BY DEF Accounted
<1> HIDE DEF Never
<1> QED BY <1>1, <1>2, <1>3, <1>4, <1>5, HandlerKept

\* What is known of a handler at work, and of its next rule.
LEMMA AtHand ==
    ASSUME GovernorSafe, NEW t \in Tasks
    PROVE  /\ task[t] \in Handler /\ InPlace(task[t])
           /\ env \in Envs /\ clock \in Nat /\ loop \in Tasks \cup {NoTask}
           /\ stamp \in [Actions -> Never..clock] /\ ran \in [Actions -> Never..clock]
           /\ task[t].left # {} => /\ Rule(t).action \in Actions
                                   /\ After(t) \in SUBSET Indices
<1>1. task[t] \in Handler /\ InPlace(task[t])
  BY DEF GovernorSafe, HandlersTyped
<1>2. clock \in Nat
  BY GovernanceAssumption DEF GovernorSafe, StampsTyped
<1>3. task[t].left # {} => Rule(t).action \in Actions /\ After(t) \in SUBSET Indices
  BY <1>1, NextRule DEF Rule, After
<1> QED BY <1>1, <1>2, <1>3 DEF GovernorSafe, EnvTyped, LoadTyped, StampsTyped

\* A handler gets the loop and copies its rules.
LEMMA BeginKept == ASSUME GovernorSafe, NEW t \in Tasks, Begin(t) PROVE GovernorSafe'
<1> DEFINE x == [task[t] EXCEPT !.at = "run"]
           new == [x EXCEPT !.left = {i \in loaded : Policies[i].enabled /\ i \in task[t].holds}]
<1>1. /\ task[t].at = "ready" /\ Rest /\ UNCHANGED <<env, stamp, ran>> /\ UNCHANGED promotionVars
      /\ task' = [task EXCEPT ![t] = new] /\ loop' = t
  BY DEF Begin, At
<1>2. task[t] \in Handler /\ loaded \subseteq Indices
  BY AtHand DEF GovernorSafe, LoadTyped
<1>3. x \in Handler /\ x.at = "run"
  BY <1>2 DEF Handler
<1>4. {i \in loaded : Policies[i].enabled /\ i \in task[t].holds} \in SUBSET Indices
  BY <1>2
<1> HIDE DEF x
<1>5. new \in Handler /\ new.at = "run"
  BY <1>3, <1>4 DEF Handler
<1> HIDE DEF new
<1>6. ~Waits(new) /\ ~Waits(task[t]) /\ loop' \in Tasks \cup {NoTask}
  BY <1>1, <1>5 DEF Waits
<1> QED BY <1>1, <1>5, <1>6, QuietKept

\* A rule on cooldown is passed over.
LEMMA SkipKept == ASSUME GovernorSafe, NEW t \in Tasks, Skip(t) PROVE GovernorSafe'
<1> DEFINE new == [task[t] EXCEPT !.left = After(t)]
<1>1. /\ task[t].at = "run" /\ task[t].left # {} /\ Rest
      /\ UNCHANGED <<env, stamp, ran>> /\ UNCHANGED promotionVars
      /\ task' = [task EXCEPT ![t] = new] /\ loop' = loop
  BY DEF Skip, At
<1>2. task[t] \in Handler /\ After(t) \in SUBSET Indices /\ loop' \in Tasks \cup {NoTask}
  BY <1>1, AtHand
<1>3. new \in Handler /\ new.at = "run"
  BY <1>1, <1>2 DEF Handler
<1> HIDE DEF new
<1>4. ~Waits(new) /\ ~Waits(task[t])
  BY <1>1, <1>3 DEF Waits
<1> QED BY <1>1, <1>2, <1>3, <1>4, QuietKept

\* A handler is through with its rules.
LEMMA FinishKept == ASSUME GovernorSafe, NEW t \in Tasks, Finish(t) PROVE GovernorSafe'
<1>1. /\ task[t].at = "run" /\ Rest /\ UNCHANGED <<env, stamp, ran>> /\ UNCHANGED promotionVars
      /\ task' = [task EXCEPT ![t] = Idle] /\ loop' = NoTask
  BY DEF Finish, At
<1>2. Idle \in Handler /\ ~Waits(Idle) /\ ~Waits(task[t])
  BY <1>1 DEF Idle, Handler, Waits
<1>3. loop' \in Tasks \cup {NoTask}
  BY <1>1
<1> QED BY <1>1, <1>2, <1>3, QuietKept

\* Another action than a promotion: announced at once, or when there is room.
LEMMA ActKept == ASSUME GovernorSafe, NEW t \in Tasks, Act(t) PROVE GovernorSafe'
<1> DEFINE a == Rule(t).action
           on == [task[t] EXCEPT !.left = After(t)]
           waiting == [task[t] EXCEPT !.at = "publish"]
<1>1. /\ task[t].at = "run" /\ task[t].left # {} /\ loop = t /\ Rest
      /\ UNCHANGED promotionVars /\ ran' = [ran EXCEPT ![a] = clock] /\ env' = Effect(a, env)
  BY DEF Act, Executes, At
<1>2. /\ task[t] \in Handler /\ env \in Envs /\ clock \in Nat
      /\ stamp \in [Actions -> Never..clock] /\ ran \in [Actions -> Never..clock]
      /\ a \in Actions /\ After(t) \in SUBSET Indices
  BY <1>1, AtHand
<1>3. env' \in Envs /\ PromotionSafe' /\ edits' = edits
  BY <1>1, <1>2, EffectTyped, PromotionStays DEF GovernorSafe, promotionVars
<1>4. clock \in Never..clock
  BY <1>2 DEF Never
<1>5. ran' \in [Actions -> Never..clock] /\ ran'[a] = clock /\ \A b \in Actions \ {a} : ran'[b] = ran[b]
  BY <1>1, <1>2, <1>4
<1>6. \A b : ~WaitsFor(task[t], b)
  BY <1>1 DEF WaitsFor, Waits
<1>7. ASSUME Stamped(t), task' = [task EXCEPT ![t] = on], loop' = loop PROVE GovernorSafe'
  <2>1. /\ stamp' \in [Actions -> Never..clock] /\ stamp'[a] = clock
        /\ \A b \in Actions \ {a} : stamp'[b] = stamp[b]
    BY <1>2, <1>4, <1>7 DEF Stamped
  <2>2. on \in Handler /\ on.at = "run"
    BY <1>1, <1>2 DEF Handler
  <2> HIDE DEF on, a
  <2>3. InPlace(on) /\ loop' \in Tasks \cup {NoTask}
    BY <1>1, <1>7, <2>2 DEF InPlace, Waits
  <2>4. Accounted(on, {a})
    BY <1>2, <1>5, <2>1 DEF Accounted
  <2>5. Apart(task[t], {a})
    BY <1>5, <1>6, <2>1 DEF Apart
  <2> QED BY <1>1, <1>3, <1>5, <1>7, <2>1, <2>2, <2>3, <2>4, <2>5, HandlerKept
<1>8. ASSUME task' = [task EXCEPT ![t] = waiting], loop' = NoTask, UNCHANGED stamp PROVE GovernorSafe'
  <2>1. /\ waiting \in Handler /\ waiting.at = "publish" /\ waiting.left = task[t].left
    BY <1>1, <1>2 DEF Handler
  <2>2. InPlace(waiting) /\ WaitsFor(waiting, a) /\ loop' \in Tasks \cup {NoTask}
    <3> HIDE DEF waiting
    <3> QED BY <1>1, <1>8, <2>1 DEF InPlace, Waits, WaitsFor, Rule
  <2> HIDE DEF waiting, a
  <2>3. Accounted(waiting, {a})
    BY <2>2 DEF Accounted
  <2>4. Apart(task[t], {a})
    BY <1>5, <1>6, <1>8 DEF Apart
  <2>5. stamp' \in [Actions -> Never..clock]
    BY <1>2, <1>8
  <2> QED BY <1>1, <1>3, <1>5, <1>8, <2>1, <2>2, <2>3, <2>4, <2>5, HandlerKept
<1> QED BY <1>1, <1>7, <1>8 DEF Act

\* A promotion begins.
LEMMA PromoteKept == ASSUME GovernorSafe, NEW t \in Tasks, Promote(t) PROVE GovernorSafe'
<1> DEFINE a == Rule(t).action
           waiting == [task[t] EXCEPT !.at = "promote"]
<1>1. /\ task[t].at = "run" /\ task[t].left # {} /\ Rest /\ PromoteRead(t) /\ a = "promote_model"
      /\ ran' = [ran EXCEPT ![a] = clock] /\ UNCHANGED <<env, stamp>>
      /\ task' = [task EXCEPT ![t] = waiting] /\ loop' = NoTask
  BY DEF Promote, Executes, At
<1>2. /\ task[t] \in Handler /\ env \in Envs /\ clock \in Nat
      /\ stamp \in [Actions -> Never..clock] /\ ran \in [Actions -> Never..clock] /\ a \in Actions
  BY <1>1, AtHand
<1>3. PromotionSafe' /\ edits' = edits
  <2>1. t \in Runs
    BY GovernanceAssumption
  <2> QED BY <1>1, <2>1, ReadKept DEF GovernorSafe, PromoteRead, Kept
<1>4. clock \in Never..clock
  BY <1>2 DEF Never
<1>5. ran' \in [Actions -> Never..clock] /\ \A b \in Actions \ {a} : ran'[b] = ran[b]
  BY <1>1, <1>2, <1>4
<1>6. waiting \in Handler /\ waiting.at = "promote" /\ waiting.left = task[t].left
  BY <1>1, <1>2 DEF Handler
<1>7. InPlace(waiting) /\ WaitsFor(waiting, a) /\ loop' \in Tasks \cup {NoTask}
  <2> HIDE DEF waiting
  <2> QED BY <1>1, <1>6 DEF InPlace, Waits, WaitsFor, Rule
<1> HIDE DEF waiting, a
<1>8. Accounted(waiting, {a})
  BY <1>7 DEF Accounted
<1>9. Apart(task[t], {a})
  BY <1>1, <1>5 DEF WaitsFor, Waits, Apart
<1>10. env' \in Envs /\ stamp' \in [Actions -> Never..clock]
  BY <1>1, <1>2
<1> QED BY <1>1, <1>3, <1>5, <1>6, <1>7, <1>8, <1>9, <1>10, HandlerKept

\* The thread of a promotion is done.
LEMMA PromotedKept == ASSUME GovernorSafe, NEW t \in Tasks, Promoted(t) PROVE GovernorSafe'
<1> DEFINE a == Rule(t).action
           new == [task[t] EXCEPT !.at = "publish"]
<1>1. /\ task[t].at = "promote" /\ Rest /\ UNCHANGED promotionVars /\ UNCHANGED <<loop, env, stamp, ran>>
      /\ task' = [task EXCEPT ![t] = new]
  BY DEF Promoted, OffLoop, At
<1>2. /\ task[t] \in Handler /\ InPlace(task[t]) /\ env \in Envs /\ loop \in Tasks \cup {NoTask}
      /\ stamp \in [Actions -> Never..clock] /\ ran \in [Actions -> Never..clock]
  BY AtHand
<1>3. PromotionSafe' /\ edits' = edits
  BY <1>1, PromotionStays DEF GovernorSafe, promotionVars
<1>4. new \in Handler /\ new.at = "publish" /\ new.left = task[t].left
  BY <1>1, <1>2 DEF Handler
<1> HIDE DEF new
<1>5. InPlace(new) /\ WaitsFor(new, a) /\ \A b : WaitsFor(task[t], b) => b = a
  BY <1>1, <1>2, <1>4 DEF InPlace, Waits, WaitsFor, Rule
<1> HIDE DEF a
<1>6. Accounted(new, {a})
  BY <1>5 DEF Accounted
<1>7. Apart(task[t], {a})
  BY <1>1, <1>5 DEF Apart
<1>8. /\ loop' \in Tasks \cup {NoTask} /\ env' \in Envs
      /\ stamp' \in [Actions -> Never..clock] /\ ran' \in [Actions -> Never..clock]
  BY <1>1, <1>2
<1> QED BY <1>1, <1>3, <1>4, <1>5, <1>6, <1>7, <1>8, HandlerKept

\* A promotion fails: what it executed is not counted as executed.
LEMMA FailsKept == ASSUME GovernorSafe, NEW t \in Tasks, PromotionFails(t) PROVE GovernorSafe'
<1> DEFINE a == "promote_model"
<1>1. /\ task[t].at = "promote" /\ run[t].at = "check" /\ Set(t, AtRest) /\ Rest
      /\ task' = [task EXCEPT ![t] = Idle] /\ ran' = [ran EXCEPT ![a] = Never]
      /\ UNCHANGED <<loop, env, stamp>>
      /\ UNCHANGED <<book, router, tag, clean, rules, edits, missed>>
  BY DEF PromotionFails, Kept, At
<1>2. /\ task[t] \in Handler /\ InPlace(task[t]) /\ env \in Envs /\ loop \in Tasks \cup {NoTask}
      /\ stamp \in [Actions -> Never..clock] /\ ran \in [Actions -> Never..clock] /\ clock \in Nat
      /\ task[t].left # {} => Rule(t).action \in Actions
  BY AtHand
<1>3. PromotionSafe'
  <2>1. t \in Runs
    BY GovernanceAssumption
  <2> QED BY <1>1, <2>1, FailKept DEF GovernorSafe
<1>4. a \in Actions /\ \A b : WaitsFor(task[t], b) => b = a
  BY <1>1, <1>2 DEF InPlace, Waits, WaitsFor, Rule
<1>5. Idle \in Handler /\ InPlace(Idle)
  BY DEF Idle, Handler, InPlace, Waits
<1>6. Never \in Never..clock
  BY <1>2 DEF Never
<1>7. ran' \in [Actions -> Never..clock] /\ ran'[a] = Never /\ \A b \in Actions \ {a} : ran'[b] = ran[b]
  BY <1>1, <1>2, <1>4, <1>6
<1>8. Accounted(Idle, {a})
  BY <1>7 DEF Accounted
<1>9. Apart(task[t], {a})
  BY <1>1, <1>4, <1>7 DEF Apart
<1>10. loop' \in Tasks \cup {NoTask} /\ env' \in Envs /\ stamp' \in [Actions -> Never..clock] /\ edits' = edits
  BY <1>1, <1>2
<1> QED BY <1>1, <1>3, <1>5, <1>7, <1>8, <1>9, <1>10, HandlerKept

\* There is room again: the action is announced, and its cooldown begins.
LEMMA ResumeKept == ASSUME GovernorSafe, NEW t \in Tasks, Resume(t) PROVE GovernorSafe'
<1> DEFINE a == Rule(t).action
           x == [task[t] EXCEPT !.at = "run"]
           new == [x EXCEPT !.left = After(t)]
<1>1. /\ task[t].at = "publish" /\ Rest /\ UNCHANGED promotionVars /\ UNCHANGED <<env, ran>>
      /\ task' = [task EXCEPT ![t] = new] /\ loop' = t /\ stamp' = [stamp EXCEPT ![a] = clock]
  BY DEF Resume, Stamped, At
<1>2. /\ task[t] \in Handler /\ env \in Envs /\ clock \in Nat
      /\ stamp \in [Actions -> Never..clock] /\ ran \in [Actions -> Never..clock]
      /\ a \in Actions /\ After(t) \in SUBSET Indices
  BY <1>1, AtHand DEF InPlace, Waits
<1>3. PromotionSafe' /\ edits' = edits
  BY <1>1, PromotionStays DEF GovernorSafe, promotionVars
<1>4. x \in Handler /\ x.at = "run"
  BY <1>2 DEF Handler
<1>5. new \in Handler /\ new.at = "run"
  <2> HIDE DEF x
  <2> QED BY <1>2, <1>4 DEF Handler
<1> HIDE DEF new
<1>6. InPlace(new) /\ \A b : WaitsFor(task[t], b) => b = a
  BY <1>5 DEF InPlace, Waits, WaitsFor, Rule
<1>7. clock \in Never..clock
  BY <1>2 DEF Never
<1>8. /\ stamp' \in [Actions -> Never..clock] /\ stamp'[a] = clock
      /\ \A b \in Actions \ {a} : stamp'[b] = stamp[b]
  BY <1>1, <1>2, <1>7
<1>9. ran'[a] \in Never..clock /\ env' \in Envs /\ ran' \in [Actions -> Never..clock]
      /\ loop' \in Tasks \cup {NoTask}
  BY <1>1, <1>2
<1>10. stamp'[a] >= ran'[a]
  BY <1>2, <1>8, <1>9 DEF Never
<1> HIDE DEF a
<1>11. Accounted(new, {a})
  BY <1>10 DEF Accounted
<1>12. Apart(task[t], {a})
  BY <1>1, <1>6, <1>8 DEF Apart
<1> QED BY <1>1, <1>3, <1>5, <1>6, <1>8, <1>9, <1>11, <1>12, HandlerKept

\* Steps that leave the handlers and what they have executed alone.
LEMMA OthersKept ==
    ASSUME GovernorSafe, PromotionSafe', UNCHANGED <<env, task, loop, stamp, ran>>,
           loaded' \subseteq Indices, events' \in 0..MaxEvents, Subscribed',
           clock' \in 0..Horizon, clock' >= clock
    PROVE  GovernorSafe'
<1>1. HandlersTyped' /\ EnvTyped' /\ LoadTyped' /\ Spaced'
  <2>1. HandlersTyped' /\ EnvTyped'
    BY DEF GovernorSafe, HandlersTyped, EnvTyped
  <2>2. Spaced'
    BY DEF GovernorSafe, Spaced
  <2>3. LoadTyped'
    BY DEF GovernorSafe, LoadTyped
  <2> QED BY <2>1, <2>2, <2>3
<1>2. StampsTyped'
  <2>1. /\ clock \in 0..Horizon /\ stamp \in [Actions -> Never..clock] /\ ran \in [Actions -> Never..clock]
    BY DEF GovernorSafe, StampsTyped
  <2>2. Never..clock \subseteq Never..clock'
    BY <2>1, GovernanceAssumption DEF Never
  <2> QED BY <2>1, <2>2 DEF StampsTyped
<1> QED BY <1>1, <1>2 DEF GovernorSafe

\* Time passes.
LEMMA TickKept == ASSUME GovernorSafe, Tick PROVE GovernorSafe'
<1>1. /\ clock < Horizon /\ clock' = clock + 1 /\ UNCHANGED promotionVars
      /\ UNCHANGED <<loaded, handlers, env, stamp, task, loop, reload, events, ran>>
  BY DEF Tick
<1>2. PromotionSafe' /\ edits' = edits
  BY <1>1, PromotionStays DEF GovernorSafe, promotionVars
<1>3. clock \in 0..Horizon /\ LoadTyped /\ Subscribed
  BY DEF GovernorSafe, StampsTyped
<1>4. clock' \in 0..Horizon /\ clock' >= clock
  BY <1>1, <1>3, GovernanceAssumption
<1>5. loaded' \subseteq Indices /\ events' \in 0..MaxEvents /\ Subscribed'
  BY <1>1, <1>2, <1>3 DEF LoadTyped, Subscribed
<1> QED BY <1>1, <1>2, <1>4, <1>5, OthersKept

\* Promotions go on, and nothing outside them is changed but the count of edits.
LEMMA PromotingSafe == ASSUME GovernorSafe, Promoting PROVE GovernorSafe'
<1>1. PromotionSafe'
  BY PromotingKept DEF GovernorSafe
<1>2. UNCHANGED <<clock, loaded, handlers, env, stamp, task, loop, reload, events, ran>>
  BY DEF Promoting, governanceVars
<1>3. edits \in 0..MaxEdits /\ clock \in 0..Horizon /\ LoadTyped /\ Subscribed
  BY DEF GovernorSafe, PromotionSafe, PromotionTyped, StampsTyped
<1>4. edits' = edits \/ edits' = edits + 1
  <2>1. CASE PromotionEnv
    BY <2>1 DEF PromotionEnv, RegistryEdited, RiskChanges, EngineRestarts, Edited
  <2>2. CASE \E r \in Runs : PromoteStep(r)
    BY <2>2 DEF PromoteStep, PromoteCheck, PromoteBlock, PromoteSave, PromoteSync, PromotePush, Kept
  <2> QED BY <2>1, <2>2 DEF Promoting
<1>5. Subscribed'
  BY <1>2, <1>3, <1>4 DEF Subscribed
<1>6. loaded' \subseteq Indices /\ events' \in 0..MaxEvents /\ clock' \in 0..Horizon /\ clock' >= clock
  BY <1>2, <1>3 DEF LoadTyped
<1> QED BY <1>1, <1>2, <1>5, <1>6, OthersKept

\* The three steps of a reload.
LEMMA ReloadKept ==
    ASSUME GovernorSafe, ReloadClears \/ ReloadLoads \/ ReloadSubscribes PROVE GovernorSafe'
<1>1. /\ edits \in 0..MaxEdits /\ clock \in 0..Horizon /\ LoadTyped /\ Subscribed /\ PromotionSafe
      /\ book \in Books /\ rules \in [alerts : BOOLEAN, approval : BOOLEAN]
  BY DEF GovernorSafe, PromotionSafe, PromotionTyped, StampsTyped
<1>2. /\ reload \in {"idle", "cleared", "loaded"} /\ handlers \in [Topics -> Nat]
      /\ \A p \in Topics : handlers[p] + (IF reload = "idle" THEN 0 ELSE 1) <= 1 + edits
  BY <1>1 DEF Subscribed
<1>3. UNCHANGED <<clock, env, stamp, task, loop, events, ran>>
  BY DEF ReloadClears, ReloadLoads, ReloadSubscribes, KeptStamps
<1>4. CASE ReloadClears
  <2>1. /\ reload = "idle" /\ reload' = "cleared" /\ loaded' = {} /\ UNCHANGED handlers
        /\ edits < MaxEdits /\ edits' = edits + 1
        /\ UNCHANGED <<book, router, tag, rules, run, clean, missed>>
    BY <1>4 DEF ReloadClears, Edited
  <2>2. edits' \in 0..MaxEdits
    BY <1>1, <2>1, PromotionAssumption
  <2>3. PromotionSafe'
    BY <1>1, <2>1, <2>2, EnvKept
  <2>4. Subscribed'
    BY <1>1, <1>2, <2>1 DEF Subscribed
  <2>5. loaded' \subseteq Indices /\ events' \in 0..MaxEvents /\ clock' \in 0..Horizon /\ clock' >= clock
    BY <1>1, <1>3, <2>1 DEF LoadTyped
  <2> QED BY <1>3, <2>3, <2>4, <2>5, OthersKept
<1>5. CASE ReloadLoads
  <2>1. UNCHANGED handlers /\ UNCHANGED promotionVars /\ reload = "cleared" /\ reload' \in {"cleared", "loaded"}
    BY <1>5 DEF ReloadLoads
  <2>2. PromotionSafe' /\ edits' = edits
    BY <1>1, <2>1, PromotionStays DEF promotionVars
  <2>3. Subscribed'
    BY <1>2, <2>1, <2>2 DEF Subscribed
  <2>4. loaded' \subseteq Indices
    <3>1. ASSUME loaded # Indices PROVE Min(Indices \ loaded) \in Indices
      <4> DEFINE missing == Indices \ loaded
      <4>1. missing # {} /\ missing \subseteq Indices
        BY <1>1, <3>1 DEF LoadTyped
      <4>2. missing \in SUBSET Nat
        BY <4>1, GovernanceAssumption
      <4> HIDE DEF missing
      <4>3. Min(missing) \in Indices
        BY <4>1, <4>2, MinNat
      <4> QED BY <4>3 DEF missing
    <3> QED BY <1>1, <1>5, <3>1 DEF ReloadLoads, LoadTyped
  <2>5. events' \in 0..MaxEvents /\ clock' \in 0..Horizon /\ clock' >= clock
    BY <1>1, <1>3 DEF LoadTyped
  <2> QED BY <1>3, <2>2, <2>3, <2>4, <2>5, OthersKept
<1>6. CASE ReloadSubscribes
  <2>1. /\ UNCHANGED loaded /\ UNCHANGED promotionVars /\ reload = "loaded" /\ reload' = "idle"
        /\ handlers' = [p \in Topics |->
                          IF \E i \in loaded : Policies[i].enabled /\ Policies[i].trigger = p
                          THEN handlers[p] + 1 ELSE handlers[p]]
    BY <1>6 DEF ReloadSubscribes
  <2>2. PromotionSafe' /\ edits' = edits
    BY <1>1, <2>1, PromotionStays DEF promotionVars
  <2>3. ASSUME NEW p \in Topics PROVE handlers'[p] \in Nat /\ handlers'[p] <= 1 + edits
    <3>1. handlers[p] \in Nat /\ handlers[p] + 1 <= 1 + edits
      BY <1>2, <2>1
    <3>2. handlers'[p] \in {handlers[p], handlers[p] + 1}
      BY <2>1
    <3> QED BY <1>1, <3>1, <3>2
  <2>4. Subscribed'
    <3>1. handlers' \in [Topics -> Nat]
      BY <2>1, <2>3
    <3> QED BY <1>1, <2>1, <2>2, <2>3, <3>1 DEF Subscribed
  <2>5. loaded' \subseteq Indices /\ events' \in 0..MaxEvents /\ clock' \in 0..Horizon /\ clock' >= clock
    BY <1>1, <1>3, <2>1 DEF LoadTyped
  <2> QED BY <1>3, <2>2, <2>4, <2>5, OthersKept
<1> QED BY <1>4, <1>5, <1>6

\* An event wakes handlers that were at rest.
LEMMA DeliverKept == ASSUME GovernorSafe, Deliver PROVE GovernorSafe'
<1>1. /\ events < MaxEvents /\ events' = events + 1 /\ UNCHANGED promotionVars
      /\ UNCHANGED <<clock, loaded, handlers, reload, loop, env, stamp, ran>>
  BY DEF Deliver, OffLoop
<1>2. PICK e \in Events : \E ts \in kSubset(handlers[e.topic], Free) :
        task' = [t \in Tasks |-> IF t \in ts
                 THEN [at |-> "ready", left |-> {}, holds |-> {i \in e.holds : Policies[i].trigger = e.topic}]
                 ELSE task[t]]
  BY DEF Deliver
<1>3. PICK ts \in SUBSET Free :
        task' = [t \in Tasks |-> IF t \in ts
                 THEN [at |-> "ready", left |-> {}, holds |-> {i \in e.holds : Policies[i].trigger = e.topic}]
                 ELSE task[t]]
  BY <1>2 DEF kSubset
<1> DEFINE held == {i \in e.holds : Policies[i].trigger = e.topic}
           new == [at |-> "ready", left |-> {}, holds |-> held]
<1>4. held \in SUBSET Indices
  BY GovernanceAssumption
<1>5. new \in Handler /\ new.at = "ready"
  <2> HIDE DEF held
  <2> QED BY <1>4 DEF Handler
<1>6. InPlace(new)
  BY <1>5 DEF InPlace, Waits
<1>7. task' = [t \in Tasks |-> IF t \in ts THEN new ELSE task[t]]
  BY <1>3
<1> HIDE DEF new
<1>8. task \in [Tasks -> Handler] /\ \A t \in Tasks : InPlace(task[t])
  BY DEF GovernorSafe, HandlersTyped
<1>9. HandlersTyped'
  <2>1. task' \in [Tasks -> Handler]
    BY <1>5, <1>7, <1>8
  <2>2. \A t \in Tasks : InPlace(task'[t])
    BY <1>6, <1>7, <1>8
  <2> QED BY <2>1, <2>2 DEF HandlersTyped
<1>10. Spaced'
  <2>1. ASSUME NEW a \in Actions, NEW t \in Tasks, WaitsFor(task[t], a) PROVE WaitsFor(task'[t], a)
    <3>1. t \notin ts
      BY <2>1 DEF WaitsFor, Waits, Free, At
    <3>2. task'[t] = task[t]
      BY <1>7, <3>1
    <3> QED BY <2>1, <3>2
  <2> QED BY <1>1, <2>1 DEF GovernorSafe, Spaced
<1>11. PromotionSafe' /\ edits' = edits
  BY <1>1, PromotionStays DEF GovernorSafe, promotionVars
<1>12. EnvTyped' /\ Subscribed' /\ StampsTyped'
  BY <1>1, <1>11 DEF GovernorSafe, EnvTyped, Subscribed, StampsTyped
<1>13. LoadTyped'
  <2>1. events \in 0..MaxEvents
    BY DEF GovernorSafe, LoadTyped
  <2>2. events' \in 0..MaxEvents
    BY <1>1, <2>1, GovernanceAssumption
  <2> QED BY <1>1, <2>2 DEF GovernorSafe, LoadTyped
<1> QED BY <1>9, <1>10, <1>11, <1>12, <1>13 DEF GovernorSafe

\* What the daemon starts with.
LEMMA FreshDaemon ==
    /\ [t \in Tasks |-> Idle] \in [Tasks -> Handler] /\ InPlace(Idle)
    /\ Start \in Limits /\ [trading |-> TRUE, max |-> Start] \in Envs
    /\ [p \in Topics |-> IF p \in Triggers THEN 1 ELSE 0] \in [Topics -> 0..1]
<1>1. Idle \in Handler /\ InPlace(Idle)
  BY DEF Idle, Handler, InPlace, Waits
<1>2. Start \in Limits
  BY GovernanceAssumption DEF Limits
<1>3. [trading |-> TRUE, max |-> Start] \in Envs
  BY <1>2 DEF Envs
<1> QED BY <1>1, <1>2, <1>3

\* The engine of the daemon starts again.
LEMMA GovernanceRestartKept == ASSUME GovernorSafe, GovernanceRestart PROVE GovernorSafe'
<1>1. /\ edits < MaxEdits /\ edits' = edits + 1 /\ loaded' = Indices
      /\ handlers' = [p \in Topics |-> IF p \in Triggers THEN 1 ELSE 0]
      /\ env' = [trading |-> TRUE, max |-> Start]
      /\ stamp' = [a \in Actions |-> Never] /\ ran' = [a \in Actions |-> Never]
      /\ task' = [t \in Tasks |-> Idle] /\ loop' = NoTask /\ reload' = "idle"
      /\ run' = [r \in Runs |-> AtRest]
      /\ clean' = (clean /\ \A r \in Runs : run[r].at = "idle")
      /\ Forgets(Home) /\ UNCHANGED <<clock, events, book, router, rules>>
  BY DEF GovernanceRestart, Edited
<1>2. /\ edits \in 0..MaxEdits /\ clock \in 0..Horizon /\ LoadTyped /\ PromotionSafe
  BY DEF GovernorSafe, PromotionSafe, PromotionTyped, StampsTyped
<1>3. edits' \in 0..MaxEdits
  BY <1>1, <1>2, PromotionAssumption
<1>4. PromotionSafe'
  BY <1>1, <1>2, <1>3, RestartKept
<1>5. HandlersTyped' /\ EnvTyped'
  BY <1>1, FreshDaemon DEF HandlersTyped, EnvTyped
<1>6. LoadTyped'
  BY <1>1, <1>2 DEF LoadTyped
<1>7. Subscribed'
  <2>1. handlers' \in [Topics -> 0..1]
    BY <1>1, FreshDaemon
  <2>2. handlers' \in [Topics -> Nat] /\ \A p \in Topics : handlers'[p] <= 1 + edits'
    BY <1>3, <2>1
  <2> QED BY <1>1, <2>2 DEF Subscribed
<1>8. StampsTyped' /\ Spaced'
  <2>1. Never \in Never..clock
    BY <1>2 DEF Never
  <2> QED BY <1>1, <1>2, <2>1 DEF StampsTyped, Spaced
<1> QED BY <1>4, <1>5, <1>6, <1>7, <1>8 DEF GovernorSafe

\* The invariant holds at the start.
LEMMA GovernorStarts == ASSUME GovernanceInit PROVE GovernorSafe
<1>1. /\ clock = 0 /\ events = 0 /\ loop = NoTask /\ reload = "idle" /\ loaded = Indices
      /\ handlers = [p \in Topics |-> IF p \in Triggers THEN 1 ELSE 0]
      /\ env = [trading |-> TRUE, max |-> Start]
      /\ stamp = [a \in Actions |-> Never] /\ ran = [a \in Actions |-> Never]
      /\ task = [t \in Tasks |-> Idle]
  BY DEF GovernanceInit
<1>2. /\ book = Blank /\ router = NoModel /\ tag = [e \in Engines |-> NoModel]
      /\ rules \in [alerts: {FALSE}, approval: BOOLEAN]
      /\ run = [r \in Runs |-> AtRest] /\ edits = 0 /\ clean /\ missed = {}
  BY DEF GovernanceInit, PromotionInit
<1>3. clean \in BOOLEAN
  BY Zenon DEF GovernanceInit, PromotionInit
<1>4. PromotionSafe
  <2>1. book \in Books /\ router \in Models \cup {NoModel} /\ tag \in [Engines -> Models \cup {NoModel}]
    BY <1>2, RestFacts
  <2>2. rules \in [alerts : BOOLEAN, approval : BOOLEAN]
    BY <1>2
  <2>3. run \in [Runs -> Promotion] /\ \A r \in Runs : run[r] = AtRest /\ run[r].at = "idle"
    BY <1>2, RestFacts
  <2>4. edits \in 0..MaxEdits /\ missed \subseteq Engines
    BY <1>2, PromotionAssumption
  <2>5. PromotionTyped
    BY <1>3, <2>1, <2>2, <2>3, <2>4 DEF PromotionTyped
  <2>6. book.current = NoModel
    BY <1>2 DEF Blank
  <2>7. Agree(book, router, tag, missed)
    BY <1>2, <2>6 DEF Agree
  <2>8. OneAtWork(run) /\ \A r \in Runs : Underway(run[r], book, router, tag, missed)
    BY <2>3, RestFacts DEF OneAtWork
  <2> QED BY <2>5, <2>7, <2>8 DEF PromotionSafe, Orderly
<1>5. HandlersTyped /\ EnvTyped
  BY <1>1, FreshDaemon DEF HandlersTyped, EnvTyped
<1>6. LoadTyped
  BY <1>1, GovernanceAssumption DEF LoadTyped
<1>7. Subscribed
  <2>1. handlers \in [Topics -> 0..1]
    BY <1>1, FreshDaemon
  <2>2. handlers \in [Topics -> Nat] /\ \A p \in Topics : handlers[p] <= 1 + edits
    BY <1>2, <2>1
  <2> QED BY <1>1, <2>2 DEF Subscribed
<1>8. StampsTyped /\ Spaced
  BY <1>1, GovernanceAssumption DEF StampsTyped, Spaced, Never
<1> QED BY <1>4, <1>5, <1>6, <1>7, <1>8 DEF GovernorSafe

\* Every step keeps the invariant.
LEMMA GovernorKept == ASSUME GovernorSafe, [GovernanceNext]_governorVars PROVE GovernorSafe'
<1>1. ASSUME NEW t \in Tasks, Handling(t) PROVE GovernorSafe'
  BY <1>1, BeginKept, SkipKept, ActKept, PromoteKept, PromotedKept, FailsKept, ResumeKept,
     FinishKept DEF Handling
<1>2. ASSUME UNCHANGED governorVars PROVE GovernorSafe'
  <2>1. UNCHANGED <<clock, loaded, handlers, env, stamp, task, loop, reload, events, ran>>
        /\ UNCHANGED promotionVars
    BY <1>2 DEF governorVars, governanceVars
  <2>2. PromotionSafe' /\ edits' = edits
    BY <2>1, PromotionStays DEF GovernorSafe, promotionVars
  <2>3. clock \in 0..Horizon /\ LoadTyped /\ Subscribed
    BY DEF GovernorSafe, StampsTyped
  <2>4. /\ loaded' \subseteq Indices /\ events' \in 0..MaxEvents /\ Subscribed'
        /\ clock' \in 0..Horizon /\ clock' >= clock
    BY <2>1, <2>2, <2>3 DEF LoadTyped, Subscribed
  <2> QED BY <2>1, <2>2, <2>4, OthersKept
<1> QED BY <1>1, <1>2, DeliverKept, TickKept, GovernanceRestartKept, PromotingSafe, ReloadKept
        DEF GovernanceNext

\* The governor's state stays typed (the limits it sets among them stay within 5 and
\* 1000 dollars), and as long as promotions run one after the other and to their
\* ends, the registry, the router's weights and the engines that answer agree on the
\* current model (promote_best, POST /strategy/promote).
THEOREM GovernanceSound == GovernanceSpec => []GovernanceInv
<1>1. GovernorSafe => GovernanceInv
  <2> SUFFICES ASSUME GovernorSafe PROVE GovernanceInv
    OBVIOUS
  <2>1. PromotionTypeOK
    <3>1. \A r \in Runs : /\ run[r].at \in {"idle", "check", "save", "block", "sync", "push"}
                          /\ run[r].view \in Books /\ run[r].best \in Models \cup {NoModel}
                          /\ run[r].todo \subseteq Engines
      BY DEF GovernorSafe, PromotionSafe, PromotionTyped, Promotion
    <3>2. clean \in BOOLEAN
      BY Zenon DEF GovernorSafe, PromotionSafe, PromotionTyped
    <3> QED BY <3>1, <3>2 DEF GovernorSafe, PromotionSafe, PromotionTyped, PromotionTypeOK
  <2>2. handlers \in [Topics -> 0..1 + MaxEdits]
    <3>1. handlers \in [Topics -> Nat] /\ edits \in 0..MaxEdits /\ \A p \in Topics : handlers[p] <= 1 + edits
      BY DEF GovernorSafe, PromotionSafe, PromotionTyped, Subscribed
    <3>2. \A p \in Topics : handlers[p] \in 0..1 + MaxEdits
      BY <3>1, PromotionAssumption
    <3> QED BY <3>1, <3>2
  <2>3. stamp \in [Actions -> Never..Horizon] /\ clock \in 0..Horizon
    <3>1. clock \in 0..Horizon /\ stamp \in [Actions -> Never..clock]
      BY DEF GovernorSafe, StampsTyped
    <3>2. Never..clock \subseteq Never..Horizon
      BY <3>1, GovernanceAssumption DEF Never
    <3> QED BY <3>1, <3>2
  <2>4. \A t \in Tasks : /\ task[t].at \in {"idle", "ready", "run", "promote", "publish", "failed"}
                         /\ task[t].holds \subseteq Indices /\ task[t].left \subseteq Indices
    BY DEF GovernorSafe, HandlersTyped, Handler
  <2>5. env \in [trading : BOOLEAN, max : 5..1000]
    BY DEF GovernorSafe, EnvTyped, Envs, Limits
  <2>6. PlacesAgree
    BY DEF GovernorSafe, PromotionSafe, Orderly, PlacesAgree, AllIdle, Agree
  <2> QED BY <2>1, <2>2, <2>3, <2>4, <2>5, <2>6
          DEF GovernorSafe, LoadTyped, Subscribed, GovernanceTypeOK, GovernanceInv
<1> QED BY <1>1, GovernorStarts, GovernorKept, PTL DEF GovernanceSpec

\* No step executes an action within the cooldown of its rule, unless another
\* execution of it has not been announced yet (handle_event, reload_policies).
THEOREM SpacingHolds == GovernanceSpec => ActionsSpaced
<1>1. ASSUME GovernorSafe, [GovernanceNext]_governorVars, NEW t \in Tasks, Executes(t)
      PROVE  LET last == ran[Rule(t).action]
             IN  last = Never \/ Pending(Rule(t).action) \/ clock - last >= Rule(t).cooldown
  <2> DEFINE rule == Rule(t)
             a == rule.action
  <2>1. task[t].left # {} /\ ~OnCooldown(rule)
    BY <1>1 DEF Executes
  <2>2. /\ a \in Actions /\ clock \in Nat
        /\ stamp \in [Actions -> Never..clock] /\ ran \in [Actions -> Never..clock]
    BY <1>1, <2>1, AtHand
  <2>3. rule.cooldown \in Nat
    <3>1. Min(task[t].left) \in Indices
      BY <1>1, <2>1, NextRule, AtHand
    <3> QED BY <3>1, GovernanceAssumption DEF Rule
  <2>4. rule.cooldown = 0 \/ stamp[a] = Never \/ clock - stamp[a] >= rule.cooldown
    BY <2>1, <2>2, <2>3 DEF OnCooldown, Never
  <2>5. ran[a] = Never \/ Pending(a) \/ stamp[a] >= ran[a]
    BY <1>1, <2>2 DEF GovernorSafe, Spaced, WaitsFor, Waits, Pending, Rule
  <2> HIDE DEF rule, a
  <2>6. stamp[a] \in Never..clock /\ ran[a] \in Never..clock
    BY <2>2
  <2>7. ran[a] = Never \/ Pending(a) \/ clock - ran[a] >= rule.cooldown
    BY <2>2, <2>3, <2>4, <2>5, <2>6 DEF Never
  <2> QED BY <2>7 DEF rule, a
<1>2. GovernorSafe /\ [GovernanceNext]_governorVars
        => [\A t \in Tasks : Executes(t) =>
              LET last == ran[Rule(t).action]
              IN  last = Never \/ Pending(Rule(t).action) \/ clock - last >= Rule(t).cooldown]_governorVars
  BY <1>1
<1> QED BY <1>2, GovernorStarts, GovernorKept, PTL DEF GovernanceSpec, ActionsSpaced
=============================================================================
