------------------------------ MODULE TradingGate ------------------------------
(***************************************************************************)
(* The trading gate of the engine: everything that decides whether an order *)
(* may be sent at all, and everything that opens or closes that gate.       *)
(*                                                                         *)
(*  - two RiskRails objects, one behind the HTTP endpoints ("app") and one  *)
(*    behind the strategy executor ("strategy"), each with an in-memory     *)
(*    latch, a configuration switch and a circuit breaker;                  *)
(*  - the flag file state/trading_enabled.flag, shared by both and kept     *)
(*    across restarts;                                                      *)
(*  - the RiskGuardian loop (daily stop, day rollover, critical margin),    *)
(*    which writes the flag and publishes PAUSE on the event bus;           *)
(*  - the bus queue, bounded: a publisher waits while it is full;           *)
(*  - the telemetry watchdog, the operator's endpoints, and restarts.       *)
(*                                                                         *)
(* An await of the code ends an action.  Profit and loss is a small integer *)
(* and the loss limit is LossLimit; the later checks of check_order (shape, *)
(* notional, exposure, equity, rate, symbol lock) are not part of the gate: *)
(* the outcome "OK" means that the order has passed it.  The flag file is   *)
(* writable (the code ignores a failed write), and a write is whole.        *)
(***************************************************************************)
EXTENDS Integers, Sequences

CONSTANTS LossLimit,     \* daily loss at which the guardian stops trading
          QueueMax,      \* EVENTBUS_QUEUE_MAX
          LastDay,       \* bound: days are 0..LastDay
          PnlBound,      \* bound: realized profit and loss is -PnlBound..PnlBound
          MaxBoots       \* bound: the process starts at most MaxBoots times

ASSUME GateAssumption ==
    /\ LossLimit \in Nat \ {0}
    /\ QueueMax \in Nat \ {0}
    /\ LastDay \in Nat
    /\ PnlBound \in Nat
    /\ MaxBoots \in Nat \ {0}

Rails == {"app", "strategy"}

VARIABLES
    \* the two RiskRails objects
    latch,        \* _manual_trading_disabled
    cfgOn,        \* cfg.trading_enabled
    breaker,      \* _external_breaker_active
    \* the flag file
    flag,         \* "none" when the file does not exist
    \* the guardian
    gpc,          \* where the guardian loop waits
    anchor,       \* _day_anchor: the day and its opening profit, or None
    paused,       \* _paused_until_utc_reset
    \* the bus
    queue,        \* the events waiting in BUS._queue
    \* the watchdog and the stream it watches
    wpc,          \* where the watchdog loop waits
    stale,        \* the user stream has been silent for more than 360 s
    graceOver,    \* more than 300 s since startup
    \* the world
    day,          \* the current trading day
    realized,     \* portfolio.state.realized
    boots,        \* how often the process has started
    \* what an observer notes
    verdict,      \* the answer of check_order in the last step, if it ran
    halted,       \* the guardian halted trading, nobody has re-armed it since
    opsOff,       \* the operator switched trading off in this process
    stopDay,      \* the day of the last daily stop the operator has not lifted
    cause         \* trading was off for some reason since the process started

gateVars  == <<latch, cfgOn, breaker, flag>>
guardVars == <<gpc, anchor, paused>>
dogVars   == <<wpc, stale, graceOver>>
worldVars == <<day, realized, boots>>
noteVars  == <<halted, opsOff, stopDay, cause>>
vars == <<gateVars, guardVars, queue, dogVars, worldVars, verdict, noteVars>>

None      == [day |-> -1, realized |-> 0]
NoVerdict == [rails |-> "none", outcome |-> "none"]
Outcomes  == {"OK", "CIRCUIT_BREAKER", "LATCH", "FLAG", "CONFIG"}
Days      == 0..LastDay
Pnl       == (-PnlBound)..PnlBound
GuardPc   == {"poll", "pubStop", "pubInfo", "health", "pubSoft", "pubSoftHard", "pubCrit"}

TypeOK ==
    /\ latch \in [Rails -> BOOLEAN]
    /\ cfgOn \in [Rails -> BOOLEAN]
    /\ breaker \in [Rails -> BOOLEAN]
    /\ flag \in {"none", "true", "false"}
    /\ gpc \in GuardPc
    /\ anchor \in {None} \cup [day : Days, realized : Pnl]
    /\ paused \in BOOLEAN
    /\ queue \in Seq({"PAUSE", "info"})
    /\ Len(queue) <= QueueMax
    /\ wpc \in {"sleep", "alert"}
    /\ stale \in BOOLEAN
    /\ graceOver \in BOOLEAN
    /\ day \in Days
    /\ realized \in Pnl
    /\ boots \in 1..MaxBoots
    /\ verdict \in {NoVerdict} \cup [rails : Rails, outcome : Outcomes]
    /\ halted \in BOOLEAN
    /\ opsOff \in BOOLEAN
    /\ stopDay \in Days \cup {-1}
    /\ cause \in BOOLEAN

Init ==
    /\ latch = [r \in Rails |-> FALSE]
    /\ cfgOn = [r \in Rails |-> TRUE]
    /\ breaker = [r \in Rails |-> FALSE]
    /\ flag \in {"none", "true", "false"}
    /\ gpc = "poll" /\ anchor = None /\ paused = FALSE
    /\ queue = <<>>
    /\ wpc = "sleep" /\ stale = FALSE /\ graceOver = FALSE
    /\ day = 0 /\ realized = 0 /\ boots = 1
    /\ verdict = NoVerdict
    /\ halted = FALSE /\ opsOff = FALSE /\ stopDay = -1
    /\ cause = (flag = "false")

-----------------------------------------------------------------------------
(* RiskRails.check_order, as far as the gate goes: the tests in the order of *)
(* the code.  Reading a disabling flag latches the rails that read it.       *)

\* Wrong variants, which the properties must tell from the code: the flag or
\* the configuration is not asked.
GateIgnoresFlag(r) ==
    IF breaker[r] THEN "CIRCUIT_BREAKER"
    ELSE IF latch[r] THEN "LATCH"
    ELSE IF ~cfgOn[r] THEN "CONFIG"
    ELSE "OK"
GateIgnoresConfig(r) ==
    IF breaker[r] THEN "CIRCUIT_BREAKER"
    ELSE IF latch[r] THEN "LATCH"
    ELSE IF flag = "false" THEN "FLAG"
    ELSE "OK"

GateAnswer(r) ==
    IF breaker[r] THEN "CIRCUIT_BREAKER"
    ELSE IF latch[r] THEN "LATCH"
    ELSE IF flag = "false" THEN "FLAG"
    ELSE IF ~cfgOn[r] THEN "CONFIG"
    ELSE "OK"

CheckOrder(r) ==
    /\ verdict' = [rails |-> r, outcome |-> GateAnswer(r)]
    /\ latch' = [latch EXCEPT ![r] = @ \/ GateAnswer(r) = "FLAG"]
    /\ UNCHANGED <<cfgOn, breaker, flag, guardVars, queue, dogVars, worldVars, noteVars>>

-----------------------------------------------------------------------------
(* The event bus, which starts before the guardian.  A publisher waits while  *)
(* the queue is full.                                                        *)

\* Wrong variant: the queue has no bound.
PublishedAnyway(evt) == queue' = Append(queue, evt)

Published(evt) == Len(queue) < QueueMax /\ queue' = Append(queue, evt)

\* Every other publisher of the engine: it only takes room in the queue.
OtherPublish ==
    /\ Published("info")
    /\ verdict' = NoVerdict
    /\ UNCHANGED <<gateVars, guardVars, dogVars, worldVars, noteVars>>

\* Wrong variants: every event latches the rails, or none does.
LatchedByAny(evt)  == [latch EXCEPT !["app"] = TRUE]
LatchedByNone(evt) == latch

\* _handle_risk_violation: PAUSE latches the rails of the application and no
\* others.
LatchedBy(evt) == IF evt = "PAUSE" THEN [latch EXCEPT !["app"] = TRUE] ELSE latch

\* The bus worker delivers an event.
BusDeliver ==
    /\ queue # <<>>
    /\ queue' = Tail(queue)
    /\ latch' = LatchedBy(Head(queue))
    /\ verdict' = NoVerdict
    /\ UNCHANGED <<cfgOn, breaker, flag, guardVars, dogVars, worldVars, noteVars>>

-----------------------------------------------------------------------------
(* RiskGuardian: one turn of _loop from the account snapshot to the sleep.   *)

NewDay == anchor.day # day
Loss   == ~NewDay /\ realized - anchor.realized <= -LossLimit

\* A new day, or the first turn of a process: anchor, un-pause, re-arm.
GuardianRollover ==
    /\ gpc = "poll" /\ NewDay
    /\ anchor' = [day |-> day, realized |-> realized]
    /\ paused' = FALSE
    /\ flag' = "true"
    /\ gpc' = "health"
    /\ halted' = FALSE
    /\ verdict' = NoVerdict
    /\ UNCHANGED <<latch, cfgOn, breaker, queue, dogVars, worldVars, opsOff, stopDay, cause>>

\* The daily stop: the flag is down before the first await.
GuardianStop ==
    /\ gpc = "poll" /\ Loss /\ ~paused
    /\ flag' = "false"
    /\ paused' = TRUE
    /\ gpc' = "pubStop"
    /\ halted' = TRUE /\ stopDay' = day /\ cause' = TRUE
    /\ verdict' = NoVerdict
    /\ UNCHANGED <<latch, cfgOn, breaker, anchor, queue, dogVars, worldVars, opsOff>>

GuardianQuiet ==
    /\ gpc = "poll" /\ ~NewDay /\ (paused \/ ~Loss)
    /\ gpc' = "health"
    /\ verdict' = NoVerdict
    /\ UNCHANGED <<gateVars, anchor, paused, queue, dogVars, worldVars, noteVars>>

\* The publishes of the daily stop: PAUSE first, then the notice.
GuardianPublishStop ==
    /\ \/ gpc = "pubStop" /\ Published("PAUSE") /\ gpc' = "pubInfo"
       \/ gpc = "pubInfo" /\ Published("info") /\ gpc' = "health"
    /\ verdict' = NoVerdict
    /\ UNCHANGED <<gateVars, anchor, paused, dogVars, worldVars, noteVars>>

\* _enforce_cross_health: the margin is fine, below its floor, or so low that
\* the account must be de-risked (with an open position to reduce or without).
GuardianHealth ==
    /\ gpc = "health"
    /\ gpc' \in {"poll", "pubSoft", "pubSoftHard"}
    /\ verdict' = NoVerdict
    /\ UNCHANGED <<gateVars, anchor, paused, queue, dogVars, worldVars, noteVars>>

\* After the soft notice a hard de-risk goes on to its own order, which raises
\* and is suppressed; only a critical score with a position then pauses.
GuardianPublishSoft ==
    /\ Published("info")
    /\ \/ gpc = "pubSoft" /\ gpc' = "poll"
       \/ gpc = "pubSoftHard" /\ gpc' \in {"poll", "pubCrit"}
    /\ verdict' = NoVerdict
    /\ UNCHANGED <<gateVars, anchor, paused, dogVars, worldVars, noteVars>>

\* The critical pause publishes first and lowers the flag when that returns.
GuardianCritical ==
    /\ gpc = "pubCrit" /\ Published("PAUSE")
    /\ flag' = "false"
    /\ gpc' = "poll"
    /\ halted' = TRUE /\ cause' = TRUE
    /\ verdict' = NoVerdict
    /\ UNCHANGED <<latch, cfgOn, breaker, anchor, paused, dogVars, worldVars, opsOff, stopDay>>

\* Wrong variant: the daily stop is never enforced.
TurnWithoutStop == GuardianRollover \/ GuardianQuiet \/ GuardianHealth

GuardianTurn    == GuardianRollover \/ GuardianStop \/ GuardianQuiet \/ GuardianHealth
GuardianPublish == GuardianPublishStop \/ GuardianPublishSoft \/ GuardianCritical

-----------------------------------------------------------------------------
(* The telemetry watchdog and the stream it watches.                         *)

StreamChanges ==
    /\ stale' = ~stale
    /\ verdict' = NoVerdict
    /\ UNCHANGED <<gateVars, guardVars, queue, wpc, graceOver, worldVars, noteVars>>

GraceEnds ==
    /\ ~graceOver
    /\ graceOver' = TRUE
    /\ verdict' = NoVerdict
    /\ UNCHANGED <<gateVars, guardVars, queue, wpc, stale, worldVars, noteVars>>

\* Wrong variants: the breaker is never reset; the wrong rails are tripped.
TripsOnly  == [breaker EXCEPT !["app"] = @ \/ stale]
TripsOther == [breaker EXCEPT !["strategy"] = stale]

\* set_circuit_breaker, on when the stream is silent and off when it is not.
BreakerSet == [breaker EXCEPT !["app"] = stale]

WatchdogTick ==
    /\ wpc = "sleep" /\ graceOver
    /\ breaker' = BreakerSet
    /\ wpc' = IF stale THEN "alert" ELSE "sleep"
    /\ verdict' = NoVerdict
    /\ UNCHANGED <<latch, cfgOn, flag, guardVars, queue, stale, graceOver, worldVars, noteVars>>

WatchdogAlert ==
    /\ wpc = "alert" /\ Published("info")
    /\ wpc' = "sleep"
    /\ verdict' = NoVerdict
    /\ UNCHANGED <<gateVars, guardVars, stale, graceOver, worldVars, noteVars>>

-----------------------------------------------------------------------------
(* The operator and the world.                                               *)

\* POST /ops/trading: the configuration of the application's rails and the flag.
OpsToggle(on) ==
    /\ cfgOn' = [cfgOn EXCEPT !["app"] = on]
    /\ flag' = IF on THEN "true" ELSE "false"
    /\ opsOff' = ~on
    /\ halted' = (halted /\ ~on)
    /\ stopDay' = IF on THEN -1 ELSE stopDay
    /\ cause' = (cause \/ ~on)
    /\ verdict' = NoVerdict
    /\ UNCHANGED <<latch, breaker, guardVars, queue, dogVars, worldVars>>

\* Wrong variant: the reload also re-arms the flag.
ReloadRearms ==
    /\ cfgOn' = [cfgOn EXCEPT !["app"] = TRUE]
    /\ flag' = "true"
    /\ opsOff' = FALSE
    /\ verdict' = NoVerdict
    /\ UNCHANGED <<latch, breaker, guardVars, queue, dogVars, worldVars, halted, stopDay, cause>>

\* POST /risk/reload: the configuration is read again from the environment.
RiskReload ==
    /\ cfgOn' = [cfgOn EXCEPT !["app"] = TRUE]
    /\ opsOff' = FALSE
    /\ verdict' = NoVerdict
    /\ UNCHANGED <<latch, breaker, flag, guardVars, queue, dogVars, worldVars, halted, stopDay, cause>>

\* A fill realizes a profit or a loss (Portfolio.apply_fill).
Fill ==
    /\ \E d \in {-1, 1} : realized + d \in Pnl /\ realized' = realized + d
    /\ verdict' = NoVerdict
    /\ UNCHANGED <<gateVars, guardVars, queue, dogVars, day, boots, noteVars>>

DayPasses ==
    /\ day < LastDay
    /\ day' = day + 1
    /\ verdict' = NoVerdict
    /\ UNCHANGED <<gateVars, guardVars, queue, dogVars, realized, boots, noteVars>>

\* The process dies and starts again: only the flag file and the portfolio
\* snapshot survive; the configuration comes from the environment.
Restart ==
    /\ boots < MaxBoots
    /\ boots' = boots + 1
    /\ latch' = [r \in Rails |-> FALSE]
    /\ cfgOn' = [r \in Rails |-> TRUE]
    /\ breaker' = [r \in Rails |-> FALSE]
    /\ gpc' = "poll" /\ anchor' = None /\ paused' = FALSE
    /\ queue' = <<>>
    /\ wpc' = "sleep" /\ stale' = FALSE /\ graceOver' = FALSE
    /\ opsOff' = FALSE
    /\ cause' = (flag = "false")
    /\ verdict' = NoVerdict
    /\ UNCHANGED <<flag, day, realized, halted, stopDay>>

Next ==
    \/ \E r \in Rails : CheckOrder(r)
    \/ OtherPublish \/ BusDeliver
    \/ GuardianTurn \/ GuardianPublish
    \/ StreamChanges \/ GraceEnds \/ WatchdogTick \/ WatchdogAlert
    \/ \E on \in BOOLEAN : OpsToggle(on)
    \/ RiskReload \/ Fill \/ DayPasses \/ Restart

\* The loops of the engine run; a waiting publisher gets a slot eventually
\* (asyncio wakes them in order).  The operator, the market and the venue owe
\* nothing.
Fairness ==
    /\ WF_vars(BusDeliver)
    /\ WF_vars(GuardianTurn) /\ SF_vars(GuardianPublish)
    /\ WF_vars(GraceEnds) /\ WF_vars(WatchdogTick) /\ SF_vars(WatchdogAlert)

Spec     == Init /\ [][Next]_vars
FairSpec == Spec /\ Fairness

-----------------------------------------------------------------------------
(* Properties.                                                               *)

\* While a halt of the guardian stands, the flag that both rails read is down:
\* no interleaving of fills, publishes, toggles and restarts loses it.
HaltKeepsFlagDown == halted => flag = "false"

\* check_order admits no order, on either path, while a halt of the guardian
\* stands.
NoOrderWhileHalted == [][verdict'.outcome = "OK" => ~halted]_vars

\* After the operator switches trading off, the order endpoints admit nothing
\* until the operator (or a reload, or a restart) switches it on again, even
\* when the guardian re-arms the flag at the day boundary in between.
OperatorOffHolds ==
    [][(verdict'.outcome = "OK" /\ verdict'.rails = "app") => ~opsOff]_vars

\* Rails are latched, and PAUSE is under way, only if trading was off for a
\* reason at some time since the process started: no stale PAUSE or flag of an
\* earlier process locks a new one.
LatchHasCause ==
    ((\E r \in Rails : latch[r]) \/ (\E i \in DOMAIN queue : queue[i] = "PAUSE")
        \/ gpc = "pubStop")
    => cause

\* A loss beyond the limit is noticed: the guardian pauses trading, unless the
\* loss is made good, the day ends or the process restarts.
LossIsStopped == Loss ~> (paused \/ ~Loss)

\* A PAUSE in the queue reaches the rails of the application, however full the
\* queue is kept, unless the process restarts first.
PauseIsDelivered ==
    \A n \in 1..MaxBoots :
        ((\E i \in DOMAIN queue : queue[i] = "PAUSE") /\ boots = n)
            ~> (latch["app"] \/ boots # n)

\* A silent user stream trips the breaker of the endpoints, and a recovered
\* one resets it, although the watchdog may wait on a full bus in between.
StreamTripsBreaker ==
    \A n \in 1..MaxBoots :
        (stale /\ boots = n) ~> (breaker["app"] \/ ~stale \/ boots # n)
BreakerRecovers == (breaker["app"] /\ ~stale) ~> (~breaker["app"] \/ stale)

\* The breaker of the endpoints follows the stream both ways (app.py:
\* _start_user_stream_watchdog): a silence trips it, and its end resets it.
BreakerFollowsStream == StreamTripsBreaker /\ BreakerRecovers
=============================================================================
