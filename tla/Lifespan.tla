-------------------------------- MODULE Lifespan --------------------------------
(***************************************************************************)
(* The life of the engine process (engine/app.py): the startup handlers run   *)
(* one after the other in the order of their registration, each starts its    *)
(* parts, and the shutdown handlers stop some of them.  The event loop runs   *)
(* what has been started whenever a handler really awaits (the clock probe,   *)
(* the balances, the restoration in its thread) and once the startup is over. *)
(*                                                                         *)
(* What depends on that order is modelled beside it: the daily stop of the    *)
(* guardian takes the realized result of its first poll as the start of the   *)
(* day, while the thread of a later handler restores that result from the     *)
(* snapshot.  How the stop is delivered, and the days that follow, are in     *)
(* TradingGate; the snapshot is in Books.                                    *)
(***************************************************************************)
EXTENDS Integers, Sequences, SequencesExt

CONSTANTS Optional,   \* parts that a configuration disables or whose start fails
          LossLimit,  \* the daily loss that stops trading
          Saved,      \* realized results a snapshot may hold
          MaxTrades   \* fills in a run

ASSUME LifespanAssumption ==
    /\ LossLimit \in Nat \ {0}
    /\ Saved \subseteq -LossLimit..LossLimit /\ Saved # {}
    /\ MaxTrades \in Nat
    /\ "pause" \notin Optional     \* its handler is subscribed unconditionally

(* The startup handlers of a trader: the parts each of them starts, in order. *)

StartWsBridge     == <<"telemetry">>
ClockSkewProbe    == <<"skew">>
BootstrapServices == <<"prices", "liquidations">>     \* no symbol is watched yet: no params
StrategyStartup   == <<"scheduler">>
OnStartup         == <<"bus", "balances">>
StartSpecsRefresh == <<"specs">>
StartParamBridge  == <<"params">>
StartModelWatcher == <<"model">>
StartWallets      == <<"topup", "wallet">>
MultiVenue        == <<"ibkr">>
\* Wrong variant: the guardian is started before the handler of its pause.
GuardianFirst     == <<"guardian", "pause">>
RiskWiring        == <<"pause", "guardian">>
DexWiring         == <<"dexFeed", "dexSniper", "dexWatcher">>
FeedWiring        == <<"momentum", "meme", "listing", "airdrop">>
DigestWiring      == <<"digest">>
GuardWiring       == <<"depeg", "funding">>
Restoration       == <<"restore">>
StartFeeds        == <<"feeds">>
StartSignals      == <<"queue">>                      \* the bus runs already
StartAlerting     == <<"alerts">>
StartGovernance   == <<"governance">>
StartBrackets     == <<"brackets">>
StartValidator    == <<"stopValidator">>
GovernanceHooks   == <<"hooks">>                      \* and RAILS.cfg is read again
StartStreams      == <<"user", "market">>
StartMonitors     == <<"staleness", "venue", "watchdog">>

BeforeRisk == StartWsBridge \o ClockSkewProbe \o BootstrapServices \o StrategyStartup \o OnStartup
    \o StartSpecsRefresh \o StartParamBridge \o StartModelWatcher \o StartWallets \o MultiVenue
AfterRisk == DexWiring \o FeedWiring \o DigestWiring \o GuardWiring \o Restoration \o StartFeeds
    \o StartSignals \o StartAlerting \o StartGovernance \o StartBrackets \o StartValidator
    \o GovernanceHooks \o StartStreams \o StartMonitors
Startup == BeforeRisk \o RiskWiring \o AfterRisk

\* Parts that the startup waits for.
Awaited == {"skew", "balances", "restore"}

\* The shutdown handlers: what each of them stops, in order.  "client" is the
\* HTTP client of the venue.  The stream only notes that it is to stop, and the
\* listing sniper cancels its tasks but stays subscribed.
ShutdownServices == <<"prices", "liquidations">>
StopModelWatcher == <<"params", "model">>
OnShutdown       == <<"momentum", "listingTasks", "meme", "airdrop", "queue", "client">>
Shutdown == ShutdownServices \o StopModelWatcher \o OnShutdown

VARIABLES
    phase,     \* of the process
    step,        \* the next part of Startup, or of Shutdown
    running,   \* the parts that run or are subscribed
    realized,  \* portfolio.state.realized
    restored,  \* how far the restoration is
    anchor,    \* RiskGuardian._day_anchor, its realized result
    tripped,   \* _paused_until_utc_reset
    early,     \* the anchor was taken before the restoration was over (history)
    earned,    \* the result of the fills since the anchor (history)
    loss,      \* that result when trading was stopped (history)
    trades     \* fills so far

day      == <<anchor, tripped, early, loss>>
lifeVars == <<phase, step, running, realized, restored, day, earned, trades>>

Furthest == LossLimit + MaxTrades + 1
Results  == -Furthest..Furthest
NoAnchor == Furthest + 1

LifeTypeOK ==
    /\ phase \in {"boot", "up", "closing", "closed"}
    /\ step \in 1..(Len(Startup) + 1)
    /\ running \subseteq Range(Startup) \cup {"client", "listingTasks"}
    /\ realized \in Results /\ earned \in Results /\ loss \in Results
    /\ restored \in {"no", "loaded", "over"}
    /\ anchor \in Results \cup {NoAnchor}
    /\ tripped \in BOOLEAN /\ early \in BOOLEAN
    /\ trades \in 0..MaxTrades

LifeInit ==
    /\ phase = "boot" /\ step = 1
    /\ running = {"client"}
    /\ realized = 0 /\ earned = 0
    /\ restored = "no"
    /\ anchor = NoAnchor /\ tripped = FALSE /\ early = FALSE /\ loss = 0
    /\ trades = 0

-----------------------------------------------------------------------------
Booting(p) == phase = "boot" /\ step <= Len(Startup) /\ Startup[step] = p

\* The loop runs other tasks: the startup awaits, or it is over.
LoopFree == phase \in {"up", "closing"} \/ \E p \in Awaited : Booting(p)

\* The watcher starts after the sniper it belongs to, the handler of a pause
\* before the guardian.
Needs(p) == IF p = "dexWatcher" THEN {"dexSniper"} ELSE {}
May(p)   == Needs(p) \subseteq running

\* A section of a handler: its part starts, or it is off or fails and the next
\* section follows all the same.
StartPart ==
    /\ phase = "boot" /\ step <= Len(Startup)
    /\ LET p == Startup[step] IN
       /\ p = "restore" => restored = "over"
       /\ \/ May(p) /\ running' = running \cup {p} \cup (IF p = "listing" THEN {"listingTasks"} ELSE {})
          \/ (p \in Optional \/ ~May(p)) /\ UNCHANGED running
    /\ step' = step + 1
    /\ UNCHANGED <<phase, realized, restored, day, earned, trades>>

Started ==
    /\ phase = "boot" /\ step = Len(Startup) + 1
    /\ phase' = "up"
    /\ UNCHANGED <<step, running, realized, restored, day, earned, trades>>

\* The thread of the restoration: the snapshot replaces what the portfolio
\* holds, then the fills missed while the engine was down are applied.
Load ==
    /\ Booting("restore") /\ restored = "no"
    /\ realized' \in Saved \cup {realized}
    /\ restored' = "loaded"
    /\ UNCHANGED <<phase, step, running, day, earned, trades>>
CatchUp ==
    /\ Booting("restore") /\ restored = "loaded"
    /\ realized' \in {realized - 1, realized, realized + 1} \cap Results
    /\ restored' = "over"
    /\ UNCHANGED <<phase, step, running, day, earned, trades>>

\* _enforce_daily_stop: the first poll takes the anchor, a later one compares.
DayResult == realized - anchor
GuardianPoll ==
    /\ LoopFree /\ "guardian" \in running
    /\ IF anchor = NoAnchor
       THEN /\ anchor' = realized
            /\ early' = (restored # "over")
            /\ UNCHANGED <<tripped, loss>>
       ELSE /\ ~tripped /\ DayResult <= -LossLimit
            /\ tripped' = TRUE /\ loss' = earned
            /\ UNCHANGED <<anchor, early>>
    /\ UNCHANGED <<phase, step, running, realized, restored, earned, trades>>

\* A fill of this run with its result.
Trade ==
    /\ LoopFree /\ trades < MaxTrades /\ "client" \in running
    /\ {"scheduler", "bus"} \subseteq running \/ "momentum" \in running
    /\ \E result \in {-1, 1} :
         /\ realized' = realized + result /\ realized' \in Results
         /\ earned' = IF anchor = NoAnchor THEN 0 ELSE earned + result
    /\ trades' = trades + 1
    /\ UNCHANGED <<phase, step, running, restored, day>>

\* The server is told to stop.
Terminate ==
    /\ phase = "up"
    /\ phase' = "closing" /\ step' = 1
    /\ UNCHANGED <<running, realized, restored, day, earned, trades>>

StopPart ==
    /\ phase = "closing" /\ step <= Len(Shutdown)
    /\ running' = running \ {Shutdown[step]}
    /\ step' = step + 1
    /\ UNCHANGED <<phase, realized, restored, day, earned, trades>>

\* The loop ends, and with it whatever nobody has stopped.
LoopEnds ==
    /\ phase = "closing" /\ step = Len(Shutdown) + 1
    /\ phase' = "closed" /\ running' = {}
    /\ UNCHANGED <<step, realized, restored, day, earned, trades>>

LifeNext ==
    \/ StartPart \/ Started \/ Load \/ CatchUp
    \/ GuardianPoll \/ Trade
    \/ Terminate \/ StopPart \/ LoopEnds

LifeSpec == LifeInit /\ [][LifeNext]_lifeVars

-----------------------------------------------------------------------------
(* Properties.                                                               *)

\* A guardian that polls finds the handler of its pause subscribed, and trading
\* strategies run only after both had their turn (order of the startup handlers).
PauseIsHeard ==
    /\ "guardian" \in running => "pause" \in running
    /\ running \cap {"momentum", "feeds", "user", "market"} # {}
           => phase # "boot" \/ step > Len(Startup) \/ \A i \in step..Len(Startup) : Startup[i] # "guardian"

\* The strategies that trade by tasks of their own are stopped before the client
\* they trade with is closed (on_shutdown).
ClientOutlives ==
    phase \in {"up", "closing"} /\ "client" \notin running
        => running \cap {"momentum", "listingTasks", "meme", "airdrop", "queue"} = {}

\* An anchor taken after the restoration makes the stop exact: the guardian stops
\* trading only for fills since its anchor that lost the limit
\* (risk_guardian.py: _enforce_daily_stop).
StopIsEarned == tripped /\ ~early => loss <= -LossLimit

LifeInv == LifeTypeOK /\ PauseIsHeard /\ ClientOutlives /\ StopIsEarned
=============================================================================
