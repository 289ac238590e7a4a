-------------------------------- MODULE TickLoop --------------------------------
(***************************************************************************)
(* What a market tick leads to (engine/strategy.py): on_tick asks the        *)
(* modules in a fixed order (scalp, DeepSeek, momentum, trend, ensemble),     *)
(* the first decision goes to StrategyExecutor and ends the call.  Beside     *)
(* the ticks, the answers of DeepSeek, the exit watches of the ensemble and   *)
(* the liquidation clusters submit orders of their own.                      *)
(*                                                                         *)
(* The bus runs a coroutine per tick and per event, so ticks come to on_tick *)
(* in any order, and overlap wherever it awaits: in the klines of the trend   *)
(* module and in execute.  An await ends an action.  What indicators and      *)
(* models make of prices are free choices, and so is what becomes of an order *)
(* (see OrderPath, TradingGate).                                             *)
(***************************************************************************)
EXTENDS Integers, Sequences, SequencesExt

CONSTANTS Ticks,      \* calls of on_tick under way at one time
          Symbols,
          SymbolOf,   \* the symbol of each tick
          Clusters,   \* events of the liquidation watcher
          Rungs,      \* orders of the ladder a cluster leads to
          Configs,    \* the sets of modules a configuration may load
          Togglable,  \* modules the operator starts and stops
          Horizon,    \* the last instant of the clock
          Cool,       \* every cooldown, in instants
          Lag,        \* how old a trade is when the stream brings it
          ThinkMax    \* room in DeepSeek's queue

Modules == {"scalp", "deepseek_v2", "momentum_rt", "trend_follow", "liquidation_sniper",
            "hmm", "ensemble"}
Timers  == {"scalp", "deepseek_v2", "momentum_rt", "trend_follow", "hmm_v1", "ensemble"}
Sides   == {"BUY", "SELL"}

ASSUME TickAssumption ==
    /\ SymbolOf \in [Ticks -> Symbols]
    /\ Configs \subseteq SUBSET Modules
    /\ Togglable \subseteq Modules \ {"deepseek_v2", "hmm", "ensemble"}
    /\ Horizon \in Nat /\ Cool \in Nat \ {0} /\ Lag \in Nat
    /\ ThinkMax \in Nat /\ Rungs \in Nat

\* An order is named by what submits it: on_tick itself, the watch it starts, or
\* the answer of DeepSeek it asked for.
Orders == {"entry", "exit", "brain"} \X Ticks

\* What a decision comes from: of the last two, the ensemble or one voter alone.
Sources == {"scalp", "momentum_rt", "trend_buy", "trend_sell", "fused", "solo"}

VARIABLES
    now,      \* time.time()
    on,       \* <MODULE>.enabled; a module the configuration leaves out is absent
    pc,       \* where each call of on_tick is
    at,       \* the time stamp of its tick
    book,     \* whether ScalpStrategyModule._books has a recent book
    src,      \* the module whose decision it executes
    cool,     \* when each cooldown ends
    trend,    \* TrendStrategyModule._state
    bought,   \* BUYs less SELLs the trend module has decided (history)
    news,     \* BRAIN._latest_sentiment, by the name it is stored under
    think,    \* DeepSeek's queue
    ex,       \* the phase of each order
    ladder    \* the rungs a cluster has still to place

tickVars == <<now, on, pc, at, book, src, cool, trend, bought, news, think, ex, ladder>>
ticking  == <<pc, at, book, src, cool, trend, bought>>
minds    == <<news, think>>

TickTypeOK ==
    /\ now \in 0..Horizon
    /\ on \in [Modules -> {"on", "off", "absent"}]
    /\ pc \in [Ticks -> {"new", "queued", "trend", "done"}]
    /\ at \in [Ticks -> 0..Horizon]
    /\ book \in [Symbols -> BOOLEAN]
    /\ src \in [Ticks -> Sources \cup {"none"}]
    /\ cool \in [Timers -> [Symbols -> 0..(Horizon + Cool)]]
    /\ trend \in [Symbols -> {"FLAT", "LONG_ACTIVE", "COOLDOWN"}]
    /\ bought \in [Symbols -> Int]
    /\ news \in [{"base", "qualified"} -> [Symbols -> -2..2]]
    /\ think \in Seq(Ticks) /\ Len(think) <= ThinkMax
    /\ ex \in [Orders -> {"idle", "watching", "sent", "over"}]
    /\ ladder \in [Clusters -> 0..Rungs]

TickInit ==
    /\ now = 0
    /\ on \in {[m \in Modules |-> IF m \in config THEN "on" ELSE "absent"] : config \in Configs}
    /\ pc = [t \in Ticks |-> "new"]
    /\ at = [t \in Ticks |-> 0]
    /\ book = [s \in Symbols |-> FALSE]
    /\ src = [t \in Ticks |-> "none"]
    /\ cool = [m \in Timers |-> [s \in Symbols |-> 0]]
    /\ trend = [s \in Symbols |-> "FLAT"]
    /\ bought = [s \in Symbols |-> 0]
    /\ news = [k \in {"base", "qualified"} |-> [s \in Symbols |-> 0]]
    /\ think = <<>>
    /\ ex = [e \in Orders |-> "idle"]
    /\ ladder = [x \in Clusters |-> 0]

-----------------------------------------------------------------------------
(* StrategyExecutor.execute.                                                 *)

\* The rails refuse an order, or it goes from them to the await of the venue
\* without a stop.
Executes(e) == ex' \in {[ex EXCEPT ![e] = p] : p \in {"over", "sent"}}

\* _schedule_bracket_watch: after a fused decision, also one the rails refused; an
\* exception of execute skips it.
MayWatch(t, phases) ==
    {[phases EXCEPT ![<<"exit", t>>] = p] : p \in {"idle", "watching"}}
Fused(t) == src[t] = "fused"

\* The venue answers.
Answered(e) ==
    /\ ex[e] = "sent"
    /\ LET over == [ex EXCEPT ![e] = "over"] IN
       ex' \in IF e[1] = "entry" /\ Fused(e[2]) THEN MayWatch(e[2], over) ELSE {over}
    /\ UNCHANGED <<now, on, ticking, minds, ladder>>

-----------------------------------------------------------------------------
(* The modules.                                                              *)

On(m) == on[m] = "on"

Cooled(m, s, ts)  == ts >= cool[m][s]
Cooling(m, s, t)  == [cool EXCEPT ![m][s] = t]

Decides(t, m) ==
    /\ src' = [src EXCEPT ![t] = m]
    /\ pc' = [pc EXCEPT ![t] = "done"]
    /\ Executes(<<"entry", t>>)

\* handle_book keeps the last book of a symbol, and _book_for forgets it when it is
\* old.
BookQuoted(s) ==
    /\ On("scalp") /\ ~book[s]
    /\ book' = [book EXCEPT ![s] = TRUE]
    /\ UNCHANGED <<now, on, pc, at, src, cool, trend, bought, minds, ex, ladder>>

BookAges(s) ==
    /\ book[s]
    /\ book' = [book EXCEPT ![s] = FALSE]
    /\ UNCHANGED <<now, on, pc, at, src, cool, trend, bought, minds, ex, ladder>>

\* ScalpStrategyModule.handle_tick looks for a range to trade in.
ScalpSees(s, ts) == On("scalp") /\ book[s] /\ Cooled("scalp", s, ts)

\* It may signal: the cooldown starts at the signal, whatever becomes of it.
ScalpTrades(t, ts) ==
    /\ ScalpSees(SymbolOf[t], ts)
    /\ cool' = Cooling("scalp", SymbolOf[t], ts + Cool)
    /\ Decides(t, "scalp")
    /\ UNCHANGED <<trend, bought, think>>

\* DeepSeekStrategyModule.handle_tick: one job per poll interval, dropped if the
\* queue is full; the interval starts even then.
PollDue(t) == On("deepseek_v2") /\ Cooled("deepseek_v2", SymbolOf[t], now)
\* Wrong variant: a job is queued however many wait.
EnqueuedAnyway(t) == IF PollDue(t) THEN Append(think, t) ELSE think
Enqueued(t) == IF PollDue(t) /\ Len(think) < ThinkMax THEN Append(think, t) ELSE think
Polled(t) == IF PollDue(t) THEN Cooling("deepseek_v2", SymbolOf[t], now + Cool) ELSE cool

\* MomentumStrategyModule.handle_tick, up to the breakout it looks for.
MomentumSees(s, ts) == On("momentum_rt") /\ Cooled("momentum_rt", s, ts)

MomentumTrades(t, ts) ==
    /\ MomentumSees(SymbolOf[t], ts)
    /\ think' = Enqueued(t)
    /\ cool' = [Polled(t) EXCEPT !["momentum_rt"][SymbolOf[t]] = ts + Cool]
    /\ Decides(t, "momentum_rt")
    /\ UNCHANGED <<trend, bought>>

\* TrendStrategyModule.handle_tick before its await: the end of the cooldown is
\* noticed, and a flat symbol in its cooldown is left alone.
\* Wrong variant: any tick after the exit ends the cooldown.
TrendWakesEarly(s, ts) == IF trend[s] = "COOLDOWN" THEN "FLAT" ELSE trend[s]
TrendWakes(s, ts) ==
    IF trend[s] = "COOLDOWN" /\ Cooled("trend_follow", s, ts) THEN "FLAT" ELSE trend[s]
TrendLooks(s, ts) ==
    On("trend_follow") /\ (TrendWakes(s, ts) = "FLAT" => Cooled("trend_follow", s, ts))

\* After the await (_build_snapshot) the state is read again; entering and
\* leaving set it before the order is executed.
\* Wrong variant: whatever is not flat may be left.
TrendSeesActive(s) == IF trend[s] = "FLAT" THEN "FLAT" ELSE "LONG_ACTIVE"
TrendSees(s) == trend[s]

\* What a snapshot of klines may be ready for, both at once included.
Snapshots == SUBSET {"entry", "exit"}

TrendEnters(t, s, snap) ==
    /\ TrendSees(s) = "FLAT" /\ "entry" \in snap
    /\ trend' = [trend EXCEPT ![s] = "LONG_ACTIVE"]
    /\ bought' = [bought EXCEPT ![s] = @ + 1]
    /\ Decides(t, "trend_buy")
    /\ UNCHANGED cool
TrendLeaves(t, s, snap) ==
    /\ TrendSees(s) = "LONG_ACTIVE" /\ "exit" \in snap
    /\ trend' = [trend EXCEPT ![s] = "COOLDOWN"]
    /\ bought' = [bought EXCEPT ![s] = @ - 1]
    /\ cool' = Cooling("trend_follow", s, at[t] + Cool)
    /\ Decides(t, "trend_sell")
TrendTrades(t) ==
    /\ pc[t] = "trend"
    /\ \E snap \in Snapshots : TrendEnters(t, SymbolOf[t], snap) \/ TrendLeaves(t, SymbolOf[t], snap)
    /\ UNCHANGED <<now, on, at, book, minds, ladder>>

\* policy_hmm.get_regime says nothing with fewer than three prices or no model.
NoFeatures == "unknown"
Regimes    == {"BULL", "BEAR", "CHOP", NoFeatures}
Readings   == IF On("hmm") THEN Regimes ELSE {NoFeatures}

\* The three voters.  _MACross compares two averages of the last prices.
Crossings == Sides \cup {"none"}

\* policy_hmm.decide: the side of the regime if it is sure enough, once per
\* cooldown, which starts at the decision.
HmmDecisions(regime, s) ==
    {"none"} \cup
        (IF ~Cooled("hmm_v1", s, now) THEN {}
         ELSE CASE regime = "BULL" -> {"BUY"} [] regime = "BEAR" -> {"SELL"} [] OTHER -> {})

\* RiverPolicy: a prediction of 0, which is also what stands for no prediction at
\* all, votes to sell; an untrained tree does not vote.
RiverVotes(regime) == IF regime = NoFeatures THEN {"SELL"} ELSE Sides \cup {"none"}

\* ensemble_policy.combine: the sides the weighted votes may lead to, or no
\* consensus.
Combined(ma, hmm, river) ==
    {"none"} \cup (IF On("ensemble") THEN {ma, hmm, river} \cap Sides ELSE {})

\* Without consensus one voter decides alone.
Signal(fused, ma, hmm) ==
    IF fused # "none" THEN fused
    ELSE IF ~On("ensemble") /\ ma # "none" THEN ma
    ELSE hmm

\* NautilusBrain.get_decision: the side the regime and the news allow.  Scores
\* stand for: below the veto level, negative, zero, positive, extreme.
BrainSide(regime, score) ==
    CASE regime = "BULL" /\ score > -2 -> "BUY"
      [] regime = "BEAR" -> "SELL"
      [] regime = "CHOP" /\ score = 2 -> "BUY"
      [] regime = "CHOP" /\ score = -2 -> "SELL"
      [] OTHER -> "none"

\* The tick path asks the brain by the base name; DeepSeek's answers are stored
\* under the qualified name.
TickKey == "base"
NewsKey == "qualified"

\* _cooldown_ready: the window depends on confidence and price.
Windows == 1..Cool

EnsembleTrades(t, base, source) ==
    /\ \E window \in Windows : cool' = [base EXCEPT !["ensemble"][SymbolOf[t]] = now + window]
    /\ src' = [src EXCEPT ![t] = source]
    /\ pc' = [pc EXCEPT ![t] = "done"]
    /\ LET over == [ex EXCEPT ![<<"entry", t>>] = "over"] IN
       \/ ex' = [ex EXCEPT ![<<"entry", t>>] = "sent"]
       \/ ex' \in IF source = "fused" THEN MayWatch(t, over) ELSE {over}

Passes(t, base) ==
    /\ pc' = [pc EXCEPT ![t] = "done"]
    /\ cool' = base
    /\ UNCHANGED <<src, ex>>

\* The last part of on_tick: a signal that the brain does not share, or that comes
\* too early, is dropped, but the HMM has used up its decision.
Votes(t, base) ==
    LET s == SymbolOf[t] IN
    \E regime \in Readings, ma \in Crossings :
    \E hmm \in HmmDecisions(regime, s), river \in RiverVotes(regime) :
    \E fused \in Combined(ma, hmm, river) :
        LET signal == Signal(fused, ma, hmm)
            heard  == IF hmm = "none" THEN base ELSE [base EXCEPT !["hmm_v1"][s] = now + Cool]
        IN  IF /\ signal # "none" /\ signal = BrainSide(regime, news[TickKey][s])
               /\ Cooled("ensemble", s, now)
            THEN EnsembleTrades(t, heard, IF fused = "none" THEN "solo" ELSE "fused")
            ELSE Passes(t, heard)

-----------------------------------------------------------------------------
(* The call.                                                                 *)

\* The stream stamps a trade with the venue's time.
Stamps == {ts \in 0..now : ts + Lag >= now}

\* _maybe_emit_strategy_tick puts the tick on the bus.
Emits(t) ==
    /\ pc[t] = "new"
    /\ \E ts \in Stamps : at' = [at EXCEPT ![t] = ts]
    /\ pc' = [pc EXCEPT ![t] = "queued"]
    /\ UNCHANGED <<now, on, book, src, cool, trend, bought, minds, ex, ladder>>

\* on_tick from its start to its first await, or to its end.
Arrives(t) ==
    /\ pc[t] = "queued"
    /\ \/ ScalpTrades(t, at[t])
       \/ MomentumTrades(t, at[t])
       \/ /\ think' = Enqueued(t)
          /\ trend' = [trend EXCEPT ![SymbolOf[t]] =
                          IF On("trend_follow") THEN TrendWakes(SymbolOf[t], at[t]) ELSE @]
          /\ IF TrendLooks(SymbolOf[t], at[t])
             THEN pc' = [pc EXCEPT ![t] = "trend"] /\ cool' = Polled(t) /\ UNCHANGED <<src, ex>>
             ELSE Votes(t, Polled(t))
          /\ UNCHANGED bought
    /\ UNCHANGED <<now, on, at, book, news, ladder>>

\* on_tick after the await of the trend module, without a trend decision.
GoesOn(t) ==
    /\ pc[t] = "trend"
    /\ Votes(t, cool)
    /\ UNCHANGED <<now, on, at, book, trend, bought, minds, ladder>>

\* A call of on_tick that is over, with all it led to, makes room for another one.
Led(t) == {e \in Orders : e[2] = t}
Returns(t) ==
    /\ pc[t] = "done" /\ ~Contains(think, t)
    /\ \A e \in Led(t) : ex[e] \in {"idle", "over"}
    /\ pc' = [pc EXCEPT ![t] = "new"]
    /\ at' = [at EXCEPT ![t] = 0]
    /\ src' = [src EXCEPT ![t] = "none"]
    /\ ex' = [e \in Orders |-> IF e \in Led(t) THEN "idle" ELSE ex[e]]
    /\ UNCHANGED <<now, on, book, cool, trend, bought, minds, ladder>>

-----------------------------------------------------------------------------
(* What else submits orders.                                                 *)

\* The worker of DeepSeek takes the oldest job and asks the model, which may give
\* no answer, for want of klines too.
ThinkFails ==
    /\ think # <<>>
    /\ think' = Tail(think)
    /\ UNCHANGED <<now, on, ticking, news, ex, ladder>>

\* An answer holds a score.
Scores == -2..2

\* Through the bus it reaches _on_deepseek_signal, which stores the score and asks
\* the brain; the action the answer proposes is not read.
DeepseekSignal ==
    /\ think # <<>>
    /\ think' = Tail(think)
    /\ \E score \in Scores, regime \in Readings :
           /\ news' = [news EXCEPT ![NewsKey][SymbolOf[Head(think)]] = score]
           /\ IF BrainSide(regime, score) = "none"
              THEN UNCHANGED ex
              ELSE Executes(<<"brain", Head(think)>>)
    /\ UNCHANGED <<now, on, ticking, ladder>>

\* A score counts for sentiment_expiry seconds.
NewsExpires(k, s) ==
    /\ news[k][s] # 0
    /\ news' = [news EXCEPT ![k][s] = 0]
    /\ UNCHANGED <<now, on, ticking, think, ex, ladder>>

\* The watch of _schedule_bracket_watch submits one exit, or runs out.
HmmExit(t) ==
    /\ ex[<<"exit", t>>] = "watching"
    /\ Executes(<<"exit", t>>)
    /\ UNCHANGED <<now, on, ticking, minds, ladder>>

\* _on_liquidation_cluster looks at the module once and submits the rungs of the
\* ladder one after the other.
Cluster(x) ==
    /\ On("liquidation_sniper") /\ ladder[x] = 0
    /\ ladder' = [ladder EXCEPT ![x] = Rungs]
    /\ UNCHANGED <<now, on, ticking, minds, ex>>

Rung(x) ==
    /\ ladder[x] > 0
    /\ ladder' = [ladder EXCEPT ![x] = @ - 1]
    /\ UNCHANGED <<now, on, ticking, minds, ex>>

\* start_strategy and stop_strategy.
Toggle(m) ==
    /\ on[m] # "absent"
    /\ on' = [on EXCEPT ![m] = IF On(m) THEN "off" ELSE "on"]
    /\ UNCHANGED <<now, ticking, minds, ex, ladder>>

TimePasses ==
    /\ now < Horizon
    /\ now' = now + 1
    /\ UNCHANGED <<on, ticking, minds, ex, ladder>>

TickNext ==
    \/ \E t \in Ticks : Emits(t) \/ Arrives(t) \/ TrendTrades(t) \/ GoesOn(t) \/ Returns(t) \/ HmmExit(t)
    \/ ThinkFails \/ DeepseekSignal
    \/ \E x \in Clusters : Cluster(x) \/ Rung(x)
    \/ \E e \in Orders : Answered(e)
    \/ \E k \in {"base", "qualified"}, s \in Symbols : NewsExpires(k, s)
    \/ \E s \in Symbols : BookQuoted(s) \/ BookAges(s)
    \/ \E m \in Togglable : Toggle(m)
    \/ TimePasses

TickSpec == TickInit /\ [][TickNext]_tickVars

-----------------------------------------------------------------------------
(* Properties.                                                               *)

\* However ticks overlap across the klines await, the trend module enters a
\* symbol only after the cooldown of its last exit.
TrendCoolsDown ==
    [][\A s \in Symbols :
          trend'[s] = "LONG_ACTIVE" /\ trend[s] # "LONG_ACTIVE"
              => now >= cool["trend_follow"][s]]_tickVars

\* The orders of the trend module on a symbol alternate, first a BUY: overlapping
\* ticks never enter twice nor leave twice, and its state tells which is next.
TrendAlternates ==
    \A s \in Symbols : bought[s] = IF trend[s] = "LONG_ACTIVE" THEN 1 ELSE 0

\* The invariant of the trend module, with the types its steps rely on.
TrendInv == TickTypeOK /\ TrendAlternates
=============================================================================
