------------------------------- MODULE Admission -------------------------------
(***************************************************************************)
(* The rules of RiskRails.check_order (engine/risk.py) that depend on the     *)
(* order itself: allowlist, shape, size, price, market, exposure, rate and    *)
(* symbol lock, in that order, and what comes of the orders they accept.      *)
(* The switches before them are in TradingGate, the pending entries of the    *)
(* endpoints in OrderPath.                                                    *)
(*                                                                         *)
(* The endpoints and the strategies have a RiskRails each, with a rate        *)
(* limiter and locks of its own, and both judge the exposure by the same      *)
(* portfolio snapshot: an order is seen there when its fill is booked, not    *)
(* when it is accepted.  A check runs without an await, so it is one step.    *)
(* A refusal changes nothing, unless it comes from the lock.                  *)
(***************************************************************************)
EXTENDS Integers, Sequences, SequencesExt, FiniteSetsExt

CONSTANTS Strategies,   \* that sign their orders
          Traded,       \* base symbols
          Allowed,      \* TRADE_SYMBOLS; empty for no list
          Quotes,       \* sizes of orders; 0 for one by quantity
          Markets,      \* markets an order may name
          Enabled,      \* markets that the configuration admits
          MinNotional,  \* the larger of MIN_NOTIONAL_USDT and DUST_THRESHOLD_USD
          MaxNotional,
          Share,        \* capital_allocations.json; -1 for a strategy it leaves out
          SymbolCap,
          TotalCap,     \* the lesser of the caps in total and per venue (one venue)
          MaxPerMin,
          Minute,       \* the limiter's window, in instants
          LockTtl,      \* SYMBOL_LOCK_TTL_SEC
          LastInstant,
          MaxSent,      \* orders in a run
          MaxDrift      \* changes of price in a run

ASSUME AdmissionAssumption ==
    /\ {"unknown", "none"} \cap Strategies = {}
    /\ IsFiniteSet(Traded)
    /\ Share \in [Strategies -> Int]
    /\ Quotes \subseteq Nat /\ MaxNotional \in Nat
    /\ SymbolCap \in Nat /\ TotalCap \in Nat
    /\ MaxPerMin \in Nat /\ Minute \in Nat /\ LockTtl \in Nat
    /\ LastInstant \in Nat

\* Who may ask which rails: the endpoints give no name.
Rails  == {"app", "strategy"}
Owners == [app |-> {"unknown"}, strategy |-> Strategies]
Sides  == {1, -1}

VARIABLES
    clock,
    value,    \* worth of each position in the snapshot, negative for a short one
    sent,     \* every order accepted so far: what has come of it, and which were open
              \* when it was checked (history)
    limiter,  \* OrderRateLimiter.events of each rails
    held,     \* RiskRails._symbol_locks: who holds a symbol, and until when
    drift     \* changes of price so far

admitVars == <<clock, value, sent, limiter, held, drift>>

Worth(delta) == IF delta < 0 THEN -delta ELSE delta
Unheld == [owner |-> "none", until |-> 0]

AdmitTypeOK ==
    /\ clock \in 0..LastInstant
    /\ value \in [Traded -> Int]
    /\ \A i \in DOMAIN sent : sent[i].end \in {"open", "over"}
    /\ \A r \in Rails : \A i \in DOMAIN limiter[r] : limiter[r][i] <= clock
    /\ held \in [Rails -> [Traded -> [owner : Strategies \cup {"unknown", "none"}, until : 0..(LastInstant + LockTtl)]]]

AdmitInit ==
    /\ clock = 0
    /\ value = [s \in Traded |-> 0]
    /\ sent = <<>>
    /\ limiter = [r \in Rails |-> <<>>]
    /\ held = [r \in Rails |-> [s \in Traded |-> Unheld]]
    /\ drift = 0

-----------------------------------------------------------------------------
(* The rules.                                                                *)

\* resolve_market_choice, and the switches of margin and options.  (The limits on
\* a margin order ask for portfolio_service, which the router module has not.)
MarketOpen(market) == market \in Enabled

Listed(s) == Allowed = {} \/ s \in Allowed

\* A share above 0 lowers the limit, one of 0 has killed the strategy; the
\* endpoints have no share.
Killed(owner) == owner \in Strategies /\ Share[owner] = 0
Most(owner) ==
    IF owner \in Strategies /\ Share[owner] > 0 /\ Share[owner] < MaxNotional
    THEN Share[owner] ELSE MaxNotional

\* Limits of size are for orders by quote; one by quantity would need a price,
\* and the venue's client has no get_last_price to ask.
Sized(owner, quote) == quote >= MinNotional /\ quote <= Most(owner)
Priced(quote) == quote > 0

Total == MapThenSumSet(LAMBDA s : value[s], Traded)

\* Wrong variant: the position is left out.
WithinOwn(s, delta) == Worth(delta) <= SymbolCap /\ Worth(Total + delta) <= TotalCap
Within(s, delta) == Worth(value[s] + delta) <= SymbolCap /\ Worth(Total + delta) <= TotalCap

\* OrderRateLimiter.allow: what is older than the window is dropped from the left.
Window(r) ==
    LET live == {k \in DOMAIN limiter[r] : limiter[r][k] >= clock - Minute}
    IN IF live = {} THEN <<>> ELSE SubSeq(limiter[r], Min(live), Len(limiter[r]))
RateAllows(r) == Len(Window(r)) < MaxPerMin
Counted(r) == [limiter EXCEPT ![r] = Append(Window(r), clock)]

\* _acquire_symbol_lock: free or expired, or held by the same strategy, whose
\* lock then starts anew.
MayHold(r, s, owner) ==
    \/ held[r][s].until <= clock
    \/ owner \in Strategies /\ held[r][s].owner = owner
Held(r, s, owner) == [held EXCEPT ![r][s] = [owner |-> owner, until |-> clock + LockTtl]]

Acceptable(owner, s, market, quote, delta) ==
    /\ ~Killed(owner) /\ Listed(s)
    /\ Sized(owner, quote) /\ Priced(quote)
    /\ MarketOpen(market)
    /\ Within(s, delta)

-----------------------------------------------------------------------------
(* Steps.                                                                    *)

Open == {i \in DOMAIN sent : sent[i].end = "open"}

Accepts(r, owner, s, delta) ==
    /\ Len(sent) < MaxSent
    /\ RateAllows(r) /\ MayHold(r, s, owner)
    /\ limiter' = Counted(r)
    /\ held' = Held(r, s, owner)
    /\ sent' = Append(sent, [rails |-> r, owner |-> owner, symbol |-> s, delta |-> delta,
                             time |-> clock, end |-> "open", unseen |-> Open])
    /\ UNCHANGED <<clock, value, drift>>

\* The rate has been counted when the lock refuses.
LockedOut(r, owner, s) ==
    /\ RateAllows(r) /\ ~MayHold(r, s, owner)
    /\ limiter' = Counted(r)
    /\ UNCHANGED <<clock, value, sent, held, drift>>

CheckOrder(r, owner, s, market, quote, side) ==
    /\ Acceptable(owner, s, market, quote, side * quote)
    /\ Accepts(r, owner, s, side * quote) \/ LockedOut(r, owner, s)

\* The fill of an order reaches the portfolio, or the order comes to nothing.
Concludes(i) ==
    /\ i \in Open
    /\ sent' = [sent EXCEPT ![i].end = "over"]
    /\ value' \in {value, [value EXCEPT ![sent[i].symbol] = @ + sent[i].delta]}
    /\ UNCHANGED <<clock, limiter, held, drift>>

\* A new price makes a position worth more or less, and never turns it round.
Reprices(s) ==
    /\ drift < MaxDrift /\ value[s] # 0
    /\ \E change \in {-1, 1} : value[s] + change # 0 /\ value' = [value EXCEPT ![s] = @ + change]
    /\ drift' = drift + 1
    /\ UNCHANGED <<clock, sent, limiter, held>>

ClockTicks ==
    /\ clock < LastInstant
    /\ clock' = clock + 1
    /\ UNCHANGED <<value, sent, limiter, held, drift>>

AdmitNext ==
    \/ \E r \in Rails, s \in Traded, market \in Markets, quote \in Quotes, side \in Sides :
         \E owner \in Owners[r] : CheckOrder(r, owner, s, market, quote, side)
    \/ \E i \in DOMAIN sent : Concludes(i)
    \/ \E s \in Traded : Reprices(s)
    \/ ClockTicks

AdmitSpec == AdmitInit /\ [][AdmitNext]_admitVars

-----------------------------------------------------------------------------
(* Properties.                                                               *)

\* In no window of the limiter, wherever it starts, does one RiskRails accept
\* more orders than its rate.
RateKept ==
    \A r \in Rails, start \in 0..clock :
        Cardinality({i \in DOMAIN sent : sent[i].rails = r /\ sent[i].time \in start..(start + Minute)})
            <= MaxPerMin

\* Two orders for a symbol that one RiskRails accepts within the time of a lock
\* are of one strategy: re-entering renews the lock against the others, and two
\* orders of the endpoints are never that close.
LockExcludes ==
    \A i, j \in DOMAIN sent :
        /\ i < j /\ sent[i].rails = sent[j].rails /\ sent[i].symbol = sent[j].symbol
        /\ sent[j].time < sent[i].time + LockTtl
        => sent[i].owner = sent[j].owner /\ sent[i].owner \in Strategies

\* What the snapshot of some check missed: the open orders at that time.
Overrun(of(_)) ==
    Max({0} \cup {MapThenSumSet(LAMBDA i : Worth(sent[i].delta), {i \in sent[j].unseen : of(i)}) : j \in DOMAIN sent})

\* Checks against a snapshot that misses open orders overrun a cap by no more than
\* those orders and what prices have done since: by nothing, while orders do not
\* overlap and prices stand still.
CapsHeld ==
    /\ \A s \in Traded :
          Worth(value[s]) <= SymbolCap + drift + Overrun(LAMBDA i : sent[i].symbol = s)
    /\ Worth(Total) <= TotalCap + drift + Overrun(LAMBDA i : TRUE)

\* An order that makes a position smaller is not refused for its exposure
\* (the comments of check_order on SELL and BUY against a position).
ReductionsPass ==
    \A s \in Traded, quote \in Quotes : Sized("unknown", quote) =>
        /\ value[s] >= quote => Within(s, -quote)
        /\ value[s] <= -quote => Within(s, quote)

AdmissionInv == AdmitTypeOK /\ RateKept /\ LockExcludes /\ CapsHeld
=============================================================================
