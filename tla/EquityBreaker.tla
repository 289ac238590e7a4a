---------------------------- MODULE EquityBreaker ----------------------------
(***************************************************************************)
(* The equity breaker of the rails and the number it is fed.  One field,     *)
(* state.equity, has several writers: the wallet monitor (a pass over three  *)
(* wallets, one await each), the account updates of the user stream, the     *)
(* bookings of fills, a forced account snapshot.  Meanwhile the top-up loop   *)
(* moves money from the funding wallet to the futures wallet, directly or by  *)
(* way of the spot wallet.  Every order asked of the rails reads the field,  *)
(* raises the peak, and trips the breaker on a low value or a drawdown.      *)
(*                                                                         *)
(* Money is counted in coins; positions keep their value, so the unrealized  *)
(* profit is 0 throughout.  The engine trades the futures wallet, and nobody *)
(* but the top-up loop moves money between wallets.  One life of the process. *)
(***************************************************************************)
EXTENDS Integers

CONSTANTS Rails,        \* the rails of the endpoints and those of the strategies
          Cash,         \* bound: coins in all wallets
          MinFutures,   \* MIN_FUT_BAL_USDT
          Chunk,        \* TOPUP_CHUNK_USDT
          Floor,        \* EQUITY_FLOOR_USD
          DrawdownPct,  \* EQUITY_DRAWDOWN_LIMIT_PCT
          Cooldown      \* EQUITY_COOLDOWN_SEC, in ticks

ASSUME EquityAssumption ==
    /\ Cash \in Nat \ {0} /\ MinFutures \in Nat /\ Chunk \in Nat \ {0}
    /\ Floor \in Nat /\ DrawdownPct \in 1..100 /\ Cooldown \in Nat \ {0}

VARIABLES
    purse,   \* what each wallet holds at the venue
    fill,    \* a realized result the books have not taken: coins, and whether
             \* an account update has brought it already
    usdt,    \* state.balances["USDT"]
    equity,  \* state.equity
    pass,    \* wallet_balance_worker: the wallet it reads next and its sum so far
    top,     \* ensure_futures_balance: its place and the amount it moves
    rails,   \* of each rails: peak, active, ticks the cooldown has left
    high,    \* history: the most all wallets have held together
    twice    \* history: the books have taken a result an update had brought

equityVars == <<purse, fill, usdt, equity, pass, top, rails, high, twice>>

Wallets == {"futures", "spot", "funding"}
Total(p) == p["futures"] + p["spot"] + p["funding"]
NoFill   == [coins |-> 0, seen |-> FALSE]
NoPass   == [at |-> "idle", sum |-> 0]
NoMove   == [at |-> "idle", coins |-> 0]
Larger(m, n) == IF m > n THEN m ELSE n

EquityTypeOK ==
    /\ purse \in [Wallets -> 0..Cash]
    /\ fill \in [coins : -1..1, seen : BOOLEAN]
    /\ usdt \in 0..Cash + 1 /\ equity \in 0..3 * Cash
    /\ pass \in [at : {"idle", "spot", "funding", "write"}, sum : 0..3 * Cash]
    /\ top \in [at : {"idle", "ask", "direct", "main", "last"}, coins : 0..Chunk]
    /\ rails \in [Rails -> [peak : 0..3 * Cash, active : BOOLEAN, left : 0..Cooldown]]
    /\ high \in 0..Cash /\ twice \in BOOLEAN

\* The start: the balances have been read, or could not be and the equity is
\* what the snapshot kept.
EquityInit ==
    /\ purse \in {p \in [Wallets -> 0..Cash] : Total(p) <= Cash /\ p["spot"] = 0}
    /\ \/ usdt = purse["futures"] /\ equity = usdt
       \/ usdt = 0 /\ equity \in 0..Total(purse)
    /\ fill = NoFill /\ pass = NoPass /\ top = NoMove
    /\ rails = [r \in Rails |-> [peak |-> 0, active |-> FALSE, left |-> 0]]
    /\ high = Total(purse) /\ twice = FALSE

-----------------------------------------------------------------------------
(* The venue and the other writers of the equity.                           *)

\* A trade or a fee is settled in the futures wallet.
VenueSettles ==
    /\ fill = NoFill
    /\ \E d \in {-1, 1} :
         /\ purse["futures"] + d >= 0 /\ Total(purse) + d <= Cash
         /\ purse' = [purse EXCEPT !["futures"] = @ + d]
         /\ fill' = [coins |-> d, seen |-> FALSE]
    /\ high' = Larger(high, Total(purse'))
    /\ UNCHANGED <<usdt, equity, pass, top, rails, twice>>

\* Portfolio._recalculate: the equity is the futures balance the books know.
Recalculate == equity' = usdt'

\* apply_fill, by the router or the user stream
FillBooked ==
    /\ fill # NoFill /\ usdt + fill.coins \in 0..Cash + 1
    /\ usdt' = usdt + fill.coins /\ Recalculate
    /\ twice' = (twice \/ fill.seen) /\ fill' = NoFill
    /\ UNCHANGED <<purse, pass, top, rails, high>>

\* ACCOUNT_UPDATE: on_account_update, Portfolio.sync_wallet
AccountUpdate ==
    /\ usdt' = purse["futures"] /\ Recalculate
    /\ fill' = [fill EXCEPT !.seen = fill # NoFill]
    /\ UNCHANGED <<purse, pass, top, rails, high, twice>>

\* account_snapshot and funding_balance: a wallet that is throttled to the end, or
\* whose answer is no number, counts 0.
Answers(w) == {0, purse[w]}

\* fetch_account_snapshot: the wallet is the equity, but an account that lists
\* positions has them imported next, and that recalculates it.
Fetched == (Answers("futures") \ {0}) \cup {usdt}

\* GET /account_snapshot?force=1
SnapshotForced ==
    /\ equity' \in Fetched
    /\ UNCHANGED <<purse, fill, usdt, pass, top, rails, high, twice>>

\* GET /portfolio marks the positions (update_price), and asks for the account if
\* nobody has yet.
Remarked ==
    /\ usdt' = usdt
    /\ Recalculate \/ equity' \in Fetched
    /\ UNCHANGED <<purse, fill, pass, top, rails, high, twice>>

-----------------------------------------------------------------------------
(* wallet_balance_worker: futures, spot, funding; a call that fails counts 0. *)

\* Wrong variants, which the properties must tell from the code: the pass
\* reads the funding wallet first and the futures wallet last; a refused order
\* renews the cooldown.
FundingFirst(at) == CASE at = "idle" -> "funding" [] at = "spot" -> "spot" [] OTHER -> "futures"
StaysCooling(s)  == [s EXCEPT !.left = Cooldown]

ReadAt(at) == IF at = "idle" THEN "futures" ELSE at
After(at)  == CASE at = "idle" -> "spot" [] at = "spot" -> "funding" [] OTHER -> "write"

WalletRead ==
    /\ pass.at # "write"
    /\ \E n \in Answers(ReadAt(pass.at)) :
         pass' = [at |-> After(pass.at), sum |-> pass.sum + n]
    /\ UNCHANGED <<purse, fill, usdt, equity, top, rails, high, twice>>

WalletWritten ==
    /\ pass.at = "write"
    /\ equity' = pass.sum /\ pass' = NoPass
    /\ UNCHANGED <<purse, fill, usdt, top, rails, high, twice>>

-----------------------------------------------------------------------------
(* auto_topup_worker: ensure_futures_balance, universal_transfer.            *)

Moved(from, to, n) == [purse EXCEPT ![from] = @ - n, ![to] = @ + n]

TopUpStarts ==
    /\ top.at = "idle" /\ \E n \in Answers("futures") : n < MinFutures
    /\ top' = [NoMove EXCEPT !.at = "ask"]
    /\ UNCHANGED <<purse, fill, usdt, equity, pass, rails, high, twice>>

TopUpAsks ==
    /\ top.at = "ask"
    /\ \E n \in Answers("funding") :
         top' = IF n > 0 THEN [at |-> "direct", coins |-> IF Chunk < n THEN Chunk ELSE n] ELSE NoMove
    /\ UNCHANGED <<purse, fill, usdt, equity, pass, rails, high, twice>>

\* One transfer at the venue: it is made, and the answer arrives or is lost, or
\* it is not made.
Transfer(from, to, good, bad) ==
    /\ \/ purse[from] >= top.coins /\ purse' = Moved(from, to, top.coins)
          /\ top' \in {good, bad}
       \/ top' = bad /\ UNCHANGED purse
    /\ UNCHANGED <<fill, usdt, equity, pass, rails, high, twice>>

\* The direct transfer; an error of whatever kind leads to the other way.
TopUpDirect ==
    top.at = "direct" /\ Transfer("funding", "futures", NoMove, [top EXCEPT !.at = "main"])
TopUpByMain ==
    top.at = "main" /\ Transfer("funding", "spot", [top EXCEPT !.at = "last"], NoMove)
TopUpLast ==
    top.at = "last" /\ Transfer("spot", "futures", NoMove, NoMove)

-----------------------------------------------------------------------------
(* The rails.                                                               *)

\* _compute_drawdown_pct
Drawn(peak, e) == peak > 0 /\ (peak - e) * 100 >= DrawdownPct * peak
Breached(peak, e) == e < Floor \/ Drawn(peak, e)

\* check_breaker: what a refused order leaves behind.
Cooling(s) == s

\* check_order, as far as the breaker goes: refused while it cools down; else
\* the flag falls, and unless another rule refuses first the snapshot is judged
\* (refresh_snapshot_metrics).
OrderRefused(r) ==
    /\ rails[r].active /\ rails[r].left > 0
    /\ rails' = [rails EXCEPT ![r] = Cooling(@)]
    /\ UNCHANGED <<purse, fill, usdt, equity, pass, top, high, twice>>

OrderStopped(r) ==
    /\ rails[r].active /\ rails[r].left = 0
    /\ rails' = [rails EXCEPT ![r].active = FALSE]
    /\ UNCHANGED <<purse, fill, usdt, equity, pass, top, high, twice>>

OrderJudged(r) ==
    /\ ~(rails[r].active /\ rails[r].left > 0)
    /\ LET peak == Larger(rails[r].peak, equity)
       IN  rails' = [rails EXCEPT ![r] =
             IF Breached(peak, equity)
             THEN [peak |-> peak, active |-> TRUE, left |-> Cooldown]
             ELSE [peak |-> peak, active |-> FALSE, left |-> @.left]]
    /\ UNCHANGED <<purse, fill, usdt, equity, pass, top, high, twice>>

EquityTick ==
    /\ \E r \in Rails : rails[r].left > 0
    /\ rails' = [r \in Rails |->
                    [rails[r] EXCEPT !.left = IF @ > 0 THEN @ - 1 ELSE 0]]
    /\ UNCHANGED <<purse, fill, usdt, equity, pass, top, high, twice>>

EquityWriters == FillBooked \/ AccountUpdate \/ Remarked \/ SnapshotForced
WalletMonitor == WalletRead \/ WalletWritten
TopUp         == TopUpStarts \/ TopUpAsks \/ TopUpDirect \/ TopUpByMain \/ TopUpLast
Ordering(r)   == OrderRefused(r) \/ OrderStopped(r) \/ OrderJudged(r)

EquityNext == \/ VenueSettles \/ EquityWriters \/ WalletMonitor \/ TopUp
              \/ EquityTick \/ \E r \in Rails : Ordering(r)

\* Time passes and orders keep being asked for.
EquityFairness ==
    /\ WF_equityVars(EquityTick)
    /\ \A r \in Rails : WF_equityVars(OrderStopped(r) \/ OrderJudged(r))

EquitySpec == EquityInit /\ [][EquityNext]_equityVars /\ EquityFairness

-----------------------------------------------------------------------------
\* The peak no order ever lowers is never above what the wallets have really
\* held together, unless a realized result was counted by an account update and
\* again by its booking: a pass reads the wallets against the direction the
\* top-up moves money, so it may miss money and never counts it twice (app.py:
\* wallet_balance_worker; binance.py: ensure_futures_balance).
PeakIsReal == twice \/ \A r \in Rails : rails[r].peak <= high

\* The breaker lifts for good once the equity stays above the floor and within
\* the drawdown limit of the peak (risk.py: check_breaker,
\* refresh_snapshot_metrics).
BreakerLifts ==
    \A r \in Rails :
        <>[](~Breached(Larger(rails[r].peak, equity), equity)) => <>[](~rails[r].active)

\* The equity side, typed, with a peak that was real.
EquityInv == EquityTypeOK /\ PeakIsReal
=============================================================================
