----------------------------- MODULE DexPositions -----------------------------
(***************************************************************************)
(* The DEX sniper: candidates of the feed are bought on chain and become    *)
(* positions; a watcher prices the open positions in turn, sells a portion   *)
(* at each ladder target and the rest at the stop or the trailing stop.      *)
(*                                                                         *)
(*  - DexSniper.handle_candidate, one coroutine per candidate: the bus runs  *)
(*    them concurrently;                                                    *)
(*  - DexState: the positions, saved in the step that changes them, and the  *)
(*    symbol index kept in memory;                                          *)
(*  - DexWatcher: one loop, one position at a time;                         *)
(*  - DexWallet and the chain: a transaction is broadcast, mined or reverted, *)
(*    and its receipt is awaited, in vain if the wait raises.  The nonce is   *)
(*    the number of mined transactions, so the mempool holds one transaction  *)
(*    of the wallet and a later one replaces it.                            *)
(*                                                                         *)
(* A symbol stands for its token.  Prices are percentages of the entry price *)
(* of a position, quantities are units of the quoted purchase.  The state    *)
(* file is writable (a failed save is ignored by the code).  The one-time     *)
(* approval of a token is part of the step that precedes the broadcast.      *)
(***************************************************************************)
EXTENDS Integers, Sequences, FiniteSetsExt, Functions

CONSTANTS Cands,      \* the candidate events; a position is named after its own
          Tokens,    \* the tokens
          TokenOf,    \* the token of a candidate
          MaxLive,    \* DEX_MAX_LIVE
          Size,       \* the quantity quoted for a purchase
          Slip,       \* the purchase may deliver that much less
          Portions,   \* the quantity sold at each target (portion * initial_qty)
          Triggers,   \* the price of each target
          StopAt,     \* the stop price
          TrailPct,   \* distance of the trailing stop from the high, in percent
          Prices,     \* bound: the prices the oracle answers
          MaxBoots    \* bound: the process starts at most MaxBoots times

ASSUME DexAssumption ==
    /\ IsFiniteSet(Cands) /\ TokenOf \in [Cands -> Tokens]
    /\ MaxLive \in Nat \ {0}
    /\ Size \in Nat \ {0} /\ Slip \in 0..(Size - 1)
    /\ Portions \in Seq(1..Size) /\ Triggers \in Seq(Nat) /\ Len(Triggers) = Len(Portions)
    /\ Prices \subseteq Nat \ {0}
    /\ MaxBoots \in Nat \ {0}

Entry   == 100
Targets == DOMAIN Portions
Exit    == 0            \* the sale of the whole remainder

VARIABLES
    cand,      \* where handle_candidate stands for each candidate
    pos,       \* DexState._positions, and the file
    index,     \* DexState._symbol_index: the symbols that have an entry
    watch,     \* the watcher: where it waits, what is left of the tick, the sale
    mem,       \* the transaction of the wallet in the mempool
    balance,   \* the tokens of the wallet
    boots,     \* how often the process has started
    adrift     \* symbols of which some answer was lost, short or failed

dexVars == <<cand, pos, index, watch, mem, balance, boots, adrift>>

NoTx == [of |-> "none"]
Tx   == {NoTx} \cup [of : Cands, side : {"buy"}] \cup [of : Cands, side : {"sell"}, qty : 1..Size]
NoPosition  == [status |-> "none", qty |-> 0, high |-> Entry, filled |-> {}]
NewPosition == [status |-> "open", qty |-> Size, high |-> Entry, filled |-> {}]
Asleep      == [pc |-> "sleep", todo |-> {}, at |-> Exit, price |-> 0]

OpenPositions == {c \in Cands : pos[c].status = "open"}
OpenOf(s)     == {c \in OpenPositions : TokenOf[c] = s}
Buying(c)     == cand[c] \in {"sent", "mined", "reverted"}
Selling       == watch.pc \in {"selling", "waiting", "mined", "reverted"}

DexTypeOK ==
    /\ cand \in [Cands -> {"new", "buying", "sent", "mined", "reverted", "done"}]
    /\ pos \in [Cands -> [status : {"none", "open", "closed"}, qty : 0..Size,
                          high : Prices \cup {Entry}, filled : SUBSET Targets]]
    /\ \A c \in OpenPositions : pos[c].qty > 0
    /\ index \subseteq Tokens
    /\ IF Selling THEN /\ watch.of \in OpenPositions /\ watch.todo \subseteq Cands
                       /\ watch.at \in Targets \cup {Exit} /\ watch.price \in Prices
                  ELSE watch.pc \in {"sleep", "tick", "dead"}
    /\ mem \in Tx
    /\ balance \in [Tokens -> Nat]
    /\ boots \in 1..MaxBoots
    /\ adrift \subseteq Tokens

DexInit ==
    /\ cand = [c \in Cands |-> "new"]
    /\ pos = [c \in Cands |-> NoPosition]
    /\ index = {}
    /\ watch = Asleep
    /\ mem = NoTx
    /\ balance = [s \in Tokens |-> 0]
    /\ boots = 1
    /\ adrift = {}

-----------------------------------------------------------------------------
(* handle_candidate                                                          *)

LimitHit(s) == Cardinality(OpenPositions) >= MaxLive \/ s \in index

\* The checks; the candidate may also be filtered for its liquidity or tax.
CandidateArrives(c) ==
    /\ cand[c] = "new"
    /\ \E next \in (IF LimitHit(TokenOf[c]) THEN {"done"} ELSE {"buying", "done"}) :
           cand' = [cand EXCEPT ![c] = next]
    /\ UNCHANGED <<pos, index, watch, mem, balance, boots, adrift>>

BuySends(c) ==
    /\ cand[c] = "buying"
    /\ cand' = [cand EXCEPT ![c] = "sent"]
    /\ mem' = [of |-> c, side |-> "buy"]
    /\ UNCHANGED <<pos, index, watch, balance, boots, adrift>>

\* Any exception, before or after the broadcast, ends the handler: a purchase
\* that was sent may have been made, or may yet be.
BuyRaises(c) ==
    /\ cand[c] \in {"buying", "sent", "mined", "reverted"}
    /\ cand' = [cand EXCEPT ![c] = "done"]
    /\ adrift' = IF cand[c] \in {"sent", "mined"} THEN adrift \cup {TokenOf[c]} ELSE adrift
    /\ UNCHANGED <<pos, index, watch, mem, balance, boots>>

\* The receipt is good: DexState.open_position, with the quantity of the quote.
BuyAnswered(c) ==
    /\ cand[c] = "mined"
    /\ cand' = [cand EXCEPT ![c] = "done"]
    /\ pos' = [pos EXCEPT ![c] = NewPosition]
    /\ index' = index \cup {TokenOf[c]}
    /\ UNCHANGED <<watch, mem, balance, boots, adrift>>

-----------------------------------------------------------------------------
(* DexWatcher.  A sale belongs to position watch.of: target watch.at, or the  *)
(* whole remainder (Exit).                                                   *)

SaleQty   == IF watch.at = Exit THEN pos[watch.of].qty
             ELSE Min({Portions[watch.at], pos[watch.of].qty})
Stops(x)  == x <= StopAt
Trails(q, x) == x * 100 <= q.high * (100 - TrailPct) /\ q.high > Entry
Due(q, x, at) == {i \in Targets : i > at /\ i \notin q.filled /\ x >= Triggers[i]}

\* What _evaluate does next for position c, recorded as q, when the price is x
\* and the ladder has been looked at up to target at: sell a target, sell the
\* rest, or turn to the next position.  The targets still due of a position
\* that has just been sold out are recorded as filled.
Onward(c, q, x, at) ==
    LET due  == Due(q, x, at)
        sale == IF due # {} THEN Min(due) ELSE Exit
    IN IF q.status = "open" /\ (due # {} \/ Trails(q, x))
       THEN /\ watch' = [pc |-> "selling", todo |-> watch.todo \ {c}, of |-> c,
                         at |-> sale, price |-> x]
            /\ pos' = [pos EXCEPT ![c] = q]
       ELSE /\ watch' = [Asleep EXCEPT !.pc = "tick", !.todo = watch.todo \ {c}]
            /\ pos' = [pos EXCEPT ![c] = IF q.status = "open" THEN q
                                         ELSE [q EXCEPT !.filled = @ \cup due]]

WatcherTick ==
    /\ watch.pc = "sleep"
    /\ watch' = [watch EXCEPT !.pc = "tick", !.todo = OpenPositions]
    /\ UNCHANGED <<cand, pos, index, mem, balance, boots, adrift>>

WatcherSleeps ==
    /\ watch.pc = "tick" /\ watch.todo = {}
    /\ watch' = Asleep
    /\ UNCHANGED <<cand, pos, index, mem, balance, boots, adrift>>

\* The oracle has a price x, fresh or cached: the high is raised, then the stop,
\* the ladder and the trailing stop are tried.
WatcherPrices(c, x) ==
    /\ watch.pc = "tick" /\ c \in watch.todo
    /\ LET q == [pos[c] EXCEPT !.high = Max({@, x})]
       IN IF Stops(x)
          THEN /\ watch' = [pc |-> "selling", todo |-> watch.todo \ {c}, of |-> c,
                            at |-> Exit, price |-> x]
               /\ pos' = [pos EXCEPT ![c] = q]
          ELSE Onward(c, q, x, 0)
    /\ UNCHANGED <<cand, index, mem, balance, boots, adrift>>

\* The oracle has no price (the position is passed over), raises an error that
\* ends the tick, or one the loop does not catch, which ends the watcher.
WatcherUnpriced(c) ==
    /\ watch.pc = "tick" /\ c \in watch.todo
    /\ watch' \in {[watch EXCEPT !.todo = @ \ {c}], Asleep, [Asleep EXCEPT !.pc = "dead"]}
    /\ UNCHANGED <<cand, pos, index, mem, balance, boots, adrift>>

SellSends ==
    /\ watch.pc = "selling"
    /\ watch' = [watch EXCEPT !.pc = "waiting"]
    /\ mem' = [of |-> watch.of, side |-> "sell", qty |-> SaleQty]
    /\ UNCHANGED <<cand, pos, index, balance, boots, adrift>>

\* Wrong variants of register_fill: a sold-out position stays open; the target
\* is not marked; the quantity is not reduced.
RegisteredOpen(q, i, sold)   == [q EXCEPT !.qty = @ - sold, !.filled = @ \cup {i}]
RegisteredBlank(q, i, sold)  == [q EXCEPT !.qty = @ - sold,
                                          !.status = IF q.qty - sold <= 0 THEN "closed" ELSE @]
RegisteredUnsold(q, i, sold) == [q EXCEPT !.filled = @ \cup {i}]

\* DexState.register_fill of a target: the position closes when nothing is left.
Registered(q, i, sold) ==
    [q EXCEPT !.qty = @ - sold, !.filled = @ \cup {i},
              !.status = IF q.qty - sold <= 0 THEN "closed" ELSE @]
Closed(q) == [q EXCEPT !.status = "closed"]

\* Wrong variant: the index keeps the symbol of a closed position.
StillIndexed(c, q) == index

Unindexed(c, q) == IF q.status = "closed" THEN index \ {TokenOf[c]} ELSE index

SellAnswered ==
    /\ watch.pc = "mined"
    /\ LET c == watch.of
           q == IF watch.at = Exit THEN Closed(pos[c])
                ELSE Registered(pos[c], watch.at, SaleQty)
       IN /\ Onward(c, q, watch.price, watch.at)
          /\ index' = Unindexed(c, q)
    /\ UNCHANGED <<cand, mem, balance, boots, adrift>>

\* A revert, a refused call or a lost receipt.  _take_partial keeps the target
\* open and goes on; _flatten closes the position whatever happened.  An error
\* outside _WATCHER_ERRORS ends the watcher's task.
SellRaises(escapes) ==
    /\ Selling
    /\ escapes => watch.pc # "reverted"
    /\ LET c == watch.of
           q == IF watch.at = Exit THEN Closed(pos[c]) ELSE pos[c]
       IN /\ index' = Unindexed(c, q)
          /\ adrift' = IF watch.at = Exit \/ watch.pc \in {"waiting", "mined"}
                       THEN adrift \cup {TokenOf[c]} ELSE adrift
          /\ IF escapes
             THEN watch' = [Asleep EXCEPT !.pc = "dead"] /\ pos' = [pos EXCEPT ![c] = q]
             ELSE Onward(c, q, watch.price, watch.at)
    /\ UNCHANGED <<cand, mem, balance, boots>>

-----------------------------------------------------------------------------
(* The chain and the process.                                                *)

\* The coroutine that waits for the transaction, if one still does, will see
\* how it ended; a replaced or forgotten transaction has nobody waiting.
Settles(ok) ==
    LET c == mem.of
        end == IF ok THEN "mined" ELSE "reverted"
    IN IF mem.side = "buy"
       THEN /\ cand' = [cand EXCEPT ![c] = IF @ = "sent" THEN end ELSE @]
            /\ UNCHANGED watch
       ELSE /\ watch' = IF watch.pc = "waiting" THEN [watch EXCEPT !.pc = end] ELSE watch
            /\ UNCHANGED cand

Mines ==
    /\ mem # NoTx
    /\ mem' = NoTx
    /\ Settles(TRUE)
    /\ LET s == TokenOf[mem.of]
       IN \/ mem.side = "buy" /\ \E short \in 0..Slip :
                 /\ balance' = [balance EXCEPT ![s] = @ + Size - short]
                 /\ adrift' = IF short > 0 THEN adrift \cup {s} ELSE adrift
          \/ /\ mem.side = "sell" /\ balance[s] >= mem.qty
             /\ balance' = [balance EXCEPT ![s] = @ - mem.qty]
             /\ UNCHANGED adrift
    /\ UNCHANGED <<pos, index, boots>>

\* Slippage, the deadline, too little balance.
Reverts ==
    /\ mem # NoTx
    /\ mem' = NoTx
    /\ Settles(FALSE)
    /\ UNCHANGED <<pos, index, balance, boots, adrift>>

\* The process dies and starts again: DexState._load rebuilds the index.
Restart ==
    /\ boots < MaxBoots
    /\ boots' = boots + 1
    /\ cand' = [c \in Cands |-> IF cand[c] = "new" THEN "new" ELSE "done"]
    /\ index' = {TokenOf[c] : c \in OpenPositions}
    /\ watch' = Asleep
    /\ adrift' = adrift \cup {TokenOf[c] : c \in {d \in Cands : cand[d] \in {"sent", "mined"}}}
                        \cup IF watch.pc \in {"waiting", "mined"} THEN {TokenOf[watch.of]} ELSE {}
    /\ UNCHANGED <<pos, mem, balance>>

-----------------------------------------------------------------------------
DexNext ==
    \/ \E c \in Cands : CandidateArrives(c) \/ BuySends(c) \/ BuyRaises(c) \/ BuyAnswered(c)
    \/ WatcherTick \/ WatcherSleeps
    \/ \E c \in Cands, x \in Prices : WatcherPrices(c, x)
    \/ \E c \in Cands : WatcherUnpriced(c)
    \/ SellSends \/ SellAnswered \/ \E escapes \in BOOLEAN : SellRaises(escapes)
    \/ Mines \/ Reverts \/ Restart

DexSpec == DexInit /\ [][DexNext]_dexVars

-----------------------------------------------------------------------------
(* Properties.                                                               *)

\* An entry of the symbol index stands for an open position: no interleaving of
\* purchases, sell-outs, failed exits and restarts leaves a symbol that can
\* never be traded again.
NoPhantomIndex == \A s \in index : OpenOf(s) # {}

\* The quantity of a position is what was bought less its filled targets, so no
\* target is registered twice, whatever was retried or lost.
LadderLedger ==
    \A c \in OpenPositions :
        pos[c].qty = Size - MapThenSumSet(LAMBDA i : Portions[i], pos[c].filled)

\* The wallet holds what the open positions say, up to the purchases and the
\* sale whose receipt is on its way, unless an answer about the token was lost,
\* short or failed.
WalletMatches ==
    \A s \in Tokens \ adrift :
        balance[s] =
            MapThenSumSet(LAMBDA c : pos[c].qty, OpenOf(s))
            + Size * Cardinality({c \in Cands : cand[c] = "mined" /\ TokenOf[c] = s})
            - IF watch.pc = "mined" /\ TokenOf[watch.of] = s THEN SaleQty ELSE 0

\* docs/RUNBOOK: "DEX_EXEC_ENABLED with strict slippage/gas caps and 1 live
\* position cap".
LiveCap == Cardinality(OpenPositions) <= MaxLive

\* The ledger of the positions is sound: typed, true to the ladder and to the
\* wallet.
DexLedgerInv == DexTypeOK /\ LadderLedger /\ WalletMatches
=============================================================================
