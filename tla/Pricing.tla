-------------------------------- MODULE Pricing --------------------------------
(***************************************************************************)
(* How an order by quote becomes a quantity and a price: market_quote of the  *)
(* router (engine/core/order_router.py) asks the REST client                  *)
(* (engine/core/binance.py) for the price it limits the order to, again for   *)
(* the price it divides the quote by, and for the book if it tries a maker     *)
(* order first; the client asks the venue, the other market, its cache, in     *)
(* that order.  submit_limit_order rounds the price by the filter of the       *)
(* symbol, fetched once under a lock.  Without a price the order goes out at   *)
(* the market, and on futures the client does the division itself.             *)
(*                                                                         *)
(* Every question to the venue is an await and may fail, so prices move, and   *)
(* calls overlap, between one question and the next.  One symbol (caches are   *)
(* per symbol) and BUY orders; the tolerance of the limit price is left out;   *)
(* margin asks like spot.  What becomes of the order is in OrderPath.          *)
(***************************************************************************)
EXTENDS Integers, FiniteSets

CONSTANTS Calls,      \* calls to the router and the endpoints
          Default,    \* the client's _default_market
          Budget,     \* the quote of the orders, up to MAX_NOTIONAL_USDT
          PriceSet,   \* bound: prices of the venue
          StepSet,    \* bound: tick and step sizes of the venue's filters
          MaxMoves    \* bound: changes of a price or of a filter

Places == {"spot", "futures"}

ASSUME PricingAssumption ==
    /\ Default \in Places
    /\ Budget \in Nat \ {0}
    /\ PriceSet \subseteq Nat \ {0} /\ StepSet \subseteq Nat \ {0}
    /\ MaxMoves \in Nat

VARIABLES
    mark,        \* the venue: the price in each market
    rules,       \* the venue: the filter of the symbol
    moves,
    call,        \* where each call is
    priceCache,  \* BinanceREST._price_cache; 0 for none
    heard,       \* markets the client has ever had a price for (history)
    forgot,      \* whether it was without one later (history)
    filters,     \* BinanceREST._symbol_filters; 0 for none
    fetchers,    \* who holds BinanceREST._lock, and waits for the filter
    handed       \* the filters callers were given (history)

askVars   == <<priceCache, heard, forgot>>
ruleVars  == <<filters, fetchers, handed>>
marketVars == <<mark, rules, moves>>
pricingVars == <<marketVars, call, askVars, ruleVars>>

\* A call that has not begun, and one that is over without an order to show.
NewCall == [pc |-> "new", hop |-> "primary", market |-> Default, px |-> 0, bid |-> 0, qty |-> 0,
            still |-> FALSE, answered |-> FALSE]
Over(q) == [NewCall EXCEPT !.pc = "over"]

Asking   == {"limit", "size", "blind", "look"}         \* waits for a price
Limiting == {"maker", "taker", "step", "info"}         \* needs the filter

PricingTypeOK ==
    /\ mark \in [Places -> PriceSet] /\ rules \in [Places -> StepSet] /\ moves \in 0..MaxMoves
    /\ \A c \in Calls : /\ call[c].pc \in Asking \cup Limiting \cup {"new", "book", "placed", "over"}
                        /\ call[c].pc \in {"maker", "taker"} => call[c].px > 0 /\ call[c].qty > 0
    /\ priceCache \in [Places -> PriceSet \cup {0}]
    /\ filters \in [Places -> StepSet \cup {0}]
    /\ fetchers \in SUBSET Calls

PricingInit ==
    /\ mark \in [Places -> PriceSet] /\ moves = 0
    /\ \E step \in StepSet : rules = [m \in Places |-> step]
    /\ call = [c \in Calls |-> NewCall]
    /\ priceCache = [m \in Places |-> 0]
    /\ heard = {} /\ forgot = FALSE
    /\ filters = [m \in Places |-> 0]
    /\ fetchers = {}
    /\ handed = [m \in Places |-> {}]

-----------------------------------------------------------------------------
(* Calls.                                                                    *)

\* _resolve_market: what the caller does not name, or the client does not offer,
\* is the default market.
Resolved(hint) == IF hint \in Places THEN hint ELSE Default
Other(m) == IF m = "spot" THEN "futures" ELSE "spot"

\* market_quote, /price, /symbol_info.
Begins(c) ==
    /\ call[c].pc = "new"
    /\ call' \in {[call EXCEPT ![c] = q] : q \in
           {[NewCall EXCEPT !.pc = pc] : pc \in {"look", "info"}} \cup
           {[NewCall EXCEPT !.pc = "limit", !.market = Resolved(hint), !.answered = TRUE,
                            !.still = mark["spot"] = mark["futures"]] : hint \in Places \cup {"none"}}}
    /\ UNCHANGED <<marketVars, askVars, ruleVars>>

-----------------------------------------------------------------------------
(* ticker_price.                                                             *)

\* The price of the limit ignores the market of the order.
KeyOf(q) == IF q.pc \in {"limit", "look"} THEN Default ELSE q.market

\* submit_market_quote: on spot the venue divides the quote itself.
Unpriced(q) ==
    IF q.market = "futures" THEN [q EXCEPT !.pc = "blind", !.hop = "primary", !.px = 0]
    ELSE Over(q)

\* _quote_to_quantity.
Quantity(p) == IF p = 0 THEN 0 ELSE Budget \div p

\* What a caller does with a price, 0 for none.
Onwards(q, p) ==
    CASE q.pc = "look"  -> {Over(q)}
      [] q.pc = "limit" -> {IF p = 0 THEN Unpriced(q)
                            ELSE [q EXCEPT !.pc = "size", !.hop = "primary", !.px = p]}
      [] q.pc = "size"  -> IF Quantity(p) = 0 THEN {Unpriced(q)}
                           ELSE {[q EXCEPT !.pc = next, !.qty = Quantity(p)] : next \in {"book", "taker"}}
      [] q.pc = "blind" -> {[q EXCEPT !.pc = "step", !.px = p]}

Gets(c, p) ==
    LET m == KeyOf(call[c]) IN
    /\ call' \in {[call EXCEPT ![c] = q] : q \in Onwards(call[c], p)}
    /\ heard' = IF p > 0 THEN heard \cup {m} ELSE heard
    /\ forgot' = (forgot \/ (p = 0 /\ m \in heard))
    /\ UNCHANGED <<marketVars, ruleVars>>

Asks(c, hop) == call[c].pc \in Asking /\ call[c].hop = hop

\* Wrong variant: a price that is in the cache is not asked for.
AnswerCached(m) == IF priceCache[m] > 0 THEN priceCache[m] ELSE mark[m]
Answer(m) == mark[m]

PrimaryAnswers(c) ==
    /\ Asks(c, "primary")
    /\ LET m == KeyOf(call[c]) IN
       /\ priceCache' = [priceCache EXCEPT ![m] = Answer(m)]
       /\ Gets(c, Answer(m))

PrimaryFails(c) ==
    /\ Asks(c, "primary")
    /\ call' = [call EXCEPT ![c].hop = "fallback", ![c].answered = FALSE]
    /\ UNCHANGED <<marketVars, askVars, ruleVars>>

\* The price of the other market is kept under the market asked for.
\* Wrong variant: it is not kept.
Unkept(m) == priceCache
Kept(m) == [priceCache EXCEPT ![m] = mark[Other(m)]]

FallbackAnswers(c) ==
    /\ Asks(c, "fallback")
    /\ LET m == KeyOf(call[c]) IN priceCache' = Kept(m) /\ Gets(c, mark[Other(m)])

FallbackFails(c) ==
    /\ Asks(c, "fallback")
    /\ Gets(c, priceCache[KeyOf(call[c])])
    /\ UNCHANGED priceCache

\* book_ticker, for a maker order in a market that goes sideways; also of the
\* default market.
BookAnswers(c) ==
    /\ call[c].pc = "book"
    /\ call' = [call EXCEPT ![c].pc = "maker", ![c].bid = mark[Default]]
    /\ UNCHANGED <<marketVars, askVars, ruleVars>>

BookFails(c) ==
    /\ call[c].pc = "book"
    /\ call' = [call EXCEPT ![c].pc = "taker"]
    /\ UNCHANGED <<marketVars, askVars, ruleVars>>

-----------------------------------------------------------------------------
(* exchange_filter, and what is sent.                                        *)

\* A maker order and /symbol_info name no market.
FilterOf(q) == IF q.pc \in {"maker", "info"} THEN Default ELSE q.market

Down(x, step) == IF step = 0 THEN x ELSE x - (x % step)

\* A price rounded to 0 the venue refuses.
Limit(q, p, step) ==
    IF Down(p, step) = 0 THEN Over(q) ELSE [q EXCEPT !.pc = "placed", !.px = Down(p, step)]

\* On futures an unknown price counts as 1; the order is filled at the mark.
StandIn(p) == IF p = 0 THEN 1 ELSE p
AtMarket(q, step) ==
    LET qty == Down(Budget \div StandIn(q.px), step) IN
    IF qty = 0 THEN Over(q) ELSE [q EXCEPT !.pc = "placed", !.qty = qty, !.px = mark["futures"]]

\* The venue may refuse the maker order, then the taker order is sent.
Submitted(q, step) ==
    CASE q.pc = "info"  -> {Over(q)}
      [] q.pc = "maker" -> {Limit(q, q.bid, step), [q EXCEPT !.pc = "taker"]}
      [] q.pc = "taker" -> {Limit(q, q.px, step)}
      [] q.pc = "step"  -> {AtMarket(q, step)}

Sends(c, step) == call' \in {[call EXCEPT ![c] = q] : q \in Submitted(call[c], step)}

\* Wrong variant: whoever finds no filter asks for it.
NobodyElse(c) == TRUE
Unlocked(c) == fetchers = {}
Wants(c) == call[c].pc \in Limiting /\ c \notin fetchers /\ Unlocked(c)

FilterKnown(c) ==
    /\ Wants(c)
    /\ LET m == FilterOf(call[c]) IN
       /\ filters[m] > 0
       /\ Sends(c, filters[m])
       /\ handed' = [handed EXCEPT ![m] = @ \cup {filters[m]}]
    /\ UNCHANGED <<marketVars, askVars, filters, fetchers>>

FilterAsked(c) ==
    /\ Wants(c) /\ filters[FilterOf(call[c])] = 0
    /\ fetchers' = fetchers \cup {c}
    /\ UNCHANGED <<marketVars, call, askVars, filters, handed>>

FilterAnswers(c) ==
    /\ c \in fetchers
    /\ fetchers' = fetchers \ {c}
    /\ LET m == FilterOf(call[c]) IN
       /\ filters' = [filters EXCEPT ![m] = rules[m]]
       /\ handed' = [handed EXCEPT ![m] = @ \cup {rules[m]}]
       /\ Sends(c, rules[m])
    /\ UNCHANGED <<marketVars, askVars>>

\* The caller goes on without a filter.
FilterFails(c) ==
    /\ c \in fetchers
    /\ fetchers' = fetchers \ {c}
    /\ Sends(c, 0)
    /\ UNCHANGED <<marketVars, askVars, filters, handed>>

-----------------------------------------------------------------------------
(* The venue.                                                                *)

MarkMoves(m) ==
    /\ moves < MaxMoves
    /\ moves' = moves + 1
    /\ mark' \in {[mark EXCEPT ![m] = p] : p \in PriceSet \ {mark[m]}}
    /\ call' = [c \in Calls |-> IF call[c].pc \in {"placed", "over"} THEN call[c]
                                ELSE [call[c] EXCEPT !.still = FALSE]]
    /\ UNCHANGED <<rules, askVars, ruleVars>>

RulesChange(m) ==
    /\ moves < MaxMoves
    /\ moves' = moves + 1
    /\ rules' \in {[rules EXCEPT ![m] = s] : s \in StepSet \ {rules[m]}}
    /\ UNCHANGED <<mark, call, askVars, ruleVars>>

PricingNext ==
    \/ \E c \in Calls :
         \/ Begins(c) \/ BookAnswers(c) \/ BookFails(c)
         \/ PrimaryAnswers(c) \/ PrimaryFails(c) \/ FallbackAnswers(c) \/ FallbackFails(c)
         \/ FilterKnown(c) \/ FilterAsked(c) \/ FilterAnswers(c) \/ FilterFails(c)
    \/ \E m \in Places : MarkMoves(m) \/ RulesChange(m)

PricingSpec == PricingInit /\ [][PricingNext]_pricingVars

-----------------------------------------------------------------------------
(* Properties.                                                               *)

Commits(q) == q.qty * q.px

\* An order whose questions the venue answered, in markets that agreed and stood
\* still, commits no more than its quote, whatever older calls left in the caches
\* and whatever other calls do meanwhile.
QuoteKept ==
    \A c \in Calls : call[c].pc = "placed" /\ call[c].still /\ call[c].answered => Commits(call[c]) <= Budget

\* Once the client has had a price for a market it is never without one: the
\* stand-in price is for a client that never had one.
NeverForgets == ~forgot

\* All callers are given one filter of a market, however they overlap with the
\* first fetch and whatever the venue changes meanwhile.
FiltersAgree == \A m \in Places : Cardinality(handed[m]) <= 1

PricingInv == PricingTypeOK /\ QuoteKept /\ NeverForgets /\ FiltersAgree

\* "MIN_NOTIONAL_USDT, MAX_NOTIONAL_USDT - global order size rails"
\* (docs/FEATURE_FLAGS.md:10): while prices stand still, no order commits more
\* than the quote the rails accepted.
SizeRailed ==
    \A c \in Calls : call[c].pc = "placed" /\ call[c].still => Commits(call[c]) <= Budget
=============================================================================
