------------------------------- MODULE OrderPath -------------------------------
(***************************************************************************)
(* The life of an order request for one symbol, from the endpoint or the    *)
(* strategy executor through OrderRouter to the venue and back:             *)
(*                                                                         *)
(*  - POST /orders/market and POST /orders/limit ("market", "limit"): the   *)
(*    idempotency cache, check_order of the application's rails, the        *)
(*    pending entry that keeps others out, and its removal in finally;      *)
(*  - StrategyExecutor.execute ("signal", "limitSignal"): the same cache,   *)
(*    the rails of the strategies, no pending entry;                        *)
(*  - OrderRouter.market_quote (maker attempt, IOC, plain market fallback)  *)
(*    and limit_quantity, which asks the application's rails once more;     *)
(*  - the venue, the user stream that reports futures fills, and crashes.   *)
(*                                                                         *)
(* An await ends an action.  An order fills completely or not at all, and   *)
(* every rule of check_order other than the pending entry and the symbol    *)
(* lock is the free outcome "RULE".  A request without an idempotency key   *)
(* behaves as one whose key nobody else uses.                               *)
(***************************************************************************)
EXTENDS Integers, FiniteSets

CONSTANTS Reqs,        \* the requests
          HttpKeys,    \* idempotency keys of the HTTP endpoints
          SignalKeys,  \* idempotency keys of the strategy executor
          Tags,        \* strategy tags
          Forms,       \* how endpoints name the symbol: "full", or "bare" without venue
          Notionals    \* estimated notionals

ASSUME OrderAssumption ==
    /\ HttpKeys \cap SignalKeys = {}
    /\ "unknown" \notin Tags /\ "free" \notin Tags
    /\ Forms \subseteq {"full", "bare"}
    /\ Notionals \subseteq Nat \ {0}

Keys       == HttpKeys \cup SignalKeys
HttpJobs   == [kind : {"market", "limit"}, key : HttpKeys, form : Forms,
               notional : Notionals, tag : {"unknown"}]
SignalJobs == [kind : {"signal", "limitSignal"}, key : SignalKeys, form : {"full"},
               notional : {0}, tag : Tags]
Legs       == {"maker", "taker"}
Waiting    == {"maker", "taker", "plain", "limit"}   \* for the venue's answer
InFlightPc == {"pricing"} \cup Waiting
Accepted   == {"expired", "resting", "filled"}

VARIABLES
    job,       \* what each request asks for
    venue,     \* the market the engine trades: "spot" or "futures"
    pc,        \* where each request is
    why,       \* the reason of its refusal by check_order
    ack,       \* the answer of the venue on its way to the request
    cache,     \* the idempotency cache (SQLite: it survives a crash)
    pending,   \* RAILS._pending_orders
    lock,      \* the symbol lock of each RiskRails: its holder
    legs,      \* the orders of each request at the venue
    reports,   \* fills the user stream has still to report
    booked     \* calls of portfolio.apply_fill for the fills of a request

reqVars   == <<job, venue>>
venueVars == <<legs, reports>>
pathVars == <<job, venue, pc, why, ack, cache, pending, lock, legs, reports, booked>>

Http(r)     == job[r].kind \in {"market", "limit"}
ByQuote(r)  == job[r].kind \in {"market", "signal"}
InFlight(r) == pc[r] \in InFlightPc
RailsOf(r)  == IF Http(r) THEN "app" ELSE "strategy"

PathTypeOK ==
    /\ job \in [Reqs -> HttpJobs \cup SignalJobs]
    /\ venue \in {"spot", "futures"}
    /\ pc \in [Reqs -> {"idle", "done", "failed", "refused", "cached", "lost"} \cup InFlightPc]
    /\ why \in [Reqs -> {"none", "RACE", "RULE", "LOCKED"}]
    /\ ack \in [Reqs -> {"none", "rejected", "empty", "filled"}]
    /\ cache \in [Keys -> {"none", "rejected", "submitted"}]
    /\ pending \in [{"full", "bare"} -> Nat]
    /\ lock \in [{"app", "strategy"} -> {"free", "unknown"} \cup Tags]
    /\ legs \in [Reqs -> [Legs -> {"none", "sent", "rejected"} \cup Accepted]]
    /\ reports \in [Reqs -> 0..2]
    /\ booked \in [Reqs -> 0..4]

PathInit ==
    /\ job \in [Reqs -> HttpJobs \cup SignalJobs]
    /\ venue \in {"spot", "futures"}
    /\ pc = [r \in Reqs |-> "idle"]
    /\ why = [r \in Reqs |-> "none"]
    /\ ack = [r \in Reqs |-> "none"]
    /\ cache = [k \in Keys |-> "none"]
    /\ pending = [f \in {"full", "bare"} |-> 0]
    /\ lock = [x \in {"app", "strategy"} |-> "free"]
    /\ legs = [r \in Reqs |-> [l \in Legs |-> "none"]]
    /\ reports = [r \in Reqs |-> 0]
    /\ booked = [r \in Reqs |-> 0]

-----------------------------------------------------------------------------
(* RiskRails.                                                                *)

\* _acquire_symbol_lock: a strategy may enter its own lock again.
MayLock(rails, tag) == lock[rails] = "free" \/ (tag # "unknown" /\ lock[rails] = tag)

\* What the other rules of check_order may answer, before or after these two:
\* allowlist, shape, notional, exposure, margin and rate are not told apart.
OtherRules == {"RULE"}

\* check_order refuses: some other rule, a pending entry under that name, the lock.
Refusal(rails, name, tag) ==
    OtherRules \cup
        (IF rails = "app" /\ pending[name] > 0 THEN {"RACE"}
         ELSE IF MayLock(rails, tag) THEN {} ELSE {"LOCKED"})

\* Wrong variants: the pending entries are not asked; the lock is taken in the
\* name of the symbol instead of the strategy.
AdmitsBesides(rails, name, tag) ==
    MayLock(rails, tag) /\ lock' = [lock EXCEPT ![rails] = tag]
AdmitsSwapped(rails, name, tag) ==
    /\ rails = "app" => pending[name] = 0
    /\ MayLock(rails, tag)
    /\ lock' = [lock EXCEPT ![rails] = name]

\* check_order accepts, and takes the lock.
Admits(rails, name, tag) ==
    /\ rails = "app" => pending[name] = 0
    /\ MayLock(rails, tag)
    /\ lock' = [lock EXCEPT ![rails] = tag]

\* Wrong variant: whoever ends clears the table.
ClearedAll(r) == [pending EXCEPT !["full"] = 0]

\* The handler has rewritten a bare symbol by the time finally clears it: the
\* entry removed is always that of the full name.
Cleared(r) ==
    IF ~Http(r) THEN pending
    ELSE [pending EXCEPT !["full"] = IF @ > job[r].notional THEN @ - job[r].notional ELSE 0]

-----------------------------------------------------------------------------
(* The beginning of a handler, up to its first await.                        *)

Cached(r) ==
    /\ pc[r] = "idle" /\ cache[job[r].key] # "none"
    /\ pc' = [pc EXCEPT ![r] = "cached"]
    /\ UNCHANGED <<reqVars, why, ack, cache, pending, lock, venueVars, booked>>

\* The executor remembers a refusal under its key, the endpoints do not.
Refused(r) ==
    /\ pc[r] = "idle" /\ cache[job[r].key] = "none"
    /\ \E reason \in Refusal(RailsOf(r), job[r].form, job[r].tag) :
          why' = [why EXCEPT ![r] = reason]
    /\ pc' = [pc EXCEPT ![r] = "refused"]
    /\ cache' = IF Http(r) THEN cache ELSE [cache EXCEPT ![job[r].key] = "rejected"]
    /\ UNCHANGED <<reqVars, ack, pending, lock, venueVars, booked>>

Accept(r) ==
    /\ pc[r] = "idle" /\ cache[job[r].key] = "none"
    /\ Admits(RailsOf(r), job[r].form, job[r].tag)
    /\ pc' = [pc EXCEPT ![r] = "pricing"]
    /\ pending' = IF Http(r) THEN [pending EXCEPT ![job[r].form] = @ + job[r].notional]
                  ELSE pending
    /\ UNCHANGED <<reqVars, why, ack, cache, venueVars, booked>>

-----------------------------------------------------------------------------
(* The end of a handler.                                                     *)

Complete(r, bookings) ==
    /\ pc' = [pc EXCEPT ![r] = "done"]
    /\ cache' = [cache EXCEPT ![job[r].key] = "submitted"]
    /\ pending' = Cleared(r)
    /\ booked' = [booked EXCEPT ![r] = @ + bookings]
    /\ UNCHANGED <<reqVars, why, ack, lock, venueVars>>

\* Wrong variant: a failure is remembered as a success.
AbortCaches(r) ==
    /\ pc' = [pc EXCEPT ![r] = "failed"]
    /\ cache' = [cache EXCEPT ![job[r].key] = "submitted"]
    /\ pending' = Cleared(r)
    /\ UNCHANGED <<reqVars, ack, lock, venueVars, booked>>

\* An exception: nothing is cached, the pending entry goes.
Abort(r) ==
    /\ pc' = [pc EXCEPT ![r] = "failed"]
    /\ pending' = Cleared(r)
    /\ UNCHANGED <<reqVars, ack, cache, lock, venueVars, booked>>

-----------------------------------------------------------------------------
(* OrderRouter.market_quote and limit_quantity.                              *)

Send(r, leg, to) ==
    /\ legs' = [legs EXCEPT ![r][leg] = "sent"]
    /\ pc' = [pc EXCEPT ![r] = to]
    /\ ack' = [ack EXCEPT ![r] = "none"]
    /\ UNCHANGED <<reqVars, why, cache, pending, reports, booked>>

\* No price, a quantity below the filters, a notional below the minimum.
PricingFails(r) == pc[r] = "pricing" /\ Abort(r) /\ UNCHANGED why

\* In a CHOP regime a post-only order is tried first; otherwise an IOC; a plain
\* market order when no price or no quantity can be had.
SendByQuote(r) ==
    /\ pc[r] = "pricing" /\ ByQuote(r)
    /\ Send(r, "maker", "maker") \/ Send(r, "taker", "taker") \/ Send(r, "taker", "plain")
    /\ UNCHANGED lock

\* limit_quantity asks the application's rails again, about the full symbol.
SendLimit(r) ==
    /\ pc[r] = "pricing" /\ ~ByQuote(r)
    /\ Admits("app", "full", "unknown")
    /\ Send(r, "taker", "limit")

LimitRefused(r) ==
    /\ pc[r] = "pricing" /\ ~ByQuote(r)
    /\ \E reason \in Refusal("app", "full", "unknown") : why' = [why EXCEPT ![r] = reason]
    /\ Abort(r)

\* A spot answer lists its fills; taking the first of none raises.
Raises(r) == ack[r] = "rejected" \/ (ack[r] = "empty" /\ venue = "spot")

\* Any failure of the maker attempt, also one after the venue has the order,
\* falls through to the IOC.  (The request may time out before the answer.)
MakerFallsThrough(r) ==
    /\ pc[r] = "maker"
    /\ ack[r] # "none" => Raises(r)
    /\ Send(r, "taker", "taker")
    /\ UNCHANGED lock

MakerRests(r) ==
    /\ pc[r] = "maker" /\ ack[r] = "empty" /\ ~Raises(r)
    /\ Complete(r, 0)

\* Wrong variant: a futures answer is booked as well as its stream report.
BookingsAnyway(r) ==
    IF pc[r] = "plain" \/ ack[r] = "empty" THEN 0 ELSE IF Http(r) THEN 2 ELSE 1

\* How often a filled answer is booked: a spot answer carries a price, which
\* the router books and the endpoint books again; a futures answer carries
\* none, and only the limit path supplies one of its own.
Bookings(r) ==
    IF pc[r] = "plain" \/ ack[r] = "empty" \/ (pc[r] = "taker" /\ venue = "futures") THEN 0
    ELSE IF Http(r) THEN 2 ELSE 1

\* The plain market order returns the answer as it is.
Answered(r) ==
    /\ pc[r] \in {"taker", "limit", "plain"}
    /\ ack[r] \in {"empty", "filled"}
    /\ pc[r] = "plain" \/ ~Raises(r)
    /\ Complete(r, Bookings(r))

AnswerRaises(r) ==
    /\ pc[r] \in {"taker", "limit", "plain"}
    /\ ack[r] = "rejected" \/ (pc[r] # "plain" /\ Raises(r))
    /\ Abort(r) /\ UNCHANGED why

\* The HTTP client gives up; the order may be at the venue or still arrive.
TimesOut(r) ==
    /\ pc[r] \in {"taker", "limit", "plain"} /\ ack[r] = "none"
    /\ Abort(r) /\ UNCHANGED why

-----------------------------------------------------------------------------
(* The venue, the user stream, time and crashes.                             *)

Outcome(r, leg) ==
    IF leg = "maker" THEN {"rejected", "resting", "expired"}
    ELSE IF ByQuote(r) THEN {"rejected", "expired", "filled"}
    ELSE {"rejected", "resting", "expired", "filled"}

Reported(r, state) == [reports EXCEPT ![r] = IF state = "filled" /\ venue = "futures" THEN @ + 1 ELSE @]

\* The request whose answer this is still waits for it, or has moved on.
AwaitsLeg(r, leg) == pc[r] \in Waiting /\ (leg = "maker") = (pc[r] = "maker")

VenueTakes(r, leg) ==
    /\ legs[r][leg] = "sent"
    /\ \E state \in Outcome(r, leg) :
         /\ legs' = [legs EXCEPT ![r][leg] = state]
         /\ reports' = Reported(r, state)
         /\ ack' = IF ~AwaitsLeg(r, leg) THEN ack
                   ELSE [ack EXCEPT ![r] = IF state \in {"resting", "expired"} THEN "empty" ELSE state]
    /\ UNCHANGED <<reqVars, pc, why, cache, pending, lock, booked>>

VenueFills(r, leg) ==
    /\ legs[r][leg] = "resting"
    /\ legs' = [legs EXCEPT ![r][leg] = "filled"]
    /\ reports' = Reported(r, "filled")
    /\ UNCHANGED <<reqVars, pc, why, ack, cache, pending, lock, booked>>

\* on_order_update books what the stream reports; a broken stream loses it.
StreamReports(r) ==
    /\ reports[r] > 0
    /\ reports' = [reports EXCEPT ![r] = @ - 1]
    /\ \E n \in {0, 1} : booked' = [booked EXCEPT ![r] = @ + n]
    /\ UNCHANGED <<reqVars, pc, why, ack, cache, pending, lock, legs>>

\* SYMBOL_LOCK_TTL_SEC passes; nothing else releases a lock.
LockExpires(rails) ==
    /\ lock[rails] # "free"
    /\ lock' = [lock EXCEPT ![rails] = "free"]
    /\ UNCHANGED <<reqVars, pc, why, ack, cache, pending, venueVars, booked>>

CacheExpires(k) ==
    /\ cache[k] # "none"
    /\ cache' = [cache EXCEPT ![k] = "none"]
    /\ UNCHANGED <<reqVars, pc, why, ack, pending, lock, venueVars, booked>>

\* The process dies: the cache is on disk, the rails are not, and what the
\* stream had still to report is gone.
Crash ==
    /\ \E r \in Reqs : InFlight(r)
    /\ pc' = [r \in Reqs |-> IF InFlight(r) THEN "lost" ELSE pc[r]]
    /\ pending' = [f \in {"full", "bare"} |-> 0]
    /\ lock' = [x \in {"app", "strategy"} |-> "free"]
    /\ reports' = [r \in Reqs |-> 0]
    /\ UNCHANGED <<reqVars, why, ack, cache, legs, booked>>

Arrives(r) == Cached(r) \/ Refused(r) \/ Accept(r)
Handles(r) ==
    \/ PricingFails(r) \/ SendByQuote(r) \/ SendLimit(r) \/ LimitRefused(r)
    \/ MakerFallsThrough(r) \/ MakerRests(r)
    \/ Answered(r) \/ AnswerRaises(r) \/ TimesOut(r)

PathNext ==
    \/ \E r \in Reqs : Arrives(r) \/ Handles(r) \/ StreamReports(r)
    \/ \E r \in Reqs, leg \in Legs : VenueTakes(r, leg) \/ VenueFills(r, leg)
    \/ \E rails \in {"app", "strategy"} : LockExpires(rails)
    \/ \E k \in Keys : CacheExpires(k)
    \/ Crash

PathSpec == PathInit /\ [][PathNext]_pathVars

-----------------------------------------------------------------------------
(* Properties.                                                               *)

\* Between its check and its end, an endpoint order is the only one for its
\* symbol: also when its symbol lock has expired, when it fails, and across a
\* crash.  (Symbols given in full.)
OneInFlight == \A r, s \in Reqs : Http(r) /\ Http(s) /\ InFlight(r) /\ InFlight(s) => r = s

\* The pending table holds the notional of the request in flight and nothing
\* else: no path through the router leaks an entry or removes one too early.
PendingMatches ==
    /\ pending["bare"] = 0
    /\ pending["full"] > 0 => \E r \in Reqs : Http(r) /\ InFlight(r)
    /\ \A r \in Reqs : Http(r) /\ InFlight(r) => pending["full"] = job[r].notional

\* A remembered "submitted" is the truth: the venue took an order of that key.
CacheTellsTruth ==
    \A k \in Keys : cache[k] = "submitted" =>
        \E r \in Reqs, l \in Legs : job[r].key = k /\ legs[r][l] \in Accepted

\* A request of kind k sends an order although the cache already answers its key.
SendsAgain(r) ==
    /\ \E l \in Legs : legs[r][l] = "none" /\ legs'[r][l] = "sent"
    /\ cache[job[r].key] = "submitted"

\* An endpoint never sends an order for a key whose order the cache already
\* remembers, however requests with that key overlap.
KeyOnce == [][\A r \in Reqs : Http(r) => ~SendsAgain(r)]_pathVars

Fills(r) == Cardinality({l \in Legs : legs[r][l] = "filled"})

\* On futures the answer and the user stream together never book a fill twice,
\* for orders by quote.
NoFillBookedTwice ==
    \A r \in Reqs : venue = "futures" /\ ByQuote(r) => booked[r] + reports[r] <= Fills(r)

\* The cache is sound: its entries are typed and say what the venue knows.
CacheSound == PathTypeOK /\ CacheTellsTruth
=============================================================================
