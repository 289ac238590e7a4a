------------------------------- MODULE FeedSignals -------------------------------
(***************************************************************************)
(* From an outside event to an order: connectors and the endpoint queue it   *)
(* (engine/feeds, engine/events, engine/app.py), the dispatcher of the        *)
(* priority queue publishes it on the bus (engine/core/signal_queue.py), and  *)
(* the meme, airdrop and listing strategies handle it (engine/strategies).    *)
(* The momentum breakout polls on its own.                                   *)
(*                                                                         *)
(* The bus runs one coroutine per event and handler, so calls overlap         *)
(* wherever a handler awaits; an await ends an action.  What a text scores,   *)
(* what a price is and what becomes of an order are free choices.            *)
(***************************************************************************)
EXTENDS Integers, Sequences, FiniteSets, SequencesExt, FiniteSetsExt

CONSTANTS Items,        \* articles, tweets, promotions; an item's id is the item
          Symbols,
          Posts,        \* the items posted to the endpoint
          SymbolOf,     \* the symbol of each item
          PriorityOf,   \* the priority its connector gives it
          Configs,      \* the strategies a configuration enables, with its connector
          Calls,        \* handler calls under way at one time, with their tasks
          SeenMax,      \* a connector remembering more items forgets some
          Keep,         \* and keeps this many
          MaxParallel,  \* entry tasks of the listing sniper
          Backlog,      \* feeds wait to queue more than this (the code has no bound)
          Ttl,          \* life of a queued event
          Cool,         \* every cooldown and the meme lock, in seconds
          Horizon       \* the last second of the clock

Strategies == {"meme", "airdrop", "listing", "momentum"}
Feeds == {"twitter", "listings", "dex_whale", "macro"}
BridgePriority == 2     \* 0.8, among 1..3

ASSUME FeedAssumption ==
    /\ SymbolOf \in [Items -> Symbols] /\ PriorityOf \in [Items -> 1..3]
    /\ Symbols # {} /\ IsFiniteSet(Calls)
    /\ Configs \subseteq (SUBSET Strategies) \X Feeds /\ Posts \subseteq Items
    /\ SeenMax \in Nat /\ Keep \in 0..SeenMax /\ MaxParallel \in Nat \ {0}
    /\ Backlog \in Nat /\ Ttl \in Nat /\ Cool \in Nat /\ Horizon \in Nat

VARIABLES
    now,
    enabled,    \* the strategies enabled
    feed,       \* the connector items come from
    seen,       \* the items the connectors remember
    posted,     \* the items posted so far
    heap,       \* SIGNAL_QUEUE._heap, in order of arrival
    dispatch,   \* whether the dispatcher runs
    held,       \* the event it has taken and not yet published
    call,       \* the handler calls and the entry tasks they created
    cool,       \* CooldownTracker._until of each strategy
    lock,       \* MemeCoinSentiment._global_lock_until
    promos,     \* AirdropPromoWatcher._seen_promos
    bought,     \* promotions with an order that was answered (history)
    keys,       \* ListingSniper._seen_ids
    forwarded,  \* ListingSniper._forwarded
    entered,    \* entry tasks created for each key (history)
    momo,       \* the loop of MomentumBreakout
    answered    \* momentum: decision of the last BUY the router answered (history)

vars == <<now, enabled, feed, seen, posted, heap, dispatch, held, call, cool, lock, promos,
          bought, keys, forwarded, entered, momo, answered>>
queueing == <<seen, posted, heap, dispatch, held>>
wired    == <<enabled, feed>>
meming   == <<lock>>
promoing == <<promos, bought>>
listing  == <<keys, forwarded, entered>>
momoing  == <<momo, answered>>

Never  == Horizon + Ttl + 1     \* an event without expires_at
Messages == [item : Items, bridged : BOOLEAN]
Events == [msg : Messages, exp : 0..Never]

\* The listing sniper keys an article by its id, and what it forwarded to itself,
\* which carries no id and no time it reads, by the second it arrives.
Key(m) == IF m.bridged THEN <<SymbolOf[m.item], now>> ELSE <<m.item>>
Keys == {<<i>> : i \in Items} \cup (Symbols \X (0..Horizon))
AnnouncedAt(m) == IF m.bridged THEN now ELSE 0

NoCall == [of |-> "none", pc |-> "none"]
Called(h, m) == [of |-> h, msg |-> m, pc |-> "called", at |-> 0, key |-> <<>>]
Phases == {"called", "buying", "telling", "forwarding", "task", "entering"}
Handlers == enabled \ {"momentum"}

TypeOK ==
    /\ now \in 0..Horizon
    /\ <<enabled, feed>> \in Configs
    /\ seen \subseteq Items /\ posted \subseteq Posts
    /\ heap \in Seq(Events) /\ Len(heap) <= Backlog + Cardinality(forwarded)
    /\ dispatch \in {"down", "up", "gone"}
    /\ held \in Seq(Events) /\ Len(held) <= 1
    /\ call \in [Calls -> {NoCall} \cup
                  [of : Strategies, msg : Messages, pc : Phases, at : 0..Horizon, key : Keys \cup {<<>>}]]
    /\ cool \in [Strategies -> [Symbols -> 0..(Horizon + Cool)]]
    /\ lock \in 0..(Horizon + Cool)
    /\ promos \subseteq Items
    /\ bought \subseteq Items
    /\ keys \subseteq Keys
    /\ forwarded \subseteq Symbols \X (0..Horizon)
    /\ entered \in [Keys -> Nat]
    /\ momo \in [pc : {"idle", "klines", "buying", "exits"}, sym : Symbols, at : 0..Horizon]
    /\ answered \in [Symbols -> -Cool..Horizon]

Init ==
    /\ now = 0
    /\ \E config \in Configs : enabled = config[1] /\ feed = config[2]
    /\ seen = {} /\ posted = {}
    /\ heap = <<>> /\ dispatch = "down" /\ held = <<>>
    /\ call = [c \in Calls |-> NoCall]
    /\ cool = [h \in Strategies |-> [s \in Symbols |-> 0]]
    /\ lock = 0
    /\ promos = {} /\ bought = {}
    /\ keys = {} /\ forwarded = {} /\ entered = [k \in Keys |-> 0]
    /\ momo = [pc |-> "idle", sym |-> CHOOSE s \in Symbols : TRUE, at |-> 0]
    /\ answered = [s \in Symbols |-> -Cool]

-----------------------------------------------------------------------------
(* Into the queue.                                                           *)

Feed(i, exp) == [msg |-> [item |-> i, bridged |-> FALSE], exp |-> exp]

\* Events nobody handles change nothing: the instances leave them out.
Heard == Handlers # {} /\ Len(heap) < Backlog

\* A connector finds an item it does not remember: it remembers it before it
\* queues the event.
Collected(i, memories) ==
    /\ i \notin seen /\ Heard
    /\ seen' \in memories
    /\ heap' = Append(heap, Feed(i, now + Ttl))
    /\ UNCHANGED <<now, wired, posted, dispatch, held, call, cool, meming, promoing, listing, momoing>>

\* Past its limit a connector keeps an arbitrary part of what it has seen; the
\* firehose keeps the newest id instead and forgets nothing.
Bounded(items) == IF Cardinality(items) > SeenMax THEN kSubset(Keep, items) ELSE {items}

Tweet(i)   == feed = "twitter"   /\ Collected(i, {seen \cup {i}})
Article(i) == feed = "listings"  /\ Collected(i, Bounded(seen \cup {i}))
Pair(i)    == feed = "dex_whale" /\ Collected(i, Bounded(seen \cup {i}))
Macro(i)   == feed = "macro"     /\ Collected(i, Bounded(seen \cup {i}))

\* A poll that finds nothing new.
PollsInVain == Handlers # {} /\ UNCHANGED vars

\* POST /events/external, with or without a time to live.
Post(i) ==
    /\ i \in Posts \ posted /\ Heard
    /\ posted' = posted \cup {i}
    /\ \E exp \in {now + Ttl, Never} : heap' = Append(heap, Feed(i, exp))
    /\ UNCHANGED <<now, wired, seen, dispatch, held, call, cool, meming, promoing, listing, momoing>>

\* start() at the end of the startup clears what the connectors queued before it.
Start ==
    /\ dispatch = "down"
    /\ dispatch' = "up"
    /\ heap' = <<>>
    /\ UNCHANGED <<now, wired, seen, posted, held, call, cool, meming, promoing, listing, momoing>>

Priority(e) == IF e.msg.bridged THEN BridgePriority ELSE PriorityOf[e.msg.item]

\* heapq: the highest priority first, the oldest of these.
NextUp == CHOOSE k \in DOMAIN heap : \A j \in DOMAIN heap :
              \/ Priority(heap[j]) < Priority(heap[k])
              \/ Priority(heap[j]) = Priority(heap[k]) /\ k <= j

\* The dispatcher takes an event and drops it when it has expired.
\* Wrong variant: the loop ends with the first expired event.
AfterExpiredEnds == "gone"
AfterExpired == "up"
Expired(e) == e.exp < now
Dispatch ==
    /\ dispatch = "up" /\ held = <<>> /\ heap # <<>>
    /\ heap' = RemoveAt(heap, NextUp)
    /\ held' = IF Expired(heap[NextUp]) THEN <<>> ELSE <<heap[NextUp]>>
    /\ dispatch' = IF Expired(heap[NextUp]) THEN AfterExpired ELSE "up"
    /\ UNCHANGED <<now, wired, seen, posted, call, cool, meming, promoing, listing, momoing>>

\* bus.publish waits for room in the bus (EventBus), which starts a call of every
\* handler; the expiry is not looked at again.  The slots that name calls are alike.
Idle == {c \in Calls : call[c] = NoCall}
Publish ==
    /\ held # <<>>
    /\ Cardinality(Handlers) <= Cardinality(Idle)
    /\ LET slot == CHOOSE f \in Injection(Handlers, Idle) : TRUE IN
       call' = [c \in Calls |-> IF \E h \in Handlers : slot[h] = c
                  THEN Called(CHOOSE h \in Handlers : slot[h] = c, held[1].msg) ELSE call[c]]
    /\ held' = <<>>
    /\ UNCHANGED <<now, wired, seen, posted, heap, dispatch, cool, meming, promoing, listing, momoing>>

-----------------------------------------------------------------------------
(* Calls of the handlers.                                                    *)

Is(c, h, p)  == call[c].of = h /\ call[c].pc = p
Sym(c)       == SymbolOf[call[c].msg.item]
Ended(c)     == [call EXCEPT ![c] = NoCall]
Moved(c, p)  == [call EXCEPT ![c].pc = p]
Ends(c)      == call' = Ended(c)
Moves(c, p)  == call' = Moved(c, p)
Cooling(h, s, t) == [cool EXCEPT ![h][s] = t + Cool]
Active(h, s, t)  == t < cool[h][s]

\* What StrategyExecutor.execute returns, or its exception.
Outcomes == {"raises", "rejected", "dry_run", "ok"}

\* What symbol, priority, words, score, price and size make of an event.
MemeVerdicts == {"fit", "unfit"}
AirdropVerdicts == {"fit", "unfit"}

\* "buying" stands for the awaits of the price and of the order; an unfit price or
\* spread ends the call after the first.
Unpriced(c) ==
    /\ call[c].of \in {"meme", "airdrop"} /\ call[c].pc = "buying"
    /\ Ends(c)
    /\ UNCHANGED <<now, wired, queueing, cool, meming, promoing, listing, momoing>>

Began(c, verdict) ==
    IF verdict = "fit" THEN [call EXCEPT ![c].pc = "buying", ![c].at = now] ELSE Ended(c)

\* Meme: the lock and the cooldown are looked at once, with the time kept for
\* later, and set after the order and its messages.
MemeFree(c) == now >= lock /\ ~Active("meme", Sym(c), now)
MemeBegins(c) ==
    /\ Is(c, "meme", "called")
    /\ \E verdict \in MemeVerdicts :
           call' = IF MemeFree(c) THEN Began(c, verdict) ELSE Ended(c)
    /\ UNCHANGED <<now, wired, queueing, cool, meming, promoing, listing, momoing>>

\* Wrong variant: the lock is set to the end this call asks for.
LockedAnew(t) == t + Cool
Locked(t) == Max({lock, t + Cool})

MemeAnswered(c) ==
    /\ Is(c, "meme", "buying")
    /\ \E out \in Outcomes :
          IF out = "ok"
          THEN Moves(c, "telling") /\ UNCHANGED <<cool, lock>>
          ELSE /\ Ends(c)
               /\ cool' = Cooling("meme", Sym(c), call[c].at)
               /\ lock' = IF out = "rejected" THEN lock ELSE Locked(call[c].at)
    /\ UNCHANGED <<now, wired, queueing, promoing, listing, momoing>>

MemeTold(c) ==
    /\ Is(c, "meme", "telling")
    /\ Ends(c)
    /\ cool' = Cooling("meme", Sym(c), call[c].at)
    /\ lock' = Locked(call[c].at)
    /\ UNCHANGED <<now, wired, queueing, promoing, listing, momoing>>

\* Airdrop: promotions already seen and symbols in their cooldown are left alone.
AirdropFree(c) == call[c].msg.item \notin promos /\ ~Active("airdrop", Sym(c), now)
AirdropBegins(c) ==
    /\ Is(c, "airdrop", "called")
    /\ \E verdict \in AirdropVerdicts :
           call' = IF AirdropFree(c) THEN Began(c, verdict) ELSE Ended(c)
    /\ UNCHANGED <<now, wired, queueing, cool, meming, promoing, listing, momoing>>

\* The reward is too low or nothing can be sized: seen, without a cooldown.
AirdropDeclines(c) ==
    /\ Is(c, "airdrop", "buying")
    /\ Ends(c)
    /\ promos' = promos \cup {call[c].msg.item}
    /\ UNCHANGED <<now, wired, queueing, cool, meming, bought, listing, momoing>>

\* An exception leaves the promotion unseen, although the order may be placed.
\* Wrong variant: only what is refused is remembered.
SeenAfterRefusal(out) == out = "rejected"
SeenAfter(out) == out # "raises"
AirdropAnswered(c) ==
    /\ Is(c, "airdrop", "buying")
    /\ \E out \in Outcomes :
          /\ promos' = IF SeenAfter(out) THEN promos \cup {call[c].msg.item} ELSE promos
          /\ bought' = IF out = "ok" THEN bought \cup {call[c].msg.item} ELSE bought
    /\ cool' = Cooling("airdrop", Sym(c), call[c].at)
    /\ Ends(c)
    /\ UNCHANGED <<now, wired, queueing, meming, listing, momoing>>

-----------------------------------------------------------------------------
(* The listing sniper.                                                       *)

Tasks == {c \in Calls : call[c].of = "listing" /\ call[c].pc \in {"task", "entering"}}
\* Wrong variant: a call that has forwarded has counted before its await.
RoomBefore(c) == Is(c, "listing", "forwarding") \/ Cardinality(Tasks) < MaxParallel
Room(c) == Cardinality(Tasks) < MaxParallel

\* The key is remembered before the first await, whatever becomes of the entry.
\* Wrong variant: it is remembered with the task.
RememberedLate(k, entering) == IF entering THEN keys \cup {k} ELSE keys
Remembered(k, entering) == keys \cup {k}

\* _forward_legacy queues the announcement again for the sniper itself, once for
\* each symbol and second, and looks for a DEX pair, which takes time.
Announced(c) == <<Sym(c), AnnouncedAt(call[c].msg)>>
\* Wrong variant: nothing remembers what was forwarded.
ForwardedUnnoted(c) == forwarded
Forwarded(c) == forwarded \cup {Announced(c)}
ListingForwards(c) ==
    /\ Is(c, "listing", "called")
    /\ Key(call[c].msg) \notin keys
    /\ Announced(c) \notin forwarded
    /\ keys' = Remembered(Key(call[c].msg), FALSE)
    /\ forwarded' = Forwarded(c)
    /\ heap' = Append(heap, [msg |-> [call[c].msg EXCEPT !.bridged = TRUE], exp |-> Never])
    /\ call' = [call EXCEPT ![c].pc = "forwarding", ![c].key = Key(call[c].msg)]
    /\ UNCHANGED <<now, wired, seen, posted, dispatch, held, cool, meming, promoing, entered, momoing>>

\* A task for the entry, unless there are too many.
Enters(c, key) ==
    /\ keys' = Remembered(key, Room(c))
    /\ call' = [call EXCEPT ![c] = IF Room(c) THEN [@ EXCEPT !.pc = "task", !.key = key] ELSE NoCall]
    /\ entered' = [entered EXCEPT ![key] = IF Room(c) THEN @ + 1 ELSE @]
    /\ UNCHANGED <<now, wired, queueing, cool, meming, promoing, forwarded, momoing>>

ListingEnters(c) ==
    \/ /\ Is(c, "listing", "called")
       /\ Key(call[c].msg) \notin keys /\ Announced(c) \in forwarded
       /\ Enters(c, Key(call[c].msg))
    \/ /\ Is(c, "listing", "forwarding")
       /\ Enters(c, call[c].key)

ListingKnows(c) ==
    /\ Is(c, "listing", "called")
    /\ Key(call[c].msg) \in keys
    /\ Ends(c)
    /\ UNCHANGED <<now, wired, queueing, cool, meming, promoing, listing, momoing>>

\* _enter_post_listing looks at the cooldown once; "entering" stands for the wait for
\* the listing, the price, the order and its exits, and sets the cooldown wherever
\* it ends.
TaskBegins(c) ==
    /\ Is(c, "listing", "task")
    /\ IF Active("listing", Sym(c), now) THEN Ends(c) ELSE Moves(c, "entering")
    /\ UNCHANGED <<now, wired, queueing, cool, meming, promoing, listing, momoing>>

TaskEnds(c) ==
    /\ Is(c, "listing", "entering")
    /\ Ends(c)
    /\ cool' = Cooling("listing", Sym(c), now)
    /\ UNCHANGED <<now, wired, queueing, meming, promoing, listing, momoing>>

-----------------------------------------------------------------------------
(* MomentumBreakout: one loop, one symbol at a time.                         *)

Momo(p) == momo.pc = p

MomoLooks(s) ==
    /\ "momentum" \in enabled /\ Momo("idle")
    /\ momo' = IF Active("momentum", s, now) THEN momo ELSE [momo EXCEPT !.pc = "klines", !.sym = s]
    /\ UNCHANGED <<now, wired, queueing, call, cool, meming, promoing, listing, answered>>

\* What the bars make of the symbol, and the rails of the order: nothing to do,
\* refused or a dry run, an order.
MomoVerdicts == {"pass", "refused", "order"}
MomoDecides ==
    /\ Momo("klines")
    /\ \E verdict \in MomoVerdicts :
          /\ momo' = IF verdict = "order" THEN [momo EXCEPT !.pc = "buying", !.at = now]
                     ELSE [momo EXCEPT !.pc = "idle"]
          /\ cool' = IF verdict = "refused" THEN Cooling("momentum", momo.sym, now) ELSE cool
    /\ UNCHANGED <<now, wired, queueing, call, meming, promoing, listing, answered>>

\* The answer arms the cooldown before the exits are placed; an exception, which a
\* filled order can raise too, arms nothing.
\* Wrong variant: a fill alone arms nothing, the exits do later.
ArmedUnfilled(filled) == ~filled
Armed(filled) == TRUE
MomoAnswered ==
    /\ Momo("buying")
    /\ \/ momo' = [momo EXCEPT !.pc = "idle"] /\ UNCHANGED <<cool, answered>>
       \/ \E filled \in BOOLEAN :
              /\ momo' = [momo EXCEPT !.pc = IF filled THEN "exits" ELSE "idle"]
              /\ cool' = IF Armed(filled) THEN Cooling("momentum", momo.sym, momo.at) ELSE cool
              /\ answered' = [answered EXCEPT ![momo.sym] = momo.at]
    /\ UNCHANGED <<now, wired, queueing, call, meming, promoing, listing>>

MomoExits ==
    /\ Momo("exits")
    /\ momo' = [momo EXCEPT !.pc = "idle"]
    /\ UNCHANGED <<now, wired, queueing, call, cool, meming, promoing, listing, answered>>

-----------------------------------------------------------------------------
TimePasses ==
    /\ now < Horizon
    /\ now' = now + 1
    /\ UNCHANGED <<wired, queueing, call, cool, meming, promoing, listing, momoing>>

Handles(c) ==
    \/ Unpriced(c)
    \/ MemeBegins(c) \/ MemeAnswered(c) \/ MemeTold(c)
    \/ AirdropBegins(c) \/ AirdropDeclines(c) \/ AirdropAnswered(c)
    \/ ListingForwards(c) \/ ListingEnters(c) \/ ListingKnows(c)
    \/ TaskBegins(c) \/ TaskEnds(c)

Next ==
    \/ \E i \in Items : Tweet(i) \/ Article(i) \/ Pair(i) \/ Macro(i) \/ Post(i)
    \/ PollsInVain \/ Start \/ Dispatch \/ Publish
    \/ \E c \in Calls : Handles(c)
    \/ \E s \in Symbols : MomoLooks(s)
    \/ MomoDecides \/ MomoAnswered \/ MomoExits
    \/ TimePasses

\* Tasks of the event loop run when they can, and every await has a time-out.
Fairness ==
    /\ WF_vars(Start) /\ WF_vars(Dispatch) /\ WF_vars(Publish)
    /\ \A c \in Calls : WF_vars(Handles(c))

Spec == Init /\ [][Next]_vars /\ Fairness

-----------------------------------------------------------------------------
(* Properties.                                                               *)

\* The sniper never runs more entry tasks than max_parallel_tasks, although a call
\* counts them only after an await and other calls create theirs meanwhile.
ParallelCap == Cardinality(Tasks) <= MaxParallel

\* An announcement leads to one entry task at most, although connectors forget what
\* they have seen, clients post it again and calls overlap in _forward_legacy.
KeyEnteredOnce == \A k \in Keys : entered[k] <= 1

\* The lock of the meme strategy never ends earlier than it was said to, in whatever
\* order overlapping calls finish with the times they began at.
LockNeverShortens == [][lock' >= lock]_vars

\* A promotion whose order was answered is not looked at again, whatever forgets it.
PromoOnce ==
    [][\A c \in Calls : Is(c, "airdrop", "called") /\ call'[c].pc = "buying"
                         => call[c].msg.item \notin bought]_vars

\* The momentum strategy leaves a symbol alone for its cooldown after an answered BUY.
MomentumSpaced ==
    [][~Momo("buying") /\ momo'.pc = "buying" => now >= answered[momo.sym] + Cool]_vars

\* The dispatcher always comes back for the most urgent event: neither an expired
\* one, nor a busy bus, nor handlers that queue events of their own stop it.
DispatcherReturns == []<>(dispatch = "up" /\ held = <<>>)

\* The listing sniper enters once and within its cap, on typed state.
SniperInv == TypeOK /\ ParallelCap /\ KeyEnteredOnce
=============================================================================
