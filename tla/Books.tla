--------------------------------- MODULE Books ---------------------------------
(***************************************************************************)
(* The portfolio's books for one symbol, across restarts: fills booked by   *)
(* the router, the endpoints and the user stream; positions imported from   *)
(* the venue; the snapshot file; and reconcile_since_snapshot, which runs   *)
(* in a thread of its own at startup and for POST /reconcile.               *)
(*                                                                         *)
(*  - A fill is booked under the qualified name "qual" (BTCUSDT.BINANCE);   *)
(*    an import from the venue and a loaded snapshot use the "bare" one.    *)
(*  - A position is told by the fills it is made of, and how often each was *)
(*    applied; its quantity is their signed sum.  A position of quantity 0  *)
(*    is not in the dictionary, whose order a restart depends on.           *)
(*  - A snapshot store writes the file, and Redis too when it reached Redis *)
(*    as it was made; it prefers Redis when it loads.  Redis may fail at    *)
(*    any call, which nobody notices.                                       *)
(*  - The clock ticks between a fill and any answer of the venue that holds *)
(*    it: a round trip takes longer than a millisecond.                     *)
(*                                                                         *)
(* Prices, fees and cash are left out: every writer of equity overwrites    *)
(* what the others wrote, and no decision about positions reads them.       *)
(***************************************************************************)
EXTENDS Integers, Sequences, FiniteSets, FiniteSetsExt

CONSTANTS Fills,     \* the fills the engine's orders may have
          Buys,      \* those that buy; the others sell
          Threads,   \* threads that may run a reconciliation
          Horizon,   \* bound: the last instant
          Runs,      \* bound: reconciliations in all
          Stops      \* bound: crashes in all

ASSUME BooksAssumption ==
    /\ IsFiniteSet(Fills) /\ Buys \subseteq Fills
    /\ Threads # {}
    /\ Horizon \in Nat \ {0} /\ {Runs, Stops} \subseteq Nat

Names   == {"bare", "qual"}
Counts  == [Fills -> 0..Runs + 3]     \* how often each fill was applied
Nothing == [f \in Fills |-> 0]
Fresh   == [n \in Names |-> Nothing]
NoFile  == [ts |-> 0, book |-> Fresh, order |-> <<>>]
Idle    == [pc |-> "idle", todo |-> {}, held |-> Nothing, view |-> NoFile, linked |-> FALSE]
NoCall  == [pc |-> "none", seen |-> {}]

VARIABLES
    now,      \* the clock
    market,   \* "spot" or "futures"
    phase,    \* of the engine: "down", "boot" until the startup has reconciled, "up"
    executed, \* when the venue executed each fill, 0 if it has not
    live,     \* its booking by the process that sent the order
    book,     \* under each name, the fills of the position
    order,    \* the names in the order of the dictionary
    file,     \* the stored snapshot and its ts_ms
    redis,    \* its copy in Redis
    linked,   \* whether the application's store reaches Redis
    rec,      \* the reconciliation of each thread
    call,     \* a forced account snapshot on its way
    runs,     \* reconciliations started
    stops     \* crashes

memory == <<book, order>>
stored == <<file, redis>>
clock  == <<now, market>>
vars == <<clock, phase, executed, live, memory, stored, linked, rec, call, runs, stops>>

Total(b)    == [f \in Fills |-> b["bare"][f] + b["qual"][f]]
Quantity(c) == MapThenSumSet(LAMBDA f : IF f \in Buys THEN c[f] ELSE -c[f], Fills)
AtVenue     == {f \in Fills : executed[f] \in 1..now - 1}   \* what an answer may hold

File == [ts : 0..Horizon, book : [Names -> Counts],
         order : {<<>>, <<"bare">>, <<"qual">>, <<"bare", "qual">>, <<"qual", "bare">>}]

\* The dictionary holds exactly the positions that are not flat.
TypeOK ==
    /\ now \in 1..Horizon /\ market \in {"spot", "futures"}
    /\ phase \in {"down", "boot", "up"}
    /\ executed \in [Fills -> 0..Horizon]
    /\ live \in [Fills -> {"new", "sent", "booked", "lost"}]
    /\ [ts |-> now, book |-> book, order |-> order] \in File
    /\ \A n \in Names : Quantity(book[n]) # 0 <=> \E i \in DOMAIN order : order[i] = n
    /\ file \in File /\ redis \in File /\ linked \in BOOLEAN
    /\ \A t \in Threads :
         /\ rec[t].pc \in {"idle", "fetch", "apply", "save"}
         /\ rec[t].todo \subseteq Fills /\ rec[t].held \in Counts /\ rec[t].view \in File
         /\ rec[t].linked \in BOOLEAN
    /\ call.pc \in {"none", "asked", "answered"} /\ call.seen \subseteq Fills
    /\ runs \in 0..Runs /\ stops \in 0..Stops

Init ==
    /\ now = 1 /\ market \in {"spot", "futures"} /\ phase = "down"
    /\ executed = Nothing
    /\ live = [f \in Fills |-> "new"]
    /\ book = Fresh /\ order = <<>>
    /\ file = NoFile /\ redis = NoFile /\ linked = FALSE
    /\ rec = [t \in Threads |-> Idle]
    /\ call = NoCall
    /\ runs = 0 /\ stops = 0

-----------------------------------------------------------------------------
(* The books and the snapshot file.                                          *)

\* Wrong variant: a flat position stays in the dictionary.
HoldsFlat(n, c) ==
    /\ book' = [book EXCEPT ![n] = c]
    /\ order' = IF \E i \in DOMAIN order : order[i] = n THEN order ELSE Append(order, n)

\* The dictionary after the deletion of n: the other name stays, if it is there.
Other(n)   == IF n = "bare" THEN "qual" ELSE "bare"
Without(n) == IF \E i \in DOMAIN order : order[i] # n THEN <<Other(n)>> ELSE <<>>

\* apply_fill: position n now consists of the fills c; a flat position is
\* deleted, and one that was not there is appended to the dictionary.
Holds(n, c) ==
    /\ book' = [book EXCEPT ![n] = c]
    /\ order' = LET there == \E i \in DOMAIN order : order[i] = n
                IN  IF Quantity(c) = 0 THEN Without(n)
                    ELSE IF there THEN order ELSE Append(order, n)

Plus(c, f, times) == [c EXCEPT ![f] = @ + times]

\* _import_futures_positions: what the venue answered, under the bare name.
Imported(seen) ==
    LET c == [f \in Fills |-> IF f \in seen THEN 1 ELSE 0]
    IN  /\ book' = [n \in Names |-> IF n = "bare" THEN c ELSE Nothing]
        /\ order' = IF Quantity(c) = 0 THEN <<>> ELSE <<"bare">>

\* Wrong variants: the stamp is the time of the last fill in the books; it is
\* the time at which the snapshot was taken.
StampedByFill(s) ==
    [s EXCEPT !.ts = Max({0} \cup {executed[f] : f \in {g \in Fills : Total(s.book)[g] > 0}})]
StampedWhenTaken(s) == s

\* portfolio.snapshot(), and what SnapshotStore.save makes of it: it has no
\* ts_ms, so that the save stamps it.
Snapshot(b, o) == [ts |-> now, book |-> b, order |-> o]
Stamped(s)     == [s EXCEPT !.ts = now]

\* A store that is linked or not saves s; what it may find when it loads.
Saves(link, s) ==
    /\ file' = Stamped(s)
    /\ redis' \in IF link THEN {Stamped(s), redis} ELSE {redis}

Loads(link) == IF link /\ redis # NoFile THEN {redis, file} ELSE {file}

\* The names of a loaded snapshot lose their venue: of two positions of the
\* symbol the later one stays.
Loaded(s) ==
    LET last == IF s.order = <<>> THEN "none" ELSE s.order[Len(s.order)]
        c == IF Len(s.order) = 2 THEN s.book[last] ELSE Total(s.book)
    IN  /\ book' = [n \in Names |-> IF n = "bare" THEN c ELSE Nothing]
        /\ order' = IF last = "none" THEN <<>> ELSE <<"bare">>

-----------------------------------------------------------------------------
(* Orders, the venue, bookings by the process that sent the order.           *)

Tick ==
    /\ now < Horizon
    /\ now' = now + 1
    /\ UNCHANGED <<market, phase, executed, live, memory, stored, linked, rec, call, runs, stops>>

\* The endpoints and the stream start after the startup has reconciled; the
\* scheduler of the strategies may send orders before.
Send(f) ==
    /\ phase # "down" /\ live[f] = "new"
    /\ live' = [live EXCEPT ![f] = "sent"]
    /\ UNCHANGED <<clock, phase, executed, memory, stored, linked, rec, call, runs, stops>>

Execute(f) ==
    /\ live[f] \in {"sent", "lost"} /\ executed[f] = 0
    /\ executed' = [executed EXCEPT ![f] = now]
    /\ UNCHANGED <<clock, phase, live, memory, stored, linked, rec, call, runs, stops>>

Arrived(f) == live[f] = "sent" /\ f \in AtVenue

\* The router or the stream books the fill and saves nothing.
BookFill(f) ==
    /\ phase # "down" /\ Arrived(f)
    /\ live' = [live EXCEPT ![f] = "booked"]
    /\ Holds("qual", Plus(book["qual"], f, 1))
    /\ UNCHANGED <<clock, phase, executed, stored, linked, rec, call, runs, stops>>

\* An endpoint books it and saves; on spot the router may have booked it before.
BookAndSave(f) ==
    /\ phase = "up" /\ Arrived(f)
    /\ live' = [live EXCEPT ![f] = "booked"]
    /\ \E times \in IF market = "spot" THEN {1, 2} ELSE {1} :
         Holds("qual", Plus(book["qual"], f, times))
    /\ Saves(linked, Snapshot(book', order'))
    /\ UNCHANGED <<clock, phase, executed, linked, rec, call, runs, stops>>

\* The answer is lost, and the stream reports nothing.
Lose(f) ==
    /\ live[f] = "sent"
    /\ live' = [live EXCEPT ![f] = "lost"]
    /\ UNCHANGED <<clock, phase, executed, memory, stored, linked, rec, call, runs, stops>>

-----------------------------------------------------------------------------
(* GET /account_snapshot?force=1 and POST /account_snapshot/refresh.          *)

AskSnapshot ==
    /\ phase = "up" /\ call.pc = "none"
    /\ call' = [pc |-> "asked", seen |-> {}]
    /\ UNCHANGED <<clock, phase, executed, live, memory, stored, linked, rec, runs, stops>>

\* The venue answers with the positions of this instant, or fails.
AnswerSnapshot ==
    /\ call.pc = "asked"
    /\ \/ call' = [pc |-> "answered", seen |-> AtVenue]
       \/ call' = NoCall
    /\ UNCHANGED <<clock, phase, executed, live, memory, stored, linked, rec, runs, stops>>

\* The coroutine resumes: futures positions are imported, and all is saved.
TakeSnapshot ==
    /\ call.pc = "answered"
    /\ IF market = "futures" THEN Imported(call.seen) ELSE UNCHANGED memory
    /\ Saves(linked, Snapshot(book', order'))
    /\ call' = NoCall
    /\ UNCHANGED <<clock, phase, executed, live, linked, rec, runs, stops>>

-----------------------------------------------------------------------------
(* reconcile_since_snapshot, in thread t.                                    *)

\* It reads the stored snapshot; of its books it keeps the time stamp only.
\* "held" remembers them for the invariants.
StartReconcile(t) ==
    /\ runs < Runs
    /\ runs' = runs + 1
    /\ \E link \in BOOLEAN : \E s \in Loads(link) :
         rec' = [rec EXCEPT ![t] = [Idle EXCEPT
                    !.pc = "fetch", !.held = Total(s.book), !.linked = link,
                    !.view = [NoFile EXCEPT !.ts = s.ts]]]

\* POST /reconcile.
Reconcile(t) ==
    /\ phase = "up" /\ rec[t].pc = "idle"
    /\ StartReconcile(t)
    /\ UNCHANGED <<clock, phase, executed, live, memory, stored, linked, call, stops>>

\* my_trades_since: the fills at or after the stamp; a fetch that fails is skipped.
Fetch(t) ==
    /\ rec[t].pc = "fetch"
    /\ \E trades \in {{f \in AtVenue : executed[f] >= rec[t].view.ts}, {}} :
         rec' = [rec EXCEPT ![t].pc = "apply", ![t].todo = trades]
    /\ UNCHANGED <<clock, phase, executed, live, memory, stored, linked, call, runs, stops>>

\* The trades are applied one by one, in the order of their times.
Earliest(S) == {f \in S : \A g \in S : executed[f] <= executed[g]}

Apply(t) ==
    /\ rec[t].pc = "apply"
    /\ \E f \in Earliest(rec[t].todo) :
         /\ Holds("qual", Plus(book["qual"], f, 1))
         /\ rec' = [rec EXCEPT ![t].todo = @ \ {f}]
    /\ UNCHANGED <<clock, phase, executed, live, stored, linked, call, runs, stops>>

\* apply_fill in the thread and in the event loop at once: each reads the
\* quantity before the other writes it, and one of the two fills is lost.
ApplyRace(t, g) ==
    /\ rec[t].pc = "apply" /\ phase # "down" /\ Arrived(g)
    /\ \E f \in Earliest(rec[t].todo) :
         /\ \E kept \in {f, g} : Holds("qual", Plus(book["qual"], kept, 1))
         /\ rec' = [rec EXCEPT ![t].todo = @ \ {f}]
    /\ live' = [live EXCEPT ![g] = "booked"]
    /\ UNCHANGED <<clock, phase, executed, stored, linked, call, runs, stops>>

\* The new snapshot is taken, and then saved.
View(t) ==
    /\ rec[t].pc = "apply" /\ rec[t].todo = {}
    /\ rec' = [rec EXCEPT ![t].pc = "save", ![t].view = Snapshot(book, order)]
    /\ UNCHANGED <<clock, phase, executed, live, memory, stored, linked, call, runs, stops>>

\* The save; the startup goes on when its reconciliation has ended.
Save(t) ==
    /\ rec[t].pc = "save"
    /\ Saves(rec[t].linked, rec[t].view)
    /\ rec' = [rec EXCEPT ![t] = Idle]
    /\ phase' = "up"
    /\ UNCHANGED <<clock, executed, live, memory, linked, call, runs, stops>>

-----------------------------------------------------------------------------
(* Startup and crash.                                                        *)

\* The futures positions are imported, unless the call fails.
InitializeBalances ==
    \E seen \in {AtVenue, {}} : Imported(IF market = "futures" THEN seen ELSE {})

\* A stored snapshot takes the place of the imported positions, and a thread
\* reconciles.
Start(t) ==
    /\ phase = "down" /\ StartReconcile(t)
    /\ phase' = "boot"
    /\ linked' \in BOOLEAN
    /\ \E s \in Loads(linked') :
         IF s # NoFile THEN Loaded(s)
         ELSE InitializeBalances
    /\ UNCHANGED <<clock, executed, live, stored, call, stops>>

\* Memory is lost, and with it whatever was still to be booked.
Crash ==
    /\ phase # "down" /\ stops < Stops
    /\ stops' = stops + 1
    /\ phase' = "down"
    /\ live' = [f \in Fills |-> IF live[f] = "sent" THEN "lost" ELSE live[f]]
    /\ book' = Fresh /\ order' = <<>>
    /\ rec' = [t \in Threads |-> Idle]
    /\ call' = NoCall /\ linked' = FALSE
    /\ UNCHANGED <<clock, executed, stored, runs>>

-----------------------------------------------------------------------------
Next ==
    \/ Tick \/ AskSnapshot \/ AnswerSnapshot \/ TakeSnapshot \/ Crash
    \/ \E f \in Fills : Send(f) \/ Execute(f) \/ BookFill(f) \/ BookAndSave(f) \/ Lose(f)
    \/ \E t \in Threads :
         \/ Start(t) \/ Reconcile(t) \/ Fetch(t) \/ Apply(t) \/ View(t) \/ Save(t)
         \/ \E g \in Fills : ApplyRace(t, g)

Spec == Init /\ [][Next]_vars

-----------------------------------------------------------------------------
(* Properties.                                                               *)

\* What the snapshot already holds is not fetched again: a reconciliation has
\* no fill to apply that the snapshot whose ts_ms it asked from had counted,
\* across crashes, imports, endpoint bookings and overlapping reconciliations
\* (start_ms of reconcile_since_snapshot against ts_ms of SnapshotStore.save).
HeldNotFetched ==
    \A t \in Threads : rec[t].pc = "apply" => \A f \in rec[t].todo : rec[t].held[f] = 0

\* The watermark never goes back: neither an endpoint nor a thread that took
\* its snapshot before another save replaces ts_ms by an earlier one
\* (SnapshotStore.save, _LOCK).
WatermarkAdvances == [][file'.ts >= file.ts]_file

\* The books and what a reconciliation brings to them, typed and disjoint.
BooksInv == TypeOK /\ HeldNotFetched
=============================================================================
