------------------------------ MODULE Books_proof ------------------------------
(***************************************************************************)
(* What the portfolio's books promise, for every number of fills, threads,   *)
(* reconciliations, crashes and instants.  The inductive invariant BooksSafe  *)
(* says of every snapshot there is, in memory, in the file, in Redis and in   *)
(* the hands of a thread, that no fill in it was executed at or after its     *)
(* stamp; and that the books leave room for what the threads may still apply. *)
(* Both are needed: the first for HeldNotFetched, the second for the bound    *)
(* on how often a fill is applied.                                           *)
(***************************************************************************)
EXTENDS Books, Sums, SequenceTheorems, TLAPS

-----------------------------------------------------------------------------
(* Snapshots.                                                               *)

Book   == [Names -> [Fills -> Nat]]
Orders == {<<>>, <<"bare">>, <<"qual">>, <<"bare", "qual">>, <<"qual", "bare">>}
Snap   == [ts : Nat, book : Book, order : Orders]
Memory == [ts |-> now, book |-> book, order |-> order]

In(o, n) == \E i \in DOMAIN o : o[i] = n
Lists(b, o) == \A n \in Names : Quantity(b[n]) # 0 <=> In(o, n)

\* What bounds how often a fill was applied: each reconciliation applies it once,
\* the process that sent it twice, an import puts it there once.
Limit(n, l) == [f \in Fills |-> (n + 1) + (IF l[f] = "booked" THEN 2 ELSE 0)]

\* A snapshot that was possible: its dictionary lists what is not flat, no fill
\* was applied more often than it may, and none that the venue executed at or
\* after the snapshot's time.
Possible(s, n, ex, lim) ==
    /\ s \in Snap /\ s.ts <= n /\ Lists(s.book, s.order)
    /\ \A f \in Fills :
        /\ Total(s.book)[f] <= lim[f]
        /\ Total(s.book)[f] > 0 => ex[f] \in 1..s.ts - 1

-----------------------------------------------------------------------------
(* The invariant.                                                           *)

Working(r)   == {t \in Threads : r[t].pc # "idle"}
Takers(r, f) == {t \in Threads : r[t].pc = "fetch" \/ (r[t].pc = "apply" /\ f \in r[t].todo)}

Thread == [pc : {"idle", "fetch", "apply", "save"}, todo : SUBSET Fills, held : Counts,
           view : Snap, linked : BOOLEAN]

Typed ==
    /\ now \in 1..Horizon /\ market \in {"spot", "futures"}
    /\ phase \in {"down", "boot", "up"} /\ linked \in BOOLEAN
    /\ executed \in [Fills -> 0..Horizon] /\ \A f \in Fills : executed[f] <= now
    /\ live \in [Fills -> {"new", "sent", "booked", "lost"}]
    /\ call \in [pc : {"none", "asked", "answered"}, seen : SUBSET Fills]
    /\ \A f \in call.seen : executed[f] \in 1..now - 1
    /\ runs \in 0..Runs /\ stops \in 0..Stops

\* A thread's fills to apply are newer than the snapshot whose stamp it asked from.
Apart(r, n, ex) ==
    /\ r.pc \in {"fetch", "apply"} =>
        \A f \in Fills : r.held[f] > 0 => ex[f] \in 1..r.view.ts - 1
    /\ r.pc = "apply" =>
        \A f \in r.todo : ex[f] \in 1..n - 1 /\ ex[f] >= r.view.ts

Reconciling ==
    /\ rec \in [Threads -> Thread]
    /\ \A t \in Threads : Possible(rec[t].view, now, executed, Limit(runs, live)) /\ Apart(rec[t], now, executed)
    /\ IsFiniteSet(Working(rec)) /\ Cardinality(Working(rec)) <= runs
    /\ phase = "down" => Working(rec) = {}

\* The books leave room for what every thread may still apply.
Room ==
    /\ Possible(Memory, now, executed, Limit(runs, live))
    /\ \A f \in Fills : Total(book)[f] + Cardinality(Takers(rec, f)) <= Limit(runs, live)[f]

Kept ==
    /\ Possible(file, now, executed, Limit(runs, live))
    /\ Possible(redis, now, executed, Limit(runs, live))

BooksSafe == Typed /\ Reconciling /\ Room /\ Kept

\* What the constants are.
LEMMA BooksConstants ==
    /\ IsFiniteSet(Fills) /\ Horizon \in Nat /\ Runs \in Nat /\ Stops \in Nat
    /\ Names = {"bare", "qual"} /\ Fresh \in Book /\ Nothing \in [Fills -> Nat]
    /\ Fresh["bare"] = Nothing /\ Fresh["qual"] = Nothing
BY BooksAssumption DEF Names, Fresh, Nothing, Book

-----------------------------------------------------------------------------
(* Quantities.                                                              *)

Signed(c) == [f \in Fills |-> IF f \in Buys THEN c[f] ELSE -c[f]]

\* A quantity is a sum over the fills.
LEMMA QuantitySum == ASSUME NEW c PROVE Quantity(c) = SumOver(Signed(c), Fills)
<1> DEFINE Sign(f) == IF f \in Buys THEN c[f] ELSE -c[f]
           Adds(g) == g = [s \in SUBSET Fills |-> IF s = {} THEN 0 ELSE Sign(Some(s)) + g[s \ {Some(s)}]]
           h == CHOOSE g : Adds(g)
<1>1. Quantity(c) = h[Fills]
  BY DEF Quantity, MapThenSumSet, MapThenFoldSet, Some
<1>2. PICK g : Summed(g, Signed(c), Fills) /\ \A T \in SUBSET Fills : SumOver(Signed(c), T) = g[T]
  BY SumIs, BooksConstants
<1>3. \A s \in SUBSET Fills : s # {} => Signed(c)[Some(s)] = Sign(Some(s))
  BY SomeIn DEF Signed
<1> HIDE DEF Sign
<1>4. \A k : Adds(k) <=> Summed(k, Signed(c), Fills)
  BY <1>3 DEF Summed
<1>5. Adds(h)
  BY <1>2, <1>4, Zenon
<1> HIDE DEF h, Adds
<1>6. h[Fills] = g[Fills]
  BY <1>2, <1>4, <1>5, SummedUnique, BooksConstants
<1> QED BY <1>1, <1>2, <1>6

\* Nothing weighs nothing; two positions weigh what they weigh together.
LEMMA QuantityFacts ==
    /\ Quantity(Nothing) = 0
    /\ \A b \in Book : /\ Quantity(b["bare"]) \in Int /\ Quantity(b["qual"]) \in Int
                       /\ Quantity(Total(b)) = Quantity(b["bare"]) + Quantity(b["qual"])
                       /\ Total(b) \in [Fills -> Nat]
                       /\ \A f \in Fills : Total(b)[f] = b["bare"][f] + b["qual"][f]
<1>1. ASSUME NEW b \in Book
      PROVE /\ Quantity(b["bare"]) \in Int /\ Quantity(b["qual"]) \in Int
            /\ Quantity(Total(b)) = Quantity(b["bare"]) + Quantity(b["qual"])
            /\ Total(b) \in [Fills -> Nat]
            /\ \A f \in Fills : Total(b)[f] = b["bare"][f] + b["qual"][f]
  <2> DEFINE p == b["bare"]
             q == b["qual"]
             t == Total(b)
  <2>1. p \in [Fills -> Nat] /\ q \in [Fills -> Nat]
    BY BooksConstants DEF Book
  <2>2. t \in [Fills -> Nat] /\ \A f \in Fills : t[f] = p[f] + q[f]
    BY <2>1 DEF Total
  <2> HIDE DEF p, q, t
  <2>3. \A f \in Fills : Signed(p)[f] \in Int /\ Signed(q)[f] \in Int /\ Signed(t)[f] = Signed(p)[f] + Signed(q)[f]
    BY <2>1, <2>2 DEF Signed
  <2>4. SumOver(Signed(t), Fills) = SumOver(Signed(p), Fills) + SumOver(Signed(q), Fills)
    BY <2>3, SumPlus, BooksConstants
  <2>5. SumOver(Signed(p), Fills) \in Int /\ SumOver(Signed(q), Fills) \in Int
    BY <2>3, SumType, BooksConstants
  <2>6. Quantity(p) \in Int /\ Quantity(q) \in Int /\ Quantity(t) = Quantity(p) + Quantity(q)
    BY <2>4, <2>5, QuantitySum
  <2> QED BY <2>2, <2>6 DEF p, q, t
<1>2. Quantity(Nothing) = 0
  <2>1. Total(Fresh) = Nothing
    BY BooksConstants DEF Total, Nothing
  <2>2. Quantity(Nothing) \in Int /\ Quantity(Nothing) = Quantity(Nothing) + Quantity(Nothing)
    BY <1>1, <2>1, BooksConstants
  <2>3. \A q \in Int : q = q + q => q = 0
    OBVIOUS
  <2> QED BY <2>2, <2>3, Zenon
<1> QED BY <1>1, <1>2

-----------------------------------------------------------------------------
(* What the steps do to the books.                                          *)

\* The dictionaries.
LEMMA OrderFacts ==
    /\ \A n \in Names : ~In(<<>>, n) /\ \A m \in Names : In(<<m>>, n) <=> n = m
    /\ \A n \in Names : In(<<"bare", "qual">>, n) /\ In(<<"qual", "bare">>, n)
    /\ \A o \in Orders : o = <<>> \/ o = <<"bare">> \/ o = <<"qual">> \/ Len(o) = 2
    /\ \A o \in Orders : Len(o) = 2 => o[2] \in Names /\ \A n \in Names : In(o, n)
BY BooksConstants DEF In, Orders

\* A position of some fills more: the dictionary follows.
LEMMA HoldsGood ==
    ASSUME book \in Book, order \in Orders, Lists(book, order),
           NEW f \in Fills, NEW k \in Nat, Holds("qual", Plus(book["qual"], f, k))
    PROVE  /\ book' \in Book /\ order' \in Orders /\ Lists(book', order')
           /\ \A g \in Fills : Total(book')[g] = Total(book)[g] + (IF g = f THEN k ELSE 0)
<1> DEFINE c == Plus(book["qual"], f, k)
<1>1. /\ book' = [book EXCEPT !["qual"] = c]
      /\ order' = IF Quantity(c) = 0 THEN Without("qual")
                  ELSE IF In(order, "qual") THEN order ELSE Append(order, "qual")
  BY DEF Holds, In
<1>2. c \in [Fills -> Nat] /\ \A g \in Fills : c[g] = book["qual"][g] + (IF g = f THEN k ELSE 0)
  BY BooksConstants DEF Plus, Book
<1> HIDE DEF c
<1>3. book' \in Book /\ book'["qual"] = c /\ book'["bare"] = book["bare"]
  BY <1>1, <1>2, BooksConstants DEF Book
<1>4. ASSUME NEW g \in Fills PROVE Total(book')[g] = Total(book)[g] + (IF g = f THEN k ELSE 0)
  <2>1. /\ Total(book')[g] = book'["bare"][g] + book'["qual"][g]
        /\ Total(book)[g] = book["bare"][g] + book["qual"][g]
    BY <1>3, QuantityFacts
  <2>2. book["bare"][g] \in Nat /\ book["qual"][g] \in Nat
    BY BooksConstants DEF Book
  <2> QED BY <1>2, <1>3, <2>1, <2>2
<1>5. Other("qual") = "bare"
  BY DEF Other
<1>6. /\ order' \in Orders
      /\ In(order', "bare") <=> In(order, "bare")
      /\ In(order', "qual") <=> Quantity(c) # 0
  <2>0. "bare" \in Names /\ "qual" \in Names /\ "bare" # "qual"
    BY BooksConstants
  <2>1. \A i \in DOMAIN order : order[i] = "bare" \/ order[i] = "qual"
    BY DEF Orders
  <2>2. Without("qual") = IF In(order, "bare") THEN <<"bare">> ELSE <<>>
    <3>1. (\E i \in DOMAIN order : order[i] # "qual") <=> In(order, "bare")
      BY <2>0, <2>1 DEF In
    <3> QED BY <1>5, <3>1 DEF Without
  <2>3. /\ order = <<>> => Append(order, "qual") = <<"qual">>
        /\ order = <<"bare">> => Append(order, "qual") = <<"bare", "qual">>
    <3>1. Append(<<>>, "qual") = <<"qual">>
      OBVIOUS
    <3>2. Append(<<"bare">>, "qual") = <<"bare", "qual">>
      <4> DEFINE p == Append(<<"bare">>, "qual")
                 q == <<"bare", "qual">>
      <4>1. <<"bare">> \in Seq(Names) /\ "qual" \in Names /\ q \in Seq(Names) /\ Len(q) = 2
        BY <2>0
      <4>2. p \in Seq(Names) /\ Len(p) = 2 /\ p[1] = "bare" /\ p[2] = "qual"
        BY <4>1, AppendProperties
      <4>3. \A i \in 1..2 : p[i] = q[i]
        BY <4>2
      <4> HIDE DEF p, q
      <4>4. p = q
        BY <4>1, <4>2, <4>3, SeqEqual
      <4> QED BY <4>4 DEF p, q
    <3> QED BY <3>1, <3>2
  <2>4. /\ order = <<>> => ~In(order, "bare") /\ ~In(order, "qual")
        /\ order = <<"bare">> => In(order, "bare") /\ ~In(order, "qual")
        /\ order = <<"qual">> => ~In(order, "bare") /\ In(order, "qual")
        /\ order \in {<<"bare", "qual">>, <<"qual", "bare">>} => In(order, "bare") /\ In(order, "qual")
    BY <2>0, OrderFacts
  <2>6. /\ order' = <<>> => ~In(order', "bare") /\ ~In(order', "qual")
        /\ order' = <<"bare">> => In(order', "bare") /\ ~In(order', "qual")
        /\ order' = <<"qual">> => ~In(order', "bare") /\ In(order', "qual")
        /\ order' = <<"bare", "qual">> => In(order', "bare") /\ In(order', "qual")
    BY <2>0, OrderFacts
  <2>7. CASE Quantity(c) = 0
    BY <1>1, <2>2, <2>6, <2>7 DEF Orders
  <2>8. CASE Quantity(c) # 0 /\ In(order, "qual")
    BY <1>1, <2>8
  <2>9. CASE Quantity(c) # 0 /\ ~In(order, "qual")
    BY <1>1, <2>3, <2>4, <2>6, <2>9 DEF Orders
  <2> QED BY <2>7, <2>8, <2>9
<1>7. Lists(book', order')
  BY <1>3, <1>6, BooksConstants DEF Lists
<1> QED BY <1>3, <1>4, <1>6, <1>7

\* The positions imported: each fill the venue answered, once.
LEMMA ImportedGood ==
    ASSUME NEW seen \in SUBSET Fills, Imported(seen)
    PROVE  /\ book' \in Book /\ order' \in Orders /\ Lists(book', order')
           /\ \A f \in Fills : Total(book')[f] = IF f \in seen THEN 1 ELSE 0
<1> DEFINE c == [f \in Fills |-> IF f \in seen THEN 1 ELSE 0]
<1>1. /\ book' = [n \in Names |-> IF n = "bare" THEN c ELSE Nothing]
      /\ order' = IF Quantity(c) = 0 THEN <<>> ELSE <<"bare">>
  BY DEF Imported
<1>2. c \in [Fills -> Nat] /\ \A f \in Fills : c[f] = IF f \in seen THEN 1 ELSE 0
  OBVIOUS
<1> HIDE DEF c
<1>3. book' \in Book /\ book'["bare"] = c /\ book'["qual"] = Nothing
  BY <1>1, <1>2, BooksConstants DEF Book
<1>4. \A f \in Fills : Total(book')[f] = c[f]
  <2>1. \A f \in Fills : Nothing[f] = 0
    BY DEF Nothing
  <2> QED BY <1>2, <1>3, <2>1, QuantityFacts
<1>5. order' \in Orders
  BY <1>1 DEF Orders
<1>6. Lists(book', order')
  BY <1>1, <1>3, QuantityFacts, OrderFacts, BooksConstants DEF Lists
<1> QED BY <1>2, <1>3, <1>4, <1>5, <1>6

\* A snapshot loaded: none of its fills more often.
LEMMA LoadedGood ==
    ASSUME NEW s \in Snap, Lists(s.book, s.order), Loaded(s)
    PROVE  /\ book' \in Book /\ order' \in Orders /\ Lists(book', order')
           /\ \A f \in Fills : Total(book')[f] <= Total(s.book)[f]
<1> DEFINE b == s.book
           o == s.order
           last == IF o = <<>> THEN "none" ELSE o[Len(o)]
           c == IF Len(o) = 2 THEN b[last] ELSE Total(b)
<1>1. /\ book' = [n \in Names |-> IF n = "bare" THEN c ELSE Nothing]
      /\ order' = IF last = "none" THEN <<>> ELSE <<"bare">>
  BY DEF Loaded
<1>2. b \in Book /\ o \in Orders /\ Lists(b, o)
  BY DEF Snap
<1> HIDE DEF b, o
<1>3. /\ Quantity(b["bare"]) \in Int /\ Quantity(b["qual"]) \in Int
      /\ Quantity(Total(b)) = Quantity(b["bare"]) + Quantity(b["qual"])
      /\ Total(b) \in [Fills -> Nat]
      /\ \A f \in Fills : Total(b)[f] = b["bare"][f] + b["qual"][f]
      /\ b["bare"] \in [Fills -> Nat] /\ b["qual"] \in [Fills -> Nat]
  BY <1>2, QuantityFacts, BooksConstants DEF Book
<1>4. \A n \in Names : Quantity(b[n]) # 0 <=> In(o, n)
  BY <1>2 DEF Lists
<1>5. /\ c \in [Fills -> Nat] /\ \A f \in Fills : c[f] <= Total(b)[f]
      /\ Quantity(c) # 0 <=> last # "none"
  <2>1. CASE o = <<>>
    <3>1. Len(o) # 2 /\ last = "none"
      BY <2>1
    <3>2. Quantity(b["bare"]) = 0 /\ Quantity(b["qual"]) = 0
      BY <1>4, <2>1, OrderFacts, BooksConstants
    <3> QED BY <1>3, <3>1, <3>2
  <2>2. CASE o = <<"bare">>
    <3>1. Len(o) # 2 /\ last = "bare"
      BY <2>2
    <3>2. Quantity(b["bare"]) # 0 /\ Quantity(b["qual"]) = 0
      BY <1>4, <2>2, OrderFacts, BooksConstants
    <3> QED BY <1>3, <3>1, <3>2
  <2>3. CASE o = <<"qual">>
    <3>1. Len(o) # 2 /\ last = "qual"
      BY <2>3
    <3>2. Quantity(b["bare"]) = 0 /\ Quantity(b["qual"]) # 0
      BY <1>4, <2>3, OrderFacts, BooksConstants
    <3> QED BY <1>3, <3>1, <3>2
  <2>4. CASE Len(o) = 2
    <3>1. o[2] \in Names /\ \A n \in Names : In(o, n)
      BY <1>2, <2>4, OrderFacts
    <3>2. o # <<>>
      <4>1. Len(<<>>) = 0
        OBVIOUS
      <4>2. 0 # 2
        OBVIOUS
      <4> QED BY <2>4, <4>1, <4>2, Zenon
    <3>3. last = o[2] /\ c = b[last]
      BY <2>4, <3>2
    <3>4. last \in Names /\ Quantity(b[last]) # 0
      BY <1>4, <3>1, <3>3
    <3>5. last = "bare" \/ last = "qual"
      BY <3>4, BooksConstants
    <3>6. \A f \in Fills : b["bare"][f] <= Total(b)[f] /\ b["qual"][f] <= Total(b)[f]
      BY <1>3
    <3>7. CASE last = "bare"
      <4>1. c = b["bare"] /\ last # "none" /\ Quantity(c) # 0
        BY <3>3, <3>4, <3>7
      <4>2. b["bare"] \in [Fills -> Nat]
        BY <1>3
      <4> HIDE DEF c, last, b
      <4> QED BY <3>6, <4>1, <4>2
    <3>8. CASE last = "qual"
      <4>1. c = b["qual"] /\ last # "none" /\ Quantity(c) # 0
        BY <3>3, <3>4, <3>8
      <4>2. b["qual"] \in [Fills -> Nat]
        BY <1>3
      <4> HIDE DEF c, last, b
      <4> QED BY <3>6, <4>1, <4>2
    <3> QED BY <3>5, <3>7, <3>8
  <2> QED BY <1>2, <2>1, <2>2, <2>3, <2>4, OrderFacts
<1> HIDE DEF c, last
<1>6. book' \in Book /\ book'["bare"] = c /\ book'["qual"] = Nothing
  BY <1>1, <1>5, BooksConstants DEF Book
<1>7. \A f \in Fills : Total(book')[f] = c[f]
  <2>1. \A f \in Fills : Nothing[f] = 0
    BY DEF Nothing
  <2> QED BY <1>5, <1>6, <2>1, QuantityFacts
<1>8. order' \in Orders
  BY <1>1 DEF Orders
<1>9. Lists(book', order')
  BY <1>1, <1>5, <1>6, QuantityFacts, OrderFacts, BooksConstants DEF Lists
<1> QED BY <1>5, <1>6, <1>7, <1>8, <1>9 DEF b

-----------------------------------------------------------------------------
(* How the invariant is kept.                                               *)

\* What every step does to time, to the venue and to the limits: they grow.
Onward ==
    /\ now <= now' /\ runs <= runs'
    /\ \A f \in Fills : executed[f] >= 1 => executed'[f] = executed[f]
    /\ \A f \in Fills : live[f] = "booked" => live'[f] = "booked"

\* The limit of a fill.
LEMMA LimitFacts ==
    ASSUME NEW n \in Nat, NEW l, NEW f \in Fills
    PROVE  /\ Limit(n, l)[f] \in Nat /\ Limit(n, l)[f] <= n + 3 /\ n + 1 <= Limit(n, l)[f]
           /\ Limit(n, l)[f] = (n + 1) + (IF l[f] = "booked" THEN 2 ELSE 0)
BY DEF Limit

\* The limits grow.
LEMMA LimitsGrow ==
    ASSUME runs \in Nat, runs' \in Nat, Onward, NEW f \in Fills
    PROVE  /\ Limit(runs, live)[f] \in Nat /\ Limit(runs', live')[f] \in Nat
           /\ Limit(runs, live)[f] <= Limit(runs', live')[f]
<1>1. /\ Limit(runs, live)[f] = (runs + 1) + (IF live[f] = "booked" THEN 2 ELSE 0)
      /\ Limit(runs', live')[f] = (runs' + 1) + (IF live'[f] = "booked" THEN 2 ELSE 0)
  BY LimitFacts
<1>2. runs <= runs' /\ (live[f] = "booked" => live'[f] = "booked")
  BY DEF Onward
<1>3. Limit(runs, live)[f] \in Nat /\ Limit(runs', live')[f] \in Nat
  BY LimitFacts
<1>4. CASE live[f] = "booked"
  <2>1. live'[f] = "booked"
    BY <1>2, <1>4
  <2>2. Limit(runs, live)[f] = (runs + 1) + 2 /\ Limit(runs', live')[f] = (runs' + 1) + 2
    BY <1>1, <1>4, <2>1
  <2>3. (runs + 1) + 2 <= (runs' + 1) + 2
    BY <1>2
  <2> QED BY <1>3, <2>2, <2>3
<1>5. CASE live[f] # "booked"
  <2>1. Limit(runs, live)[f] = (runs + 1) + 0
    BY <1>1, <1>5
  <2>2. runs' + 1 <= Limit(runs', live')[f]
    BY LimitFacts
  <2> QED BY <1>2, <1>3, <2>1, <2>2
<1> QED BY <1>4, <1>5

\* A snapshot stays possible.
LEMMA PossibleStays ==
    ASSUME NEW n \in Nat, NEW m \in Nat, n <= m, NEW ex, NEW fx, NEW lim, NEW kim, NEW s,
           \A f \in Fills : ex[f] >= 1 => fx[f] = ex[f],
           \A f \in Fills : lim[f] \in Nat /\ kim[f] \in Nat /\ lim[f] <= kim[f],
           \A f \in Fills : ex[f] \in Nat,
           Possible(s, n, ex, lim)
    PROVE  Possible(s, m, fx, kim)
<1>1. s \in Snap /\ s.ts <= n /\ s.ts \in Nat /\ Lists(s.book, s.order) /\ s.book \in Book
  BY DEF Possible, Snap
<1>2. ASSUME NEW f \in Fills
      PROVE  /\ Total(s.book)[f] <= kim[f]
             /\ Total(s.book)[f] > 0 => fx[f] \in 1..s.ts - 1
  <2>1. Total(s.book)[f] \in Nat /\ Total(s.book)[f] <= lim[f]
    BY <1>1, QuantityFacts DEF Possible
  <2>2. Total(s.book)[f] > 0 => ex[f] \in 1..s.ts - 1
    BY DEF Possible
  <2> QED BY <1>1, <2>1, <2>2
<1>3. s.ts <= m
  BY <1>1
<1> QED BY <1>1, <1>2, <1>3 DEF Possible

\* What is known of a thread that does nothing stays so.
LEMMA ThreadStays ==
    ASSUME Typed, Typed', Onward, NEW r \in Thread,
           Possible(r.view, now, executed, Limit(runs, live)), Apart(r, now, executed)
    PROVE  Possible(r.view, now', executed', Limit(runs', live')) /\ Apart(r, now', executed')
<1>1. /\ now \in Nat /\ now' \in Nat /\ runs \in Nat /\ runs' \in Nat /\ now <= now'
      /\ \A f \in Fills : executed[f] \in Nat /\ executed'[f] \in Nat
  BY BooksConstants DEF Typed, Onward
<1>2. \A f \in Fills : /\ Limit(runs, live)[f] \in Nat /\ Limit(runs', live')[f] \in Nat
                       /\ Limit(runs, live)[f] <= Limit(runs', live')[f]
                       /\ executed[f] >= 1 => executed'[f] = executed[f]
  BY <1>1, LimitsGrow DEF Onward
<1>3. Possible(r.view, now', executed', Limit(runs', live'))
  BY <1>1, <1>2, PossibleStays
<1>4. r.view.ts \in Nat /\ r.todo \subseteq Fills
  BY DEF Thread, Snap
<1>5. r.pc \in {"fetch", "apply"} =>
        \A f \in Fills : r.held[f] > 0 => executed'[f] \in 1..r.view.ts - 1
  BY <1>1, <1>2, <1>4 DEF Apart
<1>6. r.pc = "apply" => \A f \in r.todo : executed'[f] \in 1..now' - 1 /\ executed'[f] >= r.view.ts
  BY <1>1, <1>2, <1>4 DEF Apart
<1> QED BY <1>3, <1>5, <1>6 DEF Apart

\* The threads stay sound, all but one of which do nothing.
LEMMA ThreadsKept ==
    ASSUME Typed, Typed', Reconciling, Onward, rec' \in [Threads -> Thread], NEW t \in Threads,
           \A u \in Threads \ {t} : rec'[u] = rec[u],
           Possible(rec'[t].view, now', executed', Limit(runs', live')),
           Apart(rec'[t], now', executed'),
           rec[t].pc = "idle" => rec'[t].pc = "idle" \/ runs' = runs + 1,
           phase' = "down" => Working(rec') = {}
    PROVE  Reconciling'
<1>1. runs \in Nat /\ runs' \in Nat /\ runs <= runs'
  BY BooksConstants DEF Typed, Onward
<1>2. ASSUME NEW u \in Threads
      PROVE  /\ Possible(rec'[u].view, now', executed', Limit(runs', live'))
             /\ Apart(rec'[u], now', executed')
  <2>1. CASE u = t
    BY <2>1
  <2>2. CASE u # t
    <3>1. /\ rec'[u] = rec[u] /\ rec[u] \in Thread
          /\ Possible(rec[u].view, now, executed, Limit(runs, live)) /\ Apart(rec[u], now, executed)
      BY <2>2 DEF Reconciling
    <3> QED BY <3>1, ThreadStays
  <2> QED BY <2>1, <2>2
<1>3. IsFiniteSet(Working(rec')) /\ Cardinality(Working(rec')) <= runs'
  <2>1. IsFiniteSet(Working(rec)) /\ Cardinality(Working(rec)) <= runs /\ Cardinality(Working(rec)) \in Nat
    BY FS_CardinalityType DEF Reconciling
  <2>2. CASE Working(rec') \subseteq Working(rec)
    <3>1. IsFiniteSet(Working(rec')) /\ Cardinality(Working(rec')) <= Cardinality(Working(rec))
      BY <2>1, <2>2, FS_Subset
    <3>2. Cardinality(Working(rec')) \in Nat
      BY <3>1, FS_CardinalityType
    <3> QED BY <1>1, <2>1, <3>1, <3>2
  <2>3. CASE ~(Working(rec') \subseteq Working(rec))
    <3>1. Working(rec') \subseteq Working(rec) \cup {t} /\ t \notin Working(rec) /\ t \in Working(rec')
      BY <2>3 DEF Working
    <3>2. runs' = runs + 1
      BY <3>1 DEF Working
    <3>3. /\ IsFiniteSet(Working(rec) \cup {t})
          /\ Cardinality(Working(rec) \cup {t}) = Cardinality(Working(rec)) + 1
      BY <2>1, <3>1, FS_AddElement
    <3>4. /\ IsFiniteSet(Working(rec'))
          /\ Cardinality(Working(rec')) <= Cardinality(Working(rec) \cup {t})
      BY <3>1, <3>3, FS_Subset
    <3>5. Cardinality(Working(rec')) \in Nat
      BY <3>4, FS_CardinalityType
    <3> QED BY <1>1, <2>1, <3>2, <3>3, <3>4, <3>5
  <2> QED BY <2>2, <2>3
<1> QED BY <1>2, <1>3 DEF Reconciling

\* The same when no thread does anything.
LEMMA ThreadsIdle ==
    ASSUME Typed, Typed', Reconciling, Onward, rec' = rec, phase' = "down" => phase = "down"
    PROVE  Reconciling'
<1>1. PICK t \in Threads : TRUE
  BY BooksAssumption
<1>2. /\ rec \in [Threads -> Thread] /\ rec[t] \in Thread
      /\ Possible(rec[t].view, now, executed, Limit(runs, live)) /\ Apart(rec[t], now, executed)
      /\ phase' = "down" => Working(rec') = {}
  BY DEF Reconciling
<1>3. Possible(rec[t].view, now', executed', Limit(runs', live')) /\ Apart(rec[t], now', executed')
  BY <1>2, ThreadStays
<1> QED BY <1>2, <1>3, ThreadsKept

\* Who may still apply a fill: fewer, one fewer, or one more.
LEMMA TakersFacts ==
    ASSUME NEW r, IsFiniteSet(Working(r)), NEW f
    PROVE  /\ IsFiniteSet(Takers(r, f)) /\ Cardinality(Takers(r, f)) \in Nat
           /\ Cardinality(Takers(r, f)) <= Cardinality(Working(r))
<1>1. Takers(r, f) \subseteq Working(r)
  BY DEF Takers, Working
<1> QED BY <1>1, FS_Subset, FS_CardinalityType

\* No thread more.
LEMMA TakersFewer ==
    ASSUME NEW r, NEW q, IsFiniteSet(Working(r)), NEW f, Takers(q, f) \subseteq Takers(r, f)
    PROVE  /\ Cardinality(Takers(q, f)) <= Cardinality(Takers(r, f))
           /\ Cardinality(Takers(q, f)) \in Nat /\ Cardinality(Takers(r, f)) \in Nat
<1>1. IsFiniteSet(Takers(r, f)) /\ Cardinality(Takers(r, f)) \in Nat
  BY TakersFacts
<1>2. IsFiniteSet(Takers(q, f)) /\ Cardinality(Takers(q, f)) <= Cardinality(Takers(r, f))
  BY <1>1, FS_Subset
<1> QED BY <1>1, <1>2, FS_CardinalityType

\* One thread fewer.
LEMMA TakersOneFewer ==
    ASSUME NEW r, NEW q, IsFiniteSet(Working(r)), NEW f, Takers(q, f) \subseteq Takers(r, f),
           NEW t \in Takers(r, f), t \notin Takers(q, f)
    PROVE  /\ Cardinality(Takers(q, f)) + 1 <= Cardinality(Takers(r, f))
           /\ Cardinality(Takers(q, f)) \in Nat /\ Cardinality(Takers(r, f)) \in Nat
<1>1. IsFiniteSet(Takers(r, f)) /\ Cardinality(Takers(r, f)) \in Nat
  BY TakersFacts
<1>2. /\ IsFiniteSet(Takers(r, f) \ {t})
      /\ Cardinality(Takers(r, f) \ {t}) = Cardinality(Takers(r, f)) - 1
  BY <1>1, FS_RemoveElement
<1>3. Takers(q, f) \subseteq Takers(r, f) \ {t}
  OBVIOUS
<1>4. /\ IsFiniteSet(Takers(q, f))
      /\ Cardinality(Takers(q, f)) <= Cardinality(Takers(r, f) \ {t})
  BY <1>2, <1>3, FS_Subset
<1>5. Cardinality(Takers(q, f)) \in Nat
  BY <1>4, FS_CardinalityType
<1> QED BY <1>1, <1>2, <1>4, <1>5

\* At most one thread more.
LEMMA TakersOneMore ==
    ASSUME NEW r, NEW q, IsFiniteSet(Working(r)), NEW f, NEW t, Takers(q, f) \subseteq Takers(r, f) \cup {t}
    PROVE  /\ Cardinality(Takers(q, f)) <= Cardinality(Takers(r, f)) + 1
           /\ Cardinality(Takers(q, f)) \in Nat /\ Cardinality(Takers(r, f)) \in Nat
<1>1. IsFiniteSet(Takers(r, f)) /\ Cardinality(Takers(r, f)) \in Nat
  BY TakersFacts
<1>2. /\ IsFiniteSet(Takers(r, f) \cup {t})
      /\ Cardinality(Takers(r, f) \cup {t}) <= Cardinality(Takers(r, f)) + 1
  <2>1. CASE t \in Takers(r, f)
    <3>1. Takers(r, f) \cup {t} = Takers(r, f)
      BY <2>1
    <3> QED BY <1>1, <3>1
  <2>2. CASE t \notin Takers(r, f)
    <3>1. /\ IsFiniteSet(Takers(r, f) \cup {t})
          /\ Cardinality(Takers(r, f) \cup {t}) = Cardinality(Takers(r, f)) + 1
      BY <1>1, <2>2, FS_AddElement
    <3> QED BY <1>1, <3>1
  <2> QED BY <2>1, <2>2
<1>3. /\ IsFiniteSet(Takers(q, f))
      /\ Cardinality(Takers(q, f)) <= Cardinality(Takers(r, f) \cup {t})
  BY <1>2, FS_Subset
<1>4. Cardinality(Takers(q, f)) \in Nat /\ Cardinality(Takers(r, f) \cup {t}) \in Nat
  BY <1>2, <1>3, FS_CardinalityType
<1> QED BY <1>1, <1>2, <1>3, <1>4

\* What makes the books leave room.
LEMMA RoomMade ==
    ASSUME now' \in Nat, runs' \in Nat, book' \in Book, order' \in Orders, Lists(book', order'),
           \A f \in Fills : /\ Cardinality(Takers(rec', f)) \in Nat
                            /\ Total(book')[f] + Cardinality(Takers(rec', f)) <= Limit(runs', live')[f]
                            /\ Total(book')[f] > 0 => executed'[f] \in 1..now' - 1
    PROVE  Room'
<1> DEFINE s == [ts |-> now', book |-> book', order |-> order']
<1>1. s \in Snap /\ s.ts = now' /\ s.book = book' /\ s.order = order'
  BY DEF Snap
<1> HIDE DEF s
<1>2. ASSUME NEW f \in Fills PROVE Total(book')[f] <= Limit(runs', live')[f]
  <2>1. /\ Total(book')[f] \in Nat /\ Limit(runs', live')[f] \in Nat
        /\ Cardinality(Takers(rec', f)) \in Nat
    BY QuantityFacts, LimitFacts
  <2> QED BY <2>1
<1>3. Possible(s, now', executed', Limit(runs', live'))
  BY <1>1, <1>2 DEF Possible
<1> QED BY <1>3 DEF Room, Memory, s

\* The books stay, while no more threads may apply a fill than before.
LEMMA RoomKept ==
    ASSUME Typed, Typed', Reconciling, Room, Onward, book' = book, order' = order,
           \A f \in Fills : /\ Cardinality(Takers(rec', f)) \in Nat
                            /\ Cardinality(Takers(rec', f)) + runs <= Cardinality(Takers(rec, f)) + runs'
    PROVE  Room'
<1>1. /\ now \in Nat /\ now' \in Nat /\ runs \in Nat /\ runs' \in Nat /\ now <= now' /\ runs <= runs'
      /\ \A f \in Fills : executed[f] \in Nat /\ executed'[f] \in Nat
  BY BooksConstants DEF Typed, Onward
<1>2. /\ book \in Book /\ order \in Orders /\ Lists(book, order)
      /\ \A f \in Fills : Total(book)[f] > 0 => executed[f] \in 1..now - 1
  BY DEF Room, Possible, Memory, Snap
<1>3. ASSUME NEW f \in Fills
      PROVE  Total(book')[f] + Cardinality(Takers(rec', f)) <= Limit(runs', live')[f]
  <2>1. /\ Total(book)[f] \in Nat /\ Cardinality(Takers(rec, f)) \in Nat
        /\ Limit(runs, live)[f] \in Nat /\ Limit(runs', live')[f] \in Nat
    BY <1>1, <1>2, QuantityFacts, LimitFacts, TakersFacts DEF Reconciling
  <2>2. Total(book)[f] + Cardinality(Takers(rec, f)) <= Limit(runs, live)[f]
    BY DEF Room
  <2>3. /\ Limit(runs, live)[f] = (runs + 1) + (IF live[f] = "booked" THEN 2 ELSE 0)
        /\ Limit(runs', live')[f] = (runs' + 1) + (IF live'[f] = "booked" THEN 2 ELSE 0)
    BY <1>1, LimitFacts
  <2>4. live[f] = "booked" => live'[f] = "booked"
    BY DEF Onward
  <2> QED BY <1>1, <2>1, <2>2, <2>3, <2>4
<1>4. \A f \in Fills : Total(book')[f] > 0 => executed'[f] \in 1..now' - 1
  BY <1>1, <1>2 DEF Onward
<1> QED BY <1>1, <1>2, <1>3, <1>4, RoomMade

-----------------------------------------------------------------------------
(* The stored snapshots.                                                    *)

\* A snapshot stamped now is possible.
LEMMA StampedGood ==
    ASSUME NEW s, NEW n \in Nat, NEW ex, NEW lim, Possible(s, n, ex, lim)
    PROVE  Possible([s EXCEPT !.ts = n], n, ex, lim)
<1> DEFINE k == [s EXCEPT !.ts = n]
<1>1. s \in Snap
  BY DEF Possible
<1>2. k \in Snap /\ k.ts = n /\ k.book = s.book /\ k.order = s.order /\ s.ts \in Nat /\ s.ts <= n
  BY <1>1 DEF Snap, Possible
<1> HIDE DEF k
<1>3. \A f \in Fills : Total(s.book)[f] > 0 => ex[f] \in 1..k.ts - 1
  BY <1>2 DEF Possible
<1>4. Possible(k, n, ex, lim)
  BY <1>2, <1>3 DEF Possible
<1> QED BY <1>4 DEF k

\* Nothing stored.
LEMMA NoFileGood ==
    ASSUME NEW n \in Nat, NEW ex, NEW lim, NEW ts \in 0..n, \A f \in Fills : lim[f] \in Nat
    PROVE  /\ Possible([NoFile EXCEPT !.ts = ts], n, ex, lim) /\ NoFile \in Snap
           /\ [NoFile EXCEPT !.ts = ts].ts = ts
<1> DEFINE s == [NoFile EXCEPT !.ts = ts]
<1>1. s \in Snap /\ s.ts = ts /\ s.book = Fresh /\ s.order = <<>> /\ NoFile \in Snap
  BY BooksConstants DEF NoFile, Snap, Orders
<1> HIDE DEF s
<1>2. Lists(Fresh, <<>>)
  BY BooksConstants, QuantityFacts, OrderFacts DEF Lists
<1>3. \A f \in Fills : Total(Fresh)[f] = 0
  BY BooksConstants DEF Total, Nothing
<1>4. Possible(s, n, ex, lim)
  BY <1>1, <1>2, <1>3 DEF Possible
<1> QED BY <1>1, <1>4 DEF s

\* The stored snapshots stay possible, whether a save adds one or not.
LEMMA KeptKept ==
    ASSUME Typed, Typed', Kept, Onward,
           \/ UNCHANGED stored
           \/ /\ now' = now
              /\ \E link, s : Saves(link, s) /\ Possible(s, now', executed', Limit(runs', live'))
    PROVE  Kept'
<1>1. /\ now \in Nat /\ now' \in Nat /\ runs \in Nat /\ runs' \in Nat /\ now <= now'
      /\ \A f \in Fills : executed[f] \in Nat /\ executed'[f] \in Nat
  BY BooksConstants DEF Typed, Onward
<1>2. \A f \in Fills : /\ Limit(runs, live)[f] \in Nat /\ Limit(runs', live')[f] \in Nat
                       /\ Limit(runs, live)[f] <= Limit(runs', live')[f]
                       /\ executed[f] >= 1 => executed'[f] = executed[f]
  BY <1>1, LimitsGrow DEF Onward
<1>3. /\ Possible(file, now', executed', Limit(runs', live'))
      /\ Possible(redis, now', executed', Limit(runs', live'))
  BY <1>1, <1>2, PossibleStays DEF Kept
<1>4. CASE UNCHANGED stored
  BY <1>3, <1>4 DEF stored, Kept
<1>5. ASSUME now' = now, NEW link, NEW s, Saves(link, s),
             Possible(s, now', executed', Limit(runs', live'))
      PROVE  Kept'
  <2>1. Possible([s EXCEPT !.ts = now'], now', executed', Limit(runs', live'))
    BY <1>1, <1>5, StampedGood
  <2>2. Stamped(s) = [s EXCEPT !.ts = now']
    BY <1>5 DEF Stamped
  <2>3. file' = Stamped(s) /\ (redis' = Stamped(s) \/ redis' = redis)
    BY <1>5 DEF Saves
  <2>4. /\ Possible(file', now', executed', Limit(runs', live'))
        /\ Possible(redis', now', executed', Limit(runs', live'))
    BY <1>3, <2>1, <2>2, <2>3
  <2> QED BY <2>4 DEF Kept
<1> QED BY <1>4, <1>5

-----------------------------------------------------------------------------
(* The steps.                                                               *)

\* A step that leaves books, snapshots and threads alone.
LEMMA Quiet ==
    ASSUME BooksSafe, Typed', Onward, UNCHANGED <<memory, stored, rec>>,
           phase' = "down" => phase = "down"
    PROVE  BooksSafe'
<1>1. Typed /\ Reconciling /\ Room /\ Kept /\ rec' = rec /\ book' = book /\ order' = order
  BY DEF BooksSafe, memory
<1>2. Reconciling'
  BY <1>1, ThreadsIdle
<1>3. Room'
  <2>1. ASSUME NEW f \in Fills
        PROVE  /\ Cardinality(Takers(rec', f)) \in Nat
               /\ Cardinality(Takers(rec', f)) + runs <= Cardinality(Takers(rec, f)) + runs'
    <3>1. Cardinality(Takers(rec, f)) \in Nat
      BY <1>1, TakersFacts DEF Reconciling
    <3>2. runs \in Nat /\ runs' \in Nat /\ runs <= runs'
      BY <1>1, BooksConstants DEF Typed, Onward
    <3> QED BY <1>1, <3>1, <3>2
  <2> QED BY <1>1, <2>1, RoomKept
<1>4. Kept'
  BY <1>1, KeptKept
<1> QED BY <1>2, <1>3, <1>4 DEF BooksSafe

\* The clock.
LEMMA TickSafe == ASSUME BooksSafe, Tick PROVE BooksSafe'
<1>1. now \in Nat /\ now' = now + 1 /\ now' <= Horizon /\ Typed /\ \A f \in Fills : executed[f] \in Nat
  BY BooksConstants DEF BooksSafe, Typed, Tick
<1>2. UNCHANGED <<market, phase, executed, live, memory, stored, linked, rec, call, runs, stops>>
  BY DEF Tick
<1>3. Typed'
  BY <1>1, <1>2, BooksConstants DEF Typed
<1>4. Onward
  BY <1>1, <1>2, BooksConstants DEF Onward, Typed
<1> QED BY <1>2, <1>3, <1>4, Quiet

\* An order is sent.
LEMMA SendSafe == ASSUME BooksSafe, NEW f \in Fills, Send(f) PROVE BooksSafe'
<1>1. Typed /\ live[f] = "new" /\ live' = [live EXCEPT ![f] = "sent"] /\ now \in Nat /\ runs \in Nat
  BY BooksConstants DEF BooksSafe, Send, Typed
<1>2. UNCHANGED <<now, market, phase, executed, memory, stored, linked, rec, call, runs, stops>>
  BY DEF Send, clock
<1>3. Typed'
  BY <1>1, <1>2 DEF Typed
<1>4. Onward
  BY <1>1, <1>2 DEF Onward, Typed
<1> QED BY <1>2, <1>3, <1>4, Quiet

\* An answer is lost.
LEMMA LoseSafe == ASSUME BooksSafe, NEW f \in Fills, Lose(f) PROVE BooksSafe'
<1>1. Typed /\ live[f] = "sent" /\ live' = [live EXCEPT ![f] = "lost"] /\ now \in Nat /\ runs \in Nat
  BY BooksConstants DEF BooksSafe, Lose, Typed
<1>2. UNCHANGED <<now, market, phase, executed, memory, stored, linked, rec, call, runs, stops>>
  BY DEF Lose, clock
<1>3. Typed'
  BY <1>1, <1>2 DEF Typed
<1>4. Onward
  BY <1>1, <1>2 DEF Onward, Typed
<1> QED BY <1>2, <1>3, <1>4, Quiet

\* The venue executes an order: its fill is as new as can be.
LEMMA ExecuteSafe == ASSUME BooksSafe, NEW f \in Fills, Execute(f) PROVE BooksSafe'
<1>1. /\ Typed /\ executed[f] = 0 /\ executed' = [executed EXCEPT ![f] = now]
      /\ now \in 1..Horizon /\ runs \in Nat /\ executed \in [Fills -> 0..Horizon]
  BY BooksConstants DEF BooksSafe, Execute, Typed
<1>2. UNCHANGED <<now, market, phase, live, memory, stored, linked, rec, call, runs, stops>>
  BY DEF Execute, clock
<1>3. /\ executed' \in [Fills -> 0..Horizon] /\ executed'[f] = now
      /\ \A g \in Fills : g # f => executed'[g] = executed[g]
  BY <1>1, BooksConstants
<1>4. Typed'
  <2>1. \A g \in Fills : executed'[g] <= now'
    BY <1>1, <1>2, <1>3, BooksConstants DEF Typed
  <2>2. \A g \in call.seen : g # f /\ g \in Fills
    BY <1>1 DEF Typed
  <2>3. \A g \in call'.seen : executed'[g] \in 1..now' - 1
    BY <1>1, <1>2, <1>3, <2>2 DEF Typed
  <2> QED BY <1>1, <1>2, <1>3, <2>1, <2>3 DEF Typed
<1>5. Onward
  <2>1. ASSUME NEW g \in Fills, executed[g] >= 1 PROVE executed'[g] = executed[g]
    BY <1>1, <1>3, <2>1
  <2> QED BY <1>1, <1>2, <2>1, BooksConstants DEF Onward
<1> QED BY <1>2, <1>4, <1>5, Quiet

\* An account snapshot is asked for and answered: what it holds is older than now.
LEMMA AskSafe == ASSUME BooksSafe, AskSnapshot \/ AnswerSnapshot PROVE BooksSafe'
<1>1. Typed /\ now \in Nat /\ runs \in Nat
  BY BooksConstants DEF BooksSafe, Typed
<1>2. UNCHANGED <<now, market, phase, executed, live, memory, stored, linked, rec, runs, stops>>
  BY DEF AskSnapshot, AnswerSnapshot, clock
<1>3. /\ call' \in [pc : {"none", "asked", "answered"}, seen : SUBSET Fills]
      /\ \A f \in call'.seen : executed[f] \in 1..now - 1
  <2>1. CASE call' = [pc |-> "asked", seen |-> {}] \/ call' = NoCall
    BY <2>1 DEF NoCall
  <2>2. CASE call' = [pc |-> "answered", seen |-> AtVenue]
    BY <2>2 DEF AtVenue
  <2> QED BY <2>1, <2>2 DEF AskSnapshot, AnswerSnapshot
<1>4. Typed'
  BY <1>1, <1>2, <1>3 DEF Typed
<1>5. Onward
  BY <1>1, <1>2 DEF Onward, Typed
<1> QED BY <1>2, <1>4, <1>5, Quiet

\* A fill more in the books, which someone was entitled to book.
LEMMA HeldRoom ==
    ASSUME Typed, Typed', Reconciling, Room, Onward, NEW f \in Fills, NEW k \in Nat, f \in AtVenue,
           UNCHANGED <<now, executed, runs>>, Holds("qual", Plus(book["qual"], f, k)),
           \A g \in Fills : /\ Cardinality(Takers(rec', g)) \in Nat
                            /\ Cardinality(Takers(rec', g)) <= Cardinality(Takers(rec, g)),
           k + Cardinality(Takers(rec', f)) + Limit(runs, live)[f]
             <= Cardinality(Takers(rec, f)) + Limit(runs', live')[f]
    PROVE  Room'
<1>1. /\ now \in Nat /\ now' = now /\ runs \in Nat /\ runs' = runs
      /\ executed' = executed /\ \A g \in Fills : executed[g] \in Nat
  BY BooksConstants DEF Typed
<1>2. /\ book \in Book /\ order \in Orders /\ Lists(book, order)
      /\ \A g \in Fills : Total(book)[g] > 0 => executed[g] \in 1..now - 1
  BY DEF Room, Possible, Memory, Snap
<1>3. /\ book' \in Book /\ order' \in Orders /\ Lists(book', order')
      /\ \A g \in Fills : Total(book')[g] = Total(book)[g] + (IF g = f THEN k ELSE 0)
  BY <1>2, HoldsGood
<1>4. ASSUME NEW g \in Fills
      PROVE  /\ Total(book')[g] + Cardinality(Takers(rec', g)) <= Limit(runs', live')[g]
             /\ Total(book')[g] > 0 => executed'[g] \in 1..now' - 1
  <2>1. /\ Total(book)[g] \in Nat /\ Cardinality(Takers(rec, g)) \in Nat
        /\ Limit(runs, live)[g] \in Nat /\ Limit(runs', live')[g] \in Nat
        /\ Limit(runs, live)[g] <= Limit(runs', live')[g]
    BY <1>1, <1>2, QuantityFacts, LimitsGrow, TakersFacts DEF Reconciling
  <2>2. Total(book)[g] + Cardinality(Takers(rec, g)) <= Limit(runs, live)[g]
    BY DEF Room
  <2>3. CASE g = f
    <3>1. Total(book')[g] = Total(book)[g] + k
      BY <1>3, <2>3
    <3>2. executed[g] \in 1..now - 1
      BY <2>3 DEF AtVenue
    <3>3. Cardinality(Takers(rec', g)) \in Nat
      OBVIOUS
    <3>4. k + Cardinality(Takers(rec', g)) + Limit(runs, live)[g]
            <= Cardinality(Takers(rec, g)) + Limit(runs', live')[g]
      BY <2>3
    <3>5. Total(book')[g] + Cardinality(Takers(rec', g)) <= Limit(runs', live')[g]
      BY <2>1, <2>2, <3>1, <3>3, <3>4
    <3> QED BY <1>1, <3>2, <3>5
  <2>4. CASE g # f
    <3>1. Total(book')[g] = Total(book)[g]
      BY <1>3, <2>1, <2>4
    <3>2. Cardinality(Takers(rec', g)) \in Nat /\ Cardinality(Takers(rec', g)) <= Cardinality(Takers(rec, g))
      OBVIOUS
    <3> QED BY <1>1, <1>2, <2>1, <2>2, <3>1, <3>2
  <2> QED BY <2>3, <2>4
<1> QED BY <1>1, <1>3, <1>4, RoomMade

\* A booking by the process that sent the order.
LEMMA BookedRoom ==
    ASSUME Typed, Typed', Reconciling, Room, Onward, NEW f \in Fills, NEW k \in 1..2, Arrived(f),
           live' = [live EXCEPT ![f] = "booked"],
           UNCHANGED <<now, executed, runs>>, Holds("qual", Plus(book["qual"], f, k)),
           \A g \in Fills : /\ Cardinality(Takers(rec', g)) \in Nat
                            /\ Cardinality(Takers(rec', g)) <= Cardinality(Takers(rec, g))
    PROVE  Room'
<1>1. runs \in Nat /\ runs' = runs /\ f \in AtVenue /\ k \in Nat /\ k <= 2
  BY BooksConstants DEF Typed, Arrived
<1>2. live[f] = "sent" /\ live'[f] = "booked"
  BY DEF Arrived, Typed
<1>3. Limit(runs, live)[f] = (runs + 1) + 0 /\ Limit(runs', live')[f] = (runs + 1) + 2
  <2>1. Limit(runs, live)[f] = (runs + 1) + (IF live[f] = "booked" THEN 2 ELSE 0)
    BY <1>1, LimitFacts
  <2>2. Limit(runs, live')[f] = (runs + 1) + (IF live'[f] = "booked" THEN 2 ELSE 0)
    BY <1>1, LimitFacts
  <2> QED BY <1>1, <1>2, <2>1, <2>2
<1>4. Cardinality(Takers(rec, f)) \in Nat
  BY TakersFacts DEF Reconciling
<1>5. k + Cardinality(Takers(rec', f)) + Limit(runs, live)[f]
        <= Cardinality(Takers(rec, f)) + Limit(runs', live')[f]
  <2>1. Cardinality(Takers(rec', f)) \in Nat /\ Cardinality(Takers(rec', f)) <= Cardinality(Takers(rec, f))
    OBVIOUS
  <2> QED BY <1>1, <1>3, <1>4, <2>1
<1> QED BY <1>1, <1>5, HeldRoom

\* The books imported from the venue.
LEMMA ImportedRoom ==
    ASSUME Typed, Typed', Reconciling', UNCHANGED <<now, executed>>, NEW seen \in SUBSET Fills,
           \A f \in seen : executed[f] \in 1..now - 1, Imported(seen)
    PROVE  Room'
<1>1. now' \in Nat /\ runs' \in Nat /\ now' = now /\ executed' = executed
  BY BooksConstants DEF Typed
<1>2. /\ book' \in Book /\ order' \in Orders /\ Lists(book', order')
      /\ \A f \in Fills : Total(book')[f] = IF f \in seen THEN 1 ELSE 0
  BY ImportedGood
<1>3. ASSUME NEW f \in Fills
      PROVE  /\ Cardinality(Takers(rec', f)) \in Nat
             /\ Total(book')[f] + Cardinality(Takers(rec', f)) <= Limit(runs', live')[f]
             /\ Total(book')[f] > 0 => executed'[f] \in 1..now' - 1
  <2>1. IsFiniteSet(Working(rec')) /\ Cardinality(Working(rec')) <= runs'
    BY DEF Reconciling
  <2>2. /\ Cardinality(Takers(rec', f)) \in Nat /\ Cardinality(Working(rec')) \in Nat
        /\ Cardinality(Takers(rec', f)) <= Cardinality(Working(rec'))
    BY <2>1, TakersFacts, FS_CardinalityType
  <2>3. runs' + 1 <= Limit(runs', live')[f] /\ Limit(runs', live')[f] \in Nat
    BY <1>1, LimitFacts
  <2>4. Total(book')[f] \in 0..1 /\ (Total(book')[f] > 0 => f \in seen)
    BY <1>2
  <2> QED BY <1>1, <2>1, <2>2, <2>3, <2>4
<1> QED BY <1>1, <1>2, <1>3, RoomMade

\* A store of the books as they are after the step.
LEMMA SavedKept ==
    ASSUME Typed, Typed', Kept, Onward, Room', now' = now, Saves(linked, Snapshot(book', order'))
    PROVE  Kept'
<1>1. Snapshot(book', order') = [ts |-> now', book |-> book', order |-> order']
  BY DEF Snapshot
<1>2. Possible(Snapshot(book', order'), now', executed', Limit(runs', live'))
  BY <1>1 DEF Room, Memory
<1> QED BY <1>2, KeptKept

\* No thread does anything, so that as many may apply a fill.
LEMMA TakersSame ==
    ASSUME Reconciling, rec' = rec, NEW g
    PROVE  /\ Cardinality(Takers(rec', g)) \in Nat /\ Cardinality(Takers(rec, g)) \in Nat
           /\ Cardinality(Takers(rec', g)) <= Cardinality(Takers(rec, g))
<1>1. Cardinality(Takers(rec, g)) \in Nat
  BY TakersFacts DEF Reconciling
<1> QED BY <1>1

\* The process books its fill, once or twice, and may save.
LEMMA BookFillSafe == ASSUME BooksSafe, NEW f \in Fills, BookFill(f) \/ BookAndSave(f) PROVE BooksSafe'
<1>1. /\ Typed /\ Reconciling /\ Room /\ Kept /\ now \in Nat /\ runs \in Nat
      /\ live \in [Fills -> {"new", "sent", "booked", "lost"}]
  BY BooksConstants DEF BooksSafe, Typed
<1>2. /\ Arrived(f) /\ live' = [live EXCEPT ![f] = "booked"]
      /\ UNCHANGED <<now, market, phase, executed, linked, rec, call, runs, stops>>
  BY DEF BookFill, BookAndSave, clock
<1>3. PICK k \in 1..2 : Holds("qual", Plus(book["qual"], f, k))
  BY DEF BookFill, BookAndSave
<1>4. Typed'
  BY <1>1, <1>2 DEF Typed
<1>5. Onward
  BY <1>1, <1>2 DEF Onward, Typed
<1>6. Reconciling'
  BY <1>1, <1>2, <1>4, <1>5, ThreadsIdle
<1>7. Room'
  BY <1>1, <1>2, <1>3, <1>4, <1>5, TakersSame, BookedRoom
<1>8. UNCHANGED stored \/ Saves(linked, Snapshot(book', order'))
  BY DEF BookFill, BookAndSave
<1>9. Kept'
  BY <1>1, <1>2, <1>4, <1>5, <1>7, <1>8, KeptKept, SavedKept
<1> QED BY <1>4, <1>6, <1>7, <1>9 DEF BooksSafe

\* The account snapshot is imported, and all is saved.
LEMMA TakeSnapshotSafe == ASSUME BooksSafe, TakeSnapshot PROVE BooksSafe'
<1>1. /\ Typed /\ Reconciling /\ Room /\ Kept /\ now \in Nat /\ runs \in Nat
      /\ call.seen \in SUBSET Fills /\ \A f \in call.seen : executed[f] \in 1..now - 1
  BY BooksConstants DEF BooksSafe, Typed
<1>2. /\ call' = NoCall /\ UNCHANGED <<now, market, phase, executed, live, linked, rec, runs, stops>>
      /\ Saves(linked, Snapshot(book', order'))
      /\ Imported(call.seen) \/ UNCHANGED memory
  BY DEF TakeSnapshot, clock
<1>3. Typed'
  BY <1>1, <1>2 DEF Typed, NoCall
<1>4. Onward
  BY <1>1, <1>2 DEF Onward, Typed
<1>5. Reconciling'
  BY <1>1, <1>2, <1>3, <1>4, ThreadsIdle
<1>6. CASE Imported(call.seen)
  <2>1. Room'
    BY <1>1, <1>2, <1>3, <1>5, <1>6, ImportedRoom
  <2>2. Kept'
    BY <1>1, <1>2, <1>3, <1>4, <2>1, SavedKept
  <2> QED BY <1>3, <1>5, <2>1, <2>2 DEF BooksSafe
<1>7. CASE UNCHANGED memory
  <2>1. book' = book /\ order' = order
    BY <1>7 DEF memory
  <2>2. \A f \in Fills : /\ Cardinality(Takers(rec', f)) \in Nat
                         /\ Cardinality(Takers(rec', f)) + runs <= Cardinality(Takers(rec, f)) + runs'
    BY <1>1, <1>2, TakersSame
  <2>3. Room'
    BY <1>1, <1>3, <1>4, <2>1, <2>2, RoomKept
  <2>4. Kept'
    BY <1>1, <1>2, <1>3, <1>4, <2>3, SavedKept
  <2> QED BY <1>3, <1>5, <2>3, <2>4 DEF BooksSafe
<1> QED BY <1>2, <1>6, <1>7

\* The thread that a start makes of an idle one.
LEMMA StartedThread ==
    ASSUME NEW h, NEW v, NEW l
    PROVE  [Idle EXCEPT !.pc = "fetch", !.held = h, !.linked = l, !.view = v]
             = [pc |-> "fetch", todo |-> {}, held |-> h, view |-> v, linked |-> l]
<1>1. PICK w : w = FALSE
  OBVIOUS
<1> DEFINE a == [Idle EXCEPT !.pc = "fetch"]
           b == [a EXCEPT !.held = h]
           c == [b EXCEPT !.linked = l]
           d == [c EXCEPT !.view = v]
<1>2. Idle = [pc |-> "idle", todo |-> {}, held |-> Nothing, view |-> NoFile, linked |-> w]
  BY <1>1, Zenon DEF Idle
<1>3. a = [pc |-> "fetch", todo |-> {}, held |-> Nothing, view |-> NoFile, linked |-> w]
  BY <1>2
<1> HIDE DEF a
<1>4. b = [pc |-> "fetch", todo |-> {}, held |-> h, view |-> NoFile, linked |-> w]
  BY <1>3
<1> HIDE DEF b
<1>5. c = [pc |-> "fetch", todo |-> {}, held |-> h, view |-> NoFile, linked |-> l]
  BY <1>4
<1> HIDE DEF c
<1>6. d = [pc |-> "fetch", todo |-> {}, held |-> h, view |-> v, linked |-> l]
  BY <1>5
<1> QED BY <1>6, Zenon DEF a, b, c, d

\* A thread that starts is sound, and adds itself to those that may apply a fill.
LEMMA ThreadStarts ==
    ASSUME BooksSafe, Typed', NEW t \in Threads, rec[t].pc = "idle", StartReconcile(t),
           UNCHANGED <<now, executed, live>>, phase' # "down"
    PROVE  /\ Reconciling' /\ Onward /\ runs' = runs + 1
           /\ \A f : Takers(rec', f) \subseteq Takers(rec, f) \cup {t}
<1>1. /\ Typed /\ Reconciling /\ Kept /\ now \in Nat /\ runs \in Nat /\ Runs \in Nat
      /\ rec \in [Threads -> Thread] /\ runs' = runs + 1 /\ runs' <= Runs
  BY BooksConstants DEF BooksSafe, Typed, Reconciling, StartReconcile
<1>2. Onward
  BY <1>1 DEF Onward, Typed
<1>3. PICK link \in BOOLEAN : \E s \in Loads(link) :
        rec' = [rec EXCEPT ![t] = [Idle EXCEPT !.pc = "fetch", !.held = Total(s.book), !.linked = link,
                                               !.view = [NoFile EXCEPT !.ts = s.ts]]]
  BY DEF StartReconcile
<1>16. PICK s \in Loads(link) :
        rec' = [rec EXCEPT ![t] = [Idle EXCEPT !.pc = "fetch", !.held = Total(s.book), !.linked = link,
                                               !.view = [NoFile EXCEPT !.ts = s.ts]]]
  BY <1>3
<1>4. Possible(s, now, executed, Limit(runs, live))
  BY <1>1 DEF Kept, Loads
<1>5. s.book \in Book /\ s.ts \in 0..now /\ Total(s.book) \in [Fills -> Nat]
  BY <1>1, <1>4, QuantityFacts DEF Possible, Snap
<1>6. Total(s.book) \in Counts
  <2>1. ASSUME NEW f \in Fills PROVE Total(s.book)[f] \in 0..Runs + 3
    <3>1. /\ Total(s.book)[f] <= Limit(runs, live)[f] /\ Total(s.book)[f] \in Nat
          /\ Limit(runs, live)[f] <= runs + 3 /\ Limit(runs, live)[f] \in Nat
      BY <1>1, <1>4, <1>5, LimitFacts DEF Possible
    <3> QED BY <1>1, <3>1
  <2> QED BY <1>5, <2>1 DEF Counts
<1> DEFINE v == [NoFile EXCEPT !.ts = s.ts]
           r == [Idle EXCEPT !.pc = "fetch", !.held = Total(s.book), !.linked = link, !.view = v]
<1>7. /\ Possible(v, now', executed', Limit(runs', live')) /\ NoFile \in Snap /\ v.ts = s.ts
  <2>1. \A f \in Fills : Limit(runs', live')[f] \in Nat
    BY <1>1, LimitFacts
  <2> QED BY <1>1, <1>5, <2>1, NoFileGood
<1>8. v \in Snap
  BY <1>7 DEF Possible
<1> HIDE DEF v
<1>9. /\ r = [pc |-> "fetch", todo |-> {}, held |-> Total(s.book), view |-> v, linked |-> link]
      /\ r \in Thread
  <2>1. r = [pc |-> "fetch", todo |-> {}, held |-> Total(s.book), view |-> v, linked |-> link]
    BY StartedThread
  <2>2. [pc |-> "fetch", todo |-> {}, held |-> Total(s.book), view |-> v, linked |-> link] \in Thread
    BY <1>6, <1>8 DEF Thread
  <2> QED BY <2>1, <2>2, Zenon
<1>10. /\ rec' = [rec EXCEPT ![t] = r]
  BY <1>16 DEF v
<1> HIDE DEF r
<1>11. rec' \in [Threads -> Thread] /\ rec'[t] = r /\ \A u \in Threads \ {t} : rec'[u] = rec[u]
  BY <1>1, <1>9, <1>10
<1>12. Apart(r, now', executed')
  <2>1. \A f \in Fills : r.held[f] > 0 => executed'[f] \in 1..r.view.ts - 1
    BY <1>4, <1>7, <1>9 DEF Possible
  <2>2. r.pc = "fetch"
    BY <1>9
  <2> QED BY <2>1, <2>2 DEF Apart
<1>13. r.view = v
  BY <1>9
<1>14. Reconciling'
  BY <1>1, <1>2, <1>7, <1>11, <1>12, <1>13, ThreadsKept
<1>15. \A f : Takers(rec', f) \subseteq Takers(rec, f) \cup {t}
  BY <1>11 DEF Takers
<1> QED BY <1>1, <1>2, <1>14, <1>15

\* A reconciliation starts while the engine runs.
LEMMA ReconcileSafe == ASSUME BooksSafe, NEW t \in Threads, Reconcile(t) PROVE BooksSafe'
<1>1. Typed /\ Reconciling /\ Room /\ Kept /\ now \in Nat /\ runs \in Nat
  BY BooksConstants DEF BooksSafe, Typed
<1>2. /\ rec[t].pc = "idle" /\ StartReconcile(t) /\ runs' = runs + 1 /\ runs < Runs /\ phase = "up"
      /\ UNCHANGED <<now, market, phase, executed, live, book, order, stored, linked, call, stops>>
  BY DEF Reconcile, StartReconcile, clock, memory
<1>3. Typed'
  BY <1>1, <1>2, BooksConstants DEF Typed
<1>4. Reconciling' /\ Onward /\ \A f : Takers(rec', f) \subseteq Takers(rec, f) \cup {t}
  BY <1>2, <1>3, ThreadStarts
<1>5. Room'
  <2>1. ASSUME NEW f \in Fills
        PROVE  /\ Cardinality(Takers(rec', f)) \in Nat
               /\ Cardinality(Takers(rec', f)) + runs <= Cardinality(Takers(rec, f)) + runs'
    <3>1. /\ Cardinality(Takers(rec', f)) <= Cardinality(Takers(rec, f)) + 1
          /\ Cardinality(Takers(rec', f)) \in Nat /\ Cardinality(Takers(rec, f)) \in Nat
      BY <1>1, <1>4, TakersOneMore DEF Reconciling
    <3> QED BY <1>1, <1>2, <3>1
  <2> QED BY <1>1, <1>2, <1>3, <1>4, <2>1, RoomKept
<1>6. Kept'
  BY <1>1, <1>2, <1>3, <1>4, KeptKept
<1> QED BY <1>3, <1>4, <1>5, <1>6 DEF BooksSafe

\* The engine starts: a snapshot or the venue's positions take the place of the empty books.
LEMMA StartSafe == ASSUME BooksSafe, NEW t \in Threads, Start(t) PROVE BooksSafe'
<1>1. /\ Typed /\ Reconciling /\ Room /\ Kept /\ now \in Nat /\ runs \in Nat
      /\ \A f \in Fills : executed[f] \in Nat
  BY BooksConstants DEF BooksSafe, Typed
<1>2. /\ phase = "down" /\ StartReconcile(t) /\ runs' = runs + 1 /\ runs < Runs /\ phase' = "boot"
      /\ linked' \in BOOLEAN
      /\ UNCHANGED <<now, market, executed, live, stored, call, stops>>
  BY DEF Start, StartReconcile, clock
<1>3. Working(rec) = {} /\ rec[t].pc = "idle"
  BY <1>1, <1>2 DEF Reconciling, Working
<1>4. Typed'
  BY <1>1, <1>2, BooksConstants DEF Typed
<1>5. Reconciling' /\ Onward
  BY <1>2, <1>3, <1>4, ThreadStarts
<1>6. Kept'
  BY <1>1, <1>2, <1>4, <1>5, KeptKept
<1>7. Room'
  <2>1. ASSUME NEW s \in Loads(linked'), Loaded(s) PROVE Room'
    <3>1. Possible(s, now, executed, Limit(runs, live))
      BY <1>1 DEF Kept, Loads
    <3>2. s \in Snap /\ Lists(s.book, s.order) /\ s.ts \in Nat /\ s.ts <= now /\ s.book \in Book
      BY <3>1 DEF Possible, Snap
    <3>3. /\ book' \in Book /\ order' \in Orders /\ Lists(book', order')
          /\ \A f \in Fills : Total(book')[f] <= Total(s.book)[f]
      BY <2>1, <3>2, LoadedGood
    <3>4. ASSUME NEW f \in Fills
          PROVE  /\ Cardinality(Takers(rec', f)) \in Nat
                 /\ Total(book')[f] + Cardinality(Takers(rec', f)) <= Limit(runs', live')[f]
                 /\ Total(book')[f] > 0 => executed'[f] \in 1..now' - 1
      <4>1. /\ Total(book')[f] \in Nat /\ Total(s.book)[f] \in Nat /\ Total(book')[f] <= Total(s.book)[f]
            /\ Total(s.book)[f] <= Limit(runs, live)[f]
            /\ Total(s.book)[f] > 0 => executed[f] \in 1..s.ts - 1
        BY <3>1, <3>2, <3>3, QuantityFacts DEF Possible
      <4>2. /\ Cardinality(Takers(rec', f)) <= Cardinality(Takers(rec, f)) + 1
            /\ Cardinality(Takers(rec', f)) \in Nat /\ Cardinality(Takers(rec, f)) \in Nat
        BY <1>1, <1>2, <1>3, <1>4, ThreadStarts, TakersOneMore DEF Reconciling
      <4>3. Cardinality(Takers(rec, f)) = 0
        <5>1. Takers(rec, f) = {}
          BY <1>3 DEF Takers, Working
        <5> QED BY <5>1, FS_EmptySet
      <4>4. Limit(runs, live)[f] \in Nat /\ Limit(runs', live')[f] = Limit(runs, live)[f] + 1
        <5>1. Limit(runs, live)[f] = (runs + 1) + (IF live[f] = "booked" THEN 2 ELSE 0)
          BY <1>1, LimitFacts
        <5>2. Limit(runs', live)[f] = (runs' + 1) + (IF live[f] = "booked" THEN 2 ELSE 0)
          BY <1>1, <1>2, LimitFacts
        <5> QED BY <1>1, <1>2, <5>1, <5>2
      <4>5. Total(book')[f] + Cardinality(Takers(rec', f)) <= Limit(runs', live')[f]
        BY <4>1, <4>2, <4>3, <4>4
      <4>6. Total(book')[f] > 0 => executed[f] \in 1..now - 1
        BY <1>1, <3>2, <4>1
      <4> QED BY <1>2, <4>2, <4>5, <4>6
    <3>5. now' \in Nat /\ runs' \in Nat
      BY <1>1, <1>2
    <3> QED BY <3>3, <3>4, <3>5, RoomMade
  <2>2. ASSUME InitializeBalances PROVE Room'
    <3>1. PICK seen \in {AtVenue, {}} : Imported(IF market = "futures" THEN seen ELSE {})
      BY <2>2 DEF InitializeBalances
    <3> DEFINE got == IF market = "futures" THEN seen ELSE {}
    <3>2. got \in SUBSET Fills /\ \A f \in got : executed[f] \in 1..now - 1
      BY DEF AtVenue
    <3> HIDE DEF got
    <3>3. Imported(got)
      BY <3>1 DEF got
    <3> QED BY <1>1, <1>2, <1>4, <1>5, <3>2, <3>3, ImportedRoom
  <2>3. \E s \in Loads(linked') : IF s # NoFile THEN Loaded(s) ELSE InitializeBalances
    BY DEF Start
  <2> QED BY <2>1, <2>2, <2>3
<1> QED BY <1>4, <1>5, <1>6, <1>7 DEF BooksSafe

\* A thread that does nothing is sound.
LEMMA IdleGood ==
    ASSUME NEW n \in Nat, NEW ex, NEW k \in Nat, NEW l
    PROVE  Idle \in Thread /\ Idle.pc = "idle" /\ Possible(Idle.view, n, ex, Limit(k, l))
<1>1. Idle = [pc |-> "idle", todo |-> {}, held |-> Nothing, view |-> NoFile, linked |-> FALSE]
  BY DEF Idle
<1>2. Nothing \in Counts
  BY BooksConstants DEF Nothing, Counts
<1>3. /\ NoFile \in Snap /\ Possible(NoFile, n, ex, Limit(k, l))
  <2>1. [NoFile EXCEPT !.ts = 0] = NoFile
    BY DEF NoFile
  <2>2. \A f \in Fills : Limit(k, l)[f] \in Nat
    BY LimitFacts
  <2>3. 0 \in 0..n
    OBVIOUS
  <2>4. Possible([NoFile EXCEPT !.ts = 0], n, ex, Limit(k, l)) /\ NoFile \in Snap
    BY <2>2, <2>3, NoFileGood
  <2> QED BY <2>1, <2>4
<1> HIDE DEF NoFile, Nothing
<1>4. Idle \in Thread /\ Idle.pc = "idle" /\ Idle.view = NoFile
  BY <1>1, <1>2, <1>3 DEF Thread
<1> QED BY <1>3, <1>4

\* A thread goes on: it keeps what it holds, and can apply no fill it could not before.
LEMMA ThreadGoesOn ==
    ASSUME Typed, Typed', Reconciling, Onward, NEW t \in Threads, NEW r \in Thread,
           rec[t].pc # "idle", rec' = [rec EXCEPT ![t] = r],
           Possible(r.view, now', executed', Limit(runs', live')), Apart(r, now', executed'),
           phase' # "down",
           \A f \in Fills : (r.pc = "fetch" \/ (r.pc = "apply" /\ f \in r.todo)) => t \in Takers(rec, f)
    PROVE  /\ Reconciling' /\ rec'[t] = r
           /\ \A f \in Fills : /\ Takers(rec', f) \subseteq Takers(rec, f)
                               /\ Cardinality(Takers(rec', f)) <= Cardinality(Takers(rec, f))
                               /\ Cardinality(Takers(rec', f)) \in Nat /\ Cardinality(Takers(rec, f)) \in Nat
<1>1. rec \in [Threads -> Thread] /\ IsFiniteSet(Working(rec))
  BY DEF Reconciling
<1>2. rec' \in [Threads -> Thread] /\ rec'[t] = r /\ \A u \in Threads \ {t} : rec'[u] = rec[u]
  BY <1>1
<1>3. Reconciling'
  BY <1>2, ThreadsKept
<1>4. \A f \in Fills : Takers(rec', f) \subseteq Takers(rec, f)
  BY <1>2 DEF Takers
<1> QED BY <1>1, <1>2, <1>3, <1>4, TakersFewer

\* A thread fetches the trades since its stamp.
LEMMA FetchSafe == ASSUME BooksSafe, NEW t \in Threads, Fetch(t) PROVE BooksSafe'
<1>1. /\ Typed /\ Reconciling /\ Room /\ Kept /\ now \in Nat /\ runs \in Nat
      /\ rec[t] \in Thread /\ rec \in [Threads -> Thread] /\ rec[t].pc = "fetch"
      /\ Possible(rec[t].view, now, executed, Limit(runs, live)) /\ Apart(rec[t], now, executed)
  BY BooksConstants DEF BooksSafe, Typed, Reconciling, Fetch
<1>2. UNCHANGED <<now, market, phase, executed, live, book, order, stored, linked, call, runs, stops>>
  BY DEF Fetch, clock, memory
<1>3. PICK trades \in {{f \in AtVenue : executed[f] >= rec[t].view.ts}, {}} :
        rec' = [rec EXCEPT ![t].pc = "apply", ![t].todo = trades]
  BY DEF Fetch
<1> DEFINE r == [rec[t] EXCEPT !.pc = "apply", !.todo = trades]
<1>4. /\ trades \subseteq Fills
      /\ \A f \in trades : executed[f] \in 1..now - 1 /\ executed[f] >= rec[t].view.ts
  BY DEF AtVenue
<1>5. /\ r \in Thread /\ r.pc = "apply" /\ r.todo = trades
      /\ r.held = rec[t].held /\ r.view = rec[t].view
  BY <1>1, <1>4 DEF Thread
<1>6. rec' = [rec EXCEPT ![t] = r]
  BY <1>1, <1>3
<1> HIDE DEF r
<1>7. Typed' /\ Onward
  BY <1>1, <1>2 DEF Typed, Onward
<1>8. Possible(r.view, now', executed', Limit(runs', live'))
  BY <1>1, <1>2, <1>5
<1>9. Apart(r, now', executed')
  BY <1>1, <1>2, <1>4, <1>5 DEF Apart
<1>10. phase' # "down" /\ rec[t].pc # "idle"
  BY <1>1, <1>2 DEF Reconciling, Working
<1>11. \A f \in Fills : t \in Takers(rec, f)
  BY <1>1 DEF Takers
<1>12. /\ Reconciling'
       /\ \A f \in Fills : /\ Cardinality(Takers(rec', f)) <= Cardinality(Takers(rec, f))
                           /\ Cardinality(Takers(rec', f)) \in Nat /\ Cardinality(Takers(rec, f)) \in Nat
  BY <1>1, <1>5, <1>6, <1>7, <1>8, <1>9, <1>10, <1>11, ThreadGoesOn
<1>13. Room'
  <2>0. runs \in Nat /\ runs' = runs
    BY <1>1, <1>2
  <2>1. \A f \in Fills : /\ Cardinality(Takers(rec', f)) \in Nat
                         /\ Cardinality(Takers(rec', f)) + runs <= Cardinality(Takers(rec, f)) + runs'
    BY <1>12, <2>0
  <2> QED BY <1>1, <1>2, <1>7, <2>1, RoomKept
<1>14. Kept'
  BY <1>1, <1>2, <1>7, KeptKept
<1> QED BY <1>7, <1>12, <1>13, <1>14 DEF BooksSafe

\* A thread takes the new snapshot.
LEMMA ViewSafe == ASSUME BooksSafe, NEW t \in Threads, View(t) PROVE BooksSafe'
<1>1. /\ Typed /\ Reconciling /\ Room /\ Kept /\ now \in Nat /\ runs \in Nat
      /\ rec[t] \in Thread /\ rec \in [Threads -> Thread] /\ rec[t].pc = "apply"
  BY BooksConstants DEF BooksSafe, Typed, Reconciling, View
<1>2. /\ UNCHANGED <<now, market, phase, executed, live, book, order, stored, linked, call, runs, stops>>
      /\ rec' = [rec EXCEPT ![t].pc = "save", ![t].view = Snapshot(book, order)]
  BY DEF View, clock, memory
<1>3. Snapshot(book, order) = Memory
  BY DEF Snapshot, Memory
<1>4. Possible(Memory, now, executed, Limit(runs, live)) /\ Memory \in Snap
  BY <1>1 DEF Room, Possible
<1> DEFINE v == Memory
           r == [rec[t] EXCEPT !.pc = "save", !.view = v]
<1> HIDE DEF v
<1>5. r \in Thread /\ r.pc = "save" /\ r.view = v
  BY <1>1, <1>4 DEF Thread, v
<1>6. rec' = [rec EXCEPT ![t] = r]
  BY <1>1, <1>2, <1>3 DEF v
<1> HIDE DEF r
<1>7. Typed' /\ Onward
  BY <1>1, <1>2 DEF Typed, Onward
<1>8. Possible(r.view, now', executed', Limit(runs', live'))
  BY <1>2, <1>4, <1>5 DEF v
<1>9. Apart(r, now', executed')
  BY <1>5 DEF Apart
<1>10. phase' # "down" /\ rec[t].pc # "idle"
  BY <1>1, <1>2 DEF Reconciling, Working
<1>11. r.pc # "fetch" /\ r.pc # "apply"
  BY <1>5
<1>12. /\ Reconciling'
       /\ \A f \in Fills : /\ Cardinality(Takers(rec', f)) <= Cardinality(Takers(rec, f))
                           /\ Cardinality(Takers(rec', f)) \in Nat /\ Cardinality(Takers(rec, f)) \in Nat
  BY <1>1, <1>5, <1>6, <1>7, <1>8, <1>9, <1>10, <1>11, ThreadGoesOn
<1>13. Room'
  <2>0. runs \in Nat /\ runs' = runs
    BY <1>1, <1>2
  <2>1. \A f \in Fills : /\ Cardinality(Takers(rec', f)) \in Nat
                         /\ Cardinality(Takers(rec', f)) + runs <= Cardinality(Takers(rec, f)) + runs'
    BY <1>12, <2>0
  <2> QED BY <1>1, <1>2, <1>7, <2>1, RoomKept
<1>14. Kept'
  BY <1>1, <1>2, <1>7, KeptKept
<1> QED BY <1>7, <1>12, <1>13, <1>14 DEF BooksSafe

\* A thread saves what it took, stamped now.
LEMMA SaveSafe == ASSUME BooksSafe, NEW t \in Threads, Save(t) PROVE BooksSafe'
<1>1. /\ Typed /\ Reconciling /\ Room /\ Kept /\ now \in Nat /\ runs \in Nat
      /\ rec[t] \in Thread /\ rec \in [Threads -> Thread] /\ rec[t].pc = "save"
      /\ Possible(rec[t].view, now, executed, Limit(runs, live))
  BY BooksConstants DEF BooksSafe, Typed, Reconciling, Save
<1>2. /\ UNCHANGED <<now, market, executed, live, book, order, linked, call, runs, stops>>
      /\ rec' = [rec EXCEPT ![t] = Idle] /\ phase' = "up" /\ Saves(rec[t].linked, rec[t].view)
  BY DEF Save, clock, memory
<1>3. Typed' /\ Onward
  BY <1>1, <1>2 DEF Typed, Onward
<1>4. /\ Idle \in Thread /\ Idle.pc = "idle" /\ Possible(Idle.view, now', executed', Limit(runs', live'))
  BY <1>1, <1>2, IdleGood
<1>5. Apart(Idle, now', executed')
  BY <1>4 DEF Apart
<1>6. /\ Reconciling'
      /\ \A f \in Fills : /\ Cardinality(Takers(rec', f)) <= Cardinality(Takers(rec, f))
                          /\ Cardinality(Takers(rec', f)) \in Nat /\ Cardinality(Takers(rec, f)) \in Nat
  BY <1>1, <1>2, <1>3, <1>4, <1>5, ThreadGoesOn
<1>7. Room'
  <2>0. runs \in Nat /\ runs' = runs
    BY <1>1, <1>2
  <2>1. \A f \in Fills : /\ Cardinality(Takers(rec', f)) \in Nat
                         /\ Cardinality(Takers(rec', f)) + runs <= Cardinality(Takers(rec, f)) + runs'
    BY <1>6, <2>0
  <2> QED BY <1>1, <1>2, <1>3, <2>1, RoomKept
<1>8. Kept'
  <2>1. Possible(rec[t].view, now', executed', Limit(runs', live'))
    BY <1>1, <1>2
  <2> QED BY <1>1, <1>2, <1>3, <2>1, KeptKept
<1> QED BY <1>3, <1>6, <1>7, <1>8 DEF BooksSafe

\* A crash: the books are empty, and no thread runs.
LEMMA CrashSafe == ASSUME BooksSafe, Crash PROVE BooksSafe'
<1>1. /\ Typed /\ Reconciling /\ Room /\ Kept /\ now \in Nat /\ runs \in Nat /\ stops' \in 0..Stops
      /\ live \in [Fills -> {"new", "sent", "booked", "lost"}]
  BY BooksConstants DEF BooksSafe, Typed, Crash
<1>2. /\ UNCHANGED <<now, market, executed, stored, runs>> /\ phase' = "down"
      /\ live' = [f \in Fills |-> IF live[f] = "sent" THEN "lost" ELSE live[f]]
      /\ book' = Fresh /\ order' = <<>> /\ rec' = [t \in Threads |-> Idle]
      /\ call' = NoCall /\ linked' = FALSE
  BY DEF Crash, clock
<1>3. /\ live' \in [Fills -> {"new", "sent", "booked", "lost"}]
      /\ \A f \in Fills : live[f] = "booked" => live'[f] = "booked"
  BY <1>1, <1>2
<1>4. Typed'
  <2>1. /\ call' \in [pc : {"none", "asked", "answered"}, seen : SUBSET Fills]
        /\ \A f \in call'.seen : executed'[f] \in 1..now' - 1
    BY <1>2 DEF NoCall
  <2> QED BY <1>1, <1>2, <1>3, <2>1 DEF Typed
<1>5. Onward
  BY <1>1, <1>2, <1>3 DEF Onward, Typed
<1>6. \A t \in Threads : rec'[t] = Idle
  BY <1>2
<1>7. Idle \in Thread /\ Idle.pc = "idle" /\ Possible(Idle.view, now', executed', Limit(runs', live'))
  BY <1>1, <1>2, IdleGood
<1>8. Working(rec') = {}
  BY <1>6, <1>7 DEF Working
<1>9. Reconciling'
  <2>1. rec' \in [Threads -> Thread]
    BY <1>2, <1>7
  <2>2. \A t \in Threads : /\ Possible(rec'[t].view, now', executed', Limit(runs', live'))
                           /\ Apart(rec'[t], now', executed')
    BY <1>6, <1>7 DEF Apart
  <2>3. IsFiniteSet(Working(rec')) /\ Cardinality(Working(rec')) <= runs'
    <3>1. IsFiniteSet({}) /\ Cardinality({}) = 0
      BY FS_EmptySet
    <3>2. IsFiniteSet(Working(rec')) /\ Cardinality(Working(rec')) = 0
      BY <1>8, <3>1, Zenon
    <3> QED BY <1>1, <1>2, <3>2
  <2> QED BY <1>8, <2>1, <2>2, <2>3 DEF Reconciling
<1>10. Room'
  <2>1. book' \in Book /\ order' \in Orders /\ Lists(book', order')
    BY <1>2, BooksConstants, QuantityFacts, OrderFacts DEF Lists, Orders
  <2>2. ASSUME NEW f \in Fills
        PROVE  /\ Cardinality(Takers(rec', f)) \in Nat
               /\ Total(book')[f] + Cardinality(Takers(rec', f)) <= Limit(runs', live')[f]
               /\ Total(book')[f] > 0 => executed'[f] \in 1..now' - 1
    <3>1. Takers(rec', f) = {}
      BY <1>8 DEF Takers, Working
    <3>2. Cardinality(Takers(rec', f)) = 0
      BY <3>1, FS_EmptySet
    <3>3. Total(book')[f] = 0
      BY <1>2, BooksConstants DEF Total, Nothing
    <3>4. Limit(runs', live')[f] \in Nat
      BY <1>1, <1>2, LimitFacts
    <3> QED BY <3>2, <3>3, <3>4
  <2> QED BY <1>1, <1>2, <2>1, <2>2, RoomMade
<1>11. Kept'
  BY <1>1, <1>2, <1>4, <1>5, KeptKept
<1> QED BY <1>4, <1>9, <1>10, <1>11 DEF BooksSafe

\* A trade of the venue is applied, while the event loop books no other or one.
LEMMA ApplySafe ==
    ASSUME BooksSafe, NEW t \in Threads, Apply(t) \/ \E g \in Fills : ApplyRace(t, g)
    PROVE  BooksSafe'
<1>1. /\ Typed /\ Reconciling /\ Room /\ Kept /\ now \in Nat /\ runs \in Nat
      /\ rec[t] \in Thread /\ rec \in [Threads -> Thread] /\ rec[t].pc = "apply"
      /\ Possible(rec[t].view, now, executed, Limit(runs, live)) /\ Apart(rec[t], now, executed)
      /\ live \in [Fills -> {"new", "sent", "booked", "lost"}]
  BY BooksConstants DEF BooksSafe, Typed, Reconciling, Apply, ApplyRace
<1>2. UNCHANGED <<now, market, phase, executed, stored, linked, call, runs, stops>>
  BY DEF Apply, ApplyRace, clock
<1>3. /\ live' \in [Fills -> {"new", "sent", "booked", "lost"}]
      /\ \A h \in Fills : live[h] = "booked" => live'[h] = "booked"
  BY <1>1 DEF Apply, ApplyRace
<1>4. Typed' /\ Onward
  BY <1>1, <1>2, <1>3 DEF Typed, Onward
<1>5. ASSUME NEW f \in Earliest(rec[t].todo), rec' = [rec EXCEPT ![t].todo = @ \ {f}]
      PROVE  /\ f \in Fills /\ f \in AtVenue /\ Reconciling' /\ Kept'
             /\ \A h \in Fills : /\ Takers(rec', h) \subseteq Takers(rec, h)
                                 /\ Cardinality(Takers(rec', h)) <= Cardinality(Takers(rec, h))
                                 /\ Cardinality(Takers(rec', h)) \in Nat /\ Cardinality(Takers(rec, h)) \in Nat
             /\ t \in Takers(rec, f) /\ t \notin Takers(rec', f)
  <2> DEFINE r == [rec[t] EXCEPT !.todo = @ \ {f}]
  <2>1. f \in rec[t].todo /\ rec[t].todo \subseteq Fills
    BY <1>1 DEF Earliest, Thread
  <2>2. /\ r \in Thread /\ r.pc = "apply" /\ r.todo = rec[t].todo \ {f}
        /\ r.held = rec[t].held /\ r.view = rec[t].view
    BY <1>1, <2>1 DEF Thread
  <2>3. rec' = [rec EXCEPT ![t] = r]
    BY <1>1, <1>5
  <2> HIDE DEF r
  <2>4. Possible(r.view, now', executed', Limit(runs', live'))
    BY <1>1, <1>4, ThreadStays, <2>2
  <2>5. Apart(r, now', executed')
    BY <1>1, <1>2, <2>2 DEF Apart
  <2>6. phase' # "down" /\ rec[t].pc # "idle"
    BY <1>1, <1>2 DEF Reconciling, Working
  <2>7. \A h \in Fills : (r.pc = "fetch" \/ (r.pc = "apply" /\ h \in r.todo)) => t \in Takers(rec, h)
    BY <1>1, <2>2 DEF Takers
  <2>8. /\ Reconciling' /\ rec'[t] = r
        /\ \A h \in Fills : /\ Takers(rec', h) \subseteq Takers(rec, h)
                            /\ Cardinality(Takers(rec', h)) <= Cardinality(Takers(rec, h))
                            /\ Cardinality(Takers(rec', h)) \in Nat /\ Cardinality(Takers(rec, h)) \in Nat
    BY <1>1, <1>4, <2>2, <2>3, <2>4, <2>5, <2>6, <2>7, ThreadGoesOn
  <2>9. t \in Takers(rec, f) /\ t \notin Takers(rec', f)
    BY <1>1, <2>1, <2>2, <2>8 DEF Takers
  <2>10. Kept'
    BY <1>1, <1>2, <1>4, KeptKept
  <2>11. f \in AtVenue
    BY <1>1, <2>1 DEF AtVenue, Apart
  <2> QED BY <2>1, <2>8, <2>9, <2>10, <2>11
<1>6. ASSUME NEW f \in Earliest(rec[t].todo), rec' = [rec EXCEPT ![t].todo = @ \ {f}],
             Holds("qual", Plus(book["qual"], f, 1))
      PROVE  Room'
  <2>1. /\ Cardinality(Takers(rec', f)) + 1 <= Cardinality(Takers(rec, f))
        /\ Cardinality(Takers(rec', f)) \in Nat /\ Cardinality(Takers(rec, f)) \in Nat
    BY <1>1, <1>5, <1>6, TakersOneFewer DEF Reconciling
  <2>2. /\ Limit(runs, live)[f] \in Nat /\ Limit(runs', live')[f] \in Nat
        /\ Limit(runs, live)[f] <= Limit(runs', live')[f]
    BY <1>1, <1>2, <1>4, <1>5, <1>6, LimitsGrow
  <2>3. 1 + Cardinality(Takers(rec', f)) + Limit(runs, live)[f]
          <= Cardinality(Takers(rec, f)) + Limit(runs', live')[f]
    BY <2>1, <2>2
  <2>4. f \in Fills /\ f \in AtVenue /\ 1 \in Nat
    BY <1>5, <1>6
  <2>5. \A h \in Fills : /\ Cardinality(Takers(rec', h)) \in Nat
                         /\ Cardinality(Takers(rec', h)) <= Cardinality(Takers(rec, h))
    BY <1>5, <1>6
  <2>6. UNCHANGED <<now, executed, runs>>
    BY <1>2
  <2> QED BY <1>1, <1>4, <1>6, <2>3, <2>4, <2>5, <2>6, HeldRoom
<1>7. ASSUME NEW g \in Fills, NEW f \in Earliest(rec[t].todo), rec' = [rec EXCEPT ![t].todo = @ \ {f}],
             Arrived(g), live' = [live EXCEPT ![g] = "booked"], Holds("qual", Plus(book["qual"], g, 1))
      PROVE  Room'
  <2>1. \A h \in Fills : /\ Cardinality(Takers(rec', h)) \in Nat
                         /\ Cardinality(Takers(rec', h)) <= Cardinality(Takers(rec, h))
    BY <1>5, <1>7
  <2>2. UNCHANGED <<now, executed, runs>> /\ 1 \in 1..2
    BY <1>2
  <2> QED BY <1>1, <1>4, <1>7, <2>1, <2>2, BookedRoom
<1>8. CASE Apply(t)
  <2>1. PICK f \in Earliest(rec[t].todo) : /\ Holds("qual", Plus(book["qual"], f, 1))
                                           /\ rec' = [rec EXCEPT ![t].todo = @ \ {f}]
    BY <1>8 DEF Apply
  <2> QED BY <1>4, <1>5, <1>6, <2>1 DEF BooksSafe
<1>9. ASSUME NEW g \in Fills, ApplyRace(t, g) PROVE BooksSafe'
  <2>1. PICK f \in Earliest(rec[t].todo) :
          /\ \E kept \in {f, g} : Holds("qual", Plus(book["qual"], kept, 1))
          /\ rec' = [rec EXCEPT ![t].todo = @ \ {f}]
    BY <1>9 DEF ApplyRace
  <2>2. Arrived(g) /\ live' = [live EXCEPT ![g] = "booked"]
    BY <1>9 DEF ApplyRace
  <2>3. \/ Holds("qual", Plus(book["qual"], f, 1))
        \/ Holds("qual", Plus(book["qual"], g, 1))
    BY <2>1
  <2>4. Room'
    BY <1>6, <1>7, <2>1, <2>2, <2>3
  <2>5. Reconciling' /\ Kept'
    BY <1>5, <2>1
  <2> QED BY <1>4, <2>4, <2>5 DEF BooksSafe
<1> QED BY <1>8, <1>9

-----------------------------------------------------------------------------
(* The theorems.                                                            *)

\* The initial state.
LEMMA BooksInit == Init => BooksSafe
<1> SUFFICES ASSUME Init PROVE BooksSafe
  OBVIOUS
<1>1. now = 1 /\ runs = 0 /\ executed = Nothing /\ book = Fresh /\ order = <<>>
      /\ file = NoFile /\ redis = NoFile /\ rec = [t \in Threads |-> Idle] /\ call = NoCall
  BY DEF Init
<1>2. \A f \in Fills : executed[f] = 0
  BY <1>1 DEF Nothing
<1>3. Typed
  <2>1. executed \in [Fills -> 0..Horizon] /\ \A f \in Fills : executed[f] <= now
    BY <1>1, <1>2, BooksConstants DEF Nothing
  <2>2. call \in [pc : {"none", "asked", "answered"}, seen : SUBSET Fills] /\ call.seen = {}
    BY <1>1 DEF NoCall
  <2>3. 1 \in 1..Horizon
    BY BooksConstants, BooksAssumption
  <2>4. /\ market \in {"spot", "futures"} /\ phase \in {"down", "boot", "up"}
        /\ live \in [Fills -> {"new", "sent", "booked", "lost"}]
    BY DEF Init
  <2>5. linked \in BOOLEAN
    BY Zenon DEF Init
  <2>6. runs \in 0..Runs /\ stops \in 0..Stops
    BY BooksConstants DEF Init
  <2>7. now \in 1..Horizon /\ \A f \in call.seen : executed[f] \in 1..now - 1
    BY <1>1, <2>2, <2>3
  <2> QED BY <2>1, <2>2, <2>4, <2>5, <2>6, <2>7 DEF Typed
<1>4. \A t \in Threads : rec[t] = Idle
  BY <1>1
<1>5. Idle \in Thread /\ Idle.pc = "idle" /\ Possible(Idle.view, now, executed, Limit(runs, live))
  BY <1>1, IdleGood
<1>6. Working(rec) = {}
  BY <1>4, <1>5 DEF Working
<1>7. Reconciling
  <2>1. rec \in [Threads -> Thread]
    BY <1>1, <1>5
  <2>2. \A t \in Threads : Possible(rec[t].view, now, executed, Limit(runs, live)) /\ Apart(rec[t], now, executed)
    BY <1>4, <1>5 DEF Apart
  <2>3. IsFiniteSet(Working(rec)) /\ Cardinality(Working(rec)) <= runs
    BY <1>1, <1>6, FS_EmptySet
  <2> QED BY <1>6, <2>1, <2>2, <2>3 DEF Reconciling
<1>8. Kept
  BY <1>1, <1>5 DEF Idle, Kept
<1>9. Room
  <2>1. Memory \in Snap /\ Memory.ts = 1 /\ Memory.book = Fresh /\ Memory.order = <<>>
    BY <1>1, BooksConstants DEF Memory, Snap, Orders
  <2>2. Lists(Fresh, <<>>)
    BY BooksConstants, QuantityFacts, OrderFacts DEF Lists
  <2>3. \A f \in Fills : Total(Fresh)[f] = 0 /\ Limit(runs, live)[f] \in Nat
    BY <1>1, BooksConstants, LimitFacts DEF Total, Nothing
  <2>4. Possible(Memory, now, executed, Limit(runs, live))
    BY <1>1, <2>1, <2>2, <2>3 DEF Possible
  <2>5. \A f \in Fills : Cardinality(Takers(rec, f)) = 0
    <3>1. \A f \in Fills : Takers(rec, f) = {}
      BY <1>6 DEF Takers, Working
    <3> QED BY <3>1, FS_EmptySet
  <2> QED BY <1>1, <2>3, <2>4, <2>5 DEF Room
<1> QED BY <1>3, <1>7, <1>8, <1>9 DEF BooksSafe

\* Every step.
LEMMA BooksStep == BooksSafe /\ [Next]_vars => BooksSafe'
<1> SUFFICES ASSUME BooksSafe, [Next]_vars PROVE BooksSafe'
  OBVIOUS
<1>1. CASE Tick
  BY <1>1, TickSafe
<1>2. CASE AskSnapshot \/ AnswerSnapshot
  BY <1>2, AskSafe
<1>3. CASE TakeSnapshot
  BY <1>3, TakeSnapshotSafe
<1>4. CASE Crash
  BY <1>4, CrashSafe
<1>5. ASSUME NEW f \in Fills, Send(f) \/ Execute(f) \/ BookFill(f) \/ BookAndSave(f) \/ Lose(f)
      PROVE  BooksSafe'
  BY <1>5, SendSafe, ExecuteSafe, BookFillSafe, LoseSafe
<1>6. ASSUME NEW t \in Threads,
             \/ Start(t) \/ Reconcile(t) \/ Fetch(t) \/ Apply(t) \/ View(t) \/ Save(t)
             \/ \E g \in Fills : ApplyRace(t, g)
      PROVE  BooksSafe'
  BY <1>6, StartSafe, ReconcileSafe, FetchSafe, ApplySafe, ViewSafe, SaveSafe
<1>7. CASE UNCHANGED vars
  <2>1. /\ UNCHANGED <<now, market, phase, executed, live, memory, stored, linked, rec, call, runs, stops>>
    BY <1>7 DEF vars, clock
  <2>2. Typed'
    BY <2>1 DEF BooksSafe, Typed
  <2>3. Onward
    BY <2>1, BooksConstants DEF BooksSafe, Typed, Onward
  <2> QED BY <2>1, <2>2, <2>3, Quiet
<1> QED BY <1>1, <1>2, <1>3, <1>4, <1>5, <1>6, <1>7 DEF Next

\* What is safe is typed, and what a thread is to apply its snapshot does not hold.
LEMMA BooksImplied == BooksSafe => BooksInv
<1> SUFFICES ASSUME BooksSafe PROVE BooksInv
  OBVIOUS
<1>1. Typed /\ Reconciling /\ Room /\ Kept /\ now \in 1..Horizon /\ runs \in 0..Runs /\ now \in Nat /\ runs \in Nat
  BY BooksConstants DEF BooksSafe, Typed
<1>2. ASSUME NEW s, Possible(s, now, executed, Limit(runs, live)) PROVE s \in File
  <2>1. s \in Snap /\ s.ts <= now /\ s.book \in Book /\ s.ts \in Nat /\ s.order \in Orders
    BY <1>2 DEF Possible, Snap
  <2>2. ASSUME NEW f \in Fills
        PROVE  /\ s.book["bare"][f] \in 0..Runs + 3 /\ s.book["qual"][f] \in 0..Runs + 3
    <3>1. /\ s.book["bare"][f] \in Nat /\ s.book["qual"][f] \in Nat
          /\ Total(s.book)[f] = s.book["bare"][f] + s.book["qual"][f]
      BY <2>1, QuantityFacts, BooksConstants DEF Book
    <3>2. Total(s.book)[f] <= Limit(runs, live)[f]
      BY <1>2 DEF Possible
    <3>3. Limit(runs, live)[f] \in Nat /\ Limit(runs, live)[f] <= runs + 3
      BY <1>1, LimitFacts
    <3> QED BY <1>1, <3>1, <3>2, <3>3, BooksConstants
  <2>3. s.book \in [Names -> Counts]
    BY <2>1, <2>2, BooksConstants DEF Book, Counts
  <2>4. s.ts \in 0..Horizon
    BY <1>1, <2>1, BooksConstants
  <2> QED BY <2>1, <2>3, <2>4 DEF Snap, File, Orders
<1>3. TypeOK
  <2>1. [ts |-> now, book |-> book, order |-> order] \in File
    BY <1>1, <1>2 DEF Room, Memory
  <2>2. \A n \in Names : Quantity(book[n]) # 0 <=> \E i \in DOMAIN order : order[i] = n
    BY <1>1 DEF Room, Possible, Memory, Lists, In
  <2>3. file \in File /\ redis \in File
    BY <1>1, <1>2 DEF Kept
  <2>4. \A t \in Threads :
          /\ rec[t].pc \in {"idle", "fetch", "apply", "save"}
          /\ rec[t].todo \subseteq Fills /\ rec[t].held \in Counts /\ rec[t].view \in File
          /\ rec[t].linked \in BOOLEAN
    BY <1>1, <1>2 DEF Reconciling, Thread
  <2> QED BY <1>1, <2>1, <2>2, <2>3, <2>4 DEF Typed, TypeOK
<1>4. HeldNotFetched
  <2> SUFFICES ASSUME NEW t \in Threads, rec[t].pc = "apply", NEW f \in rec[t].todo
               PROVE  rec[t].held[f] = 0
    BY DEF HeldNotFetched
  <2>1. rec[t] \in Thread /\ Apart(rec[t], now, executed)
    BY <1>1 DEF Reconciling
  <2>2. f \in Fills /\ rec[t].held[f] \in 0..Runs + 3 /\ rec[t].view.ts \in Nat
    BY <2>1 DEF Thread, Counts, Snap
  <2>3. executed[f] \in Nat /\ executed[f] >= rec[t].view.ts
    BY <1>1, <2>1, <2>2, BooksConstants DEF Apart, Typed
  <2>4. rec[t].held[f] > 0 => executed[f] \in 1..rec[t].view.ts - 1
    BY <2>1, <2>2 DEF Apart
  <2> QED BY <2>2, <2>3, <2>4, BooksConstants
<1> QED BY <1>3, <1>4 DEF BooksInv

\* In every run the books, the stored snapshots and the threads are typed, a
\* flat position is in no dictionary, and no reconciliation has a fill to apply
\* that the snapshot it asked from had counted (reconcile_since_snapshot).
THEOREM BooksSound == Spec => []BooksInv
<1>1. Spec => []BooksSafe
  BY BooksInit, BooksStep, PTL DEF Spec
<1> QED BY <1>1, BooksImplied, PTL

\* In every run the watermark of the stored snapshot only advances: whichever
\* snapshot a save writes, it is stamped as it is written (SnapshotStore.save).
THEOREM WatermarkOnlyAdvances == Spec => WatermarkAdvances
<1>1. ASSUME BooksSafe, Next, file' # file PROVE file'.ts >= file.ts
  <2>1. now \in Nat /\ file.ts \in Nat /\ file.ts <= now
    BY <1>1, BooksConstants DEF BooksSafe, Typed, Kept, Possible, Snap
  <2>2. \A s \in Snap : Stamped(s).ts = now
    BY DEF Stamped, Snap
  <2>3. \A b, o : Stamped(Snapshot(b, o)).ts = now
    BY DEF Stamped, Snapshot
  <2>4. CASE \E link, b, o : Saves(link, Snapshot(b, o))
    BY <2>1, <2>3, <2>4 DEF Saves
  <2>5. ASSUME NEW t \in Threads, Save(t) PROVE file'.ts >= file.ts
    <3>1. rec[t].view \in Snap
      BY <1>1 DEF BooksSafe, Reconciling, Possible
    <3> QED BY <2>1, <2>2, <2>5, <3>1 DEF Save, Saves
  <2>6. ASSUME NEW f \in Fills, Send(f) \/ Execute(f) \/ BookFill(f) \/ BookAndSave(f) \/ Lose(f)
        PROVE  BookAndSave(f)
    BY <1>1, <2>6 DEF Send, Execute, BookFill, Lose, stored
  <2>7. ASSUME NEW t \in Threads,
               \/ Start(t) \/ Reconcile(t) \/ Fetch(t) \/ Apply(t) \/ View(t) \/ Save(t)
               \/ \E g \in Fills : ApplyRace(t, g)
        PROVE  Save(t)
    BY <1>1, <2>7 DEF Start, Reconcile, Fetch, Apply, View, ApplyRace, stored
  <2>8. ASSUME Tick \/ AskSnapshot \/ AnswerSnapshot \/ TakeSnapshot \/ Crash PROVE TakeSnapshot
    BY <1>1, <2>8 DEF Tick, AskSnapshot, AnswerSnapshot, Crash, stored
  <2>9. ASSUME NEW f \in Fills, BookAndSave(f) PROVE \E link, b, o : Saves(link, Snapshot(b, o))
    BY <2>9, Zenon DEF BookAndSave
  <2>10. TakeSnapshot => \E link, b, o : Saves(link, Snapshot(b, o))
    BY Zenon DEF TakeSnapshot
  <2> QED BY <1>1, <2>4, <2>5, <2>6, <2>7, <2>8, <2>9, <2>10 DEF Next
<1>2. BooksSafe /\ [Next]_vars => [file'.ts >= file.ts]_file
  BY <1>1 DEF vars, stored
<1>3. Spec => []BooksSafe
  BY BooksInit, BooksStep, PTL DEF Spec
<1> QED BY <1>2, <1>3, PTL DEF Spec, WatermarkAdvances
=============================================================================
