--------------------------------- MODULE Sums ---------------------------------
(***************************************************************************)
(* Lemmas about sums over finite sets, as MapThenSumSet makes them.  The      *)
(* operator is a CHOOSE of the function that adds element after element; the  *)
(* lemmas show that there is one such function, so that a sum does not depend  *)
(* on the order of its elements.  Where a proof by induction over the sets is   *)
(* meant, a least counterexample is refuted, as the strict subsets of a finite  *)
(* set are well-founded.                                                      *)
(***************************************************************************)
EXTENDS Integers, FiniteSetsExt, FiniteSetTheorems, WellFoundedInduction, TLAPS

Some(s) == CHOOSE x \in s : TRUE

\* g gives every subset of S the sum of F over it.
Summed(g, F, S) ==
    g = [s \in SUBSET S |-> IF s = {} THEN 0 ELSE F[Some(s)] + g[s \ {Some(s)}]]

\* The sum of F over S.
SumOver(F, S) == MapThenSumSet(LAMBDA x : F[x], S)

\* A set of subsets of a finite set has a member none of whose strict subsets is one.
LEMMA LeastSubset ==
    ASSUME NEW S, IsFiniteSet(S), NEW B, B \subseteq SUBSET S, B # {}
    PROVE  \E s \in B : \A t \in B : ~(t \subseteq s /\ t # s)
<1>1. IsWellFoundedOn(StrictSubsetOrdering(S), FiniteSubsetsOf(S))
  BY FS_StrictSubsetOrderingWellFounded
<1>2. B \subseteq FiniteSubsetsOf(S)
  BY FS_Subset DEF FiniteSubsetsOf
<1>3. PICK s \in B : \A t \in B : ~(<<t, s>> \in StrictSubsetOrdering(S))
  BY <1>1, <1>2, WFMin
<1> QED BY <1>3 DEF StrictSubsetOrdering

\* A set of naturals has a least element: a minimal one of the intervals 0..k.
LEMMA LeastNatural ==
    ASSUME NEW S \in SUBSET Nat, S # {}
    PROVE  \E m \in S : \A x \in S : m <= x
<1> DEFINE T == {0..k : k \in S}
<1>1. \A k \in S : (0..k) \in SUBSET Nat /\ IsFiniteSet(0..k) BY FS_Interval
<1>2. T \subseteq FiniteSubsetsOf(Nat) /\ T # {} BY <1>1 DEF FiniteSubsetsOf
<1>3. IsWellFoundedOn(StrictSubsetOrdering(Nat), FiniteSubsetsOf(Nat))
  BY FS_StrictSubsetOrderingWellFounded
<1> HIDE DEF T
<1>4. PICK U \in T : \A V \in T : <<V, U>> \notin StrictSubsetOrdering(Nat)
  BY <1>2, <1>3, WFMin
<1>5. PICK m \in S : U = 0..m BY <1>4 DEF T
<1>6. ASSUME NEW x \in S, x < m PROVE FALSE
  <2>1. (0..x) \in T BY DEF T
  <2>2. 0..x \subseteq 0..m /\ 0..x # 0..m
    <3>1. m \in 0..m /\ m \notin 0..x BY <1>6
    <3>2. 0..x \subseteq 0..m BY <1>6
    <3> QED BY <3>1, <3>2
  <2>3. (0..x) \in SUBSET Nat /\ (0..m) \in SUBSET Nat BY <1>1
  <2>4. <<0..x, 0..m>> \in StrictSubsetOrdering(Nat) BY <2>2, <2>3 DEF StrictSubsetOrdering
  <2> QED BY <2>1, <2>4, <1>4, <1>5
<1> QED BY <1>6

\* A set of natural numbers that has a member has a least one.
LEMMA MinNat ==
    ASSUME NEW S \in SUBSET Nat, S # {}
    PROVE  Min(S) \in S /\ \A x \in S : Min(S) <= x
BY LeastNatural DEF Min

\* The element that is picked from a set is one of it.
LEMMA SomeIn == ASSUME NEW s, s # {} PROVE Some(s) \in s
BY DEF Some

\* Functions that add up agree where both are defined.
LEMMA SummedUnique ==
    ASSUME NEW F, NEW S, NEW T, NEW g, NEW h, Summed(g, F, S), Summed(h, F, T),
           NEW U, IsFiniteSet(U), U \subseteq S, U \subseteq T
    PROVE  g[U] = h[U]
<1> DEFINE B == {s \in SUBSET U : g[s] # h[s]}
<1>1. SUFFICES ASSUME B # {} PROVE FALSE
  BY <1>1
<1>2. PICK s \in B : \A t \in B : ~(t \subseteq s /\ t # s)
  <2>1. B \subseteq SUBSET U
    OBVIOUS
  <2> HIDE DEF B
  <2> QED BY <1>1, <2>1, LeastSubset
<1>3. s \in SUBSET S /\ s \in SUBSET T /\ g[s] # h[s]
  BY <1>2
<1>4. /\ g[s] = IF s = {} THEN 0 ELSE F[Some(s)] + g[s \ {Some(s)}]
      /\ h[s] = IF s = {} THEN 0 ELSE F[Some(s)] + h[s \ {Some(s)}]
  BY <1>3 DEF Summed
<1>5. s # {}
  BY <1>3, <1>4
<1>6. g[s \ {Some(s)}] = h[s \ {Some(s)}]
  BY <1>2, <1>5, SomeIn
<1> QED BY <1>3, <1>4, <1>6

\* There is a function that adds up.
LEMMA SummedExists ==
    ASSUME NEW F, NEW S, IsFiniteSet(S)
    PROVE  \E g : Summed(g, F, S)
<1> DEFINE B == {s \in SUBSET S : ~ \E g : Summed(g, F, s)}
           of(s) == CHOOSE g : Summed(g, F, s)
<1>1. SUFFICES ASSUME B # {} PROVE FALSE
  BY <1>1
<1>2. PICK s \in B : \A t \in B : ~(t \subseteq s /\ t # s)
  <2>1. B \subseteq SUBSET S
    OBVIOUS
  <2> HIDE DEF B
  <2> QED BY <1>1, <2>1, LeastSubset
<1> DEFINE G == [t \in SUBSET s |-> IF t = {} THEN 0
                                    ELSE F[Some(t)] + of(t \ {Some(t)})[t \ {Some(t)}]]
<1>3. ASSUME NEW u, u \subseteq s, u # s PROVE Summed(of(u), F, u)
  <2>1. \E g : Summed(g, F, u)
    BY <1>2, <1>3
  <2> QED BY <2>1
<1>4. ASSUME NEW u, u \subseteq s, u # s PROVE G[u] = of(u)[u]
  <2>1. of(u)[u] = IF u = {} THEN 0 ELSE F[Some(u)] + of(u)[u \ {Some(u)}]
    <3>1. Summed(of(u), F, u)
      BY <1>3, <1>4
    <3> HIDE DEF of, G
    <3> QED BY <3>1 DEF Summed
  <2>2. G[u] = IF u = {} THEN 0 ELSE F[Some(u)] + of(u \ {Some(u)})[u \ {Some(u)}]
    BY <1>4
  <2>3. ASSUME u # {} PROVE of(u)[u \ {Some(u)}] = of(u \ {Some(u)})[u \ {Some(u)}]
    <3> DEFINE v == u \ {Some(u)}
    <3>1. v \subseteq s /\ v # s /\ v \subseteq u
      BY <1>4, <2>3, SomeIn
    <3>2. IsFiniteSet(v)
      BY <1>2, <3>1, FS_Subset
    <3>3. Summed(of(v), F, v) /\ Summed(of(u), F, u)
      BY <1>3, <1>4, <3>1
    <3> HIDE DEF of, v
    <3>4. of(u)[v] = of(v)[v]
      BY <3>1, <3>2, <3>3, SummedUnique
    <3> QED BY <3>4 DEF v
  <2> HIDE DEF G, of
  <2> QED BY <2>1, <2>2, <2>3
<1>5. \A t \in SUBSET s : t # {} => G[t \ {Some(t)}] = of(t \ {Some(t)})[t \ {Some(t)}]
  <2> SUFFICES ASSUME NEW t \in SUBSET s, t # {}
               PROVE G[t \ {Some(t)}] = of(t \ {Some(t)})[t \ {Some(t)}]
    OBVIOUS
  <2>1. t \ {Some(t)} \subseteq s /\ t \ {Some(t)} # s
    BY SomeIn
  <2> HIDE DEF G, of
  <2> QED BY <1>4, <2>1
<1>6. G = [t \in SUBSET s |-> IF t = {} THEN 0 ELSE F[Some(t)] + G[t \ {Some(t)}]]
  <2> DEFINE H == [t \in SUBSET s |-> IF t = {} THEN 0 ELSE F[Some(t)] + G[t \ {Some(t)}]]
  <2>1. \A t \in SUBSET s : G[t] = IF t = {} THEN 0
                                   ELSE F[Some(t)] + of(t \ {Some(t)})[t \ {Some(t)}]
    OBVIOUS
  <2>2. DOMAIN G = SUBSET s /\ G = [t \in DOMAIN G |-> G[t]]
    OBVIOUS
  <2> HIDE DEF G, of
  <2>3. \A t \in SUBSET s : G[t] = H[t]
    BY <1>5, <2>1
  <2> QED BY <2>2, <2>3
<1>7. Summed(G, F, s)
  BY <1>6 DEF Summed
<1> QED BY <1>2, <1>7

-----------------------------------------------------------------------------
(* Sums of a function.                                                       *)

\* The sum is the value of any function that adds up.
LEMMA SumIs ==
    ASSUME NEW F, NEW S, IsFiniteSet(S)
    PROVE  \E g : Summed(g, F, S) /\ \A T \in SUBSET S : SumOver(F, T) = g[T]
<1>1. PICK g : Summed(g, F, S)
  BY SummedExists
<1>2. ASSUME NEW T \in SUBSET S PROVE SumOver(F, T) = g[T]
  <2> DEFINE h == CHOOSE h : Summed(h, F, T)
  <2>1. IsFiniteSet(T)
    BY FS_Subset
  <2>2. SumOver(F, T) = h[T]
    BY DEF SumOver, MapThenSumSet, MapThenFoldSet, Summed, Some
  <2>3. Summed(h, F, T)
    BY <2>1, SummedExists
  <2> HIDE DEF h
  <2>4. h[T] = g[T]
    BY <1>1, <2>1, <2>3, SummedUnique
  <2> QED BY <2>2, <2>4
<1> QED BY <1>1, <1>2

\* The sum over no element is 0.
LEMMA SumEmpty == ASSUME NEW F PROVE SumOver(F, {}) = 0
<1>1. PICK g : Summed(g, F, {}) /\ SumOver(F, {}) = g[{}]
  BY SumIs, FS_EmptySet
<1> QED BY <1>1 DEF Summed

\* A sum is the term of the element that is picked and the sum over the rest.
LEMMA SumStep ==
    ASSUME NEW F, NEW S, IsFiniteSet(S), S # {}
    PROVE  SumOver(F, S) = F[Some(S)] + SumOver(F, S \ {Some(S)})
<1>1. PICK g : Summed(g, F, S) /\ \A T \in SUBSET S : SumOver(F, T) = g[T]
  BY SumIs
<1>2. g[S] = F[Some(S)] + g[S \ {Some(S)}]
  BY <1>1 DEF Summed
<1>3. SumOver(F, S) = g[S] /\ SumOver(F, S \ {Some(S)}) = g[S \ {Some(S)}]
  BY <1>1
<1> QED BY <1>2, <1>3

\* Integers add up to an integer.
LEMMA SumType ==
    ASSUME NEW F, NEW S, IsFiniteSet(S), \A x \in S : F[x] \in Int
    PROVE  SumOver(F, S) \in Int
<1> DEFINE B == {T \in SUBSET S : SumOver(F, T) \notin Int}
<1>1. SUFFICES ASSUME B # {} PROVE FALSE
  BY <1>1
<1>2. PICK T \in B : \A t \in B : ~(t \subseteq T /\ t # T)
  <2>1. B \subseteq SUBSET S
    OBVIOUS
  <2> HIDE DEF B
  <2> QED BY <1>1, <2>1, LeastSubset
<1>3. T # {}
  <2>1. SumOver(F, {}) = 0 /\ 0 \in Int /\ SumOver(F, T) \notin Int
    BY <1>2, SumEmpty
  <2> QED BY <2>1, Zenon
<1>4. Some(T) \in T
  BY <1>3, SomeIn
<1>5. SumOver(F, T \ {Some(T)}) \in Int
  BY <1>2, <1>4
<1>6. IsFiniteSet(T)
  BY <1>2, FS_Subset
<1>7. SumOver(F, T) = F[Some(T)] + SumOver(F, T \ {Some(T)})
  BY <1>3, <1>6, SumStep
<1>8. F[Some(T)] \in Int
  BY <1>2, <1>4
<1> QED BY <1>2, <1>5, <1>7, <1>8

\* One element, whichever, can be split off.
LEMMA SumSplit ==
    ASSUME NEW F, NEW S, IsFiniteSet(S), \A x \in S : F[x] \in Int, NEW a \in S
    PROVE  SumOver(F, S) = F[a] + SumOver(F, S \ {a})
<1> DEFINE B == {T \in SUBSET S : \E x \in T : SumOver(F, T) # F[x] + SumOver(F, T \ {x})}
<1>1. SUFFICES ASSUME B # {} PROVE FALSE
  BY <1>1
<1>2. PICK T \in B : \A t \in B : ~(t \subseteq T /\ t # T)
  <2>1. B \subseteq SUBSET S
    OBVIOUS
  <2> HIDE DEF B
  <2> QED BY <1>1, <2>1, LeastSubset
<1>3. PICK x \in T : SumOver(F, T) # F[x] + SumOver(F, T \ {x})
  BY <1>2
<1> DEFINE y == Some(T)
<1>4. y \in T /\ x \in S /\ y \in S /\ T \subseteq S
  BY <1>2, SomeIn
<1> HIDE DEF y
<1>5. IsFiniteSet(T) /\ IsFiniteSet(T \ {x}) /\ IsFiniteSet(T \ {y}) /\ IsFiniteSet((T \ {x}) \ {y})
  BY <1>4, FS_Subset
<1>6. SumOver(F, T) = F[y] + SumOver(F, T \ {y})
  BY <1>5, SumStep DEF y
<1>7. x # y
  BY <1>3, <1>6
<1>8. SumOver(F, T \ {x}) = F[y] + SumOver(F, (T \ {x}) \ {y})
  <2>1. T \ {x} \notin B
    BY <1>2
  <2> QED BY <1>4, <1>7, <2>1
<1>9. SumOver(F, T \ {y}) = F[x] + SumOver(F, (T \ {y}) \ {x})
  <2>1. T \ {y} \notin B
    BY <1>2, <1>4
  <2> QED BY <1>4, <1>7, <2>1
<1>10. (T \ {x}) \ {y} = (T \ {y}) \ {x}
  OBVIOUS
<1>11. F[x] \in Int /\ F[y] \in Int /\ SumOver(F, (T \ {x}) \ {y}) \in Int
  BY <1>4, <1>5, SumType
<1>12. \A p, q, r \in Int : p + (q + r) = q + (p + r)
  OBVIOUS
<1>13. SumOver(F, T) = F[y] + (F[x] + SumOver(F, (T \ {x}) \ {y}))
  BY <1>6, <1>9, <1>10
<1>14. F[x] + SumOver(F, T \ {x}) = F[x] + (F[y] + SumOver(F, (T \ {x}) \ {y}))
  BY <1>8
<1> QED BY <1>3, <1>11, <1>12, <1>13, <1>14, Zenon

\* One element more adds its term.
LEMMA SumAdd ==
    ASSUME NEW F, NEW S, IsFiniteSet(S), NEW a, a \notin S, \A x \in S \cup {a} : F[x] \in Int
    PROVE  SumOver(F, S \cup {a}) = SumOver(F, S) + F[a]
<1>1. IsFiniteSet(S \cup {a})
  BY FS_AddElement
<1>2. (S \cup {a}) \ {a} = S
  OBVIOUS
<1>3. SumOver(F, S \cup {a}) = F[a] + SumOver(F, S)
  BY <1>1, <1>2, SumSplit
<1>4. SumOver(F, S) \in Int /\ F[a] \in Int
  BY SumType
<1> QED BY <1>3, <1>4

\* Functions that agree on the set have one sum.
LEMMA SumSame ==
    ASSUME NEW F, NEW G, NEW S, IsFiniteSet(S), \A x \in S : F[x] = G[x]
    PROVE  SumOver(F, S) = SumOver(G, S)
<1> DEFINE B == {T \in SUBSET S : SumOver(F, T) # SumOver(G, T)}
<1>1. SUFFICES ASSUME B # {} PROVE FALSE
  BY <1>1
<1>2. PICK T \in B : \A t \in B : ~(t \subseteq T /\ t # T)
  <2>1. B \subseteq SUBSET S
    OBVIOUS
  <2> HIDE DEF B
  <2> QED BY <1>1, <2>1, LeastSubset
<1>3. T # {}
  BY <1>2, SumEmpty
<1>4. Some(T) \in T /\ IsFiniteSet(T) /\ Some(T) \in S
  BY <1>2, <1>3, SomeIn, FS_Subset
<1>5. SumOver(F, T \ {Some(T)}) = SumOver(G, T \ {Some(T)})
  BY <1>2, <1>4
<1>6. /\ SumOver(F, T) = F[Some(T)] + SumOver(F, T \ {Some(T)})
      /\ SumOver(G, T) = G[Some(T)] + SumOver(G, T \ {Some(T)})
  BY <1>3, <1>4, SumStep
<1>7. F[Some(T)] = G[Some(T)]
  BY <1>4
<1> QED BY <1>2, <1>5, <1>6, <1>7

\* A sum of naturals is none less than its parts.
LEMMA SumNat ==
    ASSUME NEW F, NEW S, IsFiniteSet(S), \A x \in S : F[x] \in Nat
    PROVE  SumOver(F, S) \in Nat
<1> DEFINE B == {T \in SUBSET S : SumOver(F, T) \notin Nat}
<1>1. SUFFICES ASSUME B # {} PROVE FALSE
  BY <1>1
<1>2. PICK T \in B : \A t \in B : ~(t \subseteq T /\ t # T)
  <2>1. B \subseteq SUBSET S
    OBVIOUS
  <2> HIDE DEF B
  <2> QED BY <1>1, <2>1, LeastSubset
<1>3. T # {}
  <2>1. SumOver(F, {}) = 0 /\ 0 \in Nat /\ SumOver(F, T) \notin Nat
    BY <1>2, SumEmpty
  <2> QED BY <2>1, Zenon
<1>4. Some(T) \in T /\ IsFiniteSet(T) /\ Some(T) \in S
  BY <1>2, <1>3, SomeIn, FS_Subset
<1>5. SumOver(F, T \ {Some(T)}) \in Nat
  BY <1>2, <1>4
<1>6. SumOver(F, T) = F[Some(T)] + SumOver(F, T \ {Some(T)})
  BY <1>3, <1>4, SumStep
<1>7. F[Some(T)] \in Nat
  BY <1>4
<1> QED BY <1>2, <1>5, <1>6, <1>7

\* A change of one element changes the sum by as much.
LEMMA SumChange ==
    ASSUME NEW F, NEW G, NEW S, IsFiniteSet(S), NEW a \in S,
           \A x \in S : F[x] \in Int /\ G[x] \in Int,
           \A x \in S : x # a => F[x] = G[x]
    PROVE  SumOver(G, S) = SumOver(F, S) + (G[a] - F[a])
<1>1. IsFiniteSet(S \ {a})
  BY FS_Subset
<1>2. SumOver(F, S) = F[a] + SumOver(F, S \ {a}) /\ SumOver(G, S) = G[a] + SumOver(G, S \ {a})
  BY SumSplit
<1>3. SumOver(F, S \ {a}) = SumOver(G, S \ {a})
  BY <1>1, SumSame
<1>4. SumOver(F, S \ {a}) \in Int /\ F[a] \in Int /\ G[a] \in Int
  BY <1>1, SumType
<1>5. \A f, g, r \in Int : g + r = (f + r) + (g - f)
  OBVIOUS
<1>6. G[a] + SumOver(F, S \ {a}) = (F[a] + SumOver(F, S \ {a})) + (G[a] - F[a])
  BY <1>4, <1>5, Zenon
<1> QED BY <1>2, <1>3, <1>6, Zenon

\* Elements that count 0 can be left out.
LEMMA SumSupport ==
    ASSUME NEW F, NEW S, IsFiniteSet(S), NEW R, R \subseteq S,
           \A x \in S : F[x] \in Int /\ (x \notin R => F[x] = 0)
    PROVE  SumOver(F, S) = SumOver(F, R)
<1> DEFINE B == {T \in SUBSET S : R \subseteq T /\ SumOver(F, T) # SumOver(F, R)}
<1>1. SUFFICES ASSUME B # {} PROVE FALSE
  BY <1>1
<1>2. PICK T \in B : \A t \in B : ~(t \subseteq T /\ t # T)
  <2>1. B \subseteq SUBSET S
    OBVIOUS
  <2> HIDE DEF B
  <2> QED BY <1>1, <2>1, LeastSubset
<1>3. PICK x \in T : x \notin R
  BY <1>2
<1>4. IsFiniteSet(T) /\ x \in S /\ IsFiniteSet(T \ {x}) /\ F[x] = 0 /\ \A y \in T : F[y] \in Int
  BY <1>2, <1>3, FS_Subset
<1>5. SumOver(F, T) = F[x] + SumOver(F, T \ {x})
  BY <1>4, SumSplit
<1>6. SumOver(F, T \ {x}) = SumOver(F, R)
  BY <1>2, <1>3
<1>7. SumOver(F, T \ {x}) \in Int
  BY <1>4, SumType
<1>8. \A n \in Int : 0 + n = n
  OBVIOUS
<1> QED BY <1>2, <1>4, <1>5, <1>6, <1>7, <1>8, Zenon

\* The sum of a pointwise sum is the sum of the sums.
LEMMA SumPlus ==
    ASSUME NEW F, NEW G, NEW H, NEW S, IsFiniteSet(S),
           \A x \in S : F[x] \in Int /\ G[x] \in Int /\ H[x] = F[x] + G[x]
    PROVE  SumOver(H, S) = SumOver(F, S) + SumOver(G, S)
<1> DEFINE B == {T \in SUBSET S : SumOver(H, T) # SumOver(F, T) + SumOver(G, T)}
<1>1. SUFFICES ASSUME B # {} PROVE FALSE
  BY <1>1
<1>2. PICK T \in B : \A t \in B : ~(t \subseteq T /\ t # T)
  <2>1. B \subseteq SUBSET S
    OBVIOUS
  <2> HIDE DEF B
  <2> QED BY <1>1, <2>1, LeastSubset
<1>3. T # {}
  <2>1. SumOver(F, {}) = 0 /\ SumOver(G, {}) = 0 /\ SumOver(H, {}) = 0 /\ 0 = 0 + 0
    BY SumEmpty
  <2>2. SumOver(H, T) # SumOver(F, T) + SumOver(G, T)
    BY <1>2
  <2> QED BY <2>1, <2>2, Zenon
<1> DEFINE x == Some(T)
           R == T \ {x}
<1>4. x \in T /\ x \in S /\ IsFiniteSet(T) /\ IsFiniteSet(R)
  BY <1>2, <1>3, SomeIn, FS_Subset
<1>5. SumOver(H, R) = SumOver(F, R) + SumOver(G, R)
  BY <1>2, <1>4
<1>6. \A y \in R : F[y] \in Int /\ G[y] \in Int
  BY <1>2
<1>7. /\ SumOver(F, T) = F[x] + SumOver(F, R)
      /\ SumOver(G, T) = G[x] + SumOver(G, R)
      /\ SumOver(H, T) = H[x] + SumOver(H, R)
  BY <1>3, <1>4, SumStep
<1> HIDE DEF R, x
<1>8. F[x] \in Int /\ G[x] \in Int /\ H[x] = F[x] + G[x] /\ SumOver(F, R) \in Int /\ SumOver(G, R) \in Int
  BY <1>4, <1>6, SumType
<1>9. \A f, g, p, q \in Int : (f + g) + (p + q) = (f + p) + (g + q)
  OBVIOUS
<1>10. (F[x] + G[x]) + (SumOver(F, R) + SumOver(G, R)) = (F[x] + SumOver(F, R)) + (G[x] + SumOver(G, R))
  <2> DEFINE p == SumOver(F, R)
             q == SumOver(G, R)
  <2>1. F[x] \in Int /\ G[x] \in Int /\ p \in Int /\ q \in Int
    BY <1>8
  <2> HIDE DEF p, q
  <2>2. (F[x] + G[x]) + (p + q) = (F[x] + p) + (G[x] + q)
    BY <2>1
  <2> QED BY <2>2 DEF p, q
<1>11. SumOver(H, T) = (F[x] + G[x]) + (SumOver(F, R) + SumOver(G, R))
  BY <1>5, <1>7, <1>8, Zenon
<1>12. SumOver(F, T) + SumOver(G, T) = (F[x] + SumOver(F, R)) + (G[x] + SumOver(G, R))
  BY <1>7, Zenon
<1> QED BY <1>2, <1>10, <1>11, <1>12

\* Equal terms add up to their number times one of them.
LEMMA SumConst ==
    ASSUME NEW F, NEW S, IsFiniteSet(S), NEW k \in Int, \A x \in S : F[x] = k
    PROVE  SumOver(F, S) = k * Cardinality(S)
<1> DEFINE B == {T \in SUBSET S : SumOver(F, T) # k * Cardinality(T)}
<1>1. SUFFICES ASSUME B # {} PROVE FALSE
  BY <1>1
<1>2. PICK T \in B : \A t \in B : ~(t \subseteq T /\ t # T)
  <2>1. B \subseteq SUBSET S
    OBVIOUS
  <2> HIDE DEF B
  <2> QED BY <1>1, <2>1, LeastSubset
<1>3. T # {}
  <2>1. SumOver(F, {}) = 0 /\ Cardinality({}) = 0 /\ k * 0 = 0
    BY SumEmpty, FS_EmptySet
  <2>2. SumOver(F, T) # k * Cardinality(T)
    BY <1>2
  <2> QED BY <2>1, <2>2, Zenon
<1> DEFINE x == Some(T)
           R == T \ {x}
<1>4. x \in T /\ x \in S /\ IsFiniteSet(T) /\ IsFiniteSet(R)
  BY <1>2, <1>3, SomeIn, FS_Subset
<1>5. SumOver(F, R) = k * Cardinality(R)
  BY <1>2, <1>4
<1>6. SumOver(F, T) = F[x] + SumOver(F, R)
  BY <1>3, <1>4, SumStep
<1>7. Cardinality(R) = Cardinality(T) - 1 /\ Cardinality(T) \in Nat
  BY <1>4, FS_RemoveElement, FS_CardinalityType
<1> HIDE DEF R, x
<1>8. \A n \in Nat : k + k * (n - 1) = k * n
  OBVIOUS
<1>9. F[x] = k
  BY <1>4
<1>10. SumOver(F, T) = k * Cardinality(T)
  BY <1>5, <1>6, <1>7, <1>8, <1>9, Zenon
<1> QED BY <1>2, <1>10

\* The sum over one element is its term.
LEMMA SumSingle == ASSUME NEW F, NEW a, F[a] \in Int PROVE SumOver(F, {a}) = F[a]
<1>1. IsFiniteSet({a}) /\ {a} \ {a} = {}
  BY FS_Singleton
<1>2. SumOver(F, {a}) = F[a] + SumOver(F, {})
  BY <1>1, SumSplit
<1>3. F[a] + 0 = F[a]
  OBVIOUS
<1> QED BY <1>2, <1>3, SumEmpty

\* Less, element by element, is less in all.
LEMMA SumLeq ==
    ASSUME NEW F, NEW G, NEW S, IsFiniteSet(S), \A x \in S : F[x] \in Int /\ G[x] \in Int /\ F[x] <= G[x]
    PROVE  SumOver(F, S) <= SumOver(G, S)
<1> DEFINE H == [x \in S |-> G[x] - F[x]]
<1>1. \A x \in S : H[x] \in Nat /\ G[x] = F[x] + H[x]
  OBVIOUS
<1> HIDE DEF H
<1>2. SumOver(G, S) = SumOver(F, S) + SumOver(H, S)
  <2>1. \A x \in S : F[x] \in Int /\ H[x] \in Int /\ G[x] = F[x] + H[x]
    BY <1>1
  <2> QED BY <2>1, SumPlus
<1>3. SumOver(H, S) \in Nat /\ SumOver(F, S) \in Int
  BY <1>1, SumNat, SumType
<1> DEFINE f == SumOver(F, S)
           h == SumOver(H, S)
<1>4. \A p \in Int, q \in Nat : p <= p + q
  OBVIOUS
<1> QED BY <1>2, <1>3, <1>4, Zenon

\* A sum of naturals is none less over more.
LEMMA SumMonotone ==
    ASSUME NEW F, NEW S, IsFiniteSet(S), NEW R, R \subseteq S, \A x \in S : F[x] \in Nat
    PROVE  SumOver(F, R) <= SumOver(F, S)
<1> DEFINE G == [x \in S |-> IF x \in R THEN F[x] ELSE 0]
<1>1. \A x \in S : G[x] \in Nat /\ G[x] <= F[x] /\ (x \notin R => G[x] = 0)
  OBVIOUS
<1>2. \A x \in R : G[x] = F[x]
  OBVIOUS
<1> HIDE DEF G
<1>3. SumOver(G, S) = SumOver(G, R)
  BY <1>1, SumSupport
<1>4. SumOver(G, R) = SumOver(F, R)
  BY <1>2, SumSame, FS_Subset
<1>5. SumOver(G, S) <= SumOver(F, S)
  BY <1>1, SumLeq
<1> QED BY <1>3, <1>4, <1>5

\* A sum is worth at most what its elements are worth in all.
LEMMA SumWorth ==
    ASSUME NEW F, NEW G, NEW S, IsFiniteSet(S),
           \A x \in S : F[x] \in Int /\ G[x] \in Nat /\ F[x] <= G[x] /\ -F[x] <= G[x]
    PROVE  SumOver(F, S) <= SumOver(G, S) /\ -SumOver(F, S) <= SumOver(G, S)
<1> DEFINE H == [x \in S |-> F[x] + G[x]]
<1>1. \A x \in S : H[x] \in Nat /\ H[x] = F[x] + G[x]
  <2>1. \A a \in Int, b \in Nat : -a <= b => a + b \in Nat
    OBVIOUS
  <2> QED BY <2>1
<1> HIDE DEF H
<1>2. SumOver(H, S) = SumOver(F, S) + SumOver(G, S)
  <2>1. \A x \in S : F[x] \in Int /\ G[x] \in Int /\ H[x] = F[x] + G[x]
    BY <1>1
  <2> QED BY <2>1, SumPlus
<1>3. SumOver(H, S) \in Nat /\ SumOver(F, S) \in Int /\ SumOver(G, S) \in Int
  BY <1>1, SumNat, SumType
<1>4. \A a, b \in Int : a + b \in Nat => -a <= b
  OBVIOUS
<1>5. -SumOver(F, S) <= SumOver(G, S)
  BY <1>2, <1>3, <1>4, Zenon
<1>6. SumOver(F, S) <= SumOver(G, S)
  BY SumLeq
<1> QED BY <1>5, <1>6

\* A finite set of numbers has a greatest one.
LEMMA GreatestExists ==
    ASSUME NEW S, IsFiniteSet(S)
    PROVE  \A T \in SUBSET S : T \subseteq Int /\ T # {} => \E m \in T : \A x \in T : x <= m
<1> DEFINE B == {T \in SUBSET S : T \subseteq Int /\ T # {} /\ ~ \E m \in T : \A x \in T : x <= m}
<1> HIDE DEF B
<1>1. ASSUME B # {} PROVE FALSE
  <2>1. PICK T \in B : \A t \in B : ~(t \subseteq T /\ t # T)
    <3>1. B \subseteq SUBSET S
      BY DEF B
    <3> QED BY <1>1, <3>1, LeastSubset
  <2>2. PICK a \in T : a \in Int
    BY <2>1 DEF B
  <2> DEFINE R == T \ {a}
  <2>3. CASE R = {}
    BY <2>1, <2>2, <2>3 DEF B
  <2>4. CASE R # {}
    <3>1. R \notin B /\ R \subseteq S
      BY <2>1, <2>2 DEF B
    <3>2. PICK m \in R : \A x \in R : x <= m
      BY <2>4, <3>1 DEF B
    <3>3. \A x \in T : x = a \/ x \in R
      OBVIOUS
    <3>4. m \in Int /\ m \in T /\ \A x \in T : x \in Int
      BY <2>1, <3>2 DEF B
    <3>5. CASE a <= m
      BY <2>1, <3>2, <3>3, <3>4, <3>5 DEF B
    <3>6. CASE ~(a <= m)
      <4>1. \A x \in R : x <= a
        BY <2>2, <3>2, <3>4, <3>6
      <4> QED BY <2>1, <2>2, <3>3, <4>1 DEF B
    <3> QED BY <3>5, <3>6
  <2> QED BY <2>3, <2>4
<1> QED BY <1>1 DEF B

\* A finite set of integers that has a member has a greatest one.
LEMMA MaxFinite ==
    ASSUME NEW S, IsFiniteSet(S), S \subseteq Int, S # {}
    PROVE  Max(S) \in S /\ \A x \in S : x <= Max(S)
<1>1. \E m \in S : \A x \in S : m >= x
  BY GreatestExists
<1> QED BY <1>1 DEF Max
=============================================================================
