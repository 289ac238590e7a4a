---------------------------- MODULE OrderPath_proof ----------------------------
(***************************************************************************)
(* Proofs about OrderPath: for any number of requests, keys, tags and       *)
(* notionals, endpoint orders on fully named symbols exclude one another,   *)
(* the pending table mirrors the order in flight, and a key that the cache  *)
(* remembers sends no second order.  For symbols named in any way, the      *)
(* cache tells the truth and no futures fill of an order by quote is booked *)
(* twice.  Then about Admission: for any number of orders, prices and       *)
(* instants, two rails keep their rates, locks and caps.                    *)
(***************************************************************************)
EXTENDS OrderPath, Admission, Sums, SequenceTheorems, FunctionTheorems,
        FiniteSetTheorems, TLAPS

\* Symbols are given with their venue (the theorems' precondition).
FullNames == Forms = {"full"}

\* The types of the variables that decide about sending.
TypeCore ==
    /\ job \in [Reqs -> HttpJobs \cup SignalJobs]
    /\ pc \in [Reqs -> {"idle", "done", "failed", "refused", "cached", "lost"} \cup InFlightPc]
    /\ cache \in [Keys -> {"none", "rejected", "submitted"}]
    /\ pending \in [{"full", "bare"} -> Nat]

\* An endpoint order in flight has a key the cache does not know.
InFlightUncached == \A r \in Reqs : Http(r) /\ InFlight(r) => cache[job[r].key] = "none"

OrderInv == TypeCore /\ OneInFlight /\ PendingMatches /\ InFlightUncached

-----------------------------------------------------------------------------
\* What a job is, by the way it came in.
LEMMA JobFacts ==
    ASSUME FullNames, TypeCore, NEW r \in Reqs
    PROVE  /\ Http(r) => /\ job[r].key \in HttpKeys /\ job[r].form = "full"
                         /\ job[r].notional \in Nat \ {0}
           /\ ~Http(r) => job[r].key \in SignalKeys
           /\ job[r].key \in Keys
BY OrderAssumption DEF OrderAssumption, FullNames, TypeCore, Http, HttpJobs, SignalJobs, Keys

\* A step of a handler either keeps its request in flight and touches neither
\* the table nor the cache, or ends it.
Continues(r) ==
    /\ InFlight(r) /\ pc' = [pc EXCEPT ![r] = pc'[r]] /\ pc'[r] \in InFlightPc
    /\ UNCHANGED <<job, cache, pending>>
Ends(r) ==
    /\ InFlight(r) /\ pc'[r] \in {"done", "failed"} /\ pc' = [pc EXCEPT ![r] = pc'[r]]
    /\ pending' = Cleared(r)
    /\ cache' \in {cache, [cache EXCEPT ![job[r].key] = "submitted"]}
    /\ job' = job

\* Every step of a handler is of one of these two forms.
LEMMA HandlerStep ==
    ASSUME TypeCore, NEW r \in Reqs, Handles(r)
    PROVE  Continues(r) \/ Ends(r)
<1> USE DEF TypeCore, Continues, Ends, InFlight, InFlightPc, Waiting, Send, Abort, Complete, reqVars
<1>1. CASE PricingFails(r)      BY <1>1 DEF PricingFails
<1>2. CASE SendByQuote(r)       BY <1>2 DEF SendByQuote
<1>3. CASE SendLimit(r)         BY <1>3 DEF SendLimit
<1>4. CASE LimitRefused(r)      BY <1>4 DEF LimitRefused
<1>5. CASE MakerFallsThrough(r) BY <1>5 DEF MakerFallsThrough
<1>6. CASE MakerRests(r)        BY <1>6 DEF MakerRests
<1>7. CASE Answered(r)          BY <1>7 DEF Answered
<1>8. CASE AnswerRaises(r)      BY <1>8 DEF AnswerRaises
<1>9. CASE TimesOut(r)          BY <1>9 DEF TimesOut
<1> QED BY <1>1, <1>2, <1>3, <1>4, <1>5, <1>6, <1>7, <1>8, <1>9 DEF Handles

\* The inductive step.
LEMMA OrderInductive ==
    ASSUME FullNames, OrderInv, [PathNext]_pathVars
    PROVE  OrderInv'
<1> USE DEF OrderInv
<1>a. \A r \in Reqs : /\ Http(r) => /\ job[r].key \in HttpKeys /\ job[r].form = "full"
                                    /\ job[r].notional \in Nat \ {0}
                      /\ ~Http(r) => job[r].key \in SignalKeys
                      /\ job[r].key \in Keys
  BY JobFacts
<1>b. HttpKeys \cap SignalKeys = {} BY OrderAssumption DEF OrderAssumption
\* Steps that touch neither a request's place, nor the table, nor the cache.
<1>c. ASSUME UNCHANGED <<job, pc, cache, pending>> PROVE OrderInv'
  BY <1>c DEF TypeCore, OneInFlight, PendingMatches, InFlightUncached, Http, InFlight
<1>1. ASSUME NEW r \in Reqs, Cached(r) PROVE OrderInv'
  BY <1>1 DEF Cached, TypeCore, OneInFlight, PendingMatches, InFlightUncached, Http, InFlight,
              InFlightPc, Waiting, reqVars
<1>2. ASSUME NEW r \in Reqs, Refused(r) PROVE OrderInv'
  <2>1. TypeCore' BY <1>a, <1>2 DEF Refused, TypeCore, reqVars
  <2>2. \A s \in Reqs : Http(s)' = Http(s) /\ (InFlight(s)' => InFlight(s) /\ s # r)
                        /\ (InFlight(s) => InFlight(s)')
    BY <1>2 DEF Refused, TypeCore, Http, InFlight, InFlightPc, Waiting, reqVars
  <2>3. job' = job /\ pending' = pending BY <1>2 DEF Refused, reqVars
  <2>4. OneInFlight' /\ PendingMatches'
    BY <2>2, <2>3 DEF OneInFlight, PendingMatches
  <2>5. \A s \in Reqs : Http(s) => cache'[job[s].key] = cache[job[s].key]
    BY <1>a, <1>b, <1>2 DEF Refused, TypeCore
  <2>6. InFlightUncached' BY <2>2, <2>3, <2>5 DEF InFlightUncached
  <2> QED BY <2>1, <2>4, <2>6
<1>3. ASSUME NEW r \in Reqs, Accept(r) PROVE OrderInv'
  <2>1. job' = job /\ cache' = cache /\ cache[job[r].key] = "none" /\ pc[r] = "idle"
        /\ pc' = [pc EXCEPT ![r] = "pricing"]
    BY <1>3 DEF Accept, reqVars
  <2>2. \A s \in Reqs : Http(s)' = Http(s) /\ (s # r => InFlight(s)' = InFlight(s))
    BY <2>1 DEF TypeCore, Http, InFlight
  <2>3. InFlight(r)' /\ ~InFlight(r)
    BY <2>1 DEF TypeCore, InFlight, InFlightPc, Waiting
  <2>4. Http(r) => pending["full"] = 0 /\ \A s \in Reqs : ~(Http(s) /\ InFlight(s))
    BY <1>a, <1>3 DEF Accept, Admits, RailsOf, PendingMatches
  <2>5. TypeCore' BY <1>a, <1>3, <2>1 DEF Accept, TypeCore, InFlightPc
  <2>6. Http(r) => pending' = [pending EXCEPT !["full"] = job[r].notional]
    <3> SUFFICES ASSUME Http(r) PROVE pending' = [pending EXCEPT !["full"] = job[r].notional]
      OBVIOUS
    <3>1. pending["full"] + job[r].notional = job[r].notional BY <1>a, <2>4
    <3>2. pending' = [pending EXCEPT !["full"] = pending["full"] + job[r].notional]
      BY <1>a, <1>3 DEF Accept
    <3> QED BY <3>1, <3>2
  <2>7. ~Http(r) => pending' = pending BY <1>3 DEF Accept
  <2>8. OneInFlight' BY <2>2, <2>3, <2>4 DEF OneInFlight
  <2>9. PendingMatches'
    <3>1. CASE Http(r)  BY <1>a, <2>1, <2>2, <2>3, <2>4, <2>6, <3>1 DEF PendingMatches, TypeCore
    <3>2. CASE ~Http(r) BY <2>1, <2>2, <2>3, <2>7, <3>2 DEF PendingMatches
    <3> QED BY <3>1, <3>2
  <2>10. InFlightUncached' BY <2>1, <2>2, <2>3 DEF InFlightUncached
  <2> QED BY <2>5, <2>8, <2>9, <2>10
<1>4. ASSUME NEW r \in Reqs, Handles(r) PROVE OrderInv'
  <2>1. CASE Continues(r)
    <3>1. \A s \in Reqs : Http(s)' = Http(s) /\ InFlight(s)' = InFlight(s)
      BY <2>1 DEF Continues, TypeCore, Http, InFlight
    <3>2. TypeCore' BY <2>1 DEF Continues, TypeCore
    <3> QED BY <2>1, <3>1, <3>2 DEF Continues, OneInFlight, PendingMatches, InFlightUncached
  <2>2. CASE Ends(r)
    <3>1. \A s \in Reqs : Http(s)' = Http(s) /\ (s # r => InFlight(s)' = InFlight(s))
      BY <2>2 DEF Ends, TypeCore, Http, InFlight
    <3>2. ~InFlight(r)' /\ InFlight(r)
      BY <2>2 DEF Ends, TypeCore, InFlight, InFlightPc, Waiting
    <3>3. pending' \in [{"full", "bare"} -> Nat]
      BY <1>a, <2>2 DEF Ends, Cleared, TypeCore
    <3>4. TypeCore' BY <1>a, <2>2, <3>3 DEF Ends, TypeCore
    <3>5. OneInFlight' BY <3>1, <3>2 DEF OneInFlight
    <3>6. Http(r) => pending'["full"] = 0 /\ pending'["bare"] = pending["bare"]
      BY <1>a, <2>2, <3>2 DEF Ends, Cleared, TypeCore, PendingMatches
    <3>7. ~Http(r) => pending' = pending BY <2>2 DEF Ends, Cleared
    <3>8. PendingMatches'
      <4>1. CASE Http(r)
        BY <2>2, <3>1, <3>2, <3>5, <3>6, <4>1 DEF Ends, PendingMatches, OneInFlight
      <4>2. CASE ~Http(r)
        BY <2>2, <3>1, <3>2, <3>7, <4>2 DEF Ends, PendingMatches
      <4> QED BY <4>1, <4>2
    <3>9. InFlightUncached'
      <4>1. SUFFICES ASSUME NEW s \in Reqs, Http(s), InFlight(s), s # r
                     PROVE  cache'[job[s].key] = "none"
        BY <2>2, <3>1, <3>2 DEF Ends, InFlightUncached
      <4>2. cache[job[s].key] = "none" BY <4>1 DEF InFlightUncached
      <4>3. ~Http(r) BY <3>2, <4>1 DEF OneInFlight
      <4>4. job[s].key # job[r].key BY <1>a, <1>b, <4>1, <4>3
      <4> QED BY <1>a, <2>2, <4>2, <4>4 DEF Ends, TypeCore
    <3> QED BY <3>4, <3>5, <3>8, <3>9
  <2> QED BY <1>4, <2>1, <2>2, HandlerStep
<1>5. ASSUME NEW k \in Keys, CacheExpires(k) PROVE OrderInv'
  BY <1>a, <1>5 DEF CacheExpires, TypeCore, OneInFlight, PendingMatches, InFlightUncached, Http,
              InFlight, reqVars
<1>6. CASE Crash
  <2>1. \A s \in Reqs : ~InFlight(s)'
    BY <1>6 DEF Crash, InFlight, InFlightPc, Waiting
  <2>2. TypeCore' BY <1>6 DEF Crash, TypeCore, InFlight, reqVars
  <2>3. pending'["full"] = 0 /\ pending'["bare"] = 0 BY <1>6 DEF Crash
  <2> QED BY <2>1, <2>2, <2>3 DEF OneInFlight, PendingMatches, InFlightUncached
<1>7. ASSUME NEW r \in Reqs, StreamReports(r) PROVE UNCHANGED <<job, pc, cache, pending>>
  BY <1>7 DEF StreamReports, reqVars
<1>8. ASSUME NEW r \in Reqs, NEW leg \in Legs, VenueTakes(r, leg) \/ VenueFills(r, leg)
      PROVE  UNCHANGED <<job, pc, cache, pending>>
  BY <1>8 DEF VenueTakes, VenueFills, reqVars
<1>9. ASSUME NEW rails \in {"app", "strategy"}, LockExpires(rails)
      PROVE  UNCHANGED <<job, pc, cache, pending>>
  BY <1>9 DEF LockExpires, reqVars
<1>10. CASE UNCHANGED pathVars BY <1>c, <1>10 DEF pathVars
<1> QED
  BY <1>c, <1>1, <1>2, <1>3, <1>4, <1>5, <1>6, <1>7, <1>8, <1>9, <1>10 DEF PathNext, Arrives

\* OrderInv is an invariant.
LEMMA OrderInvariant == ASSUME FullNames PROVE PathSpec => []OrderInv
<1>1. PathInit => OrderInv
  BY DEF PathInit, OrderInv, TypeCore, OneInFlight, PendingMatches, InFlightUncached, InFlight,
         InFlightPc, Waiting
<1>2. OrderInv /\ [PathNext]_pathVars => OrderInv' BY OrderInductive
<1> QED BY <1>1, <1>2, PTL DEF PathSpec

\* The orders at the venue, per request and leg.
LegType == legs \in [Reqs -> [Legs -> {"none", "sent", "rejected"} \cup Accepted]]

\* Only Send makes an order "sent", for a request in flight.
LEMMA SendStep ==
    ASSUME LegType, PathNext, NEW r \in Reqs, NEW l \in Legs,
           legs[r][l] = "none", legs'[r][l] = "sent"
    PROVE  InFlight(r)
<1> USE DEF InFlight, InFlightPc, Waiting, LegType, Accepted, Legs
<1>1. ASSUME NEW s \in Reqs, Arrives(s) PROVE FALSE
  BY <1>1 DEF Arrives, Cached, Refused, Accept, venueVars
<1>2. ASSUME NEW s \in Reqs, Handles(s) PROVE InFlight(r)
  <2>1. legs' = legs \/ (InFlight(s) /\ \E leg \in Legs : legs' = [legs EXCEPT ![s][leg] = "sent"])
    BY <1>2 DEF Handles, PricingFails, SendByQuote, SendLimit, LimitRefused, MakerFallsThrough,
                MakerRests, Answered, AnswerRaises, TimesOut, Send, Abort, Complete, venueVars
  <2> QED BY <2>1
<1>3. ASSUME NEW s \in Reqs, NEW leg \in Legs, VenueTakes(s, leg) PROVE FALSE
  BY <1>3 DEF VenueTakes, Outcome
<1>4. ASSUME NEW s \in Reqs, NEW leg \in Legs, VenueFills(s, leg) PROVE FALSE
  BY <1>4 DEF VenueFills
<1>5. ASSUME legs' = legs PROVE FALSE
  BY <1>5
<1>6. ASSUME \/ \E s \in Reqs : StreamReports(s)
             \/ \E x \in {"app", "strategy"} : LockExpires(x)
             \/ \E k \in Keys : CacheExpires(k)
             \/ Crash
      PROVE  FALSE
  BY <1>5, <1>6 DEF StreamReports, LockExpires, CacheExpires, Crash, venueVars
<1> QED BY <1>1, <1>2, <1>3, <1>4, <1>6 DEF PathNext

\* LegType is an invariant.
LEMMA LegsTyped == PathSpec => []LegType
<1> USE DEF LegType, Accepted, Legs
<1>1. PathInit => LegType BY DEF PathInit
<1>2. LegType /\ [PathNext]_pathVars => LegType'
  <2> SUFFICES ASSUME LegType, [PathNext]_pathVars PROVE LegType' OBVIOUS
  <2>1. ASSUME NEW s \in Reqs, Arrives(s) PROVE LegType'
    BY <2>1 DEF Arrives, Cached, Refused, Accept, venueVars
  <2>2. ASSUME NEW s \in Reqs, Handles(s) PROVE LegType'
    <3>1. legs' = legs \/ \E leg \in Legs : legs' = [legs EXCEPT ![s][leg] = "sent"]
      BY <2>2 DEF Handles, PricingFails, SendByQuote, SendLimit, LimitRefused, MakerFallsThrough,
                  MakerRests, Answered, AnswerRaises, TimesOut, Send, Abort, Complete, venueVars
    <3> QED BY <3>1
  <2>3. ASSUME NEW s \in Reqs, NEW leg \in Legs, VenueTakes(s, leg) \/ VenueFills(s, leg)
        PROVE  LegType'
    BY <2>3 DEF VenueTakes, VenueFills, Outcome
  <2>4. ASSUME \/ \E s \in Reqs : StreamReports(s)
               \/ \E x \in {"app", "strategy"} : LockExpires(x)
               \/ \E k \in Keys : CacheExpires(k)
               \/ Crash
               \/ UNCHANGED pathVars
        PROVE  LegType'
    BY <2>4 DEF StreamReports, LockExpires, CacheExpires, Crash, venueVars, pathVars
  <2> QED BY <2>1, <2>2, <2>3, <2>4 DEF PathNext
<1> QED BY <1>1, <1>2, PTL DEF PathSpec

-----------------------------------------------------------------------------
\* Between its check and its end an endpoint order is alone.
THEOREM Exclusive == ASSUME FullNames PROVE PathSpec => []OneInFlight
<1>1. OrderInv => OneInFlight BY DEF OrderInv
<1> QED BY <1>1, OrderInvariant, PTL

\* The pending table is exact: nothing leaks, nothing is removed early.
THEOREM PendingExact == ASSUME FullNames PROVE PathSpec => []PendingMatches
<1>1. OrderInv => PendingMatches BY DEF OrderInv
<1> QED BY <1>1, OrderInvariant, PTL

\* A remembered key never sends another order from an endpoint.
THEOREM KeySendsOnce == ASSUME FullNames PROVE PathSpec => KeyOnce
<1>1. OrderInv /\ LegType /\ [PathNext]_pathVars => [\A r \in Reqs : Http(r) => ~SendsAgain(r)]_pathVars
  <2> SUFFICES ASSUME OrderInv, LegType, PathNext, NEW r \in Reqs, Http(r),
                      NEW l \in Legs, legs[r][l] = "none", legs'[r][l] = "sent"
               PROVE  cache[job[r].key] # "submitted"
    BY DEF SendsAgain
  <2>1. InFlight(r) BY SendStep
  <2> QED BY <2>1 DEF OrderInv, InFlightUncached
<1> QED BY <1>1, OrderInvariant, LegsTyped, PTL DEF PathSpec, KeyOnce

-----------------------------------------------------------------------------
(* What the venue, the answers and the books know of one request.            *)

\* Fills counts the filled legs.
FillOf(state) == IF state = "filled" THEN 1 ELSE 0
FillsOf(r)    == FillOf(legs[r]["maker"]) + FillOf(legs[r]["taker"])

\* The fills that Fills counts are those of the two legs.
LEMMA FillsCount == ASSUME NEW r PROVE Fills(r) = FillsOf(r)
<1> DEFINE S == {l \in Legs : legs[r][l] = "filled"}
<1>1. CASE legs[r]["maker"] = "filled" /\ legs[r]["taker"] = "filled"
  <2>1. S = {"maker"} \cup {"taker"} /\ "taker" \notin {"maker"} BY <1>1 DEF Legs
  <2>2. IsFiniteSet({"maker"}) /\ Cardinality({"maker"}) = 1 BY FS_Singleton
  <2>3. Cardinality(S) = 2 BY <2>1, <2>2, FS_AddElement
  <2> QED BY <1>1, <2>3 DEF Fills, FillsOf, FillOf
<1>2. CASE legs[r]["maker"] = "filled" /\ legs[r]["taker"] # "filled"
  <2>1. S = {"maker"} BY <1>2 DEF Legs
  <2> QED BY <1>2, <2>1, FS_Singleton DEF Fills, FillsOf, FillOf
<1>3. CASE legs[r]["maker"] # "filled" /\ legs[r]["taker"] = "filled"
  <2>1. S = {"taker"} BY <1>3 DEF Legs
  <2> QED BY <1>3, <2>1, FS_Singleton DEF Fills, FillsOf, FillOf
<1>4. CASE legs[r]["maker"] # "filled" /\ legs[r]["taker"] # "filled"
  <2>1. S = {} BY <1>4 DEF Legs
  <2> QED BY <1>4, <2>1, FS_EmptySet DEF Fills, FillsOf, FillOf
<1> QED BY <1>1, <1>2, <1>3, <1>4

\* The types; the counters without their bounds.
BookType ==
    /\ job \in [Reqs -> HttpJobs \cup SignalJobs]
    /\ venue \in {"spot", "futures"}
    /\ pc \in [Reqs -> {"idle", "done", "failed", "refused", "cached", "lost"} \cup InFlightPc]
    /\ why \in [Reqs -> {"none", "RACE", "RULE", "LOCKED"}]
    /\ ack \in [Reqs -> {"none", "rejected", "empty", "filled"}]
    /\ cache \in [Keys -> {"none", "rejected", "submitted"}]
    /\ pending \in [{"full", "bare"} -> Nat]
    /\ lock \in [{"app", "strategy"} -> {"free", "unknown"} \cup Tags]
    /\ LegType
    /\ reports \in [Reqs -> Nat]
    /\ booked \in [Reqs -> Nat]

\* No order has gone out yet; the answer that is awaited speaks of its own leg.
LegsFit(r) ==
    /\ pc[r] \in {"idle", "pricing"} => legs[r]["maker"] = "none" /\ legs[r]["taker"] = "none"
    /\ pc[r] = "maker" => legs[r]["taker"] = "none"
    /\ pc[r] = "maker" /\ ack[r] \in {"empty", "filled"} => legs[r]["maker"] \in Accepted
    /\ pc[r] \in {"taker", "limit", "plain"} /\ ack[r] \in {"empty", "filled"}
           => legs[r]["taker"] \in Accepted
    /\ pc[r] = "limit" => ~ByQuote(r)

\* What the stream may report and has booked is covered by the fills; the answer
\* adds two bookings at most, and none to an order by quote on futures.
Streamed(r) == IF venue = "futures" THEN FillsOf(r) ELSE 0
BooksFit(r) ==
    /\ reports[r] <= Streamed(r)
    /\ booked[r] + reports[r] <= Streamed(r) + (IF pc[r] = "done" THEN 2 ELSE 0)
    /\ venue = "futures" /\ ByQuote(r) => booked[r] + reports[r] <= Streamed(r)

RequestInv == BookType /\ \A r \in Reqs : LegsFit(r) /\ BooksFit(r)

\* A step that concerns request r leaves all that is known of the others.
Concerns(r) == \A s \in Reqs : s # r =>
    /\ pc'[s] = pc[s] /\ ack'[s] = ack[s] /\ legs'[s] = legs[s]
    /\ reports'[s] = reports[s] /\ booked'[s] = booked[s]

\* A step of one request leaves the others fitting.
LEMMA OthersFit ==
    ASSUME RequestInv, NEW r \in Reqs, Concerns(r), UNCHANGED <<job, venue>>, BookType',
           LegsFit(r)', BooksFit(r)'
    PROVE  RequestInv'
<1> SUFFICES ASSUME NEW s \in Reqs, s # r PROVE LegsFit(s)' /\ BooksFit(s)'
  BY DEF RequestInv
<1>1. LegsFit(s) /\ BooksFit(s) BY DEF RequestInv
<1>2. /\ pc'[s] = pc[s] /\ ack'[s] = ack[s] /\ legs'[s] = legs[s]
      /\ reports'[s] = reports[s] /\ booked'[s] = booked[s]
  BY DEF Concerns
<1> QED BY <1>1, <1>2 DEF LegsFit, BooksFit, ByQuote, Streamed, FillsOf

\* What a job holds, however the symbol is named.
LEMMA JobParts ==
    ASSUME BookType, NEW r \in Reqs
    PROVE  /\ job[r].key \in Keys /\ job[r].form \in {"full", "bare"}
           /\ job[r].tag \in {"unknown"} \cup Tags /\ job[r].notional \in Nat
<1>1. job[r] \in HttpJobs \cup SignalJobs BY DEF BookType
<1>2. CASE job[r] \in HttpJobs
  BY <1>2, OrderAssumption DEF OrderAssumption, HttpJobs, Keys
<1>3. CASE job[r] \in SignalJobs
  BY <1>3, OrderAssumption DEF OrderAssumption, SignalJobs, Keys
<1> QED BY <1>1, <1>2, <1>3

\* So does the arrival of a request.
LEMMA ArrivesFits ==
    ASSUME RequestInv, NEW r \in Reqs, Arrives(r)
    PROVE  RequestInv'
<1> USE DEF RequestInv
<1>1. /\ job[r].key \in Keys /\ job[r].form \in {"full", "bare"}
      /\ job[r].tag \in {"unknown"} \cup Tags /\ job[r].notional \in Nat
  BY JobParts
<1>2. /\ UNCHANGED <<job, venue, ack, legs, reports, booked>> /\ pc[r] = "idle"
      /\ \E x \in {"cached", "refused", "pricing"} : pc' = [pc EXCEPT ![r] = x]
  BY DEF Arrives, Cached, Refused, Accept, reqVars, venueVars
<1>3. BookType'
  <2>1. CASE Cached(r) BY <2>1 DEF Cached, BookType, LegType, reqVars, venueVars
  <2>2. CASE Refused(r)
    <3>1. PICK reason \in {"RULE", "RACE", "LOCKED"} : why' = [why EXCEPT ![r] = reason]
      BY <2>2 DEF Refused, Refusal, OtherRules
    <3> QED BY <1>1, <2>2, <3>1 DEF Refused, BookType, LegType, reqVars, venueVars
  <2>3. CASE Accept(r)
    <3>1. pending' \in [{"full", "bare"} -> Nat] BY <1>1, <2>3 DEF Accept, BookType
    <3>2. lock' \in [{"app", "strategy"} -> {"free", "unknown"} \cup Tags]
      BY <1>1, <2>3 DEF Accept, Admits, BookType
    <3> QED BY <2>3, <3>1, <3>2 DEF Accept, BookType, LegType, InFlightPc, reqVars, venueVars
  <2> QED BY <2>1, <2>2, <2>3 DEF Arrives
<1>4. Concerns(r) BY <1>2 DEF BookType, Concerns
<1>5. LegsFit(r)' BY <1>2 DEF BookType, LegsFit
<1>6. BooksFit(r)' BY <1>2 DEF BookType, BooksFit, Streamed, FillsOf, ByQuote
<1> QED BY <1>2, <1>3, <1>4, <1>5, <1>6, OthersFit

\* An order sent: its leg was not used before.
LEMMA SendFits ==
    ASSUME RequestInv, NEW r \in Reqs, NEW l \in Legs, NEW to \in Waiting, Send(r, l, to),
           pc[r] # "done", legs[r][l] = "none", to = "maker" <=> l = "maker",
           to = "maker" => legs[r]["taker"] = "none", to = "limit" => ~ByQuote(r),
           lock' \in [{"app", "strategy"} -> {"free", "unknown"} \cup Tags]
    PROVE  RequestInv'
<1> USE DEF RequestInv
<1>1. BookType' BY DEF BookType, LegType, Send, InFlightPc, reqVars
<1>2. Concerns(r) BY DEF BookType, LegType, Concerns, Send
<1>3. /\ pc'[r] = to /\ ack'[r] = "none" /\ legs'[r] = [legs[r] EXCEPT ![l] = "sent"]
      /\ UNCHANGED <<job, venue, reports, booked>>
  BY DEF BookType, LegType, Send, reqVars
<1>4. LegsFit(r)' BY <1>3 DEF LegsFit, Legs, Waiting, BookType, LegType, ByQuote
<1>5. FillsOf(r)' = FillsOf(r) BY <1>3 DEF FillsOf, FillOf, Legs, BookType, LegType
<1>6. BooksFit(r)' BY <1>3, <1>5 DEF BooksFit, Streamed, ByQuote, Waiting
<1> QED BY <1>1, <1>2, <1>3, <1>4, <1>6, OthersFit

\* A handler that ends: with n bookings, or without any.
LEMMA EndFits ==
    ASSUME RequestInv, NEW r \in Reqs, NEW n \in 0..2,
           \/ Complete(r, n) /\ why' = why
           \/ Abort(r) /\ why' \in [Reqs -> {"none", "RACE", "RULE", "LOCKED"}],
           InFlight(r), venue = "futures" /\ ByQuote(r) => n = 0
    PROVE  RequestInv'
<1> USE DEF RequestInv
<1>1. job[r].key \in Keys /\ job[r].notional \in Nat BY JobParts
<1>2. /\ UNCHANGED <<job, venue, ack, lock, legs, reports>>
      /\ cache' \in [Keys -> {"none", "rejected", "submitted"}]
      /\ \/ pc' = [pc EXCEPT ![r] = "done"] /\ booked' = [booked EXCEPT ![r] = @ + n]
         \/ pc' = [pc EXCEPT ![r] = "failed"] /\ booked' = booked
  BY <1>1 DEF Complete, Abort, BookType, reqVars, venueVars
<1>3. pending' \in [{"full", "bare"} -> Nat]
  BY <1>1 DEF Complete, Abort, Cleared, BookType
<1>a. why' \in [Reqs -> {"none", "RACE", "RULE", "LOCKED"}] BY DEF BookType
<1>b. booked' \in [Reqs -> Nat] BY <1>2 DEF BookType
<1>4. BookType' BY <1>2, <1>3, <1>a, <1>b DEF BookType, LegType
<1>5. Concerns(r) BY <1>2 DEF BookType, Concerns
<1>6. LegsFit(r)' BY <1>2 DEF LegsFit, BookType
<1>7. FillsOf(r)' = FillsOf(r) BY <1>2 DEF FillsOf
<1>8. pc[r] # "done" BY DEF InFlight, InFlightPc, Waiting
<1>9. FillsOf(r) \in Nat BY DEF FillsOf, FillOf
<1>10. BooksFit(r)'
  BY <1>2, <1>7, <1>8, <1>9 DEF BooksFit, Streamed, ByQuote, BookType
<1> QED BY <1>2, <1>4, <1>5, <1>6, <1>10, OthersFit

\* So does each step of its handler.
LEMMA HandlesFits ==
    ASSUME RequestInv, NEW r \in Reqs, Handles(r)
    PROVE  RequestInv'
<1> USE DEF RequestInv
<1>1. LegsFit(r) OBVIOUS
<1>2. lock \in [{"app", "strategy"} -> {"free", "unknown"} \cup Tags] BY DEF BookType
<1>3. CASE PricingFails(r)
  BY <1>3, EndFits DEF PricingFails, InFlight, InFlightPc, BookType
<1>4. CASE SendByQuote(r)
  <2>1. legs[r]["maker"] = "none" /\ legs[r]["taker"] = "none" /\ pc[r] # "done" /\ lock' = lock
    BY <1>1, <1>4 DEF SendByQuote, LegsFit
  <2>2. Send(r, "maker", "maker") \/ Send(r, "taker", "taker") \/ Send(r, "taker", "plain")
    BY <1>4 DEF SendByQuote
  <2> QED BY <1>2, <2>1, <2>2, SendFits DEF Legs, Waiting
<1>5. CASE SendLimit(r)
  <2>1. legs[r]["taker"] = "none" /\ pc[r] # "done" /\ ~ByQuote(r)
    BY <1>1, <1>5 DEF SendLimit, LegsFit
  <2>2. lock' \in [{"app", "strategy"} -> {"free", "unknown"} \cup Tags]
    BY <1>2, <1>5 DEF SendLimit, Admits
  <2> QED BY <1>5, <2>1, <2>2, SendFits DEF SendLimit, Legs, Waiting
<1>6. CASE LimitRefused(r)
  <2>1. why' \in [Reqs -> {"none", "RACE", "RULE", "LOCKED"}]
    BY <1>6 DEF LimitRefused, Refusal, OtherRules, BookType
  <2> QED BY <1>6, <2>1, EndFits DEF LimitRefused, InFlight, InFlightPc
<1>7. CASE MakerFallsThrough(r)
  BY <1>1, <1>2, <1>7, SendFits DEF MakerFallsThrough, LegsFit, Legs, Waiting
<1>8. CASE MakerRests(r)
  <2>1. InFlight(r) /\ Complete(r, 0) /\ why' = why
    BY <1>8 DEF MakerRests, Complete, InFlight, InFlightPc, Waiting
  <2>2. 0 \in 0..2 OBVIOUS
  <2> QED BY <2>1, <2>2, EndFits
<1>9. CASE Answered(r)
  <2>1. Bookings(r) \in 0..2 BY DEF Bookings
  <2>2. venue = "futures" /\ ByQuote(r) => Bookings(r) = 0
    BY <1>1, <1>9 DEF Answered, Bookings, LegsFit
  <2>3. InFlight(r) /\ Complete(r, Bookings(r)) /\ why' = why
    BY <1>9 DEF Answered, Complete, InFlight, InFlightPc, Waiting
  <2> QED BY <2>1, <2>2, <2>3, EndFits
<1>10. CASE AnswerRaises(r)
  BY <1>10, EndFits DEF AnswerRaises, InFlight, InFlightPc, Waiting, BookType
<1>11. CASE TimesOut(r)
  BY <1>11, EndFits DEF TimesOut, InFlight, InFlightPc, Waiting, BookType
<1> QED BY <1>3, <1>4, <1>5, <1>6, <1>7, <1>8, <1>9, <1>10, <1>11 DEF Handles

\* A leg takes the state the venue gives it; a fill adds to what the stream reports.
LEMMA VenueFits ==
    ASSUME RequestInv, NEW r \in Reqs, NEW leg \in Legs, VenueTakes(r, leg) \/ VenueFills(r, leg)
    PROVE  RequestInv'
<1> USE DEF RequestInv
<1>1. PICK state \in {"rejected"} \cup Accepted :
        /\ legs' = [legs EXCEPT ![r][leg] = state] /\ reports' = Reported(r, state)
        /\ legs[r][leg] # "filled" /\ legs[r][leg] # "none"
        /\ legs[r][leg] \in Accepted => state \in Accepted
        /\ ack' = ack \/ (AwaitsLeg(r, leg) /\ ack' = [ack EXCEPT ![r] =
                             IF state \in {"resting", "expired"} THEN "empty" ELSE state])
  BY DEF VenueTakes, VenueFills, Outcome, Accepted
<1>2. UNCHANGED <<job, venue, pc, why, cache, pending, lock, booked>>
  BY DEF VenueTakes, VenueFills, reqVars
<1>3. Reported(r, state) \in [Reqs -> Nat] BY DEF Reported, BookType
<1>4. ack' \in [Reqs -> {"none", "rejected", "empty", "filled"}]
  BY <1>1 DEF Accepted, BookType
<1>5. legs' \in [Reqs -> [Legs -> {"none", "sent", "rejected"} \cup Accepted]]
  BY <1>1 DEF BookType, LegType
<1>6. BookType' BY <1>1, <1>2, <1>3, <1>4, <1>5 DEF BookType, LegType
<1>7. Concerns(r) BY <1>1, <1>2 DEF BookType, LegType, Concerns, Reported
<1>8. legs'[r] = [legs[r] EXCEPT ![leg] = state] /\ DOMAIN legs[r] = Legs
  BY <1>1 DEF BookType, LegType
<1>9. LegsFit(r)'
  <2>1. LegsFit(r) /\ pc'[r] = pc[r] /\ job' = job BY <1>2
  <2>2. CASE ack' = ack
    BY <1>1, <1>8, <2>1, <2>2 DEF LegsFit, ByQuote, Legs, Accepted
  <2>3. CASE ack' # ack
    <3>1. AwaitsLeg(r, leg) /\ ack'[r] = IF state \in {"resting", "expired"} THEN "empty" ELSE state
      BY <1>1, <2>3 DEF BookType
    <3>2. ack'[r] \in {"empty", "filled"} => state \in Accepted BY <3>1 DEF Accepted
    <3> QED BY <1>1, <1>8, <2>1, <3>1, <3>2 DEF LegsFit, ByQuote, Legs, Accepted, AwaitsLeg, Waiting
  <2> QED BY <2>2, <2>3
<1>10. FillsOf(r) \in Nat /\ FillsOf(r)' = IF state = "filled" THEN FillsOf(r) + 1 ELSE FillsOf(r)
  BY <1>1, <1>8 DEF FillsOf, FillOf, Legs
<1>11. reports'[r] = IF state = "filled" /\ venue = "futures" THEN reports[r] + 1 ELSE reports[r]
  BY <1>1 DEF Reported, BookType
<1>12. BooksFit(r)'
  BY <1>2, <1>10, <1>11 DEF BooksFit, Streamed, ByQuote, BookType
<1> QED BY <1>2, <1>6, <1>7, <1>9, <1>12, OthersFit

\* A report booked, or lost.
LEMMA StreamFits ==
    ASSUME RequestInv, NEW r \in Reqs, StreamReports(r)
    PROVE  RequestInv'
<1> USE DEF RequestInv
<1>1. PICK n \in {0, 1} : booked' = [booked EXCEPT ![r] = @ + n]
  BY DEF StreamReports
<1>2. /\ UNCHANGED <<job, venue, pc, why, ack, cache, pending, lock, legs>>
      /\ reports[r] > 0 /\ reports' = [reports EXCEPT ![r] = @ - 1]
  BY DEF StreamReports, reqVars
<1>3. booked' \in [Reqs -> Nat] /\ reports' \in [Reqs -> Nat] BY <1>1, <1>2 DEF BookType
<1>4. BookType' BY <1>2, <1>3 DEF BookType, LegType
<1>5. Concerns(r) BY <1>1, <1>2 DEF BookType, Concerns
<1>6. LegsFit(r)' BY <1>2 DEF LegsFit, ByQuote
<1>7. FillsOf(r) \in Nat /\ FillsOf(r)' = FillsOf(r) BY <1>2 DEF FillsOf, FillOf
<1>8. booked'[r] = booked[r] + n /\ reports'[r] = reports[r] - 1
  BY <1>1, <1>2 DEF BookType
<1>9. BooksFit(r)' BY <1>2, <1>7, <1>8 DEF BooksFit, Streamed, ByQuote, BookType
<1> QED BY <1>2, <1>4, <1>5, <1>6, <1>9, OthersFit

\* A crash forgets no fill and books none.
LEMMA CrashFits == ASSUME RequestInv, Crash PROVE RequestInv'
<1> USE DEF RequestInv
<1>1. BookType' BY DEF Crash, BookType, LegType, reqVars
<1>2. ASSUME NEW r \in Reqs PROVE LegsFit(r)' /\ BooksFit(r)'
  <2>1. /\ UNCHANGED <<job, venue, ack, legs, booked>> /\ reports'[r] = 0
        /\ pc'[r] = IF InFlight(r) THEN "lost" ELSE pc[r]
    BY DEF Crash, reqVars
  <2>2. LegsFit(r) /\ BooksFit(r) OBVIOUS
  <2>3. LegsFit(r)' BY <2>1, <2>2 DEF LegsFit, ByQuote
  <2>4. FillsOf(r) \in Nat /\ FillsOf(r)' = FillsOf(r) BY <2>1 DEF FillsOf, FillOf
  <2>5. InFlight(r) => pc[r] # "done" BY DEF InFlight, InFlightPc, Waiting
  <2>6. pc'[r] = "done" <=> pc[r] = "done" BY <2>1, <2>5
  <2>7. BooksFit(r)' BY <2>1, <2>2, <2>4, <2>6 DEF BooksFit, Streamed, ByQuote, BookType
  <2> QED BY <2>3, <2>7
<1> QED BY <1>1, <1>2

\* Legs and books fit in every state.
LEMMA RequestInvariant == PathSpec => []RequestInv
<1>1. ASSUME PathInit PROVE RequestInv
  <2>1. BookType BY <1>1 DEF PathInit, BookType, LegType
  <2>2. ASSUME NEW r \in Reqs PROVE LegsFit(r) /\ BooksFit(r)
    BY <1>1 DEF PathInit, LegsFit, BooksFit, Streamed, FillsOf, FillOf, Legs
  <2> QED BY <2>1, <2>2 DEF RequestInv
<1>2. ASSUME RequestInv, [PathNext]_pathVars PROVE RequestInv'
  <2>1. ASSUME UNCHANGED <<job, venue, pc, why, ack, pending, legs, reports, booked>>, BookType'
        PROVE  RequestInv'
    BY <1>2, <2>1 DEF RequestInv, LegsFit, BooksFit, Streamed, FillsOf, ByQuote
  <2>2. ASSUME NEW rails \in {"app", "strategy"}, LockExpires(rails) PROVE RequestInv'
    <3>1. BookType' BY <1>2, <2>2 DEF LockExpires, RequestInv, BookType, LegType, reqVars, venueVars
    <3> QED BY <2>1, <2>2, <3>1 DEF LockExpires, reqVars, venueVars
  <2>3. ASSUME NEW k \in Keys, CacheExpires(k) PROVE RequestInv'
    <3>1. BookType' BY <1>2, <2>3 DEF CacheExpires, RequestInv, BookType, LegType, reqVars, venueVars
    <3> QED BY <2>1, <2>3, <3>1 DEF CacheExpires, reqVars, venueVars
  <2>4. CASE UNCHANGED pathVars
    <3>1. BookType' BY <1>2, <2>4 DEF RequestInv, BookType, LegType, pathVars
    <3> QED BY <2>1, <2>4, <3>1 DEF pathVars
  <2> QED BY <1>2, <2>2, <2>3, <2>4, ArrivesFits, HandlesFits, VenueFits, StreamFits, CrashFits
          DEF PathNext
<1> QED BY <1>1, <1>2, PTL DEF PathSpec

\* An order the venue has accepted stays accepted.
LEMMA AcceptedStays ==
    ASSUME RequestInv, [PathNext]_pathVars, NEW r \in Reqs, NEW l \in Legs, legs[r][l] \in Accepted
    PROVE  legs'[r][l] \in Accepted
<1>1. ASSUME legs' = legs PROVE legs'[r][l] \in Accepted
  BY <1>1
<1>2. ASSUME NEW s \in Reqs, NEW k \in Legs, legs' = [legs EXCEPT ![s][k] = "sent"],
             legs[s][k] = "none"
      PROVE  legs'[r][l] \in Accepted
  BY <1>2 DEF Accepted, RequestInv, BookType, LegType
<1>3. ASSUME NEW s \in Reqs, Handles(s) PROVE legs'[r][l] \in Accepted
  <2>1. LegsFit(s) BY DEF RequestInv
  <2>2. legs' = legs \/ \E k \in Legs : legs[s][k] = "none" /\ legs' = [legs EXCEPT ![s][k] = "sent"]
    BY <1>3, <2>1 DEF Handles, PricingFails, SendByQuote, SendLimit, LimitRefused, MakerFallsThrough,
       MakerRests, Answered, AnswerRaises, TimesOut, Send, Abort, Complete, venueVars, LegsFit, Legs
  <2> QED BY <1>1, <1>2, <2>2
<1>4. ASSUME NEW s \in Reqs, NEW k \in Legs, VenueTakes(s, k) \/ VenueFills(s, k)
      PROVE  legs'[r][l] \in Accepted
  BY <1>4 DEF VenueTakes, VenueFills, Accepted, RequestInv, BookType, LegType
<1>5. ASSUME NEW s \in Reqs, Arrives(s) \/ StreamReports(s) PROVE legs' = legs
  BY <1>5 DEF Arrives, Cached, Refused, Accept, StreamReports, venueVars
<1>6. ASSUME \/ \E x \in {"app", "strategy"} : LockExpires(x)
             \/ \E k \in Keys : CacheExpires(k)
             \/ Crash \/ UNCHANGED pathVars
      PROVE  legs' = legs
  BY <1>6 DEF LockExpires, CacheExpires, Crash, venueVars, pathVars
<1> QED BY <1>1, <1>3, <1>4, <1>5, <1>6 DEF PathNext

\* A handler that ends well has an order the venue has accepted.
LEMMA CacheStep ==
    ASSUME RequestInv, CacheTellsTruth, [PathNext]_pathVars, NEW k \in Keys, cache'[k] = "submitted"
    PROVE  \E r \in Reqs, l \in Legs : job'[r].key = k /\ legs'[r][l] \in Accepted
<1> USE DEF RequestInv
<1>0. job' = job
  BY DEF PathNext, Arrives, Cached, Refused, Accept, Handles, PricingFails, SendByQuote, SendLimit,
         LimitRefused, MakerFallsThrough, MakerRests, Answered, AnswerRaises, TimesOut, Send, Abort,
         Complete, StreamReports, VenueTakes, VenueFills, LockExpires, CacheExpires, Crash, reqVars, pathVars
<1>1. CASE cache[k] = "submitted"
  <2>1. PICK r \in Reqs, l \in Legs : job[r].key = k /\ legs[r][l] \in Accepted
    BY <1>1 DEF CacheTellsTruth
  <2> QED BY <1>0, <2>1, AcceptedStays
<1>2. CASE cache[k] # "submitted"
  <2>1. ASSUME NEW r \in Reqs, Handles(r) PROVE
          \E l \in Legs : job'[r].key = k /\ legs'[r][l] \in Accepted
    <3>1. MakerRests(r) \/ Answered(r)
      BY <1>2, <2>1 DEF Handles, PricingFails, SendByQuote, SendLimit, LimitRefused, MakerFallsThrough,
                        AnswerRaises, TimesOut, Send, Abort
    <3>2. cache' = [cache EXCEPT ![job[r].key] = "submitted"] /\ legs' = legs
      BY <3>1 DEF MakerRests, Answered, Complete, venueVars
    <3>3. job[r].key = k BY <1>2, <3>2 DEF BookType
    <3>4. legs[r]["maker"] \in Accepted \/ legs[r]["taker"] \in Accepted
      BY <3>1 DEF MakerRests, Answered, LegsFit
    <3> QED BY <1>0, <3>2, <3>3, <3>4 DEF Legs
  <2>2. ASSUME NEW r \in Reqs, Arrives(r) PROVE FALSE
    BY <1>2, <2>2 DEF Arrives, Cached, Refused, Accept, BookType
  <2>3. ASSUME NEW x \in Keys, CacheExpires(x) PROVE FALSE
    BY <1>2, <2>3 DEF CacheExpires, BookType
  <2>4. ASSUME \/ \E r \in Reqs : StreamReports(r)
               \/ \E r \in Reqs, leg \in Legs : VenueTakes(r, leg) \/ VenueFills(r, leg)
               \/ \E x \in {"app", "strategy"} : LockExpires(x)
               \/ Crash \/ UNCHANGED pathVars
        PROVE  FALSE
    BY <1>2, <2>4 DEF StreamReports, VenueTakes, VenueFills, LockExpires, Crash, pathVars
  <2> QED BY <2>1, <2>2, <2>3, <2>4 DEF PathNext
<1> QED BY <1>1, <1>2

-----------------------------------------------------------------------------
\* On futures the answer and the user stream together never book a fill of an
\* order by quote twice: market_quote leaves the booking to on_order_update.
THEOREM FillsBookedOnce == PathSpec => []NoFillBookedTwice
<1>1. ASSUME RequestInv PROVE NoFillBookedTwice
  <2> SUFFICES ASSUME NEW r \in Reqs, venue = "futures", ByQuote(r)
               PROVE  booked[r] + reports[r] <= Fills(r)
    BY DEF NoFillBookedTwice
  <2>1. BooksFit(r) BY <1>1 DEF RequestInv
  <2> QED BY <2>1, FillsCount DEF BooksFit, Streamed
<1> QED BY <1>1, RequestInvariant, PTL

\* The cache never says "submitted" of a key whose order the venue did not take,
\* whatever times out, crashes or expires; and every variable keeps its type.
THEOREM CacheIsSound == PathSpec => []CacheSound
<1>1. PathInit => CacheTellsTruth
  BY DEF PathInit, CacheTellsTruth
<1>2. ASSUME RequestInv, CacheTellsTruth, [PathNext]_pathVars PROVE CacheTellsTruth'
  BY <1>2, CacheStep DEF CacheTellsTruth
<1>3. ASSUME RequestInv PROVE PathTypeOK
  <2>1. ASSUME NEW r \in Reqs PROVE reports[r] \in 0..2 /\ booked[r] \in 0..4
    <3>1. BooksFit(r) /\ FillsOf(r) \in 0..2 BY <1>3 DEF RequestInv, FillsOf, FillOf
    <3>2. reports[r] \in Nat /\ booked[r] \in Nat BY <1>3 DEF RequestInv, BookType
    <3> QED BY <3>1, <3>2 DEF BooksFit, Streamed
  <2>2. reports \in [Reqs -> 0..2] /\ booked \in [Reqs -> 0..4]
    BY <1>3, <2>1 DEF RequestInv, BookType
  <2> QED BY <1>3, <2>2 DEF RequestInv, BookType, LegType, PathTypeOK
<1> QED BY <1>1, <1>2, <1>3, RequestInvariant, PTL DEF PathSpec, CacheSound

-----------------------------------------------------------------------------
(* Admission: the rate, the locks and the caps.                             *)

\* What an order carries; those it has not seen are earlier ones.
Names == Strategies \cup {"unknown"}
Order == [rails : Rails, owner : Names, symbol : Traded, delta : Int, time : Nat,
          end : {"open", "over"}, unseen : SUBSET Nat]
Sent(q) == q \in Seq(Order) /\ \A i \in 1..Len(q) : q[i].unseen \subseteq 1..Len(q)
Lock  == [owner : Names \cup {"none"}, until : 0..(LastInstant + LockTtl)]

\* The types, and no order from the future.
Kept ==
    /\ clock \in 0..LastInstant /\ value \in [Traded -> Int] /\ Sent(sent)
    /\ limiter \in [Rails -> Seq(Nat)] /\ held \in [Rails -> [Traded -> Lock]] /\ drift \in Nat
    /\ \A i \in 1..Len(sent) : sent[i].time <= clock

\* Times in order, none later than now, none beyond the rate.
Orderly(q, now) ==
    /\ Len(q) <= MaxPerMin
    /\ \A k \in 1..Len(q) : q[k] <= now
    /\ \A k, l \in 1..Len(q) : k <= l => q[k] <= q[l]

\* The orders since an instant of the window are all counted by the limiter.
From(q, t)     == {k \in 1..Len(q) : q[k] >= t}
Since(q, r, t) == {i \in 1..Len(q) : q[i].rails = r /\ q[i].time >= t}
Rated ==
    \A r \in Rails :
        /\ Orderly(limiter[r], clock)
        /\ \A t \in Int : t >= clock - Minute
               => Cardinality(Since(sent, r, t)) <= Cardinality(From(limiter[r], t))

\* The lock of an order stands for its time, in the name of its strategy.
Locked ==
    \A i \in 1..Len(sent) :
        sent[i].time + LockTtl > clock
            => /\ held[sent[i].rails][sent[i].symbol].owner = sent[i].owner
               /\ held[sent[i].rails][sent[i].symbol].until >= sent[i].time + LockTtl

\* What the constants are.
LEMMA AdmissionConstants ==
    /\ MaxPerMin \in Nat /\ Minute \in Nat /\ LockTtl \in Nat /\ LastInstant \in Nat
    /\ SymbolCap \in Nat /\ TotalCap \in Nat /\ IsFiniteSet(Traded)
    /\ "unknown" \notin Strategies /\ "none" \notin Strategies /\ Quotes \subseteq Nat
BY AdmissionAssumption

\* The types of the orders in a sequence.
LEMMA SentOrders ==
    ASSUME NEW q, Sent(q)
    PROVE  /\ q \in Seq(Order) /\ DOMAIN q = 1..Len(q) /\ Len(q) \in Nat
           /\ \A i \in 1..Len(q) :
                /\ q[i] \in Order /\ q[i].rails \in Rails /\ q[i].symbol \in Traded /\ q[i].delta \in Int
                /\ q[i].time \in Nat /\ q[i].end \in {"open", "over"} /\ q[i].unseen \subseteq 1..Len(q)
<1>1. q \in Seq(Order) /\ DOMAIN q = 1..Len(q) /\ Len(q) \in Nat /\ \A i \in 1..Len(q) : q[i].unseen \subseteq 1..Len(q)
  BY DEF Sent
<1>2. \A i \in 1..Len(q) : q[i] \in Order
  BY <1>1
<1> QED BY <1>1, <1>2 DEF Order

\* A limiter counts no more than it holds.
LEMMA FromFinite ==
    ASSUME NEW q \in Seq(Nat), NEW t
    PROVE  IsFiniteSet(From(q, t)) /\ Cardinality(From(q, t)) \in Nat /\ Cardinality(From(q, t)) <= Len(q)
<1>1. Len(q) \in Nat
  OBVIOUS
<1>2. IsFiniteSet(1..Len(q)) /\ Cardinality(1..Len(q)) = Len(q)
  <2>1. 1 \in Int /\ Len(q) \in Int
    BY <1>1
  <2>2. /\ IsFiniteSet(1..Len(q))
        /\ Cardinality(1..Len(q)) = IF 1 > Len(q) THEN 0 ELSE Len(q) - 1 + 1
    BY <2>1, FS_Interval
  <2> QED BY <1>1, <2>2
<1>3. From(q, t) \subseteq 1..Len(q)
  BY DEF From
<1> HIDE DEF From
<1>4. IsFiniteSet(From(q, t)) /\ Cardinality(From(q, t)) <= Cardinality(1..Len(q))
  BY <1>2, <1>3, FS_Subset
<1> QED BY <1>2, <1>4, FS_CardinalityType

\* Dropping what is older than t from the left loses nothing since t.
LEMMA DropOld ==
    ASSUME NEW q \in Seq(Nat), NEW m \in 1..Len(q), NEW t \in Int, \A k \in 1..(m - 1) : q[k] < t
    PROVE  Cardinality(From(SubSeq(q, m, Len(q)), t)) = Cardinality(From(q, t))
<1> DEFINE w == SubSeq(q, m, Len(q))
           A == From(w, t)
           B == From(q, t)
           f == [k \in A |-> k + m - 1]
<1>1. /\ w \in Seq(Nat) /\ Len(w) = Len(q) - m + 1 /\ Len(q) \in Nat /\ m \in Nat
      /\ \A k \in 1..Len(w) : w[k] = q[k + m - 1]
  <2>1. m \in 1..(Len(q) + 1) /\ Len(q) \in (m - 1)..Len(q) /\ Len(q) \in Nat
    OBVIOUS
  <2>2. m..Len(q) \subseteq 1..Len(q)
    OBVIOUS
  <2>3. /\ w \in Seq(Nat) /\ Len(w) = IF m <= Len(q) THEN Len(q) - m + 1 ELSE 0
        /\ \A k \in 1..(Len(q) - m + 1) : w[k] = q[m + k - 1]
    BY <2>1, <2>2, SubSeqProperties
  <2> HIDE DEF w
  <2>4. Len(w) = Len(q) - m + 1
    BY <2>3
  <2>5. \A k \in 1..(Len(q) - m + 1) : m + k - 1 = k + m - 1
    BY <2>1
  <2> QED BY <2>1, <2>3, <2>4, <2>5
<1> HIDE DEF w
<1>2. ASSUME NEW k \in A PROVE k + m - 1 \in B
  <2>1. k \in 1..Len(w) /\ w[k] >= t
    BY <1>2 DEF From
  <2>2. k + m - 1 \in 1..Len(q) /\ w[k] = q[k + m - 1]
    BY <1>1, <2>1
  <2> QED BY <2>1, <2>2 DEF From
<1>3. ASSUME NEW l \in B PROVE l - m + 1 \in A /\ (l - m + 1) + m - 1 = l
  <2>1. l \in 1..Len(q) /\ q[l] >= t /\ q[l] \in Nat
    BY <1>3 DEF From
  <2>2. ~(l \in 1..(m - 1))
    <3>1. l \in 1..(m - 1) => q[l] < t
      OBVIOUS
    <3> QED BY <2>1, <3>1
  <2>3. l - m + 1 \in 1..Len(w) /\ (l - m + 1) + m - 1 = l
    BY <1>1, <2>1, <2>2
  <2>4. w[l - m + 1] = q[l]
    BY <1>1, <2>3
  <2> QED BY <2>1, <2>3, <2>4 DEF From
<1>4. A \subseteq Nat
  BY <1>1 DEF From
<1>5. IsFiniteSet(A)
  BY <1>1, FromFinite
<1> HIDE DEF A, B
<1>6. f \in Bijection(A, B)
  <2>1. f \in [A -> B]
    BY <1>2
  <2>2. \A k, l \in A : f[k] = f[l] => k = l
    BY <1>1, <1>4
  <2>3. \A l \in B : \E k \in A : f[k] = l
    BY <1>3
  <2> HIDE DEF f
  <2> QED BY <2>1, <2>2, <2>3, Fun_IsBij
<1>7. Cardinality(A) = Cardinality(B)
  <2> HIDE DEF f
  <2>1. ExistsBijection(A, B)
    BY <1>6 DEF ExistsBijection
  <2> QED BY <1>5, <2>1, FS_Bijection
<1> QED BY <1>7 DEF A, B, w

\* The limiter drops only what is older than the window.
LEMMA WindowKeeps ==
    ASSUME Kept, Rated, NEW r \in Rails
    PROVE  /\ Window(r) \in Seq(Nat) /\ Orderly(Window(r), clock)
           /\ \A t \in Int : t >= clock - Minute
                  => Cardinality(From(Window(r), t)) = Cardinality(From(limiter[r], t))
<1> DEFINE q == limiter[r]
           live == {k \in DOMAIN q : q[k] >= clock - Minute}
<1>1. q \in Seq(Nat) /\ Orderly(q, clock) /\ clock \in Nat /\ Len(q) \in Nat /\ DOMAIN q = 1..Len(q)
  BY AdmissionConstants DEF Kept, Rated
<1>2. Window(r) = IF live = {} THEN <<>> ELSE SubSeq(q, Min(live), Len(q))
  BY DEF Window
<1>3. CASE live = {}
  <2>1. Window(r) = <<>> /\ Window(r) \in Seq(Nat) /\ Len(Window(r)) = 0
    BY <1>2, <1>3
  <2>2. Orderly(Window(r), clock)
    BY <2>1, AdmissionConstants DEF Orderly
  <2>3. ASSUME NEW t \in Int, t >= clock - Minute PROVE From(Window(r), t) = From(q, t)
    <3>1. From(Window(r), t) = {}
      BY <2>1 DEF From
    <3>2. \A k \in 1..Len(q) : ~(q[k] >= clock - Minute) /\ q[k] \in Nat
      BY <1>1, <1>3
    <3>3. From(q, t) = {}
      BY <1>1, <2>3, <3>2, AdmissionConstants DEF From
    <3> QED BY <3>1, <3>3
  <2> HIDE DEF q
  <2> QED BY <2>1, <2>2, <2>3 DEF q
<1>4. CASE live # {}
  <2> DEFINE m == Min(live)
             w == SubSeq(q, m, Len(q))
  <2>1. m \in live /\ \A k \in live : m <= k
    <3>1. live \in SUBSET Nat
      BY <1>1
    <3> HIDE DEF live
    <3> QED BY <1>4, <3>1, MinNat
  <2>2. m \in 1..Len(q)
    BY <1>1, <2>1
  <2>3. ASSUME NEW k \in 1..(m - 1) PROVE q[k] < clock - Minute
    <3> HIDE DEF m
    <3>1. k \in 1..Len(q) /\ ~(m <= k)
      BY <1>1, <2>2
    <3>2. k \notin live
      BY <2>1, <3>1
    <3>3. ~(q[k] >= clock - Minute)
      BY <1>1, <3>1, <3>2
    <3>4. q[k] \in Nat
      BY <1>1, <3>1
    <3> QED BY <1>1, <3>3, <3>4, AdmissionConstants
  <2> HIDE DEF m, live
  <2>4. /\ w \in Seq(Nat) /\ Len(w) = Len(q) - m + 1 /\ \A k \in 1..Len(w) : w[k] = q[m + k - 1]
    <3>1. m \in 1..(Len(q) + 1) /\ Len(q) \in (m - 1)..Len(q) /\ m..Len(q) \subseteq 1..Len(q)
      BY <1>1, <2>2
    <3>2. /\ w \in Seq(Nat) /\ Len(w) = IF m <= Len(q) THEN Len(q) - m + 1 ELSE 0
          /\ \A k \in 1..(Len(q) - m + 1) : w[k] = q[m + k - 1]
      BY <1>1, <3>1, SubSeqProperties
    <3> HIDE DEF w
    <3>3. Len(w) = Len(q) - m + 1
      BY <2>2, <3>2
    <3> QED BY <3>2, <3>3
  <2> HIDE DEF w, q
  <2>5. Orderly(w, clock)
    <3>1. \A k \in 1..Len(w) : m + k - 1 \in 1..Len(q)
      BY <1>1, <2>2, <2>4
    <3>2. Len(w) <= MaxPerMin
      BY <1>1, <2>2, <2>4, AdmissionConstants DEF Orderly
    <3>3. \A k \in 1..Len(w) : w[k] <= clock
      BY <1>1, <2>4, <3>1 DEF Orderly
    <3>4. ASSUME NEW k \in 1..Len(w), NEW l \in 1..Len(w), k <= l PROVE w[k] <= w[l]
      <4>1. m + k - 1 <= m + l - 1
        BY <1>1, <2>2, <3>4
      <4> QED BY <1>1, <2>4, <3>1, <4>1 DEF Orderly
    <3> QED BY <3>2, <3>3, <3>4 DEF Orderly
  <2>6. ASSUME NEW t \in Int, t >= clock - Minute
        PROVE Cardinality(From(w, t)) = Cardinality(From(q, t))
    <3>1. ASSUME NEW k \in 1..(m - 1) PROVE q[k] < t
      <4>1. q[k] < clock - Minute /\ q[k] \in Nat
        BY <1>1, <2>2, <2>3
      <4> QED BY <1>1, <2>6, <4>1, AdmissionConstants
    <3> QED BY <1>1, <2>2, <3>1, DropOld DEF w
  <2>7. Window(r) = w
    BY <1>2, <1>4 DEF w, m
  <2> QED BY <2>4, <2>5, <2>6, <2>7 DEF q
<1> QED BY <1>3, <1>4


\* One more order is counted.
LEMMA CountsOne ==
    ASSUME NEW w \in Seq(Nat), NEW now \in Nat, Orderly(w, now), Len(w) < MaxPerMin
    PROVE  /\ Append(w, now) \in Seq(Nat) /\ Orderly(Append(w, now), now)
           /\ \A t \in Int : Cardinality(From(Append(w, now), t))
                               = Cardinality(From(w, t)) + (IF t <= now THEN 1 ELSE 0)
<1> DEFINE a == Append(w, now)
           n == Len(w) + 1
<1>1. /\ a \in Seq(Nat) /\ Len(a) = n /\ a[n] = now /\ Len(w) \in Nat
      /\ \A k \in 1..Len(w) : a[k] = w[k] /\ w[k] \in Nat
  BY AppendProperties
<1> HIDE DEF a
<1>2. Orderly(a, now)
  <2>1. \A k \in 1..n : k \in 1..Len(w) \/ k = n
    BY <1>1
  <2>2. Len(a) <= MaxPerMin
    BY <1>1, AdmissionConstants
  <2>3. \A k \in 1..n : a[k] <= now
    <3>1. \A k \in 1..Len(w) : w[k] <= now
      BY DEF Orderly
    <3> HIDE DEF n
    <3> QED BY <1>1, <2>1, <3>1
  <2>4. ASSUME NEW k \in 1..n, NEW l \in 1..n, k <= l PROVE a[k] <= a[l]
    <3>1. CASE l = n
      BY <1>1, <2>3, <3>1
    <3>2. CASE l \in 1..Len(w)
      <4>1. k \in 1..Len(w)
        BY <1>1, <2>1, <2>4, <3>2
      <4> QED BY <1>1, <2>4, <3>2, <4>1 DEF Orderly
    <3> QED BY <2>1, <3>1, <3>2
  <2> QED BY <1>1, <2>2, <2>3, <2>4 DEF Orderly
<1>3. ASSUME NEW t \in Int
      PROVE Cardinality(From(a, t)) = Cardinality(From(w, t)) + (IF t <= now THEN 1 ELSE 0)
  <2>1. IsFiniteSet(From(w, t)) /\ Cardinality(From(w, t)) \in Nat
    BY FromFinite
  <2>2. n \notin From(w, t)
    BY <1>1 DEF From
  <2>3. CASE t <= now
    <3>1. From(a, t) = From(w, t) \cup {n}
      BY <1>1, <2>3 DEF From
    <3>2. Cardinality(From(a, t)) = Cardinality(From(w, t)) + 1
      BY <2>1, <2>2, <3>1, FS_AddElement
    <3> QED BY <2>3, <3>2
  <2>4. CASE ~(t <= now)
    <3>1. From(a, t) = From(w, t)
      BY <1>1, <2>4 DEF From
    <3> QED BY <2>1, <2>4, <3>1
  <2> QED BY <2>3, <2>4
<1> QED BY <1>1, <1>2, <1>3 DEF a

\* The orders of some rails since an instant are finitely many.
LEMMA SinceFinite ==
    ASSUME NEW q \in Seq(Order), NEW r, NEW t
    PROVE  IsFiniteSet(Since(q, r, t)) /\ Cardinality(Since(q, r, t)) \in Nat
<1>1. 1 \in Int /\ Len(q) \in Int
  OBVIOUS
<1>2. IsFiniteSet(1..Len(q))
  BY <1>1, FS_Interval
<1>3. Since(q, r, t) \subseteq 1..Len(q)
  BY DEF Since
<1> QED BY <1>2, <1>3, FS_Subset, FS_CardinalityType

\* An order appended is one more of its rails.
LEMMA OneSince ==
    ASSUME NEW q \in Seq(Order), NEW o \in Order, NEW r \in Rails, NEW t \in Int
    PROVE  Cardinality(Since(Append(q, o), r, t))
             = Cardinality(Since(q, r, t)) + (IF o.rails = r /\ t <= o.time THEN 1 ELSE 0)
<1> DEFINE a == Append(q, o)
           n == Len(q) + 1
<1>1. /\ Len(a) = n /\ a[n] = o /\ Len(q) \in Nat /\ o.time \in Nat
      /\ \A k \in 1..Len(q) : a[k] = q[k]
  BY AppendProperties DEF Order
<1>2. IsFiniteSet(Since(q, r, t)) /\ Cardinality(Since(q, r, t)) \in Nat
  BY SinceFinite
<1> HIDE DEF a
<1>3. n \notin Since(q, r, t)
  BY <1>1 DEF Since
<1>4. CASE o.rails = r /\ t <= o.time
  <2>1. Since(a, r, t) = Since(q, r, t) \cup {n}
    BY <1>1, <1>4 DEF Since
  <2>2. Cardinality(Since(a, r, t)) = Cardinality(Since(q, r, t)) + 1
    BY <1>2, <1>3, <2>1, FS_AddElement
  <2> QED BY <1>4, <2>2 DEF a
<1>5. CASE ~(o.rails = r /\ t <= o.time)
  <2>1. Since(a, r, t) = Since(q, r, t)
    BY <1>1, <1>5 DEF Since
  <2> QED BY <1>2, <1>5, <2>1 DEF a
<1> QED BY <1>4, <1>5

\* The orders of one window are among those since its start.
LEMMA WindowSince ==
    ASSUME NEW q \in Seq(Order), NEW r \in Rails, NEW t \in Int, NEW u
    PROVE  Cardinality({i \in DOMAIN q : q[i].rails = r /\ q[i].time \in t..u}) <= Cardinality(Since(q, r, t))
<1> DEFINE W == {i \in DOMAIN q : q[i].rails = r /\ q[i].time \in t..u}
<1>1. W \subseteq Since(q, r, t)
  <2>1. DOMAIN q = 1..Len(q) /\ \A i \in 1..Len(q) : q[i] \in Order
    OBVIOUS
  <2>2. \A i \in 1..Len(q) : q[i].time \in Nat
    BY <2>1 DEF Order
  <2> QED BY <2>1, <2>2 DEF Since
<1>2. IsFiniteSet(Since(q, r, t))
  BY SinceFinite
<1> HIDE DEF W
<1>3. Cardinality(W) <= Cardinality(Since(q, r, t))
  BY <1>1, <1>2, FS_Subset
<1> QED BY <1>3 DEF W


\* The caps: what is in the snapshot, together with any of the open orders, passes
\* a cap by no more than prices have moved and what some check has missed.
Delta(q)        == [i \in 1..Len(q) |-> q[i].delta]
Bulk(q)         == [i \in 1..Len(q) |-> Worth(q[i].delta)]
OpenIn(q, T)    == {i \in 1..Len(q) : q[i].end = "open" /\ q[i].symbol \in T}
Missed(q, j, T) == {i \in q[j].unseen : q[i].symbol \in T}

\* A worth is within the cap, what prices have moved, and what one check missed;
\* a scope is bounded when that holds with any of its open orders filled.
WithinBy(x, q, d, T, cap) ==
    \/ x <= cap + d
    \/ \E j \in 1..Len(q) : x <= (cap + d) + SumOver(Bulk(q), Missed(q, j, T))
Bounded(v, q, d, T, cap) ==
    \A F \in SUBSET OpenIn(q, T) : WithinBy(Worth(SumOver(v, T) + SumOver(Delta(q), F)), q, d, T, cap)

\* The worth of an amount is its absolute value.
LEMMA WorthFacts ==
    /\ \A a \in Int : Worth(a) \in Nat /\ a <= Worth(a) /\ -a <= Worth(a)
    /\ \A a, b, c \in Int : b <= c /\ -b <= c => Worth(a + b) <= Worth(a) + c
BY DEF Worth

\* Sums over some of the orders.
LEMMA OrdersFinite ==
    ASSUME NEW q, Sent(q), NEW F, F \subseteq 1..Len(q)
    PROVE  /\ IsFiniteSet(F) /\ \A i \in F : Delta(q)[i] = q[i].delta /\ q[i].delta \in Int
           /\ \A i \in F : Bulk(q)[i] = Worth(q[i].delta) /\ Bulk(q)[i] \in Nat
           /\ SumOver(Delta(q), F) \in Int /\ SumOver(Bulk(q), F) \in Nat
<1>1. Len(q) \in Int /\ 1 \in Int /\ \A i \in 1..Len(q) : q[i] \in Order
  BY DEF Sent
<1>2. IsFiniteSet(F)
  BY <1>1, FS_Interval, FS_Subset
<1>3. \A i \in 1..Len(q) : q[i].delta \in Int
  BY <1>1 DEF Order
<1>4. \A i \in F : Delta(q)[i] = q[i].delta /\ q[i].delta \in Int
  BY <1>3 DEF Delta
<1>5. \A i \in F : Bulk(q)[i] = Worth(q[i].delta) /\ Bulk(q)[i] \in Nat
  BY <1>3, WorthFacts DEF Bulk
<1>6. SumOver(Delta(q), F) \in Int
  BY <1>2, <1>4, SumType
<1>7. SumOver(Bulk(q), F) \in Nat
  BY <1>2, <1>5, SumNat
<1> QED BY <1>2, <1>4, <1>5, <1>6, <1>7

\* Orders weigh no more than all that were missed.
LEMMA MissedWeigh ==
    ASSUME NEW q, Sent(q), NEW R, R \subseteq 1..Len(q), NEW F, F \subseteq R
    PROVE  /\ SumOver(Delta(q), F) <= SumOver(Bulk(q), R)
           /\ -SumOver(Delta(q), F) <= SumOver(Bulk(q), R)
<1>1. F \subseteq 1..Len(q)
  OBVIOUS
<1>2. /\ IsFiniteSet(F) /\ \A i \in F : Delta(q)[i] = q[i].delta /\ q[i].delta \in Int
      /\ \A i \in F : Bulk(q)[i] = Worth(q[i].delta) /\ Bulk(q)[i] \in Nat
      /\ SumOver(Delta(q), F) \in Int /\ SumOver(Bulk(q), F) \in Nat
  BY <1>1, OrdersFinite
<1>3. IsFiniteSet(R) /\ (\A i \in R : Bulk(q)[i] \in Nat) /\ SumOver(Bulk(q), R) \in Nat
  BY OrdersFinite
<1>4. \A i \in F : Delta(q)[i] \in Int /\ Bulk(q)[i] \in Nat
                   /\ Delta(q)[i] <= Bulk(q)[i] /\ -Delta(q)[i] <= Bulk(q)[i]
  BY <1>2, WorthFacts
<1>5. /\ SumOver(Delta(q), F) <= SumOver(Bulk(q), F)
      /\ -SumOver(Delta(q), F) <= SumOver(Bulk(q), F)
  BY <1>2, <1>4, SumWorth
<1>6. SumOver(Bulk(q), F) <= SumOver(Bulk(q), R)
  BY <1>3, SumMonotone
<1> QED BY <1>2, <1>3, <1>5, <1>6

\* Orders of the same weights make the same sums.
LEMMA SameSums ==
    ASSUME NEW q, Sent(q), NEW a, Sent(a), Len(q) <= Len(a),
           \A i \in 1..Len(q) : a[i].delta = q[i].delta,
           NEW F, F \subseteq 1..Len(q)
    PROVE  SumOver(Delta(a), F) = SumOver(Delta(q), F) /\ SumOver(Bulk(a), F) = SumOver(Bulk(q), F)
<1>1. Len(q) \in Nat /\ Len(a) \in Nat
  BY DEF Sent
<1>2. F \subseteq 1..Len(a)
  BY <1>1
<1>3. IsFiniteSet(F) /\ \A i \in F : Delta(q)[i] = q[i].delta /\ Bulk(q)[i] = Worth(q[i].delta)
  BY OrdersFinite
<1>4. \A i \in F : Delta(a)[i] = a[i].delta /\ Bulk(a)[i] = Worth(a[i].delta)
  BY <1>2, OrdersFinite
<1>5. \A i \in F : Delta(a)[i] = Delta(q)[i] /\ Bulk(a)[i] = Bulk(q)[i]
  BY <1>3, <1>4
<1> QED BY <1>3, <1>5, SumSame

\* What was within stays within, with more orders and more drift.
LEMMA StaysWithin ==
    ASSUME NEW q, Sent(q), NEW a, Sent(a), Len(q) <= Len(a),
           \A i \in 1..Len(q) : a[i].delta = q[i].delta /\ a[i].symbol = q[i].symbol /\ a[i].unseen = q[i].unseen,
           NEW d \in Nat, NEW e \in Nat, NEW cap \in Nat, NEW T,
           NEW x \in Nat, NEW y \in Nat, y + d <= x + e,
           WithinBy(x, q, d, T, cap)
    PROVE  WithinBy(y, a, e, T, cap)
<1>1. Len(q) \in Nat /\ Len(a) \in Nat
  BY DEF Sent
<1>2. CASE x <= cap + d
  <2>1. y <= cap + e
    BY <1>2
  <2> QED BY <2>1 DEF WithinBy
<1>3. CASE \E j \in 1..Len(q) : x <= (cap + d) + SumOver(Bulk(q), Missed(q, j, T))
  <2>1. PICK j \in 1..Len(q) : x <= (cap + d) + SumOver(Bulk(q), Missed(q, j, T))
    BY <1>3
  <2>2. q[j].unseen \subseteq 1..Len(q) /\ a[j].unseen = q[j].unseen /\ j \in 1..Len(a)
    BY <1>1, <2>1 DEF Sent
  <2>3. Missed(q, j, T) \subseteq 1..Len(q) /\ Missed(a, j, T) = Missed(q, j, T)
    BY <2>2 DEF Missed
  <2>4. SumOver(Bulk(a), Missed(q, j, T)) = SumOver(Bulk(q), Missed(q, j, T))
    BY <2>3, SameSums
  <2>5. SumOver(Bulk(q), Missed(q, j, T)) \in Nat
    BY <2>3, OrdersFinite
  <2> DEFINE m == SumOver(Bulk(q), Missed(q, j, T))
  <2>6. m \in Nat /\ x <= (cap + d) + m
    BY <2>1, <2>5
  <2> HIDE DEF m
  <2>7. y <= (cap + e) + m
    BY <2>6
  <2>8. y <= (cap + e) + SumOver(Bulk(a), Missed(a, j, T))
    BY <2>3, <2>4, <2>7 DEF m
  <2> QED BY <2>2, <2>8 DEF WithinBy
<1> QED BY <1>2, <1>3 DEF WithinBy

\* A sum over the symbols of a scope.
LEMMA ScopeSum ==
    ASSUME NEW v \in [Traded -> Int], NEW T, T \subseteq Traded
    PROVE  IsFiniteSet(T) /\ SumOver(v, T) \in Int
<1>1. IsFiniteSet(T)
  BY AdmissionConstants, FS_Subset
<1> QED BY <1>1, SumType

\* An accepted order has missed what is open, and its own check has room for it.
LEMMA AcceptBounded ==
    ASSUME NEW v \in [Traded -> Int], NEW q, Sent(q), NEW o \in Order, Sent(Append(q, o)),
           o.unseen = {i \in 1..Len(q) : q[i].end = "open"},
           NEW d \in Nat, NEW cap \in Nat, NEW T, T \subseteq Traded,
           o.symbol \in T => Worth(SumOver(v, T) + o.delta) <= cap,
           Bounded(v, q, d, T, cap)
    PROVE  Bounded(v, Append(q, o), d, T, cap)
<1> DEFINE a == Append(q, o)
           n == Len(q) + 1
           V == SumOver(v, T)
<1>1. /\ Sent(a) /\ Len(a) = n /\ a[n] = o /\ Len(q) \in Nat /\ \A k \in 1..Len(q) : a[k] = q[k]
  BY AppendProperties DEF Sent
<1>2. V \in Int /\ o.delta \in Int
  BY ScopeSum DEF Order
<1> HIDE DEF a
<1>3. SUFFICES ASSUME NEW F \in SUBSET OpenIn(a, T)
               PROVE  WithinBy(Worth(V + SumOver(Delta(a), F)), a, d, T, cap)
  BY DEF Bounded, a, V
<1> HIDE DEF V
<1>4. F \subseteq 1..n
  BY <1>1 DEF OpenIn
<1>5. IsFiniteSet(F) /\ SumOver(Delta(a), F) \in Int
  BY <1>1, <1>4, OrdersFinite
<1>6. CASE n \notin F
  <2>1. F \subseteq 1..Len(q)
    BY <1>1, <1>4, <1>6
  <2>2. F \in SUBSET OpenIn(q, T)
    BY <1>1, <2>1 DEF OpenIn
  <2>3. SumOver(Delta(a), F) = SumOver(Delta(q), F) /\ SumOver(Delta(q), F) \in Int
    BY <1>1, <2>1, SameSums, OrdersFinite
  <2> DEFINE x == Worth(V + SumOver(Delta(q), F))
  <2>4. WithinBy(x, q, d, T, cap)
    BY <2>2 DEF Bounded, V
  <2>5. x \in Nat
    <3>1. V + SumOver(Delta(q), F) \in Int
      BY <1>2, <2>3
    <3> QED BY <3>1, WorthFacts
  <2> HIDE DEF x
  <2>6. x + d <= x + d /\ Len(q) <= Len(a)
    BY <1>1, <2>5
  <2>7. WithinBy(x, a, d, T, cap)
    BY <1>1, <2>4, <2>5, <2>6, StaysWithin
  <2> QED BY <2>3, <2>7 DEF x
<1>7. CASE n \in F
  <2> DEFINE G == F \ {n}
             R == Missed(a, n, T)
             g == SumOver(Delta(a), G)
             m == SumOver(Bulk(a), R)
  <2>1. o.symbol \in T
    BY <1>1, <1>7 DEF OpenIn
  <2>2. G \subseteq 1..Len(q) /\ G \subseteq R /\ R \subseteq 1..Len(a)
    <3>1. G \subseteq 1..Len(q)
      BY <1>1, <1>4
    <3>2. \A i \in G : a[i].end = "open" /\ a[i].symbol \in T /\ a[i] = q[i]
      BY <1>1, <3>1 DEF OpenIn
    <3>3. R = {i \in o.unseen : a[i].symbol \in T}
      BY <1>1 DEF Missed
    <3>4. o.unseen \subseteq 1..Len(a)
      BY <1>1
    <3> HIDE DEF R
    <3> QED BY <3>1, <3>2, <3>3, <3>4
  <2>3. g \in Int /\ m \in Nat /\ g <= m /\ -g <= m
    <3>1. G \subseteq 1..Len(a)
      BY <2>2
    <3> HIDE DEF G, R
    <3> QED BY <1>1, <2>2, <3>1, MissedWeigh, OrdersFinite
  <2>4. SumOver(Delta(a), F) = o.delta + g
    <3>1. \A i \in F : Delta(a)[i] = a[i].delta /\ Delta(a)[i] \in Int
      BY <1>1, <1>4, OrdersFinite
    <3> DEFINE D == Delta(a)
    <3>2. IsFiniteSet(F) /\ n \in F /\ \A i \in F : D[i] \in Int
      BY <1>5, <1>7, <3>1
    <3> HIDE DEF D, n
    <3>3. SumOver(D, F) = D[n] + SumOver(D, F \ {n})
      BY <3>2, SumSplit
    <3>4. D[n] = o.delta
      BY <1>1, <3>1, <3>2 DEF D
    <3> QED BY <3>3, <3>4 DEF D
  <2>5. Worth(V + o.delta) <= cap /\ V + o.delta \in Int /\ Worth(V + o.delta) \in Nat
    <3>1. Worth(V + o.delta) <= cap
      BY <2>1 DEF V
    <3>2. V + o.delta \in Int
      BY <1>2
    <3> QED BY <3>1, <3>2, WorthFacts
  <2> HIDE DEF g, m
  <2>6. Worth((V + o.delta) + g) <= Worth(V + o.delta) + m
    <3> DEFINE p == V + o.delta
    <3>1. p \in Int /\ m \in Int
      BY <2>3, <2>5
    <3> HIDE DEF p
    <3>2. Worth(p + g) <= Worth(p) + m
      BY <2>3, <3>1, WorthFacts
    <3> QED BY <3>2 DEF p
  <2>7. V + (o.delta + g) = (V + o.delta) + g
    BY <1>2, <2>3
  <2>8. (V + o.delta) + g \in Int
    BY <2>3, <2>5
  <2>9. Worth((V + o.delta) + g) \in Nat
    BY <2>8, WorthFacts
  <2>10. Worth((V + o.delta) + g) <= (cap + d) + m
    BY <2>3, <2>5, <2>6, <2>9
  <2>11. Worth(V + SumOver(Delta(a), F)) <= (cap + d) + SumOver(Bulk(a), Missed(a, n, T))
    BY <2>4, <2>7, <2>10 DEF m
  <2>12. n \in 1..Len(a)
    BY <1>1
  <2> QED BY <2>11, <2>12 DEF WithinBy
<1> QED BY <1>6, <1>7


\* A concluded order: its worth moves from the open orders to the snapshot, or goes.
LEMMA ConcludeBounded ==
    ASSUME NEW v \in [Traded -> Int], NEW w \in [Traded -> Int], NEW q, Sent(q), NEW a, Sent(a), Len(a) = Len(q),
           NEW i \in 1..Len(q), q[i].end = "open", a[i].end # "open",
           \A k \in 1..Len(q) : a[k].delta = q[k].delta /\ a[k].symbol = q[k].symbol /\ a[k].unseen = q[k].unseen,
           \A k \in 1..Len(q) : k # i => a[k].end = q[k].end,
           \/ w = v
           \/ w[q[i].symbol] = v[q[i].symbol] + q[i].delta /\ \A s \in Traded : s # q[i].symbol => w[s] = v[s],
           NEW d \in Nat, NEW cap \in Nat, NEW T, T \subseteq Traded,
           Bounded(v, q, d, T, cap)
    PROVE  Bounded(w, a, d, T, cap)
<1>1. SUFFICES ASSUME NEW F \in SUBSET OpenIn(a, T)
               PROVE  WithinBy(Worth(SumOver(w, T) + SumOver(Delta(a), F)), a, d, T, cap)
  BY DEF Bounded
<1> DEFINE V == SumOver(v, T)
           s == q[i].symbol
           f == SumOver(Delta(q), F)
<1>2. F \subseteq 1..Len(q) /\ F \subseteq OpenIn(q, T) /\ i \notin F
  BY DEF OpenIn
<1>3. /\ SumOver(Delta(a), F) = f /\ f \in Int /\ IsFiniteSet(F)
      /\ \A k \in F : Delta(q)[k] = q[k].delta /\ q[k].delta \in Int
  <2>1. Len(q) \in Nat
    BY DEF Sent
  <2>2. Len(q) <= Len(a)
    BY <2>1
  <2> HIDE DEF f
  <2>3. SumOver(Delta(a), F) = SumOver(Delta(q), F)
    BY <1>2, <2>2, SameSums
  <2> QED BY <1>2, <2>3, OrdersFinite DEF f
<1>4. V \in Int /\ SumOver(w, T) \in Int /\ IsFiniteSet(T) /\ q[i].delta \in Int /\ s \in Traded
  <2>1. q[i] \in Order
    BY DEF Sent
  <2> QED BY <2>1, ScopeSum DEF Order
\* The same sum, of orders that were open before.
<1>5. \E E \in SUBSET OpenIn(q, T) : SumOver(w, T) + f = V + SumOver(Delta(q), E) /\ SumOver(Delta(q), E) \in Int
  <2>1. CASE SumOver(w, T) = V
    <3>1. SumOver(w, T) + f = V + SumOver(Delta(q), F) /\ SumOver(Delta(q), F) \in Int
      BY <1>3, <2>1
    <3> QED BY <1>2, <3>1
  <2>2. CASE w # v /\ s \in T
    <3>1. \A t \in T : v[t] \in Int /\ w[t] \in Int
      OBVIOUS
    <3>2. \A t \in T : t # s => v[t] = w[t]
      BY <2>2
    <3>3. SumOver(w, T) = V + (w[s] - v[s])
      <4> HIDE DEF s, f
      <4>1. s \in T /\ IsFiniteSet(T)
        BY <1>4, <2>2
      <4>2. SumOver(w, T) = SumOver(v, T) + (w[s] - v[s])
        BY <3>1, <3>2, <4>1, SumChange
      <4> QED BY <4>2
    <3>4. w[s] = v[s] + q[i].delta /\ v[s] \in Int
      BY <1>4, <2>2
    <3> DEFINE E == F \cup {i}
               e == q[i].delta
    <3>5. E \in SUBSET OpenIn(q, T) /\ E \subseteq 1..Len(q)
      <4>1. i \in OpenIn(q, T)
        BY <2>2 DEF OpenIn
      <4> QED BY <1>2, <4>1
    <3>6. SumOver(Delta(q), E) = f + e /\ SumOver(Delta(q), E) \in Int
      <4>1. (\A k \in E : Delta(q)[k] = q[k].delta /\ q[k].delta \in Int) /\ SumOver(Delta(q), E) \in Int
        BY <3>5, OrdersFinite
      <4>2. SumOver(Delta(q), F \cup {i}) = SumOver(Delta(q), F) + Delta(q)[i]
        BY <1>2, <1>3, <4>1, SumAdd
      <4> QED BY <4>1, <4>2
    <3> HIDE DEF V, f, s, E
    <3>7. SumOver(w, T) = V + ((v[s] + e) - v[s])
      BY <3>3, <3>4
    <3>8. V \in Int /\ f \in Int /\ e \in Int /\ v[s] \in Int
      BY <1>3, <1>4, <3>4
    <3>9. (V + ((v[s] + e) - v[s])) + f = V + (f + e)
      <4> HIDE DEF e
      <4> QED BY <3>8
    <3>10. SumOver(w, T) + f = V + SumOver(Delta(q), E)
      BY <3>6, <3>7, <3>9, Zenon
    <3> QED BY <3>5, <3>6, <3>10
  <2>3. CASE w # v /\ s \notin T
    <3>1. \A t \in T : w[t] = v[t]
      BY <2>3
    <3>2. SumOver(w, T) = V
      BY <1>4, <3>1, SumSame
    <3> QED BY <2>1, <3>2
  <2>4. CASE w = v
    BY <2>1, <2>4
  <2> QED BY <2>2, <2>3, <2>4
<1>6. PICK E \in SUBSET OpenIn(q, T) : SumOver(w, T) + f = V + SumOver(Delta(q), E) /\ SumOver(Delta(q), E) \in Int
  BY <1>5
<1> DEFINE x == Worth(V + SumOver(Delta(q), E))
<1>7. WithinBy(x, q, d, T, cap)
  BY <1>6 DEF Bounded
<1>8. V + SumOver(Delta(q), E) \in Int
  <2> HIDE DEF V
  <2> QED BY <1>4, <1>6
<1>9. x \in Nat
  BY <1>8, WorthFacts
<1> HIDE DEF x, V, f
<1>10. x + d <= x + d
  BY <1>9
<1>11. Len(q) <= Len(a)
  <2>1. Len(q) \in Nat
    BY DEF Sent
  <2> QED BY <2>1
<1>12. WithinBy(x, a, d, T, cap)
  BY <1>7, <1>9, <1>10, <1>11, StaysWithin
<1> QED BY <1>3, <1>6, <1>12, Zenon DEF x

\* A new price moves the sum of a scope by one at most.
LEMMA RepriceBounded ==
    ASSUME NEW v \in [Traded -> Int], NEW w \in [Traded -> Int], NEW q, Sent(q),
           NEW s \in Traded, NEW c \in {-1, 1}, w[s] = v[s] + c, \A t \in Traded : t # s => w[t] = v[t],
           NEW d \in Nat, NEW cap \in Nat, NEW T, T \subseteq Traded,
           Bounded(v, q, d, T, cap)
    PROVE  Bounded(w, q, d + 1, T, cap)
<1> DEFINE V == SumOver(v, T)
           W == SumOver(w, T)
<1>1. V \in Int /\ W \in Int /\ IsFiniteSet(T)
  BY ScopeSum
<1>2. W - V <= 1 /\ -(W - V) <= 1
  <2>1. \A t \in T : v[t] \in Int /\ w[t] \in Int
    OBVIOUS
  <2>2. CASE s \in T
    <3>1. \A t \in T : t # s => v[t] = w[t]
      OBVIOUS
    <3>2. W = V + (w[s] - v[s])
      BY <1>1, <2>1, <2>2, <3>1, SumChange
    <3>3. v[s] \in Int
      OBVIOUS
    <3> HIDE DEF V, W
    <3> QED BY <1>1, <3>2, <3>3
  <2>3. CASE s \notin T
    <3>1. \A t \in T : w[t] = v[t]
      BY <2>3
    <3>2. W = V
      BY <1>1, <3>1, SumSame
    <3> HIDE DEF V, W
    <3> QED BY <1>1, <3>2
  <2> QED BY <2>2, <2>3
<1>3. SUFFICES ASSUME NEW F \in SUBSET OpenIn(q, T)
               PROVE  WithinBy(Worth(W + SumOver(Delta(q), F)), q, d + 1, T, cap)
  BY DEF Bounded
<1> DEFINE f == SumOver(Delta(q), F)
           x == Worth(V + f)
           y == Worth(W + f)
<1>4. f \in Int
  <2>1. F \subseteq 1..Len(q)
    BY DEF OpenIn
  <2> QED BY <2>1, OrdersFinite
<1>5. WithinBy(x, q, d, T, cap)
  BY DEF Bounded
<1> HIDE DEF V, W, f
<1>6. V + f \in Int /\ W + f \in Int /\ W - V \in Int /\ W + f = (V + f) + (W - V)
  BY <1>1, <1>4
<1>7. x \in Nat /\ y \in Nat
  BY <1>6, WorthFacts
<1>8. y <= x + 1
  <2> DEFINE p == V + f
             z == W - V
  <2>1. p \in Int /\ z \in Int /\ 1 \in Int /\ z <= 1 /\ -z <= 1 /\ W + f = p + z
    BY <1>2, <1>6
  <2> HIDE DEF p, z
  <2>2. Worth(p + z) <= Worth(p) + 1
    BY <2>1, WorthFacts
  <2> QED BY <2>1, <2>2 DEF p
<1> HIDE DEF x, y
<1>9. Len(q) <= Len(q) /\ d + 1 \in Nat /\ y + d <= x + (d + 1)
  BY <1>7, <1>8 DEF Sent
<1>10. WithinBy(y, q, d + 1, T, cap)
  BY <1>5, <1>7, <1>8, <1>9, StaysWithin
<1> QED BY <1>10 DEF y, W, f


\* Every scope that has a cap is bounded by it.
Caps ==
    /\ \A s \in Traded : Bounded(value, sent, drift, {s}, SymbolCap)
    /\ Bounded(value, sent, drift, Traded, TotalCap)

\* The inductive invariant.
AdmissionSafe == Kept /\ Rated /\ Locked /\ RateKept /\ LockExcludes /\ Caps

\* It holds when the process starts: no position, no order, no lock.
LEMMA AdmissionBegins == ASSUME AdmitInit PROVE AdmissionSafe
<1> USE DEF AdmitInit
<1>1. Kept
  <2>1. <<>> \in Seq(Order) /\ <<>> \in Seq(Nat) /\ Len(<<>>) = 0
    OBVIOUS
  <2>2. Unheld \in Lock
    BY AdmissionConstants DEF Lock, Unheld
  <2> QED BY <2>1, <2>2, AdmissionConstants DEF Kept, Sent
<1>2. sent = <<>> /\ DOMAIN sent = {} /\ Len(sent) = 0 /\ clock = 0
  OBVIOUS
<1>3. Rated
  <2>1. \A r \in Rails : limiter[r] = <<>> /\ Orderly(limiter[r], clock)
    BY AdmissionConstants DEF Orderly
  <2>2. \A r \in Rails, t \in Int : Since(sent, r, t) = {} /\ From(limiter[r], t) = {}
    BY <1>2, <2>1 DEF Since, From
  <2>3. Cardinality({}) <= Cardinality({})
    BY FS_EmptySet
  <2> QED BY <2>1, <2>2, <2>3 DEF Rated
<1>4. Locked /\ LockExcludes
  BY <1>2 DEF Locked, LockExcludes
<1>5. RateKept
  <2>1. \A r \in Rails, start \in 0..clock :
          {i \in DOMAIN sent : sent[i].rails = r /\ sent[i].time \in start..(start + Minute)} = {}
    BY <1>2
  <2>2. Cardinality({}) <= MaxPerMin
    BY FS_EmptySet, AdmissionConstants
  <2> QED BY <2>1, <2>2 DEF RateKept
<1>6. Caps
  <2>1. ASSUME NEW T, T \subseteq Traded, NEW cap \in Nat PROVE Bounded(value, sent, drift, T, cap)
    <3>1. \A F \in SUBSET OpenIn(sent, T) : F = {}
      BY <1>2 DEF OpenIn
    <3>2. IsFiniteSet(T) /\ \A s \in T : value[s] = 0
      BY <2>1, AdmissionConstants, FS_Subset
    <3>3. Cardinality(T) \in Nat
      BY <3>2, FS_CardinalityType
    <3>4. SumOver(value, T) = 0 * Cardinality(T)
      BY <3>2, SumConst
    <3>5. SumOver(value, T) + SumOver(Delta(sent), {}) = 0
      BY <3>3, <3>4, SumEmpty
    <3>6. Worth(0) <= cap + drift
      BY DEF Worth
    <3>7. WithinBy(Worth(SumOver(value, T) + SumOver(Delta(sent), {})), sent, drift, T, cap)
      BY <3>5, <3>6 DEF WithinBy
    <3> QED BY <3>1, <3>7 DEF Bounded
  <2>2. \A s \in Traded : {s} \subseteq Traded
    OBVIOUS
  <2> QED BY <2>1, <2>2, AdmissionConstants DEF Caps
<1> QED BY <1>1, <1>3, <1>4, <1>5, <1>6 DEF AdmissionSafe

\* What a counted check does to the limiter.
LEMMA CountedRate ==
    ASSUME Kept, Rated, NEW r \in Rails, RateAllows(r), limiter' = Counted(r)
    PROVE  /\ limiter' \in [Rails -> Seq(Nat)]
           /\ \A x \in Rails : Orderly(limiter'[x], clock)
           /\ \A x \in Rails, t \in Int : t >= clock - Minute
                => Cardinality(From(limiter'[x], t)) = Cardinality(From(limiter[x], t))
                                                        + (IF x = r /\ t <= clock THEN 1 ELSE 0)
<1> DEFINE w == Window(r)
<1>1. /\ w \in Seq(Nat) /\ Orderly(w, clock) /\ Len(w) < MaxPerMin /\ clock \in Nat
      /\ \A t \in Int : t >= clock - Minute => Cardinality(From(w, t)) = Cardinality(From(limiter[r], t))
  <2>1. clock \in Nat
    BY AdmissionConstants DEF Kept
  <2> QED BY <2>1, WindowKeeps DEF RateAllows
<1>2. limiter \in [Rails -> Seq(Nat)] /\ limiter' = [limiter EXCEPT ![r] = Append(w, clock)]
  BY DEF Kept, Counted
<1> HIDE DEF w
<1>3. /\ Append(w, clock) \in Seq(Nat) /\ Orderly(Append(w, clock), clock)
      /\ \A t \in Int : Cardinality(From(Append(w, clock), t))
                          = Cardinality(From(w, t)) + (IF t <= clock THEN 1 ELSE 0)
  BY <1>1, CountsOne
<1>4. limiter' \in [Rails -> Seq(Nat)] /\ limiter'[r] = Append(w, clock) /\ \A x \in Rails : x # r => limiter'[x] = limiter[x]
  BY <1>2, <1>3
<1>5. \A x \in Rails : Orderly(limiter'[x], clock)
  BY <1>3, <1>4 DEF Rated
<1>6. ASSUME NEW x \in Rails, NEW t \in Int, t >= clock - Minute
      PROVE Cardinality(From(limiter'[x], t)) = Cardinality(From(limiter[x], t))
                                                 + (IF x = r /\ t <= clock THEN 1 ELSE 0)
  <2>1. CASE x = r
    BY <1>1, <1>3, <1>4, <1>6, <2>1
  <2>2. CASE x # r
    <3>1. limiter'[x] = limiter[x] /\ limiter[x] \in Seq(Nat)
      BY <1>2, <1>4, <2>2
    <3>2. Cardinality(From(limiter[x], t)) \in Nat
      BY <3>1, FromFinite
    <3> QED BY <2>2, <3>1, <3>2
  <2> QED BY <2>1, <2>2
<1> QED BY <1>4, <1>5, <1>6

\* An accepted order is counted, takes the lock and has room in the caps.
LEMMA AcceptSafe ==
    ASSUME AdmissionSafe, NEW r \in Rails, NEW owner \in Owners[r], NEW s \in Traded, NEW delta \in Int,
           Within(s, delta), Accepts(r, owner, s, delta)
    PROVE  AdmissionSafe'
<1> DEFINE o == [rails |-> r, owner |-> owner, symbol |-> s, delta |-> delta,
                 time |-> clock, end |-> "open", unseen |-> Open]
           n == Len(sent) + 1
<1> USE DEF AdmissionSafe
<1>1. /\ clock \in 0..LastInstant /\ clock \in Nat /\ value \in [Traded -> Int] /\ sent \in Seq(Order)
      /\ Len(sent) \in Nat /\ drift \in Nat /\ DOMAIN sent = 1..Len(sent) /\ Sent(sent)
      /\ held \in [Rails -> [Traded -> Lock]]
      /\ \A i \in 1..Len(sent) : sent[i] \in Order /\ sent[i].time <= clock
  BY AdmissionConstants DEF Kept, Sent
<1>2. /\ sent' = Append(sent, o) /\ limiter' = Counted(r) /\ RateAllows(r) /\ MayHold(r, s, owner)
      /\ held' = Held(r, s, owner) /\ clock' = clock /\ value' = value /\ drift' = drift
  BY DEF Accepts
<1>3. owner \in Names /\ (owner \in Strategies \/ owner = "unknown")
  BY DEF Owners, Names, Rails
<1>4. o \in Order /\ o.unseen = {i \in 1..Len(sent) : sent[i].end = "open"} /\ o.unseen \subseteq 1..Len(sent)
  <2>1. Open = {i \in 1..Len(sent) : sent[i].end = "open"}
    BY <1>1 DEF Open
  <2>2. Open \subseteq Nat
    BY <2>1
  <2> QED BY <1>1, <1>3, <2>1, <2>2 DEF Order
<1>5. o.rails = r /\ o.owner = owner /\ o.symbol = s /\ o.delta = delta /\ o.time = clock /\ o.end = "open"
  OBVIOUS
<1> HIDE DEF o
<1>6. /\ sent' \in Seq(Order) /\ Len(sent') = n /\ sent'[n] = o /\ DOMAIN sent' = 1..n
      /\ \A i \in 1..Len(sent) : sent'[i] = sent[i]
      /\ \A i \in 1..n : i \in 1..Len(sent) \/ i = n
  BY <1>1, <1>2, <1>4, AppendProperties
<1>7. Sent(sent')
  BY <1>1, <1>4, <1>6 DEF Sent
<1>8. /\ limiter' \in [Rails -> Seq(Nat)]
      /\ \A x \in Rails : Orderly(limiter'[x], clock)
      /\ \A x \in Rails, t \in Int : t >= clock - Minute
           => Cardinality(From(limiter'[x], t)) = Cardinality(From(limiter[x], t))
                                                   + (IF x = r /\ t <= clock THEN 1 ELSE 0)
  BY <1>2, CountedRate
<1>9. /\ held' \in [Rails -> [Traded -> Lock]]
      /\ held'[r][s] = [owner |-> owner, until |-> clock + LockTtl]
      /\ \A x \in Rails, y \in Traded : x # r \/ y # s => held'[x][y] = held[x][y]
  <2>1. [owner |-> owner, until |-> clock + LockTtl] \in Lock
    BY <1>1, <1>3, AdmissionConstants DEF Lock
  <2> QED BY <1>1, <1>2, <2>1 DEF Held
<1>10. Kept'
  BY <1>1, <1>2, <1>4, <1>5, <1>6, <1>7, <1>8, <1>9 DEF Kept
<1>11. ASSUME NEW x \in Rails, NEW t \in Int, t >= clock - Minute
       PROVE Cardinality(Since(sent', x, t)) <= Cardinality(From(limiter'[x], t))
  <2>1. Cardinality(Since(sent', x, t)) = Cardinality(Since(sent, x, t)) + (IF r = x /\ t <= clock THEN 1 ELSE 0)
    BY <1>1, <1>2, <1>4, <1>5, OneSince
  <2>2. Cardinality(Since(sent, x, t)) <= Cardinality(From(limiter[x], t))
    BY <1>11 DEF Rated
  <2>3. Cardinality(Since(sent, x, t)) \in Nat /\ Cardinality(From(limiter[x], t)) \in Nat
    <3>1. limiter[x] \in Seq(Nat)
      BY DEF Kept
    <3> QED BY <1>1, <3>1, SinceFinite, FromFinite
  <2>4. Cardinality(From(limiter'[x], t)) = Cardinality(From(limiter[x], t)) + (IF x = r /\ t <= clock THEN 1 ELSE 0)
    BY <1>8, <1>11
  <2> QED BY <2>1, <2>2, <2>3, <2>4
<1>12. Rated'
  BY <1>2, <1>8, <1>11 DEF Rated
<1>13. RateKept'
  <2> SUFFICES ASSUME NEW x \in Rails, NEW start \in 0..clock
               PROVE Cardinality({i \in DOMAIN sent' : sent'[i].rails = x /\ sent'[i].time \in start..(start + Minute)})
                       <= MaxPerMin
    BY <1>2 DEF RateKept
  <2> DEFINE A == {i \in DOMAIN sent : sent[i].rails = x /\ sent[i].time \in start..(start + Minute)}
             B == {i \in DOMAIN sent' : sent'[i].rails = x /\ sent'[i].time \in start..(start + Minute)}
  <2>1. CASE x = r /\ start >= clock - Minute
    <3>1. Cardinality(B) <= Cardinality(Since(sent', x, start))
      <4> DEFINE now == sent'
      <4>1. now \in Seq(Order) /\ start \in Int
        BY <1>6
      <4> HIDE DEF now
      <4>2. Cardinality({i \in DOMAIN now : now[i].rails = x /\ now[i].time \in start..(start + Minute)})
              <= Cardinality(Since(now, x, start))
        BY <4>1, WindowSince
      <4> QED BY <4>2 DEF now
    <3>2. Cardinality(Since(sent', x, start)) <= Cardinality(From(limiter'[x], start))
      BY <1>11, <2>1
    <3>3. /\ Cardinality(From(limiter'[x], start)) <= Len(limiter'[x]) /\ Len(limiter'[x]) <= MaxPerMin
          /\ Cardinality(From(limiter'[x], start)) \in Nat /\ Len(limiter'[x]) \in Nat
      <4>1. limiter'[x] \in Seq(Nat) /\ Orderly(limiter'[x], clock)
        BY <1>8
      <4> QED BY <4>1, FromFinite DEF Orderly
    <3>4. Cardinality(Since(sent', x, start)) \in Nat
      BY <1>6, SinceFinite
    <3>5. Cardinality(B) \in Nat
      <4>1. B \subseteq 1..n
        BY <1>6
      <4>2. IsFiniteSet(1..n)
        BY <1>1, FS_Interval
      <4> HIDE DEF B
      <4> QED BY <4>1, <4>2, FS_Subset, FS_CardinalityType
    <3> HIDE DEF B
    <3>6. Cardinality(B) <= MaxPerMin
      BY <3>1, <3>2, <3>3, <3>4, <3>5, AdmissionConstants
    <3> QED BY <3>6 DEF B
  <2>2. CASE ~(x = r /\ start >= clock - Minute)
    <3>1. ~(o.rails = x /\ o.time \in start..(start + Minute))
      BY <1>1, <1>5, <2>2, AdmissionConstants
    <3>2. B = A
      BY <1>1, <1>6, <3>1
    <3>3. Cardinality(A) <= MaxPerMin
      BY DEF RateKept
    <3> QED BY <3>2, <3>3
  <2> QED BY <2>1, <2>2
\* Whoever holds the symbol by an earlier order is the strategy that asks.
<1>14. ASSUME NEW i \in 1..Len(sent), sent[i].rails = r, sent[i].symbol = s, sent[i].time + LockTtl > clock
       PROVE  sent[i].owner = owner /\ owner \in Strategies
  <2>1. held[r][s].owner = sent[i].owner /\ held[r][s].until >= sent[i].time + LockTtl
    BY <1>14 DEF Locked
  <2>2. held[r][s].until \in Int /\ sent[i].time \in Nat
    <3>1. held[r] \in [Traded -> Lock]
      BY <1>1
    <3>2. held[r][s] \in Lock
      BY <3>1
    <3>3. held[r][s].until \in 0..(LastInstant + LockTtl)
      BY <3>2 DEF Lock
    <3>4. sent[i].time \in Nat
      BY <1>1, SentOrders
    <3> QED BY <3>3, <3>4, AdmissionConstants
  <2>3. ~(held[r][s].until <= clock)
    BY <1>1, <1>14, <2>1, <2>2, AdmissionConstants
  <2> QED BY <1>2, <2>1, <2>3 DEF MayHold
<1>15. Locked'
  <2> SUFFICES ASSUME NEW i \in 1..n, sent'[i].time + LockTtl > clock
               PROVE /\ held'[sent'[i].rails][sent'[i].symbol].owner = sent'[i].owner
                     /\ held'[sent'[i].rails][sent'[i].symbol].until >= sent'[i].time + LockTtl
    BY <1>2, <1>6 DEF Locked
  <2>1. held'[r][s].owner = owner /\ held'[r][s].until = clock + LockTtl
    BY <1>9
  <2>2. CASE i = n
    BY <1>1, <1>5, <1>6, <2>1, <2>2, AdmissionConstants
  <2>3. CASE i \in 1..Len(sent)
    <3>1. sent'[i] = sent[i] /\ sent[i].time + LockTtl > clock /\ sent[i].time <= clock /\ sent[i].time \in Nat
          /\ sent[i].rails \in Rails /\ sent[i].symbol \in Traded
      BY <1>1, <1>6, <2>3 DEF Order
    <3>2. CASE sent[i].rails = r /\ sent[i].symbol = s
      <4>1. sent[i].owner = owner
        BY <1>14, <2>3, <3>1, <3>2
      <4> QED BY <1>1, <2>1, <3>1, <3>2, <4>1, AdmissionConstants
    <3>3. CASE ~(sent[i].rails = r /\ sent[i].symbol = s)
      <4>1. held'[sent[i].rails][sent[i].symbol] = held[sent[i].rails][sent[i].symbol]
        BY <1>9, <3>1, <3>3
      <4>2. /\ held[sent[i].rails][sent[i].symbol].owner = sent[i].owner
            /\ held[sent[i].rails][sent[i].symbol].until >= sent[i].time + LockTtl
        BY <2>3, <3>1 DEF Locked
      <4> QED BY <3>1, <4>1, <4>2
    <3> QED BY <3>2, <3>3
  <2> QED BY <1>6, <2>2, <2>3
<1>16. LockExcludes'
  <2> SUFFICES ASSUME NEW i \in 1..n, NEW j \in 1..n, i < j, sent'[i].rails = sent'[j].rails,
                      sent'[i].symbol = sent'[j].symbol, sent'[j].time < sent'[i].time + LockTtl
               PROVE  sent'[i].owner = sent'[j].owner /\ sent'[i].owner \in Strategies
    BY <1>6 DEF LockExcludes
  <2>1. i \in 1..Len(sent) /\ sent'[i] = sent[i] /\ sent[i].time \in Nat
    <3>1. i \in 1..Len(sent)
      BY <1>1
    <3> QED BY <1>1, <1>6, <3>1, SentOrders
  <2>2. CASE j = n
    <3>1. sent[i].rails = r /\ sent[i].symbol = s /\ clock < sent[i].time + LockTtl /\ sent'[j].owner = owner
      BY <1>5, <1>6, <2>1, <2>2
    <3>2. sent[i].time + LockTtl > clock
      BY <1>1, <2>1, <3>1, AdmissionConstants
    <3> QED BY <1>14, <2>1, <3>1, <3>2
  <2>3. CASE j \in 1..Len(sent)
    <3>1. sent'[j] = sent[j]
      BY <1>6, <2>3
    <3> QED BY <1>1, <2>1, <2>3, <3>1 DEF LockExcludes
  <2> QED BY <1>6, <2>2, <2>3
<1>17. Caps'
  <2>1. Worth(SumOver(value, {s}) + delta) <= SymbolCap /\ Worth(SumOver(value, Traded) + delta) <= TotalCap
    <3>1. SumOver(value, {s}) = value[s]
      BY <1>1, SumSingle
    <3> QED BY <3>1 DEF Within, Total, SumOver
  <2>2. ASSUME NEW t \in Traded PROVE Bounded(value, Append(sent, o), drift, {t}, SymbolCap)
    <3>1. o.symbol \in {t} => Worth(SumOver(value, {t}) + o.delta) <= SymbolCap
      BY <1>5, <2>1
    <3>2. Bounded(value, sent, drift, {t}, SymbolCap) /\ {t} \subseteq Traded
      BY DEF Caps
    <3>3. Sent(Append(sent, o))
      BY <1>2, <1>7
    <3> QED BY <1>1, <1>4, <3>1, <3>2, <3>3, AcceptBounded, AdmissionConstants
  <2>3. Bounded(value, Append(sent, o), drift, Traded, TotalCap)
    <3>1. o.symbol \in Traded => Worth(SumOver(value, Traded) + o.delta) <= TotalCap
      BY <1>5, <2>1
    <3>2. Bounded(value, sent, drift, Traded, TotalCap) /\ Traded \subseteq Traded
      BY DEF Caps
    <3>3. Sent(Append(sent, o))
      BY <1>2, <1>7
    <3> QED BY <1>1, <1>4, <3>1, <3>2, <3>3, AcceptBounded, AdmissionConstants
  <2> QED BY <1>2, <2>2, <2>3 DEF Caps
<1> QED BY <1>10, <1>12, <1>13, <1>15, <1>16, <1>17


\* An order that meets another's lock changes only the limiter.
LEMMA LockedOutSafe ==
    ASSUME AdmissionSafe, NEW r \in Rails, NEW owner, NEW s, LockedOut(r, owner, s)
    PROVE  AdmissionSafe'
<1> USE DEF AdmissionSafe
<1>1. /\ limiter' = Counted(r) /\ RateAllows(r)
      /\ clock' = clock /\ value' = value /\ sent' = sent /\ held' = held /\ drift' = drift
  BY DEF LockedOut
<1>2. /\ limiter' \in [Rails -> Seq(Nat)]
      /\ \A x \in Rails : Orderly(limiter'[x], clock)
      /\ \A x \in Rails, t \in Int : t >= clock - Minute
           => Cardinality(From(limiter'[x], t)) = Cardinality(From(limiter[x], t))
                                                   + (IF x = r /\ t <= clock THEN 1 ELSE 0)
  BY <1>1, CountedRate
<1>3. Kept'
  BY <1>1, <1>2 DEF Kept
<1>4. ASSUME NEW x \in Rails, NEW t \in Int, t >= clock - Minute
      PROVE Cardinality(Since(sent, x, t)) <= Cardinality(From(limiter'[x], t))
  <2>1. Cardinality(Since(sent, x, t)) <= Cardinality(From(limiter[x], t))
    BY <1>4 DEF Rated
  <2>2. Cardinality(Since(sent, x, t)) \in Nat /\ Cardinality(From(limiter[x], t)) \in Nat
    <3>1. limiter[x] \in Seq(Nat) /\ sent \in Seq(Order)
      BY DEF Kept, Sent
    <3> QED BY <3>1, SinceFinite, FromFinite
  <2>3. Cardinality(From(limiter'[x], t)) = Cardinality(From(limiter[x], t)) + (IF x = r /\ t <= clock THEN 1 ELSE 0)
    BY <1>2, <1>4
  <2> QED BY <2>1, <2>2, <2>3
<1>5. Rated'
  BY <1>1, <1>2, <1>4 DEF Rated
<1>6. Locked' /\ RateKept' /\ LockExcludes' /\ Caps'
  BY <1>1 DEF Locked, RateKept, LockExcludes, Caps
<1> QED BY <1>3, <1>5, <1>6

\* Where only what has come of the orders, the snapshot and the prices change.
LEMMA SameRules ==
    ASSUME AdmissionSafe, clock' = clock, limiter' = limiter, held' = held,
           Sent(sent'), Len(sent') = Len(sent),
           \A k \in 1..Len(sent) : /\ sent'[k].rails = sent[k].rails /\ sent'[k].owner = sent[k].owner
                                   /\ sent'[k].symbol = sent[k].symbol /\ sent'[k].time = sent[k].time
    PROVE  Rated' /\ Locked' /\ RateKept' /\ LockExcludes' /\ (\A i \in 1..Len(sent') : sent'[i].time <= clock')
<1> USE DEF AdmissionSafe
<1>1. /\ DOMAIN sent = 1..Len(sent) /\ DOMAIN sent' = 1..Len(sent)
      /\ \A i \in 1..Len(sent) : sent[i].time <= clock
  BY DEF Kept, Sent
<1>2. Rated'
  <2>1. \A r, t : Since(sent', r, t) = Since(sent, r, t)
    BY DEF Since
  <2> QED BY <2>1 DEF Rated
<1>3. Locked'
  BY <1>1 DEF Locked
<1>4. RateKept'
  <2>1. \A r \in Rails, start \in 0..clock :
          {i \in DOMAIN sent' : sent'[i].rails = r /\ sent'[i].time \in start..(start + Minute)}
            = {i \in DOMAIN sent : sent[i].rails = r /\ sent[i].time \in start..(start + Minute)}
    BY <1>1
  <2> QED BY <2>1 DEF RateKept
<1>5. LockExcludes'
  BY <1>1 DEF LockExcludes
<1> QED BY <1>1, <1>2, <1>3, <1>4, <1>5

\* A fill, or the end of an order, moves the value within the bounds.
LEMMA ConcludeSafe ==
    ASSUME AdmissionSafe, NEW i \in DOMAIN sent, Concludes(i)
    PROVE  AdmissionSafe'
<1> DEFINE o == [sent[i] EXCEPT !.end = "over"]
           s == sent[i].symbol
<1> USE DEF AdmissionSafe
<1>1. /\ Sent(sent) /\ DOMAIN sent = 1..Len(sent) /\ i \in 1..Len(sent) /\ sent[i] \in Order /\ sent[i].end = "open"
      /\ value \in [Traded -> Int] /\ drift \in Nat /\ s \in Traded /\ sent[i].delta \in Int /\ sent \in Seq(Order)
  <2>1. Sent(sent) /\ value \in [Traded -> Int] /\ drift \in Nat /\ sent[i].end = "open"
    BY DEF Kept, Concludes, Open
  <2> QED BY <2>1, SentOrders
<1>2. /\ sent' = [sent EXCEPT ![i] = o] /\ clock' = clock /\ limiter' = limiter /\ held' = held /\ drift' = drift
      /\ value' = value \/ value' = [value EXCEPT ![s] = @ + sent[i].delta]
  BY DEF Concludes
<1>3. /\ o \in Order /\ o.end = "over" /\ o.delta = sent[i].delta /\ o.symbol = s /\ o.unseen = sent[i].unseen
      /\ o.rails = sent[i].rails /\ o.owner = sent[i].owner /\ o.time = sent[i].time
  BY <1>1 DEF Order
<1> HIDE DEF o
<1>4. /\ sent' \in Seq(Order) /\ Len(sent') = Len(sent) /\ sent'[i] = o
      /\ \A k \in 1..Len(sent) : k # i => sent'[k] = sent[k]
  BY <1>1, <1>2, <1>3, ExceptSeq
<1>5. \A k \in 1..Len(sent) :
        /\ sent'[k].rails = sent[k].rails /\ sent'[k].owner = sent[k].owner
        /\ sent'[k].symbol = sent[k].symbol /\ sent'[k].time = sent[k].time
        /\ sent'[k].delta = sent[k].delta /\ sent'[k].unseen = sent[k].unseen
  BY <1>3, <1>4
<1>6. Sent(sent')
  BY <1>1, <1>4, <1>5 DEF Sent
<1>7. Rated' /\ Locked' /\ RateKept' /\ LockExcludes' /\ (\A k \in 1..Len(sent') : sent'[k].time <= clock')
  BY <1>2, <1>4, <1>5, <1>6, SameRules
<1>8. /\ value' \in [Traded -> Int]
      /\ \/ value' = value
         \/ value'[s] = value[s] + sent[i].delta /\ \A t \in Traded : t # s => value'[t] = value[t]
  <2>1. value[s] + sent[i].delta \in Int
    BY <1>1
  <2> HIDE DEF s
  <2> QED BY <1>1, <1>2, <2>1
<1>9. Kept'
  BY <1>2, <1>6, <1>7, <1>8 DEF Kept
<1>10. ASSUME NEW T, T \subseteq Traded, NEW cap \in Nat, Bounded(value, sent, drift, T, cap)
       PROVE  Bounded(value', sent', drift, T, cap)
  <2>1. sent'[i].end # "open" /\ \A k \in 1..Len(sent) : k # i => sent'[k].end = sent[k].end
    BY <1>3, <1>4
  <2> DEFINE a == sent'
             w == value'
  <2>2. /\ Sent(a) /\ Len(a) = Len(sent) /\ a[i].end # "open" /\ w \in [Traded -> Int]
        /\ \A k \in 1..Len(sent) : a[k].delta = sent[k].delta /\ a[k].symbol = sent[k].symbol
                                    /\ a[k].unseen = sent[k].unseen
        /\ \A k \in 1..Len(sent) : k # i => a[k].end = sent[k].end
        /\ \/ w = value
           \/ w[sent[i].symbol] = value[sent[i].symbol] + sent[i].delta
              /\ \A t \in Traded : t # sent[i].symbol => w[t] = value[t]
    BY <1>4, <1>5, <1>6, <1>8, <2>1
  <2> HIDE DEF a, w
  <2>3. Bounded(w, a, drift, T, cap)
    BY <1>1, <1>10, <2>2, ConcludeBounded
  <2> QED BY <2>3 DEF a, w
<1>11. Caps'
  <2>1. \A t \in Traded : {t} \subseteq Traded
    OBVIOUS
  <2> QED BY <1>2, <1>10, <2>1, AdmissionConstants DEF Caps
<1> QED BY <1>7, <1>9, <1>11

\* A price moves the value as far as the drift.
LEMMA RepriceSafe ==
    ASSUME AdmissionSafe, NEW s \in Traded, Reprices(s)
    PROVE  AdmissionSafe'
<1> USE DEF AdmissionSafe
<1>1. Sent(sent) /\ value \in [Traded -> Int] /\ drift \in Nat
  BY DEF Kept
<1>2. PICK c \in {-1, 1} : value' = [value EXCEPT ![s] = @ + c]
  BY DEF Reprices
<1>3. clock' = clock /\ sent' = sent /\ limiter' = limiter /\ held' = held /\ drift' = drift + 1
  BY DEF Reprices
<1>4. value' \in [Traded -> Int] /\ value'[s] = value[s] + c /\ \A t \in Traded : t # s => value'[t] = value[t]
  BY <1>1, <1>2
<1>5. Kept'
  BY <1>1, <1>3, <1>4 DEF Kept
<1>6. Rated' /\ Locked' /\ RateKept' /\ LockExcludes'
  BY <1>3 DEF Rated, Locked, RateKept, LockExcludes
<1>7. ASSUME NEW T, T \subseteq Traded, NEW cap \in Nat, Bounded(value, sent, drift, T, cap)
      PROVE  Bounded(value', sent, drift + 1, T, cap)
  BY <1>1, <1>4, <1>7, RepriceBounded
<1>8. Caps'
  <2>1. \A t \in Traded : {t} \subseteq Traded
    OBVIOUS
  <2> QED BY <1>3, <1>7, <2>1, AdmissionConstants DEF Caps
<1> QED BY <1>5, <1>6, <1>8

\* Time only takes orders out of the window and out of their locks.
LEMMA ClockSafe ==
    ASSUME AdmissionSafe, ClockTicks
    PROVE  AdmissionSafe'
<1> USE DEF AdmissionSafe
<1>1. /\ clock \in Nat /\ clock' = clock + 1 /\ clock' \in 0..LastInstant /\ sent \in Seq(Order)
      /\ sent' = sent /\ value' = value /\ limiter' = limiter /\ held' = held /\ drift' = drift
      /\ \A i \in 1..Len(sent) : sent[i].time \in Nat /\ sent[i].time <= clock
  <2>1. Sent(sent) /\ clock \in 0..LastInstant /\ \A i \in 1..Len(sent) : sent[i].time <= clock
    BY DEF Kept
  <2>2. sent \in Seq(Order) /\ \A i \in 1..Len(sent) : sent[i].time \in Nat
    BY <2>1, SentOrders
  <2> QED BY <2>1, <2>2, AdmissionConstants DEF ClockTicks
<1>2. Kept'
  BY <1>1 DEF Kept
<1>3. Rated'
  <2>1. ASSUME NEW r \in Rails PROVE Orderly(limiter[r], clock + 1)
    <3>1. limiter[r] \in Seq(Nat) /\ Orderly(limiter[r], clock)
      BY DEF Kept, Rated
    <3>2. \A k \in 1..Len(limiter[r]) : limiter[r][k] \in Nat
      BY <3>1
    <3> QED BY <1>1, <3>1, <3>2 DEF Orderly
  <2>3. ASSUME NEW r \in Rails, NEW t \in Int, t >= (clock + 1) - Minute
        PROVE Cardinality(Since(sent, r, t)) <= Cardinality(From(limiter[r], t))
    <3>1. t >= clock - Minute
      BY <1>1, <2>3, AdmissionConstants
    <3> QED BY <3>1 DEF Rated
  <2> DEFINE later == clock + 1
  <2>4. later = clock + 1 /\ clock' = later
    BY <1>1
  <2>5. \A r \in Rails : /\ Orderly(limiter[r], later)
                         /\ \A t \in Int : t >= later - Minute
                              => Cardinality(Since(sent, r, t)) <= Cardinality(From(limiter[r], t))
    BY <2>1, <2>3
  <2> HIDE DEF AdmissionSafe, later
  <2>6. sent' = sent /\ limiter' = limiter
    BY <1>1
  <2> QED BY <2>4, <2>5, <2>6 DEF Rated
<1>4. Locked'
  <2>1. \A i \in 1..Len(sent) : sent[i].time + LockTtl > clock + 1 => sent[i].time + LockTtl > clock
    BY <1>1, AdmissionConstants
  <2> QED BY <1>1, <2>1 DEF Locked
<1>5. RateKept'
  <2> SUFFICES ASSUME NEW r \in Rails, NEW start \in 0..(clock + 1)
               PROVE  Cardinality({i \in DOMAIN sent : sent[i].rails = r /\ sent[i].time \in start..(start + Minute)})
                        <= MaxPerMin
    BY <1>1 DEF RateKept
  <2>1. CASE start \in 0..clock
    BY <2>1 DEF RateKept
  <2>2. CASE start = clock + 1
    <3>1. {i \in DOMAIN sent : sent[i].rails = r /\ sent[i].time \in start..(start + Minute)} = {}
      BY <1>1, <2>2, AdmissionConstants
    <3>2. Cardinality({}) <= MaxPerMin
      BY FS_EmptySet, AdmissionConstants
    <3> QED BY <3>1, <3>2
  <2> QED BY <1>1, <2>1, <2>2
<1>6. LockExcludes' /\ Caps'
  BY <1>1 DEF LockExcludes, Caps
<1> QED BY <1>2, <1>3, <1>4, <1>5, <1>6

\* Every step preserves the inductive invariant.
LEMMA AdmissionStays == AdmissionSafe /\ [AdmitNext]_admitVars => AdmissionSafe'
<1> SUFFICES ASSUME AdmissionSafe, [AdmitNext]_admitVars PROVE AdmissionSafe'
  OBVIOUS
<1>1. ASSUME NEW r \in Rails, NEW s \in Traded, NEW market \in Markets, NEW quote \in Quotes, NEW dir \in Sides,
             NEW owner \in Owners[r], CheckOrder(r, owner, s, market, quote, dir)
      PROVE  AdmissionSafe'
  <2>1. dir * quote \in Int
    BY AdmissionConstants DEF Sides
  <2>2. Within(s, dir * quote)
    BY <1>1 DEF CheckOrder, Acceptable
  <2>3. CASE Accepts(r, owner, s, dir * quote)
    BY <2>1, <2>2, <2>3, AcceptSafe
  <2>4. CASE LockedOut(r, owner, s)
    BY <2>4, LockedOutSafe
  <2> QED BY <1>1, <2>3, <2>4 DEF CheckOrder
<1>2. ASSUME UNCHANGED admitVars PROVE AdmissionSafe'
  BY <1>2 DEF admitVars, AdmissionSafe, Kept, Rated, Locked, RateKept, LockExcludes, Caps
<1> QED BY <1>1, <1>2, ConcludeSafe, RepriceSafe, ClockSafe DEF AdmitNext


\* What some check missed is at most the overrun.
LEMMA MissedSum ==
    ASSUME NEW f, NEW S, IsFiniteSet(S), NEW G, \A c \in S : G[c] = Worth(f[c].delta)
    PROVE  MapThenSumSet(LAMBDA i : Worth(f[i].delta), S) = SumOver(G, S)
<1> DEFINE Adds(g) == g = [s \in SUBSET S |-> IF s = {} THEN 0 ELSE Worth(f[Some(s)].delta) + g[s \ {Some(s)}]]
           h == CHOOSE g : Adds(g)
<1>1. MapThenSumSet(LAMBDA i : Worth(f[i].delta), S) = h[S]
  BY DEF MapThenSumSet, MapThenFoldSet, Some
<1>2. PICK g : Summed(g, G, S) /\ \A T \in SUBSET S : SumOver(G, T) = g[T]
  BY SumIs
<1>3. \A s \in SUBSET S : s # {} => G[Some(s)] = Worth(f[Some(s)].delta)
  BY SomeIn
<1>4. \A k : Adds(k) <=> Summed(k, G, S)
  BY <1>3 DEF Summed
<1>5. Adds(h)
  BY <1>2, <1>4, Zenon
<1> HIDE DEF h, Adds
<1>6. h[S] = g[S]
  BY <1>2, <1>4, <1>5, SummedUnique
<1> QED BY <1>1, <1>2, <1>6

\* A scope is bounded by the greatest sum over what was missed.
LEMMA OverrunBounds ==
    ASSUME Kept, NEW T, T \subseteq Traded, NEW cap \in Nat, Bounded(value, sent, drift, T, cap),
           NEW M, M = {0} \cup {MapThenSumSet(LAMBDA i : Worth(sent[i].delta), Missed(sent, j, T)) : j \in DOMAIN sent}
    PROVE  Worth(SumOver(value, T)) <= cap + drift + Max(M)
<1> DEFINE sum(j) == SumOver(Bulk(sent), Missed(sent, j, T))
           miss(j) == MapThenSumSet(LAMBDA i : Worth(sent[i].delta), Missed(sent, j, T))
           V == SumOver(value, T)
<1>1. Sent(sent) /\ drift \in Nat /\ value \in [Traded -> Int] /\ DOMAIN sent = 1..Len(sent) /\ Len(sent) \in Nat
  BY DEF Kept, Sent
<1>2. ASSUME NEW j \in 1..Len(sent)
      PROVE  miss(j) = sum(j) /\ sum(j) \in Nat
  <2>1. Missed(sent, j, T) \subseteq 1..Len(sent)
    BY <1>1 DEF Missed, Sent
  <2>2. /\ IsFiniteSet(Missed(sent, j, T)) /\ sum(j) \in Nat
        /\ \A i \in Missed(sent, j, T) : Bulk(sent)[i] = Worth(sent[i].delta)
    BY <1>1, <2>1, OrdersFinite
  <2>3. MapThenSumSet(LAMBDA i : Worth(sent[i].delta), Missed(sent, j, T)) = SumOver(Bulk(sent), Missed(sent, j, T))
    BY <2>2, MissedSum
  <2> QED BY <2>2, <2>3
<1>3. M = {0} \cup {sum(j) : j \in 1..Len(sent)}
  <2>1. M = {0} \cup {miss(j) : j \in DOMAIN sent}
    OBVIOUS
  <2> HIDE DEF miss, sum
  <2> QED BY <1>1, <1>2, <2>1
<1> HIDE DEF miss, sum
<1>4. M \subseteq Int /\ M # {} /\ 0 \in M
  <2>1. \A j \in 1..Len(sent) : sum(j) \in Nat
    BY <1>2
  <2>2. ASSUME NEW x \in M PROVE x \in Int
    <3>1. CASE x = 0
      BY <3>1
    <3>2. CASE x \in {sum(j) : j \in 1..Len(sent)}
      <4>1. PICK j \in 1..Len(sent) : x = sum(j)
        BY <3>2
      <4> QED BY <2>1, <4>1
    <3> QED BY <1>3, <2>2, <3>1, <3>2
  <2>3. 0 \in M
    BY <1>3
  <2> QED BY <2>2, <2>3
<1>5. IsFiniteSet(M)
  <2> DEFINE R == {sum(j) : j \in 1..Len(sent)}
             g == [j \in 1..Len(sent) |-> sum(j)]
  <2>1. 1 \in Int /\ Len(sent) \in Int
    BY <1>1
  <2>2. IsFiniteSet(1..Len(sent))
    BY <2>1, FS_Interval
  <2>3. g \in Surjection(1..Len(sent), R)
    <3>1. g \in [1..Len(sent) -> R]
      OBVIOUS
    <3>2. \A x \in R : \E j \in 1..Len(sent) : g[j] = x
      OBVIOUS
    <3> HIDE DEF g, R
    <3> QED BY <3>1, <3>2, Fun_IsSurj
  <2>4. IsFiniteSet(R)
    <3> HIDE DEF g, R
    <3> QED BY <2>2, <2>3, FS_Surjection
  <2>5. M = R \cup {0}
    BY <1>3
  <2> HIDE DEF R
  <2>6. IsFiniteSet(R \cup {0})
    BY <2>4, FS_AddElement
  <2> QED BY <2>5, <2>6
<1>6. Max(M) \in Int /\ \A x \in M : x <= Max(M)
  BY <1>4, <1>5, MaxFinite
<1>7. V \in Int /\ Worth(V) \in Nat
  BY <1>1, ScopeSum, WorthFacts
<1>8. WithinBy(Worth(V), sent, drift, T, cap)
  <2>1. {} \in SUBSET OpenIn(sent, T) /\ SumOver(Delta(sent), {}) = 0
    BY SumEmpty
  <2>2. WithinBy(Worth(V + SumOver(Delta(sent), {})), sent, drift, T, cap)
    BY <2>1 DEF Bounded
  <2> HIDE DEF V
  <2>3. V + SumOver(Delta(sent), {}) = V
    BY <1>7, <2>1
  <2> QED BY <2>2, <2>3
<1> HIDE DEF V
<1>9. CASE Worth(V) <= cap + drift
  <2>1. 0 <= Max(M)
    BY <1>4, <1>6
  <2> QED BY <1>1, <1>6, <1>7, <1>9, <2>1 DEF V
<1>10. CASE \E j \in 1..Len(sent) : Worth(V) <= (cap + drift) + sum(j)
  <2>1. PICK j \in 1..Len(sent) : Worth(V) <= (cap + drift) + sum(j)
    BY <1>10
  <2>2. sum(j) <= Max(M) /\ sum(j) \in Nat
    BY <1>2, <1>3, <1>6
  <2> QED BY <1>1, <1>6, <1>7, <2>1, <2>2 DEF V
<1> QED BY <1>8, <1>9, <1>10 DEF WithinBy, sum

\* The inductive invariant implies the property.
LEMMA SafeAdmits == AdmissionSafe => AdmissionInv
<1> SUFFICES ASSUME AdmissionSafe PROVE AdmissionInv
  OBVIOUS
<1>1. Kept /\ Rated /\ RateKept /\ LockExcludes /\ Caps
  BY DEF AdmissionSafe
<1>2. AdmitTypeOK
  <2>1. \A i \in DOMAIN sent : sent[i].end \in {"open", "over"}
    BY <1>1, SentOrders DEF Kept
  <2>2. \A r \in Rails : \A i \in DOMAIN limiter[r] : limiter[r][i] <= clock
    BY <1>1 DEF Kept, Rated, Orderly
  <2>3. held \in [Rails -> [Traded -> [owner : Strategies \cup {"unknown", "none"}, until : 0..(LastInstant + LockTtl)]]]
    <3>1. Lock = [owner : Strategies \cup {"unknown", "none"}, until : 0..(LastInstant + LockTtl)]
      <4>1. Names \cup {"none"} = Strategies \cup {"unknown", "none"}
        BY DEF Names
      <4> QED BY <4>1 DEF Lock
    <3> QED BY <1>1, <3>1 DEF Kept
  <2> QED BY <1>1, <2>1, <2>2, <2>3 DEF AdmitTypeOK, Kept
<1>3. \A j \in DOMAIN sent : sent[j].unseen \subseteq 1..Len(sent)
  BY <1>1 DEF Kept, Sent
<1>4. ASSUME NEW s \in Traded
      PROVE  Worth(value[s]) <= SymbolCap + drift + Overrun(LAMBDA i : sent[i].symbol = s)
  <2>1. \A j \in DOMAIN sent : Missed(sent, j, {s}) = {i \in sent[j].unseen : sent[i].symbol = s}
    BY DEF Missed
  <2>2. SumOver(value, {s}) = value[s]
    <3>1. value[s] \in Int
      BY <1>1 DEF Kept
    <3> QED BY <3>1, SumSingle
  <2> DEFINE M == {0} \cup {MapThenSumSet(LAMBDA i : Worth(sent[i].delta), Missed(sent, j, {s})) : j \in DOMAIN sent}
  <2>3. {s} \subseteq Traded /\ Bounded(value, sent, drift, {s}, SymbolCap)
    BY <1>1 DEF Caps
  <2>4. Worth(SumOver(value, {s})) <= SymbolCap + drift + Max(M)
    BY <1>1, <2>3, OverrunBounds, AdmissionConstants
  <2>5. Max(M) = Overrun(LAMBDA i : sent[i].symbol = s)
    <3>1. M = {0} \cup {MapThenSumSet(LAMBDA i : Worth(sent[i].delta), {i \in sent[j].unseen : sent[i].symbol = s}) : j \in DOMAIN sent}
      BY <2>1
    <3> HIDE DEF M
    <3> QED BY <3>1 DEF Overrun
  <2> QED BY <2>2, <2>4, <2>5
<1>5. Worth(Total) <= TotalCap + drift + Overrun(LAMBDA i : TRUE)
  <2>1. \A j \in DOMAIN sent : Missed(sent, j, Traded) = {i \in sent[j].unseen : TRUE}
    <3>1. \A i \in 1..Len(sent) : sent[i].symbol \in Traded
      BY <1>1, SentOrders DEF Kept
    <3> QED BY <1>3, <3>1 DEF Missed
  <2> DEFINE M == {0} \cup {MapThenSumSet(LAMBDA i : Worth(sent[i].delta), Missed(sent, j, Traded)) : j \in DOMAIN sent}
  <2>2. Traded \subseteq Traded /\ Bounded(value, sent, drift, Traded, TotalCap)
    BY <1>1 DEF Caps
  <2>3. Worth(SumOver(value, Traded)) <= TotalCap + drift + Max(M)
    BY <1>1, <2>2, OverrunBounds, AdmissionConstants
  <2>4. Max(M) = Overrun(LAMBDA i : TRUE)
    <3>1. M = {0} \cup {MapThenSumSet(LAMBDA i : Worth(sent[i].delta), {i \in sent[j].unseen : TRUE}) : j \in DOMAIN sent}
      BY <2>1
    <3> HIDE DEF M
    <3> QED BY <3>1 DEF Overrun
  <2> QED BY <2>3, <2>4 DEF Total, SumOver
<1> QED BY <1>1, <1>2, <1>4, <1>5 DEF AdmissionInv, CapsHeld

\* Two rails that judge by one snapshot, with any interleaving of checks, fills,
\* prices and time: neither accepts more orders in a window than its rate, a lock
\* keeps other strategies out while it stands, and positions pass a cap by no
\* more than prices have moved and some check could not see (risk.py: check_order,
\* OrderRateLimiter.allow, _acquire_symbol_lock).
THEOREM AdmissionSound == AdmitSpec => []AdmissionInv
<1>1. AdmitInit => AdmissionSafe
  BY AdmissionBegins
<1> QED BY <1>1, AdmissionStays, SafeAdmits, PTL DEF AdmitSpec
=============================================================================
