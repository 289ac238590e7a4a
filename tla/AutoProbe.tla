------------------------------ MODULE AutoProbe ------------------------------
(***************************************************************************)
(* The auto-probe executor beside the engine: in rounds it buys a little of  *)
(* the coins it has left alone longest, each under an idempotency key of its *)
(* own, and repeats a request under the same key for as long as the answer   *)
(* is lost or says "later".  On the other side stands the market endpoint:   *)
(* the cache of answers, the rails, the venue, a restart.                    *)
(*                                                                         *)
(* A request the client has given up stays alive in the engine.  The rails'   *)
(* other rules, the rate limits of both sides and the prices are choices.    *)
(***************************************************************************)
EXTENDS Naturals, FiniteSets

CONSTANTS Probed,     \* the coins
          PerRound,   \* EXEC_SYMBOLS_PER_ROUND
          Parallel,   \* MAX_PARALLEL_ORDERS
          ErrLimit,   \* EXEC_ERR_THRESHOLD
          ErrRest,    \* EXEC_COOLDOWN_SEC, in rounds
          MaxKeys,    \* bound: probes of one coin
          MaxUnsure   \* bound: accepted orders whose answer the cache has not or no more

ASSUME ProbeAssumption ==
    /\ IsFiniteSet(Probed) /\ PerRound \in Nat \ {0} /\ Parallel \in Nat \ {0}
    /\ ErrLimit \in Nat \ {0} /\ ErrRest \in Nat /\ MaxKeys \in Nat /\ MaxUnsure \in Nat

VARIABLES
    probe,   \* of each coin: where its probe waits and the number of its key
    round,   \* a round is under way
    errs,    \* errors in the breaker's window
    cool,    \* rounds the open breaker has left
    calls,   \* requests in the engine
    held,    \* coins in RAILS._pending_orders
    cached,  \* keys CACHE answers for
    bought,  \* history: orders the venue accepted, by key
    unsure   \* history: accepted orders whose answer is not, or no more, in the cache

probeVars == <<probe, round, errs, cool, calls, held, cached, bought, unsure>>

Keys   == Probed \X (1..MaxKeys)
Key(s) == <<s, probe[s].key>>
Busy   == {s \in Probed : probe[s].at # "idle"}
Inside == {s \in Probed : probe[s].at \in {"post", "pause"}}

\* A request: its key, whether the client still waits for it, where it stands.
Calls == [key : Keys, awaited : BOOLEAN, at : {"sent", "venue", "taken"}]

ProbeTypeOK ==
    /\ probe \in [Probed -> [at : {"idle", "info", "gate", "post", "pause"}, key : 0..MaxKeys]]
    /\ round \in BOOLEAN /\ errs \in 0..ErrLimit /\ cool \in 0..ErrRest
    /\ calls \subseteq Calls /\ held \subseteq Probed /\ cached \subseteq Keys
    /\ bought \in [Keys -> 0..MaxUnsure + 1] /\ unsure \in 0..MaxUnsure
    /\ Cardinality(Inside) <= Parallel

ProbeInit ==
    /\ probe = [s \in Probed |-> [at |-> "idle", key |-> 0]]
    /\ round = FALSE /\ errs = 0 /\ cool = 0
    /\ calls = {} /\ held = {} /\ cached = {}
    /\ bought = [k \in Keys |-> 0] /\ unsure = 0

-----------------------------------------------------------------------------
(* The executor.                                                            *)

\* The coins of a round: those left alone longest that are not skipped for
\* their cooldown; none while the breaker is open.
Picks == IF cool > 0 THEN {{}}
         ELSE {S \in SUBSET Probed : Cardinality(S) <= PerRound
                                     /\ \A s \in S : probe[s].key < MaxKeys}

RoundStarts ==
    /\ ~round /\ round' = TRUE
    /\ \E S \in Picks :
         probe' = [s \in Probed |-> IF s \in S THEN [at |-> "info", key |-> probe[s].key + 1]
                                    ELSE probe[s]]
    /\ UNCHANGED <<errs, cool, calls, held, cached, bought, unsure>>

\* symbol_info answers or falls back; the limiter lets the probe pass or not.
InfoKnown(s) ==
    /\ probe[s].at = "info"
    /\ probe' \in {[probe EXCEPT ![s].at = "gate"], [probe EXCEPT ![s].at = "idle"]}
    /\ UNCHANGED <<round, errs, cool, calls, held, cached, bought, unsure>>

\* Wrong variants, which the properties must tell from the code: the rails let
\* a coin with a pending order pass; the executor repeats every refusal; the
\* semaphore is not asked.
Unguarded   == {}
OnlySuccess == {"ok"}
AnyRoom     == TRUE

Guarded == held
HasRoom == Cardinality(Inside) < Parallel

Post(s) ==
    /\ calls' = calls \cup {[key |-> Key(s), awaited |-> TRUE, at |-> "sent"]}
    /\ probe' = [probe EXCEPT ![s].at = "post"]
    /\ UNCHANGED <<round, errs, cool, held, cached, bought, unsure>>

\* The semaphore has room.
GatePassed(s) == probe[s].at = "gate" /\ HasRoom /\ Post(s)

\* The pause of the back-off is over.  Bound: one request given up per key.
Retry(s) == probe[s].at = "pause" /\ Post(s)

\* The client gives a request up.
GivenUp(c) ==
    LET s == c.key[1]
        d == [c EXCEPT !.awaited = FALSE]
    IN  /\ c \in calls /\ c.awaited
        /\ ~\E e \in calls : e.key = c.key /\ ~e.awaited
        /\ calls' = (calls \ {c}) \cup {d}
        /\ probe' = [probe EXCEPT ![s].at = "pause"]
        /\ UNCHANGED <<round, errs, cool, held, cached, bought, unsure>>

\* What an answer makes of the probe and the breaker: success and refusals end
\* it, a refusal counts; "later" (429, 5xx) leads to another try.
Ending == {"ok", "refused"}

Answered(c, a) ==
    LET s == c.key[1]
    IN  /\ calls' = calls \ {c}
        /\ IF ~c.awaited THEN UNCHANGED <<probe, errs, cool>>
           ELSE /\ probe' = [probe EXCEPT ![s].at = IF a \in Ending THEN "idle" ELSE "pause"]
                /\ IF a # "refused" THEN UNCHANGED <<errs, cool>>
                   ELSE IF errs + 1 >= ErrLimit THEN errs' = 0 /\ cool' = ErrRest
                   ELSE errs' = errs + 1 /\ UNCHANGED cool

\* All probes of the round are gathered; errors age and the breaker cools.
RoundOver ==
    /\ round /\ Busy = {} /\ round' = FALSE
    /\ errs' \in 0..errs /\ cool' = IF cool > 0 THEN cool - 1 ELSE 0
    /\ UNCHANGED <<probe, calls, held, cached, bought, unsure>>

-----------------------------------------------------------------------------
(* The market endpoint.                                                     *)

\* The cache, then the rails, then the pending entry: one step, without an
\* await.  A refusal of the rails is 400 or 403.
EngineReceives(c) ==
    /\ c \in calls /\ c.at = "sent"
    /\ \/ c.key \in cached /\ Answered(c, "ok") /\ UNCHANGED held
       \/ c.key \notin cached /\ Answered(c, "refused") /\ UNCHANGED held
       \/ /\ c.key \notin cached /\ c.key[1] \notin Guarded
          /\ held' = held \cup {c.key[1]}
          /\ calls' = (calls \ {c}) \cup {[c EXCEPT !.at = "venue"]}
          /\ UNCHANGED <<probe, errs, cool>>
    /\ UNCHANGED <<round, cached, bought, unsure>>

VenueAccepts(c) ==
    /\ c \in calls /\ c.at = "venue" /\ bought[c.key] <= MaxUnsure
    /\ calls' = (calls \ {c}) \cup {[c EXCEPT !.at = "taken"]}
    /\ bought' = [bought EXCEPT ![c.key] = @ + 1]
    /\ UNCHANGED <<probe, round, errs, cool, held, cached, unsure>>

\* CACHE.set and the answer.  The entry of a coin without a venue suffix stays:
\* clear_pending is called with the name the handler has rewritten.
EngineAnswers(c) ==
    /\ c \in calls /\ c.at = "taken"
    /\ cached' = cached \cup {c.key}
    /\ Answered(c, "ok")
    /\ UNCHANGED <<round, held, bought, unsure>>

\* An exception: the venue refused, could not be reached or its answer is lost;
\* its status is passed on, or 400.
EngineFails(c) ==
    /\ c \in calls /\ c.at \in {"venue", "taken"}
    /\ unsure' = unsure + (IF c.at = "taken" THEN 1 ELSE 0) /\ unsure' <= MaxUnsure
    /\ \E a \in {"refused", "later"} : Answered(c, a)
    /\ UNCHANGED <<round, held, cached, bought>>

\* The engine dies and starts again; the pending table is in memory.
EngineDies ==
    /\ calls # {} \/ held # {}
    /\ unsure' = unsure + Cardinality({c \in calls : c.at = "taken"}) /\ unsure' <= MaxUnsure
    /\ calls' = {} /\ held' = {}
    /\ probe' = [s \in Probed |-> IF probe[s].at = "post" THEN [probe[s] EXCEPT !.at = "pause"]
                                  ELSE probe[s]]
    /\ UNCHANGED <<round, errs, cool, cached, bought>>

\* A cached answer is ten minutes old.
CacheExpires ==
    /\ unsure < MaxUnsure /\ unsure' = unsure + 1
    /\ \E k \in cached : cached' = cached \ {k}
    /\ UNCHANGED <<probe, round, errs, cool, calls, held, bought>>

Executor == RoundStarts \/ RoundOver \/ \E s \in Probed : InfoKnown(s) \/ GatePassed(s) \/ Retry(s)
Engine   == \E c \in calls : EngineReceives(c) \/ VenueAccepts(c) \/ EngineAnswers(c) \/ EngineFails(c)

ProbeNext == Executor \/ Engine \/ EngineDies \/ CacheExpires \/ \E c \in calls : GivenUp(c)

\* A try that the client has not given up ends it.
Ends(s) == /\ probe[s].at = "post"
           /\ \E c \in calls : EngineReceives(c) \/ EngineAnswers(c) \/ EngineFails(c)
           /\ probe'[s].at = "idle"

\* The executor goes on, and the engine's answers are not lost for ever.
ProbeFairness ==
    /\ WF_probeVars(RoundOver)
    /\ \A s \in Probed :
         /\ WF_probeVars(InfoKnown(s)) /\ WF_probeVars(Retry(s))
         /\ SF_probeVars(GatePassed(s)) /\ SF_probeVars(Ends(s))

ProbeSpec == ProbeInit /\ [][ProbeNext]_probeVars /\ ProbeFairness

-----------------------------------------------------------------------------
\* A key buys once, and once more only for an accepted order whose answer the
\* cache does not hold: a crash or a lost answer of the venue before CACHE.set,
\* or an answer grown too old (auto_probe.py: submit_market_quote; app.py:
\* submit_market_order; idempotency.py).
KeyBuysOnce == \A k \in Keys : bought[k] <= 1 + unsure

\* Every round ends, if the engine gives a definite answer often enough: the
\* retries have no limit (auto_probe.py: submit_market_quote, main).
RoundEnds == round ~> ~round

\* The probes, typed, with keys that buy once.
ProbeInv == ProbeTypeOK /\ KeyBuysOnce
=============================================================================
