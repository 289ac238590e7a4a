---- MODULE MCServices ----
\* Three services around the core that share no variable: the trading universe,
\* the equity breaker and the auto-probe.  An initial state chooses the one that
\* runs; the others wait in their first state.
EXTENDS Universe, EquityBreaker, AutoProbe

VARIABLE side

vars == <<universeVars, equityVars, probeVars, side>>

\* The equity side starts from any distribution of the coins; the others meet
\* one that the breaker cannot judge.
Parked == purse = [w \in Wallets |-> 0] /\ equity = 0 /\ usdt = 0

Init ==
    /\ UniverseInit /\ EquityInit /\ ProbeInit
    /\ side \in {"universe", "equity", "probe"}
    /\ side # "equity" => Parked

Next ==
    /\ UNCHANGED side
    /\ \/ side = "universe" /\ UniverseNext /\ UNCHANGED <<equityVars, probeVars>>
       \/ side = "equity" /\ EquityNext /\ UNCHANGED <<universeVars, probeVars>>
       \/ side = "probe" /\ ProbeNext /\ UNCHANGED <<universeVars, equityVars>>

\* The fairness of each service (UniverseFairness, EquityFairness,
\* ProbeFairness), asked of the side that runs.
Fairness ==
    /\ WF_universeVars(side = "universe" /\ Scanning) /\ WF_universeVars(side = "universe" /\ Streaming)
    /\ WF_universeVars(side = "universe" /\ UniverseUpdate)
    /\ WF_universeVars(side = "universe" /\ ScannerWatchdog)
    /\ WF_equityVars(side = "equity" /\ EquityTick)
    /\ \A r \in Rails : WF_equityVars(side = "equity" /\ (OrderStopped(r) \/ OrderJudged(r)))
    /\ WF_probeVars(side = "probe" /\ RoundOver)
    /\ \A s \in Probed :
         /\ WF_probeVars(side = "probe" /\ InfoKnown(s)) /\ WF_probeVars(side = "probe" /\ Retry(s))
         /\ SF_probeVars(side = "probe" /\ GatePassed(s)) /\ SF_probeVars(side = "probe" /\ Ends(s))

Spec == Init /\ [][Next]_vars /\ Fairness
====
