---- MODULE MCProcess ----
\* Five parts of the engine process that share no variable and need no fairness:
\* the ticks, the DEX positions, the alert daemons, the startup and shutdown, and
\* the prices of orders.
\* An initial state chooses the one that runs; the others wait in their first state.
EXTENDS TickLoop, DexPositions, AlertDaemon, Lifespan, Pricing, TLC

CONSTANTS s1, t1, t2, x1,  \* ticks
          c1, c2, token    \* DEX

VARIABLE side

vars == <<tickVars, dexVars, alertVars, lifeVars, pricingVars, side>>

\* Every tick is of the same symbol.
OneSymbol == [t \in Ticks |-> s1]

\* Two topics, a rule that awaits its channel and rules with and without rest.
ShippedRules == << [topic |-> "closed", cools |-> FALSE, awaits |-> TRUE],
                   [topic |-> "risk", cools |-> TRUE, awaits |-> FALSE],
                   [topic |-> "closed", cools |-> TRUE, awaits |-> FALSE] >>

\* A day that had lost the limit, and one that was ahead.
SavedResults == {-2, 1}

\* Both candidates are of one token; the ladder sells the position out at its
\* second target.  At 140 both targets are due and at 125 the first; 125 after 140
\* is a trailing stop; 80 is below the stop.
OneToken   == [c \in Cands |-> token]
MCPortions == <<2, 1>>
MCTriggers == <<120, 140>>

\* Ticks are alike, and so are calls.
TicksAlike == Permutations(Ticks)

Init ==
    /\ TickInit /\ DexInit /\ AlertInit /\ LifeInit /\ PricingInit
    /\ side \in {"ticks", "dex", "alerts", "life", "prices"}
    /\ side # "ticks" => On("scalp")   \* one configuration is enough for the others
    /\ side # "prices" => \A m \in Places : mark[m] = 1 /\ rules[m] = 1

Next ==
    /\ UNCHANGED side
    /\ \/ side = "ticks" /\ TickNext /\ UNCHANGED <<dexVars, alertVars, lifeVars, pricingVars>>
       \/ side = "dex" /\ DexNext /\ UNCHANGED <<tickVars, alertVars, lifeVars, pricingVars>>
       \/ side = "alerts" /\ AlertNext /\ UNCHANGED <<tickVars, dexVars, lifeVars, pricingVars>>
       \/ side = "life" /\ LifeNext /\ UNCHANGED <<tickVars, dexVars, alertVars, pricingVars>>
       \/ side = "prices" /\ PricingNext /\ UNCHANGED <<tickVars, dexVars, alertVars, lifeVars>>

Spec == Init /\ [][Next]_vars
====
