---- MODULE MCGovernance ----
\* An instance of Governance: a risk event that reduces the exposure, and a metrics
\* event that halves it, promotes a model and pauses trading.
EXTENDS Governance, TLC

R(trigger, action, cooldown) ==
    [trigger |-> trigger, action |-> action, cooldown |-> cooldown, enabled |-> TRUE]

SomePolicies ==
    << R("risk", "reduce_exposure", 1), R("metrics", "emergency_reductions", 1),
       R("metrics", "promote_model", 1), R("metrics", "pause_trading", 0) >>

SomeEvents ==
    { [topic |-> "risk", holds |-> {1}], [topic |-> "metrics", holds |-> {2, 3, 4}] }

\* Models and threads are told apart by nothing but their names.
Alike == Permutations(Models) \cup Permutations(Tasks)
====
