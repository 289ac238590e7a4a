\* Two events for two tasks, a strategy that overtakes another, two engines.
SPECIFICATION GovernanceSpec
CONSTANTS
    Models = {m1, m2}
    Engines = {e1, e2}
    Home = e1
    Tasks = {t1, t2}
    Runs = {t1, t2}
    TopScore = 1
    Gap = 0
    MaxEdits = 2
    Policies <- SomePolicies
    Events <- SomeEvents
    Start = 12
    MaxEvents = 2
    Horizon = 1
SYMMETRY Alike
 
PROPERTIES ActionsSpaced
CHECK_DEADLOCK FALSE
