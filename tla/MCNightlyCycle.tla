---- MODULE MCNightlyCycle ----
\* An instance of NightlyCycle that looks at one side at a time: the ingester
\* beside finished trainings; the ML service with its clients; or the ML service
\* with the engine.  The sides share no variable but the active model's file, so
\* what one does never depends on how far the others are.
EXTENDS NightlyCycle, TLC

InUse == loader = [x \in Loaders |-> "idle"]
Unused  == loader = [x \in Loaders |-> "away"]
Ingested  == \A j \in Jobs : ing[j].at = "done"
Trained   == \A j \in Trainings : trn[j].at = "done"

\* The initial states of every side, with calls that have failed already.
PartInit ==
    /\ now = 1 /\ rev = [k \in Candles |-> 0] /\ mark = 1 /\ ledger = {} /\ disk = {}
    /\ \E p \in {"idle", "done"} : ing = [j \in Jobs |-> [at |-> p, since |-> 0, rows |-> NoBatch]]
    /\ sec = 0 /\ pkl = [v \in Secs |-> None] /\ reg = Empty /\ active = None
    /\ \E p \in {"idle", "done"} :
        trn = [j \in Trainings |-> [at |-> p, promote |-> TRUE, vid |-> 0, read |-> Empty]]
    /\ cache = "empty" /\ loader \in [Loaders -> {"idle", "away"}]
    /\ mixed = FALSE
    /\ EngineInit
    /\ \/ Trained /\ ~Ingested /\ Unused /\ loaded = "down"
       \/ Ingested /\ ~Trained /\ InUse /\ loaded = "down"
       \/ Ingested /\ ~Trained /\ Unused /\ loaded # "down"

SideSpec == PartInit /\ [][Next]_vars /\ StoreFairness /\ EngineFairness
====
