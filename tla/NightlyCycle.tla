------------------------------- MODULE NightlyCycle -------------------------------
(***************************************************************************)
(* NightlyCycle: ops/nightly_retrain.sh over the data ingester (DataLedger),  *)
(* the ML service (ModelStore) and the engine (EngineModel).                 *)
(*                                                                         *)
(* A run of the script calls /ingest_once and, unless the connection breaks,  *)
(* /train, whatever the first call has answered.  The backtest and the KPI    *)
(* gate come after the training has promoted its model, and the promotion     *)
(* that the gate asks for is an endpoint the service does not have: neither   *)
(* changes any state here.                                                   *)
(***************************************************************************)
EXTENDS DataLedger, EngineModel

\* A training is a run of the script, or a request of an operator.
ASSUME CycleAssumption == Jobs \subseteq Trainings /\ IsFiniteSet(Trainings)

vars == <<ledgerVars, storeVars, engineVars>>

Init   == LedgerInit /\ StoreInit /\ EngineInit

\* The second call of the script.
Retrain(j) == (j \in Jobs => At(j, "done")) /\ TrainStart(j)

Ingesting == LedgerNext /\ UNCHANGED <<storeVars, engineVars>>
Modelling ==
    /\ StoreNext \/ \E j \in Trainings : Retrain(j)
    /\ FileTouched
    /\ UNCHANGED <<promoted, loaded, ledgerVars>>
Deciding  == EngineNext /\ UNCHANGED <<ledgerVars, storeVars>>

Next == Ingesting \/ Modelling \/ Deciding

Spec     == Init /\ [][Next]_vars
FairSpec == Spec /\ StoreFairness /\ EngineFairness

-----------------------------------------------------------------------------
\* A promotion that lasts reaches both caches of the model: the service's
\* (model_store.py: load_active) and the engine's (model_watcher.py, policy_hmm.py).
PromotionReachesAll == []EngineTypeOK /\ CacheFollows /\ EngineFollows
=============================================================================
