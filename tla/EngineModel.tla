------------------------------- MODULE EngineModel -------------------------------
(***************************************************************************)
(* EngineModel: how the engine follows the active model file.  The promotion  *)
(* watcher (services/model_watcher.py) compares the file's time of change with *)
(* the last it saw and fires model.promoted; each subscriber of the bus clears *)
(* the model that strategies/policy_hmm.py has loaded, and the next decision   *)
(* loads it again.  The ML service writes the file from another process.      *)
(*                                                                         *)
(* Watcher and decisions run on the event loop, so each is one step; the       *)
(* subscribers run in the bus's threads.  A restart of the engine forgets the   *)
(* model and the time, and so only repeats the start.                        *)
(***************************************************************************)
EXTENDS ModelStore

CONSTANT Subscribers    \* policy_hmm itself, strategy.py and app.py

VARIABLES
    fresh,      \* the file has changed since the watcher looked
    promoted,   \* model.promoted: events not handled yet, for each subscriber
    loaded      \* _model

engineVars == <<fresh, promoted, loaded>>

\* What decisions use: nothing yet, a promoted model or the configured one; the
\* engine may also be down.
EngineModels == Trainings \cup {None, "shipped", "down"}

EngineTypeOK ==
    /\ fresh \in BOOLEAN
    /\ promoted \in [Subscribers -> 0..2 * Cardinality(Trainings)]
    /\ loaded \in EngineModels

EngineInit ==
    /\ fresh = FALSE /\ promoted = [h \in Subscribers |-> 0]
    /\ loaded \in {None, "down"}

\* Every write of the file changes its time.
FileTouched == fresh' = (fresh \/ active' # active)

\* _probe_paths: one event for all the changes since the last probe.
Probe ==
    /\ fresh /\ loaded # "down"
    /\ fresh' = FALSE
    /\ promoted' = [h \in Subscribers |-> promoted[h] + 1]
    /\ UNCHANGED loaded

\* Wrong variant: only a model that was never loaded is loaded.
ReloadLater == loaded
Reloaded    == None

\* reload_model, as a handler of the bus.
Reload(h) ==
    /\ promoted[h] > 0
    /\ promoted' = [promoted EXCEPT ![h] = @ - 1]
    /\ loaded' = Reloaded
    /\ UNCHANGED fresh

\* model(): a torn file is an error for this decision, a missing one makes the
\* configured model do.
Decide ==
    /\ loaded = None
    /\ active # Torn
    /\ loaded' = IF active = None THEN "shipped" ELSE active
    /\ UNCHANGED <<fresh, promoted>>

EngineNext == Probe \/ Decide \/ \E h \in Subscribers : Reload(h)

\* The watcher polls, and the bus handles its events.
EngineFairness ==
    /\ WF_engineVars(Probe)
    /\ \A h \in Subscribers : WF_engineVars(Reload(h))

-----------------------------------------------------------------------------
(* Property.                                                                 *)

\* Once the file no longer changes, decisions use what it holds, or nothing:
\* however its writing and the watcher's polls, events and loads interleave.
EngineFollows ==
    <>[](loaded \in {None, "down", active} \/ (loaded = "shipped" /\ active = None))
=============================================================================
