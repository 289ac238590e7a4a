------------------------------- MODULE ModelStore -------------------------------
(***************************************************************************)
(* ModelStore: POST /train of the ML service, the model registry on disk     *)
(* (model_store.py), the model cache of the service (inference.py) and its    *)
(* watchdog thread.                                                          *)
(*                                                                         *)
(* Trainings run in a thread pool.  A version is named by its tag and the      *)
(* second in which it is saved, so two trainings may share one.  Files are    *)
(* opened for writing, which empties them, and written in another step; a      *)
(* torn pickle reads as none, a torn registry as an empty one.  A model is the *)
(* call that trained it; whether on data, on synthetic rows or as a mock makes  *)
(* no difference here.                                                       *)
(***************************************************************************)
EXTENDS Integers, FiniteSets

CONSTANTS Trainings,   \* the calls of POST /train
          LastSec,     \* bound: the seconds in which a version is saved
          Requests     \* the threads that serve POST /predict

ASSUME StoreAssumption ==
    /\ LastSec \in Nat /\ "dog" \notin Requests
    /\ Trainings \cap {"none", "torn", "empty", "away", "idle", "check", "load"} = {}

None == "none"
Torn == "torn"
NoVersion == -1
Secs == 0..LastSec
Loaders == Requests \cup {"dog"}

VARIABLES
    sec,      \* the clock, in seconds
    pkl,      \* model.pkl in the directory of each version
    reg,      \* registry.json
    active,   \* active_hmm_policy.pkl
    trn,      \* the trainings
    cache,    \* _model_cache
    loader,   \* the threads that may load the model into the cache, or "away"
    mixed     \* history: trainings have overlapped, shared a version, or failed half-way

storeVars == <<sec, pkl, reg, active, trn, cache, loader, mixed>>

Files    == Trainings \cup {None, Torn}
Empty    == [versions |-> {}, active |-> NoVersion]
Registry == [versions: SUBSET Secs, active: Secs \cup {NoVersion}]
Stages   == {"idle", "open", "write", "list", "write1", "copy", "paste",
             "name", "write2", "done", "dead"}
Underway(j)  == trn[j].at \notin {"idle", "done", "dead"}

StoreTypeOK ==
    /\ sec \in Secs
    /\ pkl \in [Secs -> Files] /\ active \in Files
    /\ reg \in Registry
    /\ trn \in [Trainings -> [at: Stages, promote: BOOLEAN, vid: Secs, read: Registry]]
    /\ cache \in Trainings \cup {None, "empty"}
    /\ loader \in [Loaders -> {"away", "idle", "check", "load", None} \cup Trainings]
    /\ mixed \in BOOLEAN

StoreInit ==
    /\ sec = 0 /\ pkl = [v \in Secs |-> None] /\ reg = Empty /\ active = None
    /\ trn = [j \in Trainings |-> [at |-> "idle", promote |-> TRUE, vid |-> 0, read |-> Empty]]
    /\ cache = "empty" /\ loader \in [Loaders -> {"idle", "away"}] /\ loader["dog"] = "idle"
    /\ mixed = FALSE

\* What load_current makes of a file.
Loaded(file) == IF file = Torn THEN None ELSE file

-----------------------------------------------------------------------------
(* train_once and save_model.                                                *)

Step(j, from, to) == trn[j].at = from /\ trn' = [trn EXCEPT ![j].at = to]
Unread == UNCHANGED <<sec, cache, loader, mixed>>

\* The model is fitted, or not: then an error is all that the caller gets.
TrainStart(j) ==
    /\ trn[j].at = "idle"
    /\ \/ trn' = [trn EXCEPT ![j].at = "done"]
       \/ \E p \in BOOLEAN : trn' = [trn EXCEPT ![j].at = "open", ![j].promote = p]
    /\ mixed' = (mixed \/ \E i \in Trainings \ {j} : Underway(i))
    /\ UNCHANGED <<sec, pkl, reg, active, cache, loader>>

\* The version is named and its file opened.
SaveOpen(j) ==
    /\ trn[j].at = "open"
    /\ trn' = [trn EXCEPT ![j].at = "write", ![j].vid = sec]
    /\ pkl' = [pkl EXCEPT ![sec] = Torn]
    /\ mixed' = (mixed \/ pkl[sec] # None)
    /\ UNCHANGED <<sec, reg, active, cache, loader>>

SaveWrite(j) ==
    /\ Step(j, "write", "list")
    /\ pkl' = [pkl EXCEPT ![trn[j].vid] = j]
    /\ UNCHANGED <<reg, active>> /\ Unread

\* pickle.dump or the disk fails: the training ends.
SaveFails(j) ==
    /\ Step(j, "write", "done")
    /\ mixed' = TRUE
    /\ UNCHANGED <<sec, pkl, reg, active, cache, loader>>

\* _load_registry, and the opening of the registry for writing.
ReadRegistry(j) ==
    /\ trn[j].at \in {"list", "name"}
    /\ trn' = [trn EXCEPT ![j].at = IF @ = "list" THEN "write1" ELSE "write2", ![j].read = reg]
    /\ reg' = Empty
    /\ UNCHANGED <<pkl, active>> /\ Unread

\* Wrong variant: the caller's wish to keep the active model is ignored.
AlwaysPromotes(j) == "copy"
Promotes(j)       == IF trn[j].promote THEN "copy" ELSE "done"

\* The registry that was read is written back, with a change.
Writes(j, at, next, changed) ==
    /\ trn[j].at = at
    /\ reg' = changed
    /\ trn' = [trn EXCEPT ![j].at = next, ![j].read = Empty]
    /\ UNCHANGED <<pkl, active>> /\ Unread

ListVersion(j) ==
    Writes(j, "write1", Promotes(j), [trn[j].read EXCEPT !.versions = @ \cup {trn[j].vid}])

-----------------------------------------------------------------------------
(* promote_version: shutil.copy, then the registry once more.                *)

CopyOpen(j) ==
    /\ Step(j, "copy", "paste")
    /\ active' = Torn
    /\ UNCHANGED <<pkl, reg>> /\ Unread

\* Wrong variant: the registry is not read again after the copy.
PasteOnly(j) == "write2"
PasteThenRead(j) == "name"

CopyWrite(j) ==
    /\ Step(j, "paste", PasteThenRead(j))
    /\ active' = pkl[trn[j].vid]
    /\ UNCHANGED <<pkl, reg>> /\ Unread

NameActive(j) == Writes(j, "write2", "done", [trn[j].read EXCEPT !.active = trn[j].vid])

Training(j) ==
    \/ SaveOpen(j) \/ SaveWrite(j) \/ ReadRegistry(j)
    \/ ListVersion(j) \/ CopyOpen(j) \/ CopyWrite(j) \/ NameActive(j)

-----------------------------------------------------------------------------
(* inference.py: a thread that finds no cached model loads the active one.     *)

Load(x, to) == loader' = [loader EXCEPT ![x] = to]
Idle == UNCHANGED <<sec, pkl, reg, active, trn, mixed>>

\* predict_proba: a cached model, or a cached None, is used as it is.
Request(x) ==
    /\ loader[x] = "idle" /\ Load(x, "check")
    /\ UNCHANGED cache /\ Idle

\* Wrong variant: the watchdog leaves the cached model where it is.
KeptCache    == cache
ClearedCache == "empty"

\* reload_model, every MODEL_WATCH_INTERVAL.
WatchdogReloads ==
    /\ loader["dog"] = "idle" /\ Load("dog", "check")
    /\ cache' = ClearedCache
    /\ Idle

CacheCheck(x) ==
    /\ loader[x] = "check"
    /\ Load(x, IF cache = "empty" THEN "load" ELSE "idle")
    /\ UNCHANGED cache /\ Idle

CacheLoad(x) ==
    /\ loader[x] = "load" /\ Load(x, Loaded(active))
    /\ UNCHANGED cache /\ Idle

CacheStore(x) ==
    /\ loader[x] \in Trainings \cup {None}
    /\ cache' = loader[x] /\ Load(x, "idle")
    /\ Idle

SecondPasses ==
    /\ sec < LastSec
    /\ sec' = sec + 1
    /\ UNCHANGED <<pkl, reg, active, trn, cache, loader, mixed>>

\* The service stops and starts: the files stay as they are.
MlCrash ==
    /\ \E j \in Trainings : Underway(j)
    /\ trn' = [j \in Trainings |-> IF Underway(j) THEN [trn[j] EXCEPT !.at = "dead"] ELSE trn[j]]
    /\ cache' = "empty"
    /\ loader' = [x \in Loaders |-> IF loader[x] = "away" THEN "away" ELSE "idle"]
    /\ mixed' = TRUE
    /\ UNCHANGED <<sec, pkl, reg, active>>

CacheNext ==
    \/ WatchdogReloads
    \/ \E x \in Requests : Request(x)
    \/ \E x \in Loaders : CacheCheck(x) \/ CacheLoad(x) \/ CacheStore(x)

StoreNext ==
    \/ SecondPasses \/ MlCrash \/ CacheNext
    \/ \E j \in Trainings : SaveFails(j) \/ Training(j)

\* The threads run; a training that began goes on until it ends.
StoreFairness ==
    /\ WF_storeVars(WatchdogReloads)
    /\ \A x \in Loaders : WF_storeVars(CacheCheck(x) \/ CacheLoad(x) \/ CacheStore(x))
    /\ \A j \in Trainings : WF_storeVars(Training(j))

-----------------------------------------------------------------------------
(* Properties.                                                               *)

Served == {cache} \cup {loader[x] : x \in Loaders}

\* Only a model whose training was asked to promote it is ever served, unless
\* another training was saved in the same second under the same name.
NamedAgain(j) == \E i \in Trainings \ {j} : trn[i].vid = trn[j].vid /\ trn[i].at # "idle"
ServesPromoted == \A j \in Trainings \cap Served : trn[j].promote \/ NamedAgain(j)

\* Trainings one after the other keep the registry whole: it lists every saved
\* version, and its active version is the one in the active file.
SequentialIsConsistent ==
    (~mixed /\ ~\E j \in Trainings : Underway(j)) =>
        /\ reg.versions = {v \in Secs : pkl[v] # None}
        /\ active = (IF reg.active = NoVersion THEN None ELSE pkl[reg.active])

\* Once the trainings have ended, the service serves the active model, or none
\* when the active file is torn: no thread brings an older one back for good.
CacheFollows == <>[](cache \in {"empty", Loaded(active)})

\* The store is typed, serves promoted models only, and is whole when it is used
\* by one training at a time.
StoreInv == StoreTypeOK /\ ServesPromoted /\ SequentialIsConsistent
=============================================================================
