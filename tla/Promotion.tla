-------------------------------- MODULE Promotion --------------------------------
(***************************************************************************)
(* Promotion: promote_best of ops/strategy_selector.py, which promotes the    *)
(* best ranked strategy in the registry file, the router's weights file and    *)
(* the engines, and the engines' POST /strategy/promote.                     *)
(*                                                                         *)
(* It runs in the executor of the governance daemon, each run in its own       *)
(* thread.  The registry is read once, changed in memory and replaced whole:   *)
(* what others have written meanwhile is lost.  Scores are integers; the       *)
(* audit log, versions and the promotion log, which nothing reads, are left    *)
(* out.  The branch for "no current model" is never taken: a best model        *)
(* always differs from none.                                                *)
(***************************************************************************)
EXTENDS Integers, FiniteSets, FiniteSetsExt

CONSTANTS Models, Engines,
          Home,        \* the engine in which the daemon lives
          Runs,        \* threads of the executor that may run promote_best
          TopScore, Gap,
          MaxEdits     \* bound: changes of the registry from outside

ASSUME PromotionAssumption ==
    /\ TopScore \in Nat /\ Gap \in Nat /\ MaxEdits \in Nat
    /\ "none" \notin Models /\ Home \in Engines

NoModel == "none"

VARIABLES
    book,     \* strategy_registry.json
    router,   \* the current model in strategy_weights.json
    tag,      \* MODEL_TAG of each engine
    rules,    \* what stands against a promotion: risk alerts, the need of an approval
    run,      \* the runs of promote_best
    edits,
    clean,    \* history: no two runs have overlapped and none has been cut off
    missed    \* history: the engines that a promotion has not reached, or that restarted

promotionVars == <<book, router, tag, rules, run, edits, clean, missed>>

\* A score of -1 stands for too few samples and trades.
Books  == [current: Models \cup {NoModel}, score: [Models -> -1..TopScore],
           approved: SUBSET Models, manual: SUBSET Models, pending: SUBSET Models]
Blank  == [current |-> NoModel, score |-> [m \in Models |-> -1],
           approved |-> {}, manual |-> {}, pending |-> {}]
AtRest == [at |-> "idle", view |-> Blank, best |-> NoModel, todo |-> {}]

PromotionTypeOK ==
    /\ book \in Books
    /\ router \in Models \cup {NoModel}
    /\ tag \in [Engines -> Models \cup {NoModel}]
    /\ rules \in [alerts: BOOLEAN, approval: BOOLEAN]
    /\ \A r \in Runs :
        /\ run[r].at \in {"idle", "check", "save", "block", "sync", "push"}
        /\ run[r].view \in Books
        /\ run[r].best \in Models \cup {NoModel} /\ run[r].todo \subseteq Engines
    /\ edits \in 0..MaxEdits /\ clean \in BOOLEAN /\ missed \subseteq Engines

PromotionInit ==
    /\ book = Blank
    /\ router = NoModel /\ tag = [e \in Engines |-> NoModel]
    /\ rules \in [alerts: {FALSE}, approval: BOOLEAN]
    /\ run = [r \in Runs |-> AtRest]
    /\ edits = 0 /\ clean = TRUE /\ missed = {}

-----------------------------------------------------------------------------
(* rank_strategies, and the decision on a registry.                          *)

Ranked(b) == {m \in Models \ b.manual : b.score[m] >= 0}
Best(b)   == {m \in Ranked(b) : \A n \in Ranked(b) : b.score[n] <= b.score[m]}

\* The lead of m over the second.
Leads(b, m) == \A n \in Ranked(b) \ {m} : b.score[m] - b.score[n] > Gap

ShouldPromote(b, m) ==
    /\ b.current \notin b.manual
    /\ m # b.current
    /\ Leads(b, m) \/ b.current \notin Ranked(b)

-----------------------------------------------------------------------------
(* promote_best.                                                             *)

Set(r, new) == run' = [run EXCEPT ![r] = new]
Kept == UNCHANGED <<rules, edits, missed>>

\* Called by the daemon: the registry is read and the decision made.
PromoteRead(r) ==
    /\ run[r].at = "idle"
    /\ \/ /\ ~\E m \in Best(book) : ShouldPromote(book, m)
          /\ UNCHANGED <<run, clean>>
       \/ \E m \in Best(book) :
            /\ ShouldPromote(book, m)
            /\ Set(r, [at |-> "check", view |-> book, best |-> m, todo |-> {}])
            /\ clean' = (clean /\ \A q \in Runs : run[q].at = "idle")
    /\ UNCHANGED <<book, router, tag>> /\ Kept

\* The promotion policy and the risk snapshot.
PromoteCheck(r) ==
    LET needs == rules.approval /\ run[r].best \notin run[r].view.approved
    IN  /\ run[r].at = "check"
        /\ Set(r, [run[r] EXCEPT !.at = IF rules.alerts \/ needs THEN "block" ELSE "save"])
        /\ UNCHANGED <<book, router, tag, clean>> /\ Kept

\* Blocked by alerts, or queued for an approval.
PromoteBlock(r) ==
    /\ run[r].at = "block"
    /\ book' = [run[r].view EXCEPT !.pending = @ \cup {run[r].best}]
    /\ Set(r, AtRest)
    /\ UNCHANGED <<router, tag, clean>> /\ Kept

PromoteSave(r) ==
    /\ run[r].at = "save"
    /\ book' = [run[r].view EXCEPT !.current = run[r].best,
                                   !.approved = @ \ {run[r].best},
                                   !.pending = @ \ {run[r].best}]
    /\ Set(r, [run[r] EXCEPT !.at = "sync", !.view = Blank])
    /\ UNCHANGED <<router, tag, clean>> /\ Kept

\* Wrong variant: a router that has a current model keeps it.
WeightsKept(r)   == IF router = NoModel THEN run[r].best ELSE router
WeightsSynced(r) == run[r].best

PromoteSync(r) ==
    /\ run[r].at = "sync"
    /\ router' = WeightsSynced(r)
    /\ Set(r, [run[r] EXCEPT !.at = "push", !.todo = Engines])
    /\ UNCHANGED <<book, tag, clean>> /\ Kept

\* request_with_retry to one engine.  All attempts may fail, and an attempt whose
\* answer is lost may have been served.
PromotePush(r) ==
    /\ run[r].at = "push"
    /\ \E e \in run[r].todo, told, served \in BOOLEAN :
        /\ told => served
        /\ tag' = IF served THEN [tag EXCEPT ![e] = run[r].best] ELSE tag
        /\ missed' = IF told THEN missed \ {e} ELSE missed \cup {e}
        /\ Set(r, IF run[r].todo = {e} THEN AtRest ELSE [run[r] EXCEPT !.todo = @ \ {e}])
    /\ UNCHANGED <<book, router, rules, edits, clean>>

PromoteStep(r) ==
    \/ PromoteCheck(r) \/ PromoteBlock(r) \/ PromoteSave(r)
    \/ PromoteSync(r) \/ PromotePush(r)

-----------------------------------------------------------------------------
(* From outside: the strategy tracker, operators and the risk snapshot.       *)

Edited == edits < MaxEdits /\ edits' = edits + 1

RegistryEdited ==
    /\ Edited
    /\ \E m \in Models :
        \/ \E s \in 0..TopScore : book' = [book EXCEPT !.score[m] = s]
        \/ book' = [book EXCEPT !.approved = @ \cup {m}]
        \/ book' = [book EXCEPT !.manual = IF m \in @ THEN @ \ {m} ELSE @ \cup {m}]
    /\ UNCHANGED <<router, tag, rules, run, clean, missed>>

RiskChanges ==
    /\ Edited
    /\ rules' = [rules EXCEPT !.alerts = ~@]
    /\ UNCHANGED <<book, router, tag, run, clean, missed>>

\* An engine that starts again has the model tag of its environment.
Forgets(e) == tag' = [tag EXCEPT ![e] = NoModel] /\ missed' = missed \cup {e}

EngineRestarts ==
    /\ Edited
    /\ \E e \in Engines \ {Home} : Forgets(e)
    /\ UNCHANGED <<book, router, rules, run, clean>>

PromotionEnv == RegistryEdited \/ RiskChanges \/ EngineRestarts

-----------------------------------------------------------------------------
(* Property.                                                                 *)

\* While promotions run one after the other and to their ends, the registry, the
\* router and the engines that answer agree on the current model between them,
\* whatever is blocked, queued, edited or restarted meanwhile.
PlacesAgree ==
    (clean /\ \A r \in Runs : run[r].at = "idle") =>
        /\ router = book.current
        /\ \A e \in Engines \ missed : tag[e] = book.current
=============================================================================
