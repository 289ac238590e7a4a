-------------------------------- MODULE Governance --------------------------------
(***************************************************************************)
(* Governance: the daemon of ops/governance_daemon.py inside the engine: its   *)
(* rules, its handlers on the event bus, the environment variables it writes   *)
(* for the risk rails to read, and the model promotions it runs.              *)
(*                                                                         *)
(* Handlers are tasks of the event loop: one keeps the loop until it waits,   *)
(* which is when the bus is full, or for a promotion.  Policies are reloaded   *)
(* by a request in a thread.  Rules are numbered in the order of the policy     *)
(* file, which is the order in which they are loaded and gone through, so that  *)
(* a list of rules is the set of their numbers; what a condition says of an     *)
(* event is part of the event.  A value that a rule sets is Start.  The hourly  *)
(* allocation has no strategies to work on, the dust sweep no caller, and the   *)
(* subscriber of governance.action does nothing: all three are left out.       *)
(***************************************************************************)
EXTENDS Promotion

CONSTANTS Policies,    \* the policy file: the rules, numbered
          Events,      \* what may be published: [topic, holds]
          Tasks,
          Start,       \* MAX_NOTIONAL_USDT
          MaxEvents, Horizon

Indices == DOMAIN Policies
Actions == {Policies[i].action : i \in Indices}
Topics  == {Policies[i].trigger : i \in Indices}
Never   == -1
NoTask  == "none"

ASSUME GovernanceAssumption ==
    /\ MaxEvents \in Nat /\ Horizon \in Nat /\ Runs = Tasks /\ NoTask \notin Tasks
    /\ Indices \subseteq Nat /\ Start \in 5..1000
    /\ \A i \in Indices : Policies[i].cooldown \in Nat /\ Policies[i].enabled \in BOOLEAN
    /\ \A e \in Events : e.topic \in Topics /\ e.holds \subseteq Indices

VARIABLES
    clock,
    loaded,     \* self.rules
    handlers,   \* subscriptions of the daemon's handlers, for each topic
    env,        \* the environment variables of the engine
    stamp,      \* last_actions
    task,       \* handlers at work on an event
    loop,       \* the task that holds the event loop
    reload,     \* the thread of /governance/reload
    events,
    ran         \* history: when each action was last executed without error

governanceVars == <<clock, loaded, handlers, env, stamp, task, loop, reload, events, ran>>
governorVars == <<governanceVars, promotionVars>>

Idle  == [at |-> "idle", left |-> {}, holds |-> {}]

GovernanceTypeOK ==
    /\ PromotionTypeOK
    /\ clock \in 0..Horizon
    /\ loaded \subseteq Indices
    /\ handlers \in [Topics -> 0..1 + MaxEdits]
    /\ env \in [trading: BOOLEAN, max: 5..1000]
    /\ stamp \in [Actions -> Never..Horizon]
    /\ \A t \in Tasks :
        /\ task[t].at \in {"idle", "ready", "run", "promote", "publish", "failed"}
        /\ task[t].holds \subseteq Indices /\ task[t].left \subseteq Indices
    /\ loop \in Tasks \cup {NoTask}
    /\ reload \in {"idle", "cleared", "loaded"}
    /\ events \in 0..MaxEvents

EnabledRules == {i \in Indices : Policies[i].enabled}
Triggers     == {Policies[i].trigger : i \in EnabledRules}

GovernanceInit ==
    /\ PromotionInit
    /\ clock = 0 /\ events = 0 /\ loop = NoTask /\ reload = "idle"
    /\ loaded = Indices
    /\ handlers = [p \in Topics |-> IF p \in Triggers THEN 1 ELSE 0]
    /\ env = [trading |-> TRUE, max |-> Start]
    /\ stamp = [a \in Actions |-> Never] /\ ran = [a \in Actions |-> Never]
    /\ task = [t \in Tasks |-> Idle]

-----------------------------------------------------------------------------
(* _execute_action on the environment, in whole dollars.                     *)

\* Wrong variant: a reduction without its floor.
NoFloor(x, low) == x
Atleast(x, low) == IF x < low THEN low ELSE x
Atmost(x, top)  == IF x > top THEN top ELSE x

Effect(a, e) ==
    CASE a = "pause_trading"         -> [e EXCEPT !.trading = FALSE]
      [] a = "resume_trading"        -> [e EXCEPT !.trading = TRUE]
      [] a = "immediate_resume"      -> [e EXCEPT !.trading = TRUE]
      [] a = "gradual_resume"        -> [trading |-> TRUE, max |-> Atmost(e.max, 50)]
      [] a = "reduce_exposure"       -> [e EXCEPT !.max = Atleast((@ * 7) \div 10, 10)]
      [] a = "moderate_reductions"   -> [e EXCEPT !.max = Atleast((@ * 17) \div 20, 20)]
      [] a = "emergency_reductions"  -> [e EXCEPT !.max = Atleast(@ \div 2, 5)]
      [] a = "increase_exposure"     -> [e EXCEPT !.max = Atmost((@ * 6) \div 5, 1000)]
      [] a = "gradual_risk_increase" -> [e EXCEPT !.max = Atmost((@ * 23) \div 20, 500)]
      [] a = "set_max_notional"      -> [e EXCEPT !.max = Start]
      [] OTHER                       -> e

-----------------------------------------------------------------------------
(* Events and handlers.                                                      *)

At(t, p) == task[t].at = p
Free     == {t \in Tasks : At(t, "idle")}
Rest     == UNCHANGED <<clock, loaded, handlers, reload, events>>
OffLoop  == UNCHANGED <<loop, env, stamp, ran>>

\* The bus delivers an event to every handler of its topic.
Deliver ==
    /\ events < MaxEvents
    /\ \E e \in Events :
        /\ handlers[e.topic] <= Cardinality(Free)
        /\ \E ts \in kSubset(handlers[e.topic], Free) :
            task' = [t \in Tasks |-> IF t \in ts
                     THEN [at |-> "ready", left |-> {}, holds |-> {i \in e.holds : Policies[i].trigger = e.topic}]
                     ELSE task[t]]
    /\ events' = events + 1
    /\ UNCHANGED <<clock, loaded, handlers, reload>> /\ OffLoop
    /\ UNCHANGED promotionVars

\* handle_event copies the rules it will go through.
Begin(t) ==
    /\ At(t, "ready") /\ loop = NoTask
    /\ loop' = t
    /\ task' = [task EXCEPT ![t].at = "run",
                            ![t].left = {i \in loaded : Policies[i].enabled /\ i \in task[t].holds}]
    /\ UNCHANGED <<env, stamp, ran>> /\ Rest /\ UNCHANGED promotionVars

\* The rule that is next, and those that are left after it.
Rule(t)  == Policies[Min(task[t].left)]
After(t) == task[t].left \ {Min(task[t].left)}

OnCooldown(rule) ==
    rule.cooldown # 0 /\ stamp[rule.action] # Never /\ clock - stamp[rule.action] < rule.cooldown

Skip(t) ==
    /\ At(t, "run") /\ task[t].left # {} /\ loop = t
    /\ OnCooldown(Rule(t))
    /\ task' = [task EXCEPT ![t].left = After(t)]
    /\ UNCHANGED <<loop, env, stamp, ran>> /\ Rest /\ UNCHANGED promotionVars

Executes(t) ==
    /\ At(t, "run") /\ task[t].left # {} /\ loop = t
    /\ ~OnCooldown(Rule(t))
    /\ ran' = [ran EXCEPT ![Rule(t).action] = clock]

\* The cooldown starts when the action has been executed and announced.
Stamped(t) == stamp' = [stamp EXCEPT ![Rule(t).action] = clock]

\* With room in the bus's queue, publish returns without waiting.
Act(t) ==
    /\ Executes(t) /\ Rule(t).action # "promote_model"
    /\ env' = Effect(Rule(t).action, env)
    /\ \/ Stamped(t) /\ task' = [task EXCEPT ![t].left = After(t)] /\ UNCHANGED loop
       \/ task' = [task EXCEPT ![t].at = "publish"] /\ loop' = NoTask /\ UNCHANGED stamp
    /\ Rest /\ UNCHANGED promotionVars

Promote(t) ==
    /\ Executes(t) /\ Rule(t).action = "promote_model"
    /\ PromoteRead(t)
    /\ task' = [task EXCEPT ![t].at = "promote"]
    /\ loop' = NoTask
    /\ UNCHANGED <<env, stamp>> /\ Rest

\* The thread of the promotion is done.
Promoted(t) ==
    /\ At(t, "promote") /\ run[t].at = "idle"
    /\ task' = [task EXCEPT ![t].at = "publish"]
    /\ OffLoop /\ Rest /\ UNCHANGED promotionVars

\* A promotion that fails with an error the daemon does not expect (a policy file
\* without its limits) ends the handler: no stamp, and no further rule.
PromotionFails(t) ==
    /\ At(t, "promote") /\ run[t].at = "check"
    /\ Set(t, AtRest)
    /\ task' = [task EXCEPT ![t] = Idle]
    /\ ran' = [ran EXCEPT !["promote_model"] = Never]
    /\ UNCHANGED <<book, router, tag, clean, loop, env, stamp>> /\ Kept /\ Rest

\* There is room in the queue again.
Resume(t) ==
    /\ At(t, "publish") /\ loop = NoTask
    /\ loop' = t
    /\ Stamped(t)
    /\ task' = [task EXCEPT ![t].at = "run", ![t].left = After(t)]
    /\ UNCHANGED <<env, ran>> /\ Rest /\ UNCHANGED promotionVars

Finish(t) ==
    /\ At(t, "run") /\ task[t].left = {} /\ loop = t
    /\ loop' = NoTask
    /\ task' = [task EXCEPT ![t] = Idle]
    /\ UNCHANGED <<env, stamp, ran>> /\ Rest /\ UNCHANGED promotionVars

-----------------------------------------------------------------------------
(* Requests, time, restarts.                                                 *)

\* Wrong variant: the cooldowns are cleared together with the rules.
ForgottenStamps == [a \in Actions |-> Never]
KeptStamps      == stamp

\* reload_policies, step by step.
ReloadClears ==
    /\ reload = "idle" /\ Edited
    /\ reload' = "cleared" /\ loaded' = {} /\ stamp' = KeptStamps
    /\ UNCHANGED <<clock, handlers, env, task, loop, events, ran>>
    /\ UNCHANGED <<book, router, tag, rules, run, clean, missed>>

\* The rules are appended one by one while handlers may copy them; the file may
\* be unreadable, which leaves none.
ReloadLoads ==
    /\ reload = "cleared"
    /\ \/ /\ loaded # Indices
          /\ loaded' = loaded \cup {Min(Indices \ loaded)}
          /\ UNCHANGED reload
       \/ /\ loaded \in {{}, Indices}
          /\ reload' = "loaded"
          /\ UNCHANGED loaded
    /\ UNCHANGED <<clock, handlers, env, stamp, task, loop, events, ran>>
    /\ UNCHANGED promotionVars

\* The old subscriptions stay.
ReloadSubscribes ==
    /\ reload = "loaded"
    /\ reload' = "idle"
    /\ handlers' = [p \in Topics |->
                    IF \E i \in loaded : Policies[i].enabled /\ Policies[i].trigger = p
                    THEN handlers[p] + 1 ELSE handlers[p]]
    /\ UNCHANGED <<clock, loaded, env, stamp, task, loop, events, ran>>
    /\ UNCHANGED promotionVars

Tick ==
    /\ clock < Horizon
    /\ clock' = clock + 1
    /\ UNCHANGED <<loaded, handlers, env, stamp, task, loop, reload, events, ran>>
    /\ UNCHANGED promotionVars

\* The engine starts again: cooldowns, rules and variables are those of the start.
GovernanceRestart ==
    /\ Edited
    /\ loaded' = Indices
    /\ handlers' = [p \in Topics |-> IF p \in Triggers THEN 1 ELSE 0]
    /\ env' = [trading |-> TRUE, max |-> Start]
    /\ stamp' = [a \in Actions |-> Never] /\ ran' = [a \in Actions |-> Never]
    /\ task' = [t \in Tasks |-> Idle] /\ loop' = NoTask /\ reload' = "idle"
    /\ run' = [r \in Runs |-> AtRest]
    /\ clean' = (clean /\ \A r \in Runs : run[r].at = "idle")
    /\ Forgets(Home)
    /\ UNCHANGED <<clock, events, book, router, rules>>

Handling(t) ==
    \/ Begin(t) \/ Skip(t) \/ Act(t) \/ Promote(t) \/ Promoted(t) \/ PromotionFails(t)
    \/ Resume(t) \/ Finish(t)

Promoting == (PromotionEnv \/ \E r \in Runs : PromoteStep(r)) /\ UNCHANGED governanceVars

GovernanceNext ==
    \/ Deliver \/ Tick \/ GovernanceRestart \/ Promoting
    \/ ReloadClears \/ ReloadLoads \/ ReloadSubscribes
    \/ \E t \in Tasks : Handling(t)

GovernanceSpec == GovernanceInit /\ [][GovernanceNext]_governorVars

-----------------------------------------------------------------------------
(* Properties.                                                               *)

\* An action is executed again within the cooldown of the rule only while another
\* execution of it has not been announced yet: neither several events at once,
\* nor the handlers that every reload adds, nor the reload itself repeat it.
Pending(a) == \E t \in Tasks : task[t].at \in {"publish", "promote"} /\ Rule(t).action = a

ActionsSpaced ==
    [][\A t \in Tasks : Executes(t) =>
        LET last == ran[Rule(t).action]
        IN  last = Never \/ Pending(Rule(t).action) \/ clock - last >= Rule(t).cooldown]_governorVars

\* The governor's state is typed and the places of the model agree.
GovernanceInv == GovernanceTypeOK /\ PlacesAgree
=============================================================================
