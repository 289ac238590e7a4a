------------------------------ MODULE MCOrderPath ------------------------------
(* Requests on their way (OrderPath) and the rules that admit them            *)
(* (Admission), which share no variable here: an initial state chooses one.   *)
EXTENDS OrderPath, Admission, TLC

CONSTANTS a1, b1, k1

VARIABLE side

vars == <<pathVars, admitVars, side>>

\* One strategy has been killed.
Shares == [x \in Strategies |-> IF x = k1 THEN 0 ELSE 2]

\* Requests are interchangeable, and so are live strategies and symbols.
Alike == Permutations(Reqs) \cup Permutations({a1, b1}) \cup Permutations(Traded)

\* Whatever the requests ask for, the rules do not see it.
Parked == venue = "spot" /\ \A r \in Reqs : job[r].kind = "signal"

Init ==
    /\ PathInit /\ AdmitInit
    /\ side \in {"requests", "rules"}
    /\ side = "rules" => Parked

Next ==
    /\ UNCHANGED side
    /\ \/ side = "requests" /\ PathNext /\ UNCHANGED admitVars
       \/ side = "rules" /\ AdmitNext /\ UNCHANGED pathVars

Spec == Init /\ [][Next]_vars
=============================================================================
