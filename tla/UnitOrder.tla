------------------------------ MODULE UnitOrder ------------------------------
(***************************************************************************)
(* The translation of a code base, seen from outside: the units (the       *)
(* components of the call graph) are decided one at a time, each exactly   *)
(* once, and a unit only when every unit it calls has been decided.        *)
(***************************************************************************)
EXTENDS CallGraph

VARIABLES
    deps,     \* the call graph
    sccs,     \* its components
    outcome   \* "none" until the unit is decided

vars == <<deps, sccs, outcome>>

Init ==
    /\ deps \in Graphs
    /\ sccs \in SccOrders(deps)
    /\ outcome = [s \in DOMAIN sccs |-> "none"]

Decide(s, how) ==
    /\ outcome[s] = "none"
    /\ \A t \in DOMAIN sccs :
          sccs[t] \cap CalleesOf(deps, sccs[s]) # {} => outcome[t] # "none"
    /\ outcome' = [outcome EXCEPT ![s] = how]
    /\ UNCHANGED <<deps, sccs>>

Next == \E s \in DOMAIN sccs, how \in {"accepted", "fixed", "dropped"} : Decide(s, how)

Spec == Init /\ [][Next]_vars
=============================================================================
