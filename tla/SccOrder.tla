------------------------------- MODULE SccOrder -------------------------------
(***************************************************************************)
(* What findStronglyConnectedComponents promises in its doc comment: the   *)
(* components of the call graph, one at a time, each function in exactly   *)
(* one of them, a component of callees before the components that call it. *)
(***************************************************************************)
EXTENDS CallGraph

VARIABLES
    deps,   \* the call graph
    sccs    \* the components returned so far, in order

vars == <<deps, sccs>>

Emitted == UNION {sccs[i] : i \in DOMAIN sccs}

Init ==
    /\ deps \in Graphs
    /\ sccs = <<>>

Emit(C) ==
    /\ C \cap Emitted = {}
    /\ CalleesOf(deps, C) \subseteq Emitted
    /\ sccs' = Append(sccs, C)
    /\ UNCHANGED deps

Next == \E C \in Components(deps) : Emit(C)

Spec == Init /\ [][Next]_vars /\ WF_vars(Next)
=============================================================================
