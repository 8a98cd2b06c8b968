------------------------------ MODULE CallGraph ------------------------------
(***************************************************************************)
(* The C call graph the translator works on: funcMap, whose values carry   *)
(* dependFunctions, the names the C AST says the function calls.  A name   *)
(* in dependFunctions need not be a key of funcMap (a libc function, a     *)
(* function of another translation unit), and a recursive function may     *)
(* name itself.                                                            *)
(***************************************************************************)
EXTENDS Naturals, Sequences, FiniteSets

CONSTANTS
    Funcs,       \* the keys of funcMap
    Externals,   \* called names that are no keys of funcMap
    Graphs       \* the dependFunctions maps under study

ASSUME CallGraphAssumption ==
    /\ IsFiniteSet(Funcs)
    /\ Funcs \cap Externals = {}
    /\ Graphs \subseteq [Funcs -> SUBSET (Funcs \cup Externals)]

(***************************************************************************)
(* adj of findStronglyConnectedComponents: the callees inside funcMap.     *)
(***************************************************************************)
Adj(d, f) == d[f] \cap Funcs

(***************************************************************************)
(* Reference definitions, independent of any traversal.  What f reaches is *)
(* in every set that holds f and is closed under calls; two functions are  *)
(* in one component when each reaches the other.                           *)
(***************************************************************************)
ClosedUnder(d, S) == \A g \in S : Adj(d, g) \subseteq S

Reach(d, f) ==
    LET closed == {S \in SUBSET Funcs : f \in S /\ ClosedUnder(d, S)}
    IN  {g \in Funcs : \A S \in closed : g \in S}

Component(d, f) == {g \in Reach(d, f) : f \in Reach(d, g)}

Components(d) == {Component(d, f) : f \in Funcs}

\* The functions a group calls outside itself.
CalleesOf(d, C) == (UNION {Adj(d, f) : f \in C}) \ C

(***************************************************************************)
(* What findStronglyConnectedComponents may return for d: its components,  *)
(* each once, the ones a component calls before it.                        *)
(***************************************************************************)
SccOrders(d) ==
    {s \in [1..Cardinality(Components(d)) -> Components(d)] :
        /\ \A i, j \in DOMAIN s : s[i] = s[j] => i = j
        /\ \A i \in DOMAIN s :
               CalleesOf(d, s[i]) \subseteq UNION {s[j] : j \in 1..(i - 1)}}
=============================================================================
