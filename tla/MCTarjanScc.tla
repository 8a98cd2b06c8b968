----------------------------- MODULE MCTarjanScc -----------------------------
(* Tarjan's search on every call graph of four functions, up to renaming.    *)
EXTENDS TarjanScc, TLC

LoopFree == {d \in [Funcs -> SUBSET Funcs] : \A f \in Funcs : f \notin d[f]}

\* Renaming the functions sorts them by calls made, then by calls received.
Degree(d, f) ==
    Cardinality(Funcs) * Cardinality(d[f]) + Cardinality({g \in Funcs : f \in d[g]})
Sorted == {d \in LoopFree : \A f, g \in Funcs : f < g => Degree(d, f) >= Degree(d, g)}

\* The sparser of them, the last function recursive and calling outside funcMap.
Sparse == {d \in Sorted : Cardinality(d[1]) <= 2}
WithSelfCall == {[d EXCEPT ![4] = @ \cup {4} \cup Externals] : d \in Sparse}

MCGraphs == Sorted \cup WithSelfCall
=============================================================================
