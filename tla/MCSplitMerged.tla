---------------------------- MODULE MCSplitMerged ----------------------------
(* Translation, split and contract check on call graphs of three functions.  *)
EXTENDS SplitMerged, TLC

MCGraphs == {d \in [Funcs -> SUBSET Funcs] : \A f \in Funcs : f \notin d[f]}

\* One graph of each shape, for liveness, where symmetry is not sound.
SameShape(d, e) ==
    \E p \in Permutations(Funcs) : \A f \in Funcs : e[p[f]] = {p[g] : g \in d[f]}
MCShapes == {CHOOSE e \in MCGraphs : SameShape(d, e) : d \in MCGraphs}

MCSymmetry == Permutations(Funcs)
=============================================================================
