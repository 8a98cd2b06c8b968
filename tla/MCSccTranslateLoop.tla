-------------------------- MODULE MCSccTranslateLoop --------------------------
(* The translation loop on every call graph of the functions of the cfg.     *)
EXTENDS SccTranslateLoop

MCGraphs == {d \in [Funcs -> SUBSET Funcs] : \A f \in Funcs : f \notin d[f]}
=============================================================================
