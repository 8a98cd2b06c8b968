-------------------------- MODULE MCSymExecBackend --------------------------
(* The backend on a few functions and a small pool; the cfgs give both.      *)
EXTENDS SymExecBackend
=============================================================================
