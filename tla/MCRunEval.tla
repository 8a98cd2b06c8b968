------------------------------ MODULE MCRunEval ------------------------------
(* A few rounds with a run id that can be used again.                        *)
EXTENDS RunEval, TLC

MCSymmetry == Permutations(Ids)
=============================================================================
