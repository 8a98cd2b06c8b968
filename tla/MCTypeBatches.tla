---------------------------- MODULE MCTypeBatches ----------------------------
\* TypeBatches on every dependency graph of three types.
EXTENDS TypeBatches

MCTypeDeps == {d \in [Types -> SUBSET Types] : \A t \in Types : t \notin d[t]}
=============================================================================
