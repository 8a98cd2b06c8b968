---------------------------- MODULE LeafContract ----------------------------
(***************************************************************************)
(* What the Symbolizer's harness promises about the buffers behind leaf    *)
(* pointers (char*, void*, int* in a struct): every buffer is recorded     *)
(* once, before the target function is called, and what is printed under   *)
(* a field's path after the call is read from that field's buffer.         *)
(***************************************************************************)
VARIABLES
    called,    \* the target function has been called
    bound,     \* paths with a buffer
    reads      \* what was read: [path, src], src the field that owns the buffer

vars == <<called, bound, reads>>

Init == called = FALSE /\ bound = {} /\ reads = {}

Bind ==
    /\ ~ called
    /\ \E p \in bound' \ bound : bound' = bound \union {p}
    /\ UNCHANGED <<called, reads>>

Call == ~ called /\ called' = TRUE /\ UNCHANGED <<bound, reads>>

Read ==
    /\ called
    /\ \E p \in bound : reads' = reads \union {[path |-> p, src |-> p]}
    /\ UNCHANGED <<called, bound>>

Next == Bind \/ Call \/ Read

Spec == Init /\ [][Next]_vars
=============================================================================
