----------------------------- MODULE TypeBatches -----------------------------
(***************************************************************************)
(* The types of a code base (structs, typedefs, variables) are translated  *)
(* before its functions: topo_batches puts them into batches,              *)
(* preTranslateComplexStructs hands the batches to the agent one by one,   *)
(* and _cascadeDeleteEmptyTypeReferences then cuts what refers to a struct *)
(* without a translation out of the others.                                *)
(*                                                                         *)
(* Rust text is the set of types it has definitions of.  The name of a     *)
(* type stands for its key (kind and name).                                *)
(***************************************************************************)
EXTENDS Integers, Sequences, FiniteSets

CONSTANTS
    Types,    \* the keys of the type registry
    Kinds,    \* the kinds under study
    TypeDeps  \* the adjacency maps under study: the types a definition names

AllKinds == {"typedef", "enum", "union", "struct", "extern", "static"}

ASSUME TypeBatchesAssumption ==
    /\ IsFiniteSet(Types)
    /\ Kinds \subseteq AllKinds
    /\ TypeDeps \subseteq [Types -> SUBSET Types]
    /\ \A d \in TypeDeps : \A t \in Types : t \notin d[t]

VARIABLES
    deps,       \* the type dependency graph
    kind,       \* the kind of each type
    pc,         \* "sort", "batch", "agent", "cascade", "done", "raised"
    indegree,   \* components a component still waits for
    ready,      \* components that wait for none
    order,      \* ordered_components: the batches
    next,       \* the batch at work
    request,    \* the types of it the agent is asked for
    file,       \* agentFile
    typeNodes,  \* agentTypeNodes
    rustCode,   \* the Rust text of each type
    deleted     \* deletedNames

sorting == <<indegree, ready, order>>
vars == <<deps, kind, pc, sorting, next, request, file, typeNodes, rustCode, deleted>>

Graph == INSTANCE CallGraph WITH Funcs <- Types, Externals <- {}, Graphs <- TypeDeps

\* The components of the type graph, as _tarjan_scc finds them.
Sccs == DOMAIN indegree
DependsOn(c, e) == Graph!CalleesOf(deps, c) \cap e # {}

TypesOK ==
    /\ pc \in {"sort", "batch", "agent", "cascade", "done", "raised"}
    /\ indegree \in [Graph!Components(deps) -> 0..Cardinality(Types)]
    /\ ready \subseteq Sccs
    /\ order \in Seq(Sccs)
    /\ next \in 1..(Cardinality(Types) + 1)
    /\ request \subseteq Types /\ file \subseteq Types /\ typeNodes \subseteq Types
    /\ rustCode \in [Types -> SUBSET Types]
    /\ deleted \subseteq Types

Init ==
    /\ deps \in TypeDeps /\ kind \in [Types -> Kinds]
    /\ pc = "sort"
    /\ LET sccs == Graph!Components(deps)
       IN  indegree = [c \in sccs |-> Cardinality({e \in sccs : DependsOn(c, e)})]
    /\ ready = {c \in Sccs : indegree[c] = 0}
    /\ order = <<>> /\ next = 1 /\ request = {}
    /\ file = {} /\ typeNodes = {}
    /\ rustCode = [t \in Types |-> {}] /\ deleted = {}

-----------------------------------------------------------------------------
\* topo_batches.

\* Fault: a component is ready as soon as one it depends on is out.
MutTake(c) ==
    /\ pc = "sort" /\ c \in ready
    /\ order' = Append(order, c)
    /\ indegree' = [e \in Sccs |-> IF DependsOn(e, c) THEN 0 ELSE indegree[e]]
    /\ ready' = (ready \ {c}) \union {e \in Sccs : DependsOn(e, c) /\ indegree[e] > 0}
    /\ UNCHANGED <<deps, kind, pc, next, request, file, typeNodes, rustCode, deleted>>

\* Fault: counted down for every reference, not for every component.
MutTakeEdges(c) ==
    /\ pc = "sort" /\ c \in ready
    /\ order' = Append(order, c)
    /\ indegree' = [e \in Sccs |->
            indegree[e] - IF e = c THEN 0 ELSE Cardinality({t \in e : deps[t] \cap c # {}})]
    /\ ready' = (ready \ {c}) \union {e \in Sccs : DependsOn(e, c) /\ indegree'[e] = 0}
    /\ UNCHANGED <<deps, kind, pc, next, request, file, typeNodes, rustCode, deleted>>

\* The first of the ready components in the order of kinds and names, here any.
Take(c) ==
    /\ pc = "sort" /\ c \in ready
    /\ order' = Append(order, c)
    /\ indegree' = [e \in Sccs |-> IF DependsOn(e, c) THEN indegree[e] - 1 ELSE indegree[e]]
    /\ ready' = (ready \ {c}) \union {e \in Sccs : DependsOn(e, c) /\ indegree'[e] = 0}
    /\ UNCHANGED <<deps, kind, pc, next, request, file, typeNodes, rustCode, deleted>>

Sorted ==
    /\ pc = "sort" /\ ready = {}
    /\ pc' = "batch"
    /\ UNCHANGED <<deps, kind, sorting, next, request, file, typeNodes, rustCode, deleted>>

-----------------------------------------------------------------------------
\* preTranslateComplexStructs.

Batch == order[next]
Typedefs == \A t \in Batch : kind[t] = "typedef"

\* A batch of typedefs: the simple ones need no agent.
TranslateTypedefs ==
    /\ pc = "batch" /\ next <= Len(order) /\ Typedefs
    /\ \E simple \in SUBSET Batch :
        /\ rustCode' = [t \in Types |-> IF t \in simple THEN {t} ELSE rustCode[t]]
        /\ file' = file \union simple
        /\ typeNodes' = typeNodes \union simple
        /\ request' = Batch \ simple
        /\ pc' = IF request' = {} THEN "batch" ELSE "agent"
        /\ next' = IF request' = {} THEN next + 1 ELSE next
    /\ UNCHANGED <<deps, kind, sorting, deleted>>

(***************************************************************************)
(* The whole batch goes to the agent.  Types an earlier stage has removed  *)
(* (no C text is left of them) would be dropped here first; it is assumed  *)
(* that there are none.                                                    *)
(***************************************************************************)
AskAgent ==
    /\ pc = "batch" /\ next <= Len(order) /\ ~ Typedefs
    /\ request' = Batch /\ pc' = "agent"
    /\ UNCHANGED <<deps, kind, sorting, next, file, typeNodes, rustCode, deleted>>

(***************************************************************************)
(* The agent's file is taken if it compiles and has lost no function; what *)
(* types it has is the agent's choice.                                     *)
(***************************************************************************)
AgentAccepted ==
    /\ pc = "agent"
    /\ file' \in SUBSET Types
    /\ typeNodes' = typeNodes \union request
    /\ request' = {} /\ next' = next + 1 /\ pc' = "batch"
    /\ UNCHANGED <<deps, kind, sorting, rustCode, deleted>>

\* Fault: only what was accepted counts as translated.
MutAgentFails ==
    /\ pc = "agent"
    /\ request' = {} /\ next' = next + 1 /\ pc' = "batch"
    /\ UNCHANGED <<deps, kind, sorting, file, typeNodes, rustCode, deleted>>

AgentFails ==
    /\ pc = "agent"
    /\ typeNodes' = typeNodes \union request
    /\ request' = {} /\ next' = next + 1 /\ pc' = "batch"
    /\ UNCHANGED <<deps, kind, sorting, file, rustCode, deleted>>

\* A fatal error of the provider.
AgentRaises ==
    /\ pc = "agent"
    /\ pc' = "raised"
    /\ UNCHANGED <<deps, kind, sorting, next, request, file, typeNodes, rustCode, deleted>>

-----------------------------------------------------------------------------
\* The structs the cascade starts from.
Seeds(code) == {t \in Types : kind[t] = "struct" /\ code[t] = {}}

\* agentFinishTypes: every type holds the whole file.
FinishTypes ==
    /\ pc = "batch" /\ next > Len(order)
    /\ rustCode' = [t \in Types |-> IF t \in typeNodes THEN file ELSE rustCode[t]]
    /\ deleted' = Seeds(rustCode')
    /\ pc' = IF deleted' = {} THEN "done" ELSE "cascade"
    /\ UNCHANGED <<deps, kind, sorting, next, request, file, typeNodes>>

(***************************************************************************)
(* One pass of _cascadeDeleteEmptyTypeReferences.  A struct or union that  *)
(* names a deleted type loses the lines that do, if they are lines of      *)
(* their own; anything else goes, and the next pass looks for its name.    *)
(***************************************************************************)
Refers(t) == t \notin deleted /\ rustCode[t] \cap deleted # {}
Composite(t) == kind[t] \in {"struct", "union"}

CascadePass ==
    /\ pc = "cascade"
    /\ LET gone == {t \in Types : Refers(t) /\ ~ Composite(t)}
       IN  /\ \E cut \in SUBSET {t \in Types : Refers(t) /\ Composite(t)} :
                rustCode' = [t \in Types |->
                    IF t \in gone THEN {}
                    ELSE IF t \in cut THEN rustCode[t] \ deleted ELSE rustCode[t]]
           /\ deleted' = deleted \union gone
           /\ pc' = IF gone = {} THEN "done" ELSE "cascade"
    /\ UNCHANGED <<deps, kind, sorting, next, request, file, typeNodes>>

-----------------------------------------------------------------------------
Next ==
    \/ \E c \in Sccs : Take(c)
    \/ Sorted \/ TranslateTypedefs \/ AskAgent
    \/ AgentFails \/ AgentAccepted \/ AgentRaises
    \/ FinishTypes \/ CascadePass

\* One thread; the agent's runs end (AgentSessions).
Spec == Init /\ [][Next]_vars /\ WF_vars(Next)

-----------------------------------------------------------------------------
(***************************************************************************)
(* topo_batches orders the components of the type graph as promised to the *)
(* functions: each once, after all it depends on, and all of them.         *)
(***************************************************************************)
Order == INSTANCE SccOrder WITH
    Funcs <- Types, Externals <- {}, Graphs <- TypeDeps, sccs <- order

ImplementsTypeOrder == Order!Spec

(***************************************************************************)
(* Whichever batches fail, every type ends with the whole type part of the *)
(* translation and the cascade cuts nothing out of it (agentFinishTypes:   *)
(* "no node is empty, which would start" it).                              *)
(***************************************************************************)
CascadeCutsNothing ==
    pc \in {"cascade", "done"} => \A t \in Types : rustCode[t] = file
=============================================================================
