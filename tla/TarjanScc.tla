------------------------------ MODULE TarjanScc ------------------------------
(***************************************************************************)
(* findStronglyConnectedComponents (translation_utils_mixin.py): Tarjan's  *)
(* algorithm with the recursion replaced by workStack, a stack of          *)
(* (node, iterator over its callees).  The order in which Python yields    *)
(* the keys of funcMap and the callees of a function is left open.         *)
(***************************************************************************)
EXTENDS CallGraph, SequencesExt

VARIABLES
    deps,          \* funcMap[f].dependFunctions
    indexCounter,  \* next discovery number
    indexMap,      \* discovery number of every node met so far
    lowlinks,      \* lowest discovery number known to be reachable
    stack,         \* nodes met and not yet in a component
    onStack,       \* the same, as a set
    workStack,     \* frames [node, todo]: the pending iterators
    sccs           \* the result

vars == <<deps, indexCounter, indexMap, lowlinks, stack, onStack, workStack, sccs>>

Top == Last(workStack)
MinOf(a, b) == IF a <= b THEN a ELSE b

TypeOK ==
    /\ deps \in Graphs
    /\ indexCounter \in 0..Cardinality(Funcs)
    /\ DOMAIN indexMap \subseteq Funcs
    /\ indexMap \in [DOMAIN indexMap -> 0..Cardinality(Funcs)]
    /\ lowlinks \in [DOMAIN indexMap -> 0..Cardinality(Funcs)]
    /\ stack \in Seq(Funcs)
    /\ onStack \in SUBSET Funcs
    /\ workStack \in Seq([node : Funcs, todo : SUBSET Funcs])
    /\ sccs \in Seq(SUBSET Funcs)

Init ==
    /\ deps \in Graphs
    /\ indexCounter = 0
    /\ indexMap = <<>>
    /\ lowlinks = <<>>
    /\ stack = <<>>
    /\ onStack = {}
    /\ workStack = <<>>
    /\ sccs = <<>>

\* Fault: names that are no keys of funcMap are not filtered out.
MutDiscoverExternal(v, frames) ==
    /\ indexMap' = [n \in DOMAIN indexMap \cup {v} |->
                      IF n = v THEN indexCounter ELSE indexMap[n]]
    /\ lowlinks' = [n \in DOMAIN indexMap \cup {v} |->
                      IF n = v THEN indexCounter ELSE lowlinks[n]]
    /\ indexCounter' = indexCounter + 1
    /\ stack' = Append(stack, v)
    /\ onStack' = onStack \cup {v}
    /\ workStack' = Append(frames, [node |-> v, todo |-> deps[v]])
    /\ UNCHANGED <<deps, sccs>>

(***************************************************************************)
(* A node met for the first time is numbered, put on the stack, and gets a *)
(* frame; frames is the work stack below the new frame.                    *)
(***************************************************************************)
Discover(v, frames) ==
    /\ indexMap' = [n \in DOMAIN indexMap \cup {v} |->
                      IF n = v THEN indexCounter ELSE indexMap[n]]
    /\ lowlinks' = [n \in DOMAIN indexMap \cup {v} |->
                      IF n = v THEN indexCounter ELSE lowlinks[n]]
    /\ indexCounter' = indexCounter + 1
    /\ stack' = Append(stack, v)
    /\ onStack' = onStack \cup {v}
    /\ workStack' = Append(frames, [node |-> v, todo |-> Adj(deps, v)])
    /\ UNCHANGED <<deps, sccs>>

\* The outer loop takes a start node that no earlier search met.
StartNode(v) ==
    /\ workStack = <<>>
    /\ v \notin DOMAIN indexMap
    /\ Discover(v, workStack)

\* The top frame with w taken from its iterator.
Advanced(w) == ReplaceAt(workStack, Len(workStack),
                         [Top EXCEPT !.todo = @ \ {w}])

VisitNew(w) ==
    /\ workStack # <<>>
    /\ w \in Top.todo
    /\ w \notin DOMAIN indexMap
    /\ Discover(w, Advanced(w))

\* Fault: the onStack test is forgotten.
MutVisitSeen(w) ==
    /\ workStack # <<>>
    /\ w \in Top.todo
    /\ w \in DOMAIN indexMap
    /\ workStack' = Advanced(w)
    /\ lowlinks' = [lowlinks EXCEPT ![Top.node] = MinOf(@, indexMap[w])]
    /\ UNCHANGED <<deps, indexCounter, indexMap, stack, onStack, sccs>>

VisitSeen(w) ==
    /\ workStack # <<>>
    /\ w \in Top.todo
    /\ w \in DOMAIN indexMap
    /\ workStack' = Advanced(w)
    /\ lowlinks' = IF w \in onStack
                   THEN [lowlinks EXCEPT ![Top.node] = MinOf(@, indexMap[w])]
                   ELSE lowlinks
    /\ UNCHANGED <<deps, indexCounter, indexMap, stack, onStack, sccs>>

(***************************************************************************)
(* The inner while loop pops the stack down to and including v.            *)
(***************************************************************************)
PopComponent(v) ==
    LET at == CHOOSE i \in DOMAIN stack : stack[i] = v
        component == {stack[i] : i \in at..Len(stack)}
    IN  /\ stack' = SubSeq(stack, 1, at - 1)
        /\ onStack' = onStack \ component
        /\ sccs' = Append(sccs, component)

\* Fault: the lowlink is not handed to the frame below.
MutFinalizeKeepsLowlink ==
    /\ workStack # <<>>
    /\ Top.todo = {}
    /\ workStack' = Front(workStack)
    /\ IF lowlinks[Top.node] = indexMap[Top.node]
       THEN PopComponent(Top.node)
       ELSE UNCHANGED <<stack, onStack, sccs>>
    /\ UNCHANGED <<deps, indexCounter, indexMap, lowlinks>>

\* All callees of the top node are done: pop its frame, close its component
\* if it is a root, and hand its lowlink to the frame below.
Finalize ==
    /\ workStack # <<>>
    /\ Top.todo = {}
    /\ workStack' = Front(workStack)
    /\ IF lowlinks[Top.node] = indexMap[Top.node]
       THEN PopComponent(Top.node)
       ELSE UNCHANGED <<stack, onStack, sccs>>
    /\ lowlinks' = IF Len(workStack) > 1
                   THEN LET parent == workStack[Len(workStack) - 1].node
                        IN  [lowlinks EXCEPT ![parent] =
                                MinOf(@, lowlinks[Top.node])]
                   ELSE lowlinks
    /\ UNCHANGED <<deps, indexCounter, indexMap>>

Next ==
    \/ \E v \in Funcs : StartNode(v)
    \/ \E w \in Funcs : VisitNew(w)
    \/ \E w \in Funcs : VisitSeen(w)
    \/ Finalize

Spec == Init /\ [][Next]_vars /\ WF_vars(Next)

-----------------------------------------------------------------------------
(***************************************************************************)
(* The search implements the doc comment: every component it appends is a  *)
(* component of the call graph, appended after the components it calls,    *)
(* and all of them are appended.                                           *)
(***************************************************************************)
Order == INSTANCE SccOrder
ImplementsSccOrder == Order!Spec

(***************************************************************************)
(* The stack is the concatenation of the parts of unfinished components:   *)
(* every node still on it reaches the node of some open frame at or below  *)
(* its own discovery, so it cannot be closed without that frame.           *)
(***************************************************************************)
StackReachesOpenFrame ==
    \A i \in DOMAIN stack :
        \E k \in DOMAIN workStack :
            /\ indexMap[workStack[k].node] <= indexMap[stack[i]]
            /\ workStack[k].node \in Reach(deps, stack[i])
=============================================================================
