--------------------------- MODULE TarjanSccProofs ---------------------------
(***************************************************************************)
(* findStronglyConnectedComponents, for every finite set of functions and  *)
(* every call graph: what it appends are the components of the call graph, *)
(* each once and after the components it calls.                            *)
(***************************************************************************)
EXTENDS TarjanScc, CallGraphTheorems, SequenceTheorems

-----------------------------------------------------------------------------
(***************************************************************************)
(* The inductive invariant.  Discovery numbers are injective and grow      *)
(* along the node stack and along the open frames; a lowlink is the number *)
(* of a node on the stack that can be reached.                             *)
(***************************************************************************)
Met == DOMAIN indexMap
Frame == [node : Funcs, todo : SUBSET Funcs]
Node(k) == workStack[k].node
Todo(k) == workStack[k].todo
Frames == 1..Len(workStack)

SearchOK ==
    /\ deps \in Graphs
    /\ Met \subseteq Funcs
    /\ indexCounter \in Nat /\ indexCounter = Cardinality(Met)
    /\ indexMap \in [Met -> Nat]
    /\ lowlinks \in [Met -> Nat]
    /\ \A x \in Met : indexMap[x] < indexCounter /\ lowlinks[x] <= indexMap[x]
    /\ \A x, y \in Met : indexMap[x] = indexMap[y] => x = y
    /\ onStack \subseteq Met
    /\ workStack \in Seq(Frame)
    /\ sccs \in Seq(SUBSET Funcs)

StackOK ==
    /\ stack \in Seq(Funcs)
    /\ onStack = {stack[i] : i \in 1..Len(stack)}
    /\ \A i, j \in 1..Len(stack) : i < j => indexMap[stack[i]] < indexMap[stack[j]]

FramesOK ==
    /\ \A k \in Frames : Node(k) \in onStack /\ Todo(k) \subseteq Adj(deps, Node(k))
    /\ \A k, l \in Frames : k < l => indexMap[Node(k)] < indexMap[Node(l)]

\* Later nodes of the stack are reached from earlier ones; each reaches a
\* frame at or below itself, and the node its own lowlink stands for.
Later == \A x, y \in onStack : indexMap[x] <= indexMap[y] => y \in Reach(deps, x)
Below ==
    \A x \in onStack : \E k \in Frames :
        indexMap[Node(k)] <= indexMap[x] /\ Node(k) \in Reach(deps, x)
LowOK ==
    \A x \in onStack : \E y \in onStack :
        indexMap[y] = lowlinks[x] /\ y \in Reach(deps, x)

(***************************************************************************)
(* A callee that no iterator still holds has been met, and while it is on  *)
(* the stack the frame that owns the caller, the last one discovered no    *)
(* later than it, knows of its number.                                     *)
(***************************************************************************)
Pending(x, w) == \E k \in Frames : Node(k) = x /\ w \in Todo(k)
Owns(k, x) ==
    /\ indexMap[Node(k)] <= indexMap[x]
    /\ \A l \in Frames : k < l => indexMap[x] < indexMap[Node(l)]
EdgesMet == \A x \in onStack : \A w \in Adj(deps, x) : Pending(x, w) \/ w \in Met
EdgesKnown ==
    \A k \in Frames, x \in onStack : Owns(k, x) =>
        \A w \in Adj(deps, x) \cap onStack :
            Pending(x, w) \/ lowlinks[Node(k)] <= indexMap[w]

\* Closed nodes call closed nodes only, and are those of the result.
ClosedOK ==
    /\ \A x \in Met \ onStack : Adj(deps, x) \subseteq Met \ onStack
    /\ UNION {sccs[i] : i \in 1..Len(sccs)} = Met \ onStack

IInv ==
    /\ SearchOK
    /\ StackOK
    /\ FramesOK
    /\ Later
    /\ Below
    /\ LowOK
    /\ EdgesMet
    /\ EdgesKnown
    /\ ClosedOK

-----------------------------------------------------------------------------
\* What f reaches is closed under calls and in every closed set that holds f.
LEMMA ReachStep ==
  ASSUME NEW d \in Graphs, NEW f \in Funcs, NEW g \in Reach(d, f), NEW h \in Adj(d, g)
  PROVE  h \in Reach(d, f)
<1>1. h \in Funcs
  BY DEF Adj
<1>2. ASSUME NEW S \in SUBSET Funcs, f \in S, ClosedUnder(d, S)
      PROVE  h \in S
  <2>1. g \in S
    BY <1>2 DEF Reach
  <2>2. QED
    BY <1>2, <2>1 DEF ClosedUnder
<1>3. QED
  BY <1>1, <1>2 DEF Reach

LEMMA ReachInClosed ==
  ASSUME NEW d \in Graphs, NEW S \in SUBSET Funcs, NEW f \in S, ClosedUnder(d, S)
  PROVE  Reach(d, f) \subseteq S
BY DEF Reach

(***************************************************************************)
(* A node met for the first time: old frames keep their nodes and lose at  *)
(* most v from their iterators, and the top frame's node calls v.          *)
(***************************************************************************)
LEMMA DiscoverKeeps ==
  ASSUME IInv, NEW v \in Funcs, v \notin Met,
         NEW fr \in Seq(Frame), Len(fr) = Len(workStack),
         \A k \in Frames : /\ fr[k].node = Node(k)
                           /\ fr[k].todo \subseteq Todo(k)
                           /\ Todo(k) \subseteq fr[k].todo \cup {v},
         workStack # <<>> => v \in Adj(deps, Node(Len(workStack))),
         Discover(v, fr)
  PROVE  IInv'
<1>n. PICK n \in Nat : n = Len(workStack)
  BY DEF IInv, SearchOK
<1>1. /\ n + 1 \in Nat
      /\ deps' = deps /\ deps \in Graphs /\ sccs' = sccs
      /\ Met' = Met \cup {v} /\ Met \subseteq Funcs
      /\ onStack' = onStack \cup {v} /\ onStack \subseteq Met
      /\ indexCounter \in Nat
  BY DEF IInv, SearchOK, Discover, Met
<1>2. /\ \A x \in Met : /\ indexMap'[x] = indexMap[x] /\ lowlinks'[x] = lowlinks[x]
                        /\ indexMap[x] \in Nat /\ lowlinks[x] \in Nat
                        /\ indexMap[x] < indexCounter /\ lowlinks[x] <= indexMap[x]
      /\ indexMap'[v] = indexCounter /\ lowlinks'[v] = indexCounter
  BY DEF IInv, SearchOK, Discover, Met
<1>3. /\ workStack' \in Seq(Frame) /\ Len(workStack') = n + 1
      /\ \A k \in 1..n : workStack'[k] = fr[k]
      /\ workStack'[n + 1] = [node |-> v, todo |-> Adj(deps, v)]
  <2>1. [node |-> v, todo |-> Adj(deps, v)] \in Frame
    BY DEF Frame, Adj
  <2>2. workStack' = Append(fr, [node |-> v, todo |-> Adj(deps, v)])
    BY DEF Discover
  <2>3. QED
    BY <1>n, <2>1, <2>2, AppendProperties
<1>4. /\ Frames' = 1..(n + 1) /\ Frames = 1..n
      /\ Node(n + 1)' = v /\ Todo(n + 1)' = Adj(deps, v)
  BY <1>n, <1>3 DEF Frames, Node, Todo
<1>5. \A k \in 1..n : /\ Node(k)' = Node(k)
                      /\ Todo(k)' \subseteq Todo(k)
                      /\ Todo(k) \subseteq Todo(k)' \cup {v}
  BY <1>n, <1>3 DEF Frames, Node, Todo
<1>6. \A k \in 1..n : Node(k) \in onStack /\ Node(k) \in Met /\ Node(k) \in Funcs
  BY <1>1, <1>4 DEF IInv, FramesOK
<1>10. SearchOK'
  <2>1. indexMap' \in [Met' -> Nat] /\ lowlinks' \in [Met' -> Nat]
    BY <1>1, <1>2 DEF IInv, SearchOK, Discover, Met
  <2>2. indexCounter' = Cardinality(Met') /\ indexCounter' = indexCounter + 1
    <3>1. IsFiniteSet(Met)
      BY <1>1, CallGraphAssumption, FS_Subset
    <3>2. Cardinality(Met \cup {v}) = Cardinality(Met) + 1
      BY <3>1, FS_AddElement, Zenon
    <3>3. QED
      BY <1>1, <3>2 DEF IInv, SearchOK, Discover
  <2>3. \A x \in Met' : indexMap'[x] < indexCounter' /\ lowlinks'[x] <= indexMap'[x]
    BY <1>1, <1>2, <2>2
  <2>4. \A x, y \in Met' : indexMap'[x] = indexMap'[y] => x = y
    BY <1>1, <1>2 DEF IInv, SearchOK
  <2>5. /\ deps' \in Graphs /\ Met' \subseteq Funcs /\ onStack' \subseteq Met'
        /\ indexCounter' \in Nat /\ sccs' \in Seq(SUBSET Funcs)
    BY <1>1, <2>2 DEF IInv, SearchOK
  <2>6. QED
    BY <1>3, <2>1, <2>2, <2>3, <2>4, <2>5 DEF SearchOK
<1>11. StackOK'
  <2>1. /\ stack' \in Seq(Funcs) /\ Len(stack) \in Nat /\ Len(stack') = Len(stack) + 1
        /\ \A i \in 1..Len(stack) : stack'[i] = stack[i]
        /\ stack'[Len(stack) + 1] = v
    BY AppendProperties, LenProperties DEF IInv, StackOK, Discover
  <2>2. \A i \in 1..Len(stack) : stack[i] \in onStack /\ stack[i] \in Met
    BY <1>1 DEF IInv, StackOK
  <2> DEFINE m == Len(stack)
  <2>3. m \in Nat /\ Len(stack') = m + 1
    BY <2>1
  <2>4. \A i \in 1..m : stack'[i] = stack[i] /\ stack[i] \in onStack /\ stack[i] \in Met
    BY <2>1, <2>2
  <2>5. stack'[m + 1] = v
    BY <2>1
  <2>6. /\ onStack = {stack[i] : i \in 1..m}
        /\ \A i, j \in 1..m : i < j => indexMap[stack[i]] < indexMap[stack[j]]
    BY DEF IInv, StackOK
  <2> HIDE DEF m
  <2>7. onStack' = {stack'[i] : i \in 1..(m + 1)}
    <3>1. \A i \in 1..(m + 1) : i \in 1..m \/ i = m + 1
      BY <2>3
    <3>2. \A i \in 1..m : i \in 1..(m + 1)
      BY <2>3
    <3>3. m + 1 \in 1..(m + 1)
      BY <2>3
    <3>4. \A x : x \in onStack' <=> \E i \in 1..(m + 1) : x = stack'[i]
      BY <3>1, <3>2, <3>3, <2>4, <2>5, <2>6, <1>1
    <3>5. QED
      BY <3>4
  <2>8. \A i, j \in 1..(m + 1) : i < j => indexMap'[stack'[i]] < indexMap'[stack'[j]]
    <3>1. SUFFICES ASSUME NEW i \in 1..(m + 1), NEW j \in 1..(m + 1), i < j
                   PROVE  indexMap'[stack'[i]] < indexMap'[stack'[j]]
      OBVIOUS
    <3>2. i \in 1..m
      BY <2>3, <3>1
    <3>3. CASE j \in 1..m
      BY <3>1, <3>2, <3>3, <2>4, <2>6, <1>2
    <3>4. CASE j = m + 1
      BY <3>2, <3>4, <2>4, <2>5, <1>2
    <3>5. QED
      BY <2>3, <3>3, <3>4
  <2>9. QED
    BY <2>1, <2>3, <2>7, <2>8 DEF StackOK
<1>12. FramesOK'
  <2>1. \A k \in 1..(n + 1) : Node(k)' \in onStack' /\ Todo(k)' \subseteq Adj(deps, Node(k)')
    <3>1. SUFFICES ASSUME NEW k \in 1..(n + 1)
                   PROVE  Node(k)' \in onStack' /\ Todo(k)' \subseteq Adj(deps, Node(k)')
      OBVIOUS
    <3>2. CASE k \in 1..n
      BY <3>2, <1>1, <1>4, <1>5 DEF IInv, FramesOK
    <3>3. CASE k = n + 1
      BY <3>3, <1>1, <1>4
    <3>4. QED
      BY <1>1, <3>2, <3>3
  <2>2. \A k, l \in 1..(n + 1) : k < l => indexMap'[Node(k)'] < indexMap'[Node(l)']
    <3>1. SUFFICES ASSUME NEW k \in 1..(n + 1), NEW l \in 1..(n + 1), k < l
                   PROVE  indexMap'[Node(k)'] < indexMap'[Node(l)']
      OBVIOUS
    <3>2. k \in 1..n
      BY <1>1, <3>1
    <3>3. CASE l \in 1..n
      BY <3>1, <3>2, <3>3, <1>2, <1>4, <1>5, <1>6 DEF IInv, FramesOK
    <3>4. CASE l = n + 1
      BY <3>2, <3>4, <1>2, <1>4, <1>5, <1>6
    <3>5. QED
      BY <1>1, <3>3, <3>4
  <2>3. QED
    BY <1>1, <1>4, <2>1, <2>2 DEF FramesOK

<1>13. Later'
  <2>1. SUFFICES ASSUME NEW x \in onStack', NEW y \in onStack', indexMap'[x] <= indexMap'[y]
                 PROVE  y \in Reach(deps, x)
    BY <1>1 DEF Later
  <2>2. CASE x = v
    <3>1. y = v
      BY <1>1, <1>2, <2>1, <2>2
    <3>2. QED
      BY <1>1, <2>2, <3>1, ReachReflexive
  <2>3. CASE x # v /\ y # v
    BY <1>1, <1>2, <2>1, <2>3 DEF IInv, Later
  <2>4. CASE x # v /\ y = v
    <3>1. x \in onStack
      BY <1>1, <2>4
    <3>2. PICK k \in 1..n : indexMap[Node(k)] <= indexMap[x] /\ Node(k) \in Reach(deps, x)
      BY <1>4, <3>1 DEF IInv, Below
    <3>3. n \in 1..n /\ v \in Adj(deps, Node(n))
      <4>1. n \in 1..n
        BY <1>1
      <4>2. workStack # <<>>
        BY <1>n, <4>1
      <4>3. QED
        BY <1>n, <4>1, <4>2
    <3>4. indexMap[Node(k)] <= indexMap[Node(n)]
      <4>1. CASE k = n
        BY <4>1, <1>2, <1>6, <3>3
      <4>2. CASE k < n
        BY <4>2, <1>2, <1>4, <1>6, <3>3 DEF IInv, FramesOK
      <4>3. QED
        BY <1>1, <4>1, <4>2
    <3>5. Node(n) \in Reach(deps, Node(k))
      BY <1>6, <3>3, <3>4 DEF IInv, Later
    <3>6. Node(n) \in Reach(deps, x)
      BY <1>1, <3>1, <3>2, <3>5, ReachTransitive
    <3>7. QED
      BY <1>1, <2>4, <3>1, <3>3, <3>6, ReachStep
  <2>5. QED
    BY <2>2, <2>3, <2>4
<1>14. Below'
  <2>1. SUFFICES ASSUME NEW x \in onStack'
                 PROVE  \E k \in 1..(n + 1) : /\ indexMap'[Node(k)'] <= indexMap'[x]
                                              /\ Node(k)' \in Reach(deps, x)
    BY <1>1, <1>4 DEF Below
  <2>2. CASE x = v
    <3>1. n + 1 \in 1..(n + 1)
      BY <1>1
    <3>2. QED
      BY <1>1, <1>2, <1>4, <2>2, <3>1, ReachReflexive
  <2>3. CASE x \in onStack
    <3>1. PICK k \in 1..n : indexMap[Node(k)] <= indexMap[x] /\ Node(k) \in Reach(deps, x)
      BY <1>4, <2>3 DEF IInv, Below
    <3>2. k \in 1..(n + 1)
      BY <1>1
    <3>3. QED
      BY <1>1, <1>2, <1>5, <1>6, <2>3, <3>1, <3>2
  <2>4. QED
    BY <1>1, <2>2, <2>3
<1>15. LowOK'
  <2>1. SUFFICES ASSUME NEW x \in onStack'
                 PROVE  \E y \in onStack' : indexMap'[y] = lowlinks'[x] /\ y \in Reach(deps, x)
    BY <1>1 DEF LowOK
  <2>2. CASE x = v
    BY <1>1, <1>2, <2>2, ReachReflexive
  <2>3. CASE x \in onStack
    <3>1. PICK y \in onStack : indexMap[y] = lowlinks[x] /\ y \in Reach(deps, x)
      BY <2>3 DEF IInv, LowOK
    <3>2. QED
      BY <1>1, <1>2, <2>3, <3>1
  <2>4. QED
    BY <1>1, <2>2, <2>3
<1>16. ASSUME NEW x \in onStack, NEW w \in Funcs, w # v, Pending(x, w)
       PROVE  Pending(x, w)'
  <2>1. PICK k \in 1..n : Node(k) = x /\ w \in Todo(k)
    BY <1>4, <1>16 DEF Pending
  <2>2. k \in 1..(n + 1) /\ Node(k)' = x /\ w \in Todo(k)'
    BY <1>1, <1>5, <1>16, <2>1
  <2>3. QED
    BY <1>4, <2>2 DEF Pending
<1>17. ASSUME NEW w \in Adj(deps, v)
       PROVE  Pending(v, w)'
  <2>1. n + 1 \in 1..(n + 1)
    BY <1>1
  <2>2. QED
    BY <1>4, <2>1 DEF Pending
<1>18. EdgesMet'
  <2>1. SUFFICES ASSUME NEW x \in onStack', NEW w \in Adj(deps, x)
                 PROVE  Pending(x, w)' \/ w \in Met'
    BY <1>1 DEF EdgesMet
  <2>2. w \in Funcs
    BY DEF Adj
  <2>3. CASE x = v
    BY <1>17, <2>3
  <2>4. CASE x \in onStack
    BY <1>1, <1>16, <2>2, <2>4 DEF IInv, EdgesMet
  <2>5. QED
    BY <1>1, <2>3, <2>4
<1>19. EdgesKnown'
  <2>1. SUFFICES ASSUME NEW k \in 1..(n + 1), NEW x \in onStack', Owns(k, x)',
                        NEW w \in Adj(deps, x) \cap onStack', ~ Pending(x, w)'
                 PROVE  lowlinks'[Node(k)'] <= indexMap'[w]
    BY <1>1, <1>4 DEF EdgesKnown
  <2>2. w \in Funcs
    BY DEF Adj
  <2>3. x # v
    BY <1>17, <2>1
  <2>4. x \in onStack /\ x \in Met
    BY <1>1, <2>3
  <2>5. k \in 1..n
    <3>1. SUFFICES ASSUME k = n + 1 PROVE FALSE
      BY <1>1
    <3>2. indexMap'[Node(k)'] <= indexMap'[x]
      BY <2>1 DEF Owns
    <3>3. QED
      BY <1>1, <1>2, <1>4, <2>4, <3>1, <3>2
  <2>6. Owns(k, x)
    <3>1. indexMap[Node(k)] <= indexMap[x]
      BY <1>2, <1>5, <1>6, <2>1, <2>4, <2>5 DEF Owns
    <3>2. ASSUME NEW l \in 1..n, k < l
          PROVE  indexMap[x] < indexMap[Node(l)]
      <4>1. l \in 1..(n + 1)
        BY <1>1
      <4>2. indexMap'[x] < indexMap'[Node(l)']
        BY <1>4, <2>1, <3>2, <4>1 DEF Owns
      <4>3. QED
        BY <1>2, <1>5, <1>6, <2>4, <4>2
    <3>3. QED
      BY <1>4, <3>1, <3>2 DEF Owns
  <2>7. CASE w = v
    BY <1>1, <1>2, <1>5, <1>6, <2>5, <2>7
  <2>8. CASE w # v
    <3>1. w \in onStack /\ w \in Met /\ ~ Pending(x, w)
      BY <1>1, <1>16, <2>1, <2>2, <2>4, <2>8
    <3>2. lowlinks[Node(k)] <= indexMap[w]
      BY <1>4, <2>4, <2>5, <2>6, <3>1 DEF IInv, EdgesKnown
    <3>3. QED
      BY <1>2, <1>5, <1>6, <2>5, <3>1, <3>2
  <2>9. QED
    BY <2>7, <2>8
<1>20. ClosedOK'
  <2>1. Met' \ onStack' = Met \ onStack
    BY <1>1
  <2>2. QED
    BY <1>1, <2>1 DEF IInv, ClosedOK
<1>21. QED
  BY <1>10, <1>11, <1>12, <1>13, <1>14, <1>15, <1>18, <1>19, <1>20 DEF IInv

-----------------------------------------------------------------------------
\* Taking a callee from the top iterator leaves the other frames alone.
LEMMA AdvancedFrames ==
  ASSUME workStack \in Seq(Frame), workStack # <<>>, NEW w
  PROVE  /\ Advanced(w) \in Seq(Frame)
         /\ Len(Advanced(w)) = Len(workStack)
         /\ \A k \in Frames : /\ Advanced(w)[k].node = Node(k)
                              /\ Advanced(w)[k].todo = IF k = Len(workStack)
                                                       THEN Todo(k) \ {w} ELSE Todo(k)
<1>n. PICK n \in Nat : n = Len(workStack)
  OBVIOUS
<1>1. n \in 1..n /\ DOMAIN workStack = 1..n /\ \A k \in 1..n : workStack[k] \in Frame
  BY <1>n
<1>2. PICK e : e = [Top EXCEPT !.todo = @ \ {w}]
  OBVIOUS
<1>3. e \in Frame /\ e.node = Node(n) /\ e.todo = Todo(n) \ {w}
  BY <1>n, <1>1, <1>2 DEF Top, Last, Frame, Node, Todo
<1>4. Advanced(w) = [workStack EXCEPT ![n] = e]
  BY <1>n, <1>2 DEF Advanced, ReplaceAt
<1>5. Advanced(w) \in Seq(Frame) /\ Len(Advanced(w)) = n
  BY <1>n, <1>1, <1>3, <1>4, ExceptSeq
<1>6. \A k \in 1..n : Advanced(w)[k] = IF k = n THEN e ELSE workStack[k]
  BY <1>1, <1>4
<1>7. QED
  BY <1>n, <1>3, <1>5, <1>6 DEF Frames, Node, Todo

\* The start node is met with no frame open, a new callee with its caller's
\* frame on top.
LEMMA StartNodeKeeps ==
  ASSUME IInv, NEW v \in Funcs, StartNode(v)
  PROVE  IInv'
<1>1. /\ workStack \in Seq(Frame) /\ Len(workStack) = Len(workStack)
      /\ \A k \in Frames : workStack[k].node = Node(k) /\ workStack[k].todo = Todo(k)
  BY DEF IInv, SearchOK, Node, Todo
<1>2. v \notin Met /\ workStack = <<>> /\ Discover(v, workStack)
  BY DEF StartNode, Met
<1>3. QED
  BY <1>1, <1>2, DiscoverKeeps

LEMMA VisitNewKeeps ==
  ASSUME IInv, NEW w \in Funcs, VisitNew(w)
  PROVE  IInv'
<1>1. /\ workStack \in Seq(Frame) /\ workStack # <<>> /\ w \notin Met
      /\ Discover(w, Advanced(w)) /\ w \in Top.todo
  BY DEF IInv, SearchOK, VisitNew, Met
<1>2. w \in Adj(deps, Node(Len(workStack)))
  <2>1. Len(workStack) \in Frames
    BY <1>1 DEF Frames
  <2>2. QED
    BY <1>1, <2>1 DEF IInv, FramesOK, Top, Last, Todo
<1>3. PICK fr \in Seq(Frame) : fr = Advanced(w)
  BY <1>1, AdvancedFrames
<1>4. /\ Len(fr) = Len(workStack)
      /\ \A k \in Frames : /\ fr[k].node = Node(k)
                           /\ fr[k].todo \subseteq Todo(k)
                           /\ Todo(k) \subseteq fr[k].todo \cup {w}
  BY <1>1, <1>3, AdvancedFrames
<1>5. QED
  BY <1>1, <1>2, <1>3, <1>4, DiscoverKeeps

(***************************************************************************)
(* A callee met before: it leaves the top iterator, and if it is on the    *)
(* stack the lowlink of the top frame's node is at most its number.        *)
(***************************************************************************)
LEMMA VisitSeenKeeps ==
  ASSUME IInv, NEW w \in Funcs, VisitSeen(w)
  PROVE  IInv'
<1>n. PICK n \in Nat : n = Len(workStack)
  BY DEF IInv, SearchOK
<1>1. /\ n \in 1..n /\ Frames = 1..n
      /\ deps' = deps /\ deps \in Graphs /\ sccs' = sccs /\ onStack' = onStack
      /\ stack' = stack /\ indexMap' = indexMap /\ indexCounter' = indexCounter
      /\ Met' = Met /\ Met \subseteq Funcs /\ onStack \subseteq Met /\ w \in Met
      /\ workStack \in Seq(Frame) /\ workStack # <<>>
      /\ workStack' = Advanced(w)
  BY <1>n DEF IInv, SearchOK, VisitSeen, Met, Frames
<1>2. \A x \in Met : /\ indexMap[x] \in Nat /\ lowlinks[x] \in Nat
                     /\ lowlinks[x] <= indexMap[x]
  BY DEF IInv, SearchOK, Met
<1>3. PICK t : t = Node(n)
  OBVIOUS
<1>4. t \in onStack /\ t \in Met /\ t \in Funcs /\ w \in Adj(deps, t)
  BY <1>n, <1>1, <1>3 DEF IInv, FramesOK, VisitSeen, Top, Last, Node, Todo
<1>5. /\ lowlinks' \in [Met -> Nat]
      /\ \A x \in Met : lowlinks'[x] <= lowlinks[x] /\ lowlinks'[x] \in Nat
      /\ \A x \in Met : lowlinks'[x] = lowlinks[x]
                        \/ (x = t /\ w \in onStack /\ lowlinks'[x] = indexMap[w])
      /\ w \in onStack => lowlinks'[t] <= indexMap[w]
  <2>1. lowlinks' = IF w \in onStack
                    THEN [lowlinks EXCEPT ![t] = MinOf(@, indexMap[w])]
                    ELSE lowlinks
    BY <1>n, <1>3 DEF VisitSeen, Top, Last, Node
  <2>2. lowlinks \in [Met -> Nat]
    BY DEF IInv, SearchOK
  <2>3. MinOf(lowlinks[t], indexMap[w]) \in Nat
    BY <1>1, <1>2, <1>4 DEF MinOf
  <2>4. QED
    BY <1>1, <1>2, <1>4, <2>1, <2>2, <2>3 DEF MinOf
<1>6. /\ workStack' \in Seq(Frame) /\ Len(workStack') = n
      /\ \A k \in 1..n : workStack'[k].node = Node(k)
                         /\ workStack'[k].todo = IF k = n THEN Todo(k) \ {w} ELSE Todo(k)
  BY <1>n, <1>1, AdvancedFrames
<1>7. /\ Frames' = 1..n
      /\ \A k \in 1..n : /\ Node(k)' = Node(k)
                         /\ Todo(k)' = IF k = n THEN Todo(k) \ {w} ELSE Todo(k)
  BY <1>6 DEF Frames, Node, Todo
<1>8. \A k \in 1..n : Node(k) \in onStack /\ Node(k) \in Met
  BY <1>1 DEF IInv, FramesOK
<1>9. \A k \in 1..n, x \in Met : Owns(k, x)' <=> Owns(k, x)
  <2>1. SUFFICES ASSUME NEW k \in 1..n, NEW x \in Met PROVE Owns(k, x)' <=> Owns(k, x)
    OBVIOUS
  <2>2. \A l \in 1..n : Node(l)' = Node(l)
    BY <1>7
  <2>3. QED
    BY <1>1, <1>7, <2>2 DEF Owns
<1>10. ASSUME NEW x \in onStack, NEW u, Pending(x, u), x # t \/ u # w
       PROVE  Pending(x, u)'
  <2>1. PICK k \in 1..n : Node(k) = x /\ u \in Todo(k)
    BY <1>1, <1>10 DEF Pending
  <2>2. Node(k)' = x /\ u \in Todo(k)'
    BY <1>3, <1>7, <1>10, <2>1
  <2>3. QED
    BY <1>7, <2>2 DEF Pending
<1>11. SearchOK'
  <2>1. \A x \in Met' : indexMap'[x] < indexCounter' /\ lowlinks'[x] <= indexMap'[x]
    <3>1. \A x \in Met : indexMap[x] < indexCounter
      BY DEF IInv, SearchOK
    <3>2. QED
      BY <1>1, <1>2, <1>5, <3>1
  <2>2. QED
    BY <1>1, <1>5, <1>6, <2>1 DEF IInv, SearchOK
<1>12. StackOK'
  BY <1>1 DEF IInv, StackOK
<1>13. FramesOK'
  <2>1. \A k \in 1..n : Node(k)' \in onStack' /\ Todo(k)' \subseteq Adj(deps', Node(k)')
    BY <1>1, <1>7 DEF IInv, FramesOK
  <2>2. \A k, l \in 1..n : k < l => indexMap'[Node(k)'] < indexMap'[Node(l)']
    BY <1>1, <1>7 DEF IInv, FramesOK
  <2>3. QED
    BY <1>7, <2>1, <2>2 DEF FramesOK
<1>14. Later'
  BY <1>1 DEF IInv, Later
<1>15. Below'
  <2>1. SUFFICES ASSUME NEW x \in onStack
                 PROVE  \E k \in 1..n : /\ indexMap[Node(k)'] <= indexMap[x]
                                        /\ Node(k)' \in Reach(deps, x)
    BY <1>1, <1>7 DEF Below
  <2>2. QED
    BY <1>1, <1>7 DEF IInv, Below
<1>16. LowOK'
  <2>1. SUFFICES ASSUME NEW x \in onStack
                 PROVE  \E y \in onStack : indexMap[y] = lowlinks'[x] /\ y \in Reach(deps, x)
    BY <1>1 DEF LowOK
  <2>2. CASE lowlinks'[x] = lowlinks[x]
    BY <2>2 DEF IInv, LowOK
  <2>3. CASE x = t /\ w \in onStack /\ lowlinks'[x] = indexMap[w]
    BY <1>1, <1>4, <2>3, ReachReflexive, ReachStep
  <2>4. QED
    BY <1>1, <1>5, <2>2, <2>3
<1>17. EdgesMet'
  <2>1. SUFFICES ASSUME NEW x \in onStack, NEW u \in Adj(deps, x)
                 PROVE  Pending(x, u)' \/ u \in Met
    BY <1>1 DEF EdgesMet
  <2>2. CASE x = t /\ u = w
    BY <1>1, <2>2
  <2>3. CASE x # t \/ u # w
    BY <1>10, <2>3 DEF IInv, EdgesMet
  <2>4. QED
    BY <2>2, <2>3
<1>18. EdgesKnown'
  <2>1. SUFFICES ASSUME NEW k \in 1..n, NEW x \in onStack, Owns(k, x),
                        NEW u \in Adj(deps, x) \cap onStack, ~ Pending(x, u)'
                 PROVE  lowlinks'[Node(k)] <= indexMap[u]
    <3>1. \A k \in 1..n, x \in onStack : Owns(k, x)' => Owns(k, x)
      BY <1>1, <1>9
    <3>2. QED
      BY <1>1, <1>7, <3>1 DEF EdgesKnown
  <2>2. CASE x = t /\ u = w
    <3>1. k = n
      <4>1. SUFFICES ASSUME k < n PROVE FALSE
        BY <1>n, <2>1
      <4>2. indexMap[x] < indexMap[Node(n)]
        BY <1>1, <2>1, <4>1 DEF Owns
      <4>3. QED
        BY <1>2, <1>3, <1>4, <2>2, <4>2
    <3>2. QED
      BY <1>3, <1>5, <2>2, <3>1
  <2>3. CASE x # t \/ u # w
    <3>1. lowlinks[Node(k)] <= indexMap[u]
      BY <1>1, <1>10, <2>1, <2>3 DEF IInv, EdgesKnown
    <3>2. QED
      BY <1>1, <1>2, <1>5, <1>8, <3>1
  <2>4. QED
    BY <2>2, <2>3
<1>19. ClosedOK'
  BY <1>1 DEF IInv, ClosedOK
<1>20. QED
  BY <1>11, <1>12, <1>13, <1>14, <1>15, <1>16, <1>17, <1>18, <1>19 DEF IInv

-----------------------------------------------------------------------------
\* The nodes met no earlier than the node of the top frame.
Upper == {x \in onStack : indexMap[Top.node] <= indexMap[x]}

(***************************************************************************)
(* When all callees of the top node are done and its lowlink is its own    *)
(* number, the nodes above it on the stack are its component, and call     *)
(* nothing but each other and closed nodes.                                *)
(***************************************************************************)
LEMMA UpperIsComponent ==
  ASSUME IInv, workStack # <<>>, Top.todo = {}, lowlinks[Top.node] = indexMap[Top.node]
  PROVE  /\ Upper = Component(deps, Top.node) /\ Top.node \in Upper
         /\ \A x \in Upper : Adj(deps, x) \subseteq Upper \cup (Met \ onStack)
<1>n. PICK n \in Nat : n = Len(workStack)
  BY DEF IInv, SearchOK
<1>1. /\ n \in 1..n /\ Frames = 1..n /\ deps \in Graphs
      /\ Met \subseteq Funcs /\ onStack \subseteq Met
  BY <1>n DEF IInv, SearchOK, Frames
<1>2. \A x \in Met : indexMap[x] \in Nat
  BY DEF IInv, SearchOK, Met
<1>3. PICK t : t = Top.node
  OBVIOUS
<1>4. t = Node(n) /\ t \in onStack /\ t \in Met /\ t \in Funcs /\ Todo(n) = {}
  BY <1>n, <1>1, <1>3 DEF IInv, FramesOK, Top, Last, Node, Todo
<1>5. Upper = {x \in onStack : indexMap[t] <= indexMap[x]}
  BY <1>3 DEF Upper
<1>6. t \in Upper
  BY <1>2, <1>4, <1>5
<1>7. \A k \in 1..n : /\ Node(k) \in onStack /\ Node(k) \in Met
                      /\ indexMap[Node(k)] <= indexMap[t]
                      /\ k # n => indexMap[Node(k)] < indexMap[t]
  <2>1. SUFFICES ASSUME NEW k \in 1..n
                 PROVE  /\ Node(k) \in onStack /\ Node(k) \in Met
                        /\ indexMap[Node(k)] <= indexMap[t]
                        /\ k # n => indexMap[Node(k)] < indexMap[t]
    OBVIOUS
  <2>2. Node(k) \in onStack /\ Node(k) \in Met
    BY <1>1 DEF IInv, FramesOK
  <2>3. k < n => indexMap[Node(k)] < indexMap[t]
    BY <1>1, <1>4 DEF IInv, FramesOK
  <2>4. k < n \/ k = n
    BY <1>n
  <2>5. QED
    BY <1>2, <1>4, <2>2, <2>3, <2>4
<1>8. ASSUME NEW x \in Upper
      PROVE  Adj(deps, x) \subseteq Upper \cup (Met \ onStack)
  <2>1. SUFFICES ASSUME NEW w \in Adj(deps, x) PROVE w \in Upper \cup (Met \ onStack)
    OBVIOUS
  <2>2. x \in onStack /\ x \in Met /\ indexMap[t] <= indexMap[x]
    BY <1>1, <1>5
  <2>3. ~ Pending(x, w)
    <3>1. SUFFICES ASSUME NEW k \in 1..n, Node(k) = x, w \in Todo(k) PROVE FALSE
      BY <1>1 DEF Pending
    <3>2. k # n
      BY <1>4, <3>1
    <3>3. indexMap[x] < indexMap[t]
      BY <1>7, <3>1, <3>2
    <3>4. QED
      BY <1>2, <1>4, <2>2, <3>3
  <2>4. w \in Met
    BY <2>2, <2>3 DEF IInv, EdgesMet
  <2>5. ASSUME w \in onStack
        PROVE  indexMap[t] <= indexMap[w]
    <3>1. Owns(n, x)
      <4>1. \A l \in 1..n : ~ (n < l)
        BY <1>n
      <4>2. QED
        BY <1>1, <1>4, <2>2, <4>1 DEF Owns
    <3>2. lowlinks[t] <= indexMap[w]
      BY <1>1, <1>4, <2>2, <2>3, <2>5, <3>1 DEF IInv, EdgesKnown
    <3>3. QED
      BY <1>3, <3>2
  <2>6. QED
    BY <1>5, <2>4, <2>5
<1>9. ASSUME NEW x \in Upper
      PROVE  x \in Component(deps, t)
  <2>1. x \in onStack /\ x \in Met /\ x \in Funcs /\ indexMap[t] <= indexMap[x]
    BY <1>1, <1>5
  <2>2. x \in Reach(deps, t)
    BY <1>4, <2>1 DEF IInv, Later
  <2>3. PICK k \in 1..n : Node(k) \in Reach(deps, x)
    BY <1>1, <2>1 DEF IInv, Below
  <2>4. t \in Reach(deps, Node(k))
    BY <1>4, <1>7 DEF IInv, Later
  <2>5. t \in Reach(deps, x)
    BY <1>1, <2>1, <2>3, <2>4, ReachTransitive
  <2>6. QED
    BY <2>2, <2>5 DEF Component
<1>10. ASSUME NEW x \in Component(deps, t)
       PROVE  x \in Upper
  <2>1. x \in Reach(deps, t) /\ t \in Reach(deps, x) /\ x \in Funcs
    BY DEF Component, Reach
  <2>2. PICK C : C = Met \ onStack
    OBVIOUS
  <2>3. ClosedUnder(deps, C) /\ C \subseteq Funcs
    BY <1>1, <2>2 DEF IInv, ClosedOK, ClosedUnder
  <2>4. ClosedUnder(deps, Upper \cup C) /\ Upper \cup C \subseteq Funcs
    BY <1>1, <1>5, <1>8, <2>2, <2>3 DEF ClosedUnder
  <2>5. x \in Upper \cup C
    BY <1>1, <1>6, <2>1, <2>4, ReachInClosed
  <2>6. x \notin C
    BY <1>1, <1>4, <2>1, <2>2, <2>3, ReachInClosed
  <2>7. QED
    BY <2>5, <2>6
<1>11. QED
  BY <1>3, <1>6, <1>8, <1>9, <1>10

\* The inner while loop takes exactly these nodes from the stack.
LEMMA PopsUpper ==
  ASSUME IInv, workStack # <<>>, PopComponent(Top.node), indexMap' = indexMap
  PROVE  /\ onStack' = onStack \ Upper
         /\ sccs' = Append(sccs, Upper)
         /\ StackOK'
<1>1. PICK m \in Nat : m = Len(stack)
  BY DEF IInv, StackOK
<1>2. /\ stack \in Seq(Funcs) /\ DOMAIN stack = 1..m
      /\ onStack = {stack[i] : i \in 1..m}
      /\ \A i, j \in 1..m : i < j => indexMap[stack[i]] < indexMap[stack[j]]
  BY <1>1 DEF IInv, StackOK
<1>3. \A i \in 1..m : stack[i] \in onStack /\ indexMap[stack[i]] \in Nat
  BY <1>2 DEF IInv, SearchOK, Met
<1>4. PICK t : t = Top.node
  OBVIOUS
<1>5. t \in onStack
  <2>1. Len(workStack) \in Frames
    BY DEF IInv, SearchOK, Frames
  <2>2. QED
    BY <1>4, <2>1 DEF IInv, FramesOK, Top, Last, Node
<1>6. PICK a : a = CHOOSE i \in DOMAIN stack : stack[i] = t
  OBVIOUS
<1>7. a \in 1..m /\ stack[a] = t
  BY <1>2, <1>5, <1>6
<1>8. /\ stack' = SubSeq(stack, 1, a - 1)
      /\ onStack' = onStack \ {stack[i] : i \in a..m}
      /\ sccs' = Append(sccs, {stack[i] : i \in a..m})
  BY <1>1, <1>4, <1>6 DEF PopComponent
<1>9. \A i, j \in 1..m : indexMap[stack[i]] <= indexMap[stack[j]] <=> i <= j
  <2>1. SUFFICES ASSUME NEW i \in 1..m, NEW j \in 1..m
                 PROVE  indexMap[stack[i]] <= indexMap[stack[j]] <=> i <= j
    OBVIOUS
  <2>2. PICK p, q : p = indexMap[stack[i]] /\ q = indexMap[stack[j]]
    OBVIOUS
  <2>3. p \in Nat /\ q \in Nat /\ (i = j => p = q)
    BY <1>3, <2>2
  <2>4. (i < j => p < q) /\ (j < i => q < p)
    BY <1>2, <2>2
  <2>5. QED
    BY <2>2, <2>3, <2>4
<1>10. Upper = {stack[i] : i \in a..m}
  <2>1. Upper = {x \in onStack : indexMap[t] <= indexMap[x]}
    BY <1>4 DEF Upper
  <2>2. \A i : i \in a..m <=> i \in 1..m /\ a <= i
    BY <1>7
  <2>3. QED
    BY <1>2, <1>7, <1>9, <2>1, <2>2
<1>11. /\ stack' \in Seq(Funcs) /\ Len(stack') = a - 1
       /\ \A i \in 1..(a - 1) : stack'[i] = stack[i] /\ i \in 1..m
  <2>1. PICK b \in Nat : b = a - 1
    BY <1>7
  <2>2. \A i \in 1..b : stack[i] \in Funcs /\ i \in 1..m
    BY <1>2, <1>7, <2>1
  <2>3. /\ SubSeq(stack, 1, b) \in Seq(Funcs)
        /\ Len(SubSeq(stack, 1, b)) = IF 1 <= b THEN b - 1 + 1 ELSE 0
        /\ \A i \in 1..(b - 1 + 1) : SubSeq(stack, 1, b)[i] = stack[1 + i - 1]
    BY <1>2, <2>2, SubSeqProperties
  <2>4. Len(SubSeq(stack, 1, b)) = b /\ b - 1 + 1 = b
    BY <2>1, <2>3
  <2>5. \A i \in 1..b : SubSeq(stack, 1, b)[i] = stack[i]
    BY <2>3, <2>4
  <2>6. QED
    BY <1>8, <2>1, <2>2, <2>3, <2>4, <2>5
<1>12. onStack \ Upper = {stack'[i] : i \in 1..(a - 1)}
  <2>1. ASSUME NEW i \in 1..m
        PROVE  stack[i] \notin Upper <=> i \in 1..(a - 1)
    <3>1. stack[i] \in Upper <=> indexMap[t] <= indexMap[stack[i]]
      BY <1>3, <1>4 DEF Upper
    <3>2. stack[i] \in Upper <=> a <= i
      BY <1>7, <1>9, <3>1
    <3>3. QED
      BY <1>7, <3>2
  <2>2. QED
    BY <1>2, <1>11, <2>1
<1>13. StackOK'
  <2>1. onStack' = {stack'[i] : i \in 1..Len(stack')}
    BY <1>8, <1>10, <1>11, <1>12
  <2>2. \A i, j \in 1..Len(stack') : i < j => indexMap[stack'[i]] < indexMap[stack'[j]]
    BY <1>2, <1>11
  <2>3. QED
    BY <1>11, <2>1, <2>2 DEF StackOK
<1>14. QED
  BY <1>8, <1>10, <1>13

(***************************************************************************)
(* All callees of the top node are done: its frame goes.  If it is no root *)
(* its lowlink shows a node below it, and so a frame below it, that it     *)
(* reaches; if it is one its component goes too, and what it hands to the  *)
(* frame below is no news there.                                           *)
(***************************************************************************)
LEMMA FinalizeKeeps ==
  ASSUME IInv, Finalize
  PROVE  IInv'
<1>n. PICK n \in Nat : n = Len(workStack)
  BY DEF IInv, SearchOK
<1>m. PICK m \in Nat : m = n - 1 /\ n = m + 1
  <2>1. workStack \in Seq(Frame) /\ workStack # <<>>
    BY DEF IInv, SearchOK, Finalize
  <2>2. n # 0
    BY <1>n, <2>1
  <2>3. n - 1 \in Nat /\ n = (n - 1) + 1
    BY <2>2
  <2>4. QED
    BY <2>3
<1>1. /\ n \in 1..n /\ Frames = 1..n /\ \A k \in 1..m : k \in 1..n /\ k < n
      /\ deps' = deps /\ deps \in Graphs /\ indexMap' = indexMap
      /\ indexCounter' = indexCounter
      /\ Met' = Met /\ Met \subseteq Funcs /\ onStack \subseteq Met
      /\ workStack \in Seq(Frame) /\ workStack # <<>> /\ Top.todo = {}
  BY <1>n, <1>m DEF IInv, SearchOK, Finalize, Met, Frames
<1>2. \A x \in Met : /\ indexMap[x] \in Nat /\ lowlinks[x] \in Nat
                     /\ lowlinks[x] <= indexMap[x]
  BY DEF IInv, SearchOK, Met
<1>3. PICK t : t = Top.node
  OBVIOUS
<1>4. /\ t = Node(n) /\ t \in onStack /\ t \in Met /\ t \in Funcs /\ Todo(n) = {}
  BY <1>n, <1>1, <1>3 DEF IInv, FramesOK, Top, Last, Node, Todo
<1>5. \A k \in 1..n : Node(k) \in onStack /\ Node(k) \in Met /\ Node(k) \in Funcs
  BY <1>1 DEF IInv, FramesOK
<1>6. \A k, l \in 1..n : k < l => indexMap[Node(k)] < indexMap[Node(l)]
  BY <1>1 DEF IInv, FramesOK
<1>7. /\ workStack' \in Seq(Frame) /\ Len(workStack') = m
      /\ \A k \in 1..m : workStack'[k] = workStack[k]
  <2>1. workStack' = SubSeq(workStack, 1, m)
    BY <1>n, <1>m DEF Finalize, Front
  <2>2. \A i \in 1..m : workStack[i] \in Frame
    BY <1>n, <1>1
  <2>3. /\ SubSeq(workStack, 1, m) \in Seq(Frame)
        /\ Len(SubSeq(workStack, 1, m)) = IF 1 <= m THEN m - 1 + 1 ELSE 0
        /\ \A i \in 1..(m - 1 + 1) : SubSeq(workStack, 1, m)[i] = workStack[1 + i - 1]
    BY <1>1, <2>2, SubSeqProperties
  <2>4. Len(SubSeq(workStack, 1, m)) = m
    BY <2>3
  <2>5. \A k \in 1..m : SubSeq(workStack, 1, m)[k] = workStack[k]
    BY <2>3
  <2>6. QED
    BY <2>1, <2>3, <2>4, <2>5
<1>8. /\ Frames' = 1..m
      /\ \A k \in 1..m : Node(k)' = Node(k) /\ Todo(k)' = Todo(k)
  BY <1>7 DEF Frames, Node, Todo
<1>9. /\ lowlinks' \in [Met -> Nat]
      /\ \A x \in Met : lowlinks'[x] <= lowlinks[x] /\ lowlinks'[x] \in Nat
      /\ \A x \in Met : lowlinks'[x] = lowlinks[x]
                        \/ (m \in 1..m /\ x = Node(m) /\ lowlinks'[x] = lowlinks[t])
      /\ m \in 1..m => lowlinks'[Node(m)] <= lowlinks[t]
  <2>1. lowlinks' = IF m \in 1..m
                    THEN [lowlinks EXCEPT ![Node(m)] = MinOf(@, lowlinks[t])]
                    ELSE lowlinks
    <3>1. Len(workStack) - 1 = m /\ (Len(workStack) > 1 <=> m \in 1..m)
      BY <1>n, <1>m
    <3>2. lowlinks' = IF Len(workStack) > 1
                      THEN [lowlinks EXCEPT ![Node(Len(workStack) - 1)] = MinOf(@, lowlinks[t])]
                      ELSE lowlinks
      BY <1>3 DEF Finalize, Node
    <3>3. QED
      BY <3>1, <3>2, Zenon
  <2>2. lowlinks \in [Met -> Nat]
    BY DEF IInv, SearchOK
  <2>3. CASE m \in 1..m
    <3>1. Node(m) \in Met /\ lowlinks[Node(m)] \in Nat /\ lowlinks[t] \in Nat
      BY <1>1, <1>2, <1>4, <1>5, <2>3
    <3>2. /\ MinOf(lowlinks[Node(m)], lowlinks[t]) \in Nat
          /\ MinOf(lowlinks[Node(m)], lowlinks[t]) <= lowlinks[Node(m)]
          /\ MinOf(lowlinks[Node(m)], lowlinks[t]) <= lowlinks[t]
          /\ \/ MinOf(lowlinks[Node(m)], lowlinks[t]) = lowlinks[Node(m)]
             \/ MinOf(lowlinks[Node(m)], lowlinks[t]) = lowlinks[t]
      BY <3>1 DEF MinOf
    <3>3. QED
      BY <1>2, <2>1, <2>2, <2>3, <3>1, <3>2
  <2>4. CASE m \notin 1..m
    BY <1>2, <2>1, <2>2, <2>4
  <2>5. QED
    BY <2>3, <2>4
<1>10. ASSUME NEW x, NEW w
       PROVE  Pending(x, w) => Pending(x, w)'
  <2>1. SUFFICES ASSUME NEW k \in 1..n, Node(k) = x, w \in Todo(k) PROVE Pending(x, w)'
    BY <1>1 DEF Pending
  <2>2. k \in 1..m
    BY <1>m, <1>4, <2>1
  <2>3. QED
    BY <1>8, <2>1, <2>2 DEF Pending
<1>11. SearchOK' <=> onStack' \subseteq Met /\ sccs' \in Seq(SUBSET Funcs)
  <2>1. \A x \in Met' : indexMap'[x] < indexCounter' /\ lowlinks'[x] <= indexMap'[x]
    <3>1. \A x \in Met : indexMap[x] < indexCounter
      BY DEF IInv, SearchOK
    <3>2. QED
      BY <1>1, <1>2, <1>9, <3>1
  <2>2. QED
    BY <1>1, <1>7, <1>9, <2>1 DEF IInv, SearchOK
\* Who owns a node once the top frame has gone.
<1>12. ASSUME NEW k \in 1..m, NEW x \in Met, Owns(k, x)'
       PROVE  IF indexMap[t] <= indexMap[x] THEN k = m /\ Owns(n, x) ELSE Owns(k, x)
  <2>1. indexMap[Node(k)] <= indexMap[x]
    BY <1>1, <1>8, <1>12 DEF Owns
  <2>2. ASSUME NEW l \in 1..m, k < l PROVE indexMap[x] < indexMap[Node(l)]
    <3>1. indexMap'[x] < indexMap'[Node(l)']
      BY <1>8, <1>12, <2>2 DEF Owns
    <3>2. QED
      BY <1>1, <1>8, <3>1
  <2>3. CASE indexMap[t] <= indexMap[x]
    <3>1. \A l \in 1..n : ~ (n < l)
      BY <1>n
    <3>2. Owns(n, x)
      BY <1>1, <1>4, <2>3, <3>1 DEF Owns
    <3>3. k = m
      <4>1. SUFFICES ASSUME k < m PROVE FALSE
        BY <1>m
      <4>2. m \in 1..m /\ m < n
        BY <1>m, <4>1
      <4>3. indexMap[x] < indexMap[Node(m)]
        BY <2>2, <4>1, <4>2
      <4>4. indexMap[Node(m)] < indexMap[t]
        BY <1>1, <1>4, <1>6, <4>2
      <4>5. QED
        BY <1>1, <1>2, <1>4, <1>5, <2>3, <4>2, <4>3, <4>4
    <3>4. QED
      BY <2>3, <3>2, <3>3
  <2>4. CASE ~ (indexMap[t] <= indexMap[x])
    <3>1. ASSUME NEW l \in 1..n, k < l PROVE indexMap[x] < indexMap[Node(l)]
      <4>1. CASE l \in 1..m
        BY <2>2, <3>1, <4>1
      <4>2. CASE l = n
        BY <1>2, <1>4, <2>4, <4>2
      <4>3. QED
        BY <1>m, <4>1, <4>2
    <3>2. QED
      BY <1>1, <2>1, <2>4, <3>1 DEF Owns
  <2>5. QED
    BY <2>3, <2>4
<1>13. \A k \in 1..m : indexMap[Node(k)] < indexMap[t]
  BY <1>1, <1>4, <1>6

<1>14. CASE lowlinks[t] # indexMap[t]
  <2>1. /\ stack' = stack /\ onStack' = onStack /\ sccs' = sccs
    BY <1>3, <1>14 DEF Finalize
  <2>2. lowlinks[t] < indexMap[t]
    BY <1>2, <1>4, <1>14
  \* A frame below the top one that the top node reaches.
  <2>3. PICK j \in 1..m : Node(j) \in Reach(deps, t)
    <3>1. PICK y \in onStack : indexMap[y] = lowlinks[t] /\ y \in Reach(deps, t)
      BY <1>4 DEF IInv, LowOK
    <3>2. PICK k \in 1..n : indexMap[Node(k)] <= indexMap[y] /\ Node(k) \in Reach(deps, y)
      BY <1>1, <3>1 DEF IInv, Below
    <3>3. Node(k) \in Reach(deps, t)
      BY <1>1, <1>4, <3>1, <3>2, ReachTransitive
    <3>4. y \in Met
      BY <1>1
    <3>5. k # n
      BY <1>2, <1>4, <2>2, <3>1, <3>2, <3>4
    <3>6. k \in 1..m
      BY <1>m, <3>5
    <3>7. QED
      BY <3>3, <3>6
  <2>4. m \in 1..m
    BY <1>m, <2>3
  <2>5. SearchOK'
    BY <1>1, <1>11, <2>1 DEF IInv, SearchOK
  <2>6. StackOK'
    BY <1>1, <2>1 DEF IInv, StackOK
  <2>7. FramesOK'
    <3>1. \A k \in 1..m : Node(k)' \in onStack' /\ Todo(k)' \subseteq Adj(deps', Node(k)')
      BY <1>1, <1>8, <2>1 DEF IInv, FramesOK
    <3>2. \A k, l \in 1..m : k < l => indexMap'[Node(k)'] < indexMap'[Node(l)']
      BY <1>1, <1>6, <1>8
    <3>3. QED
      BY <1>8, <3>1, <3>2 DEF FramesOK
  <2>8. Later'
    BY <1>1, <2>1 DEF IInv, Later
  <2>9. Below'
    <3>1. SUFFICES ASSUME NEW x \in onStack
                   PROVE  \E k \in 1..m : /\ indexMap[Node(k)] <= indexMap[x]
                                          /\ Node(k) \in Reach(deps, x)
      BY <1>1, <1>8, <2>1 DEF Below
    <3>2. PICK k \in 1..n : indexMap[Node(k)] <= indexMap[x] /\ Node(k) \in Reach(deps, x)
      BY <1>1 DEF IInv, Below
    <3>3. CASE k \in 1..m
      BY <3>2, <3>3
    <3>4. CASE k = n
      <4>1. Node(j) \in Reach(deps, x)
        BY <1>1, <1>4, <2>3, <3>2, <3>4, ReachTransitive
      <4>2. indexMap[Node(j)] < indexMap[t] /\ indexMap[t] <= indexMap[x]
        BY <1>4, <1>13, <3>2, <3>4
      <4>3. j \in 1..n /\ Node(j) \in Met /\ x \in Met
        BY <1>1, <1>5
      <4>4. QED
        BY <1>2, <1>4, <4>1, <4>2, <4>3
    <3>5. QED
      BY <1>m, <3>3, <3>4
  <2>10. LowOK'
    <3>1. SUFFICES ASSUME NEW x \in onStack
                   PROVE  \E y \in onStack : indexMap[y] = lowlinks'[x] /\ y \in Reach(deps, x)
      BY <1>1, <2>1 DEF LowOK
    <3>2. CASE lowlinks'[x] = lowlinks[x]
      BY <3>2 DEF IInv, LowOK
    <3>3. CASE x = Node(m) /\ lowlinks'[x] = lowlinks[t]
      <4>1. PICK y \in onStack : indexMap[y] = lowlinks[t] /\ y \in Reach(deps, t)
        BY <1>4 DEF IInv, LowOK
      <4>2. m \in 1..n /\ indexMap[x] < indexMap[t] /\ x \in Funcs /\ x \in Met
        BY <1>1, <1>5, <1>13, <2>4, <3>3
      <4>3. t \in Reach(deps, x)
        BY <1>2, <1>4, <4>2 DEF IInv, Later
      <4>4. QED
        BY <1>1, <3>3, <4>1, <4>2, <4>3, ReachTransitive
    <3>4. QED
      BY <1>1, <1>9, <3>2, <3>3
  <2>11. EdgesMet'
    <3>1. SUFFICES ASSUME NEW x \in onStack, NEW w \in Adj(deps, x)
                   PROVE  Pending(x, w)' \/ w \in Met
      BY <1>1, <2>1 DEF EdgesMet
    <3>2. QED
      BY <1>10 DEF IInv, EdgesMet
  <2>12. EdgesKnown'
    <3>1. SUFFICES ASSUME NEW k \in 1..m, NEW x \in onStack, Owns(k, x)',
                          NEW w \in Adj(deps, x) \cap onStack, ~ Pending(x, w)'
                   PROVE  lowlinks'[Node(k)] <= indexMap[w]
      BY <1>1, <1>8, <2>1 DEF EdgesKnown
    <3>2. x \in Met /\ w \in Met /\ ~ Pending(x, w) /\ k \in 1..n /\ Node(k) \in Met
      BY <1>1, <1>5, <1>10, <3>1
    <3>3. CASE indexMap[t] <= indexMap[x]
      <4>1. k = m /\ Owns(n, x)
        BY <1>12, <3>1, <3>2, <3>3
      <4>2. lowlinks[t] <= indexMap[w]
        BY <1>1, <1>4, <3>2, <4>1 DEF IInv, EdgesKnown
      <4>3. QED
        BY <1>2, <1>4, <1>9, <2>4, <3>2, <4>1, <4>2
    <3>4. CASE ~ (indexMap[t] <= indexMap[x])
      <4>1. Owns(k, x)
        BY <1>12, <3>1, <3>2, <3>4
      <4>2. lowlinks[Node(k)] <= indexMap[w]
        BY <1>1, <3>2, <4>1 DEF IInv, EdgesKnown
      <4>3. QED
        BY <1>2, <1>9, <3>2, <4>2
    <3>5. QED
      BY <3>3, <3>4
  <2>13. ClosedOK'
    BY <1>1, <2>1 DEF IInv, ClosedOK
  <2>14. QED
    BY <2>5, <2>6, <2>7, <2>8, <2>9, <2>10, <2>11, <2>12, <2>13 DEF IInv

<1>15. CASE lowlinks[t] = indexMap[t]
  <2>1. PopComponent(Top.node)
    BY <1>3, <1>15 DEF Finalize
  <2>2. /\ onStack' = onStack \ Upper /\ sccs' = Append(sccs, Upper) /\ StackOK'
    BY <1>1, <2>1, PopsUpper
  <2>3. /\ t \in Upper /\ Upper \subseteq onStack
        /\ \A x \in Upper : Adj(deps, x) \subseteq Upper \cup (Met \ onStack)
    BY <1>1, <1>3, <1>15, UpperIsComponent DEF Upper
  <2>4. \A x \in Met : x \in onStack' <=> x \in onStack /\ indexMap[x] < indexMap[t]
    <3>1. Upper = {x \in onStack : indexMap[t] <= indexMap[x]}
      BY <1>3 DEF Upper
    <3>2. \A x \in Met : indexMap[x] < indexMap[t] <=> ~ (indexMap[t] <= indexMap[x])
      BY <1>2, <1>4
    <3>3. QED
      BY <2>2, <3>1, <3>2
  <2>5. /\ onStack' \subseteq onStack /\ onStack' \subseteq Met
        /\ \A x \in onStack' : x \in Met /\ x \in onStack /\ indexMap[x] < indexMap[t]
    BY <1>1, <2>2, <2>4
  <2>6. \A x \in Met : lowlinks'[x] = lowlinks[x]
    <3>1. SUFFICES ASSUME NEW x \in Met, m \in 1..m, x = Node(m), lowlinks'[x] = lowlinks[t]
                   PROVE  lowlinks'[x] = lowlinks[x]
      BY <1>9
    <3>2. indexMap[x] < indexMap[t]
      BY <1>13, <3>1
    <3>3. QED
      BY <1>2, <1>4, <1>9, <1>15, <3>1, <3>2
  <2>7. SearchOK'
    <3>1. sccs' \in Seq(SUBSET Funcs)
      <4>1. Upper \in SUBSET Funcs /\ sccs \in Seq(SUBSET Funcs)
        BY <1>1, <2>3 DEF IInv, SearchOK
      <4>2. QED
        BY <2>2, <4>1, AppendProperties
    <3>2. QED
      BY <1>11, <2>5, <3>1
  <2>8. \A k \in 1..m : Node(k) \in onStack' /\ Node(k) \in Met
    BY <1>1, <1>5, <1>13, <2>4
  <2>9. FramesOK'
    <3>1. \A k \in 1..m : Node(k)' \in onStack' /\ Todo(k)' \subseteq Adj(deps', Node(k)')
      BY <1>1, <1>8, <2>8 DEF IInv, FramesOK
    <3>2. \A k, l \in 1..m : k < l => indexMap'[Node(k)'] < indexMap'[Node(l)']
      BY <1>1, <1>6, <1>8
    <3>3. QED
      BY <1>8, <3>1, <3>2 DEF FramesOK
  <2>10. Later'
    BY <1>1, <2>5 DEF IInv, Later
  <2>11. Below'
    <3>1. SUFFICES ASSUME NEW x \in onStack'
                   PROVE  \E k \in 1..m : /\ indexMap[Node(k)] <= indexMap[x]
                                          /\ Node(k) \in Reach(deps, x)
      BY <1>1, <1>8 DEF Below
    <3>2. PICK k \in 1..n : indexMap[Node(k)] <= indexMap[x] /\ Node(k) \in Reach(deps, x)
      BY <1>1, <2>5 DEF IInv, Below
    <3>3. k # n
      BY <1>2, <1>4, <2>5, <3>2
    <3>4. QED
      BY <1>m, <3>2, <3>3
  <2>12. LowOK'
    <3>1. SUFFICES ASSUME NEW x \in onStack'
                   PROVE  \E y \in onStack' : indexMap[y] = lowlinks[x] /\ y \in Reach(deps, x)
      BY <1>1, <2>5, <2>6 DEF LowOK
    <3>2. PICK y \in onStack : indexMap[y] = lowlinks[x] /\ y \in Reach(deps, x)
      BY <2>5 DEF IInv, LowOK
    <3>3. y \in Met /\ indexMap[y] < indexMap[t]
      BY <1>1, <1>2, <1>4, <2>5, <3>2
    <3>4. QED
      BY <2>4, <3>2, <3>3
  <2>13. EdgesMet'
    <3>1. SUFFICES ASSUME NEW x \in onStack', NEW w \in Adj(deps, x)
                   PROVE  Pending(x, w)' \/ w \in Met
      BY <1>1 DEF EdgesMet
    <3>2. QED
      BY <1>10, <2>5 DEF IInv, EdgesMet
  <2>14. EdgesKnown'
    <3>1. SUFFICES ASSUME NEW k \in 1..m, NEW x \in onStack', Owns(k, x)',
                          NEW w \in Adj(deps, x) \cap onStack', ~ Pending(x, w)'
                   PROVE  lowlinks[Node(k)] <= indexMap[w]
      BY <1>1, <1>8, <2>6, <2>8 DEF EdgesKnown
    <3>2. /\ x \in onStack /\ w \in onStack /\ x \in Met
          /\ ~ Pending(x, w) /\ k \in 1..n /\ indexMap[x] < indexMap[t]
      BY <1>1, <1>10, <2>5, <3>1
    <3>3. ~ (indexMap[t] <= indexMap[x])
      BY <1>2, <1>4, <3>2
    <3>4. Owns(k, x)
      BY <1>12, <3>1, <3>2, <3>3
    <3>5. QED
      BY <1>1, <3>1, <3>2, <3>4 DEF IInv, EdgesKnown
  <2>15. ClosedOK'
    <3>1. Met' \ onStack' = (Met \ onStack) \cup Upper
      BY <1>1, <2>2, <2>3
    <3>2. \A x \in Met' \ onStack' : Adj(deps, x) \subseteq Met' \ onStack'
      BY <2>3, <3>1 DEF IInv, ClosedOK
    <3>3. UNION {sccs'[i] : i \in 1..Len(sccs')}
          = (UNION {sccs[i] : i \in 1..Len(sccs)}) \cup Upper
      <4>1. Upper \in SUBSET Funcs /\ sccs \in Seq(SUBSET Funcs)
        BY <1>1, <2>3 DEF IInv, SearchOK
      <4>2. PICK c \in Nat : c = Len(sccs)
        BY <4>1
      <4>3. /\ Len(sccs') = c + 1 /\ sccs'[c + 1] = Upper
            /\ \A i \in 1..c : sccs'[i] = sccs[i]
        BY <2>2, <4>1, <4>2, AppendProperties
      <4>4. \A i : i \in 1..(c + 1) <=> i \in 1..c \/ i = c + 1
        BY <4>2
      <4>5. \A x : (\E i \in 1..(c + 1) : x \in sccs'[i])
                   <=> (\E i \in 1..c : x \in sccs[i]) \/ x \in Upper
        BY <4>3, <4>4
      <4>6. \A x : x \in UNION {sccs'[i] : i \in 1..Len(sccs')}
                   <=> \E i \in 1..(c + 1) : x \in sccs'[i]
        BY <4>3
      <4>7. \A x : x \in UNION {sccs[i] : i \in 1..Len(sccs)}
                   <=> \E i \in 1..c : x \in sccs[i]
        BY <4>2
      <4>8. PICK A, B : /\ A = UNION {sccs[i] : i \in 1..Len(sccs)}
                        /\ B = UNION {sccs'[i] : i \in 1..Len(sccs')}
        OBVIOUS
      <4>9. \A x : x \in B <=> x \in A \/ x \in Upper
        BY <4>5, <4>6, <4>7, <4>8, Zenon
      <4>10. B = A \cup Upper
        BY ONLY <4>9
      <4>11. QED
        BY ONLY <4>8, <4>10, Zenon
    <3>4. UNION {sccs[i] : i \in 1..Len(sccs)} = Met \ onStack
      BY DEF IInv, ClosedOK
    <3>5. UNION {sccs'[i] : i \in 1..Len(sccs')} = Met' \ onStack'
      BY <3>1, <3>3, <3>4, Zenon
    <3>6. QED
      BY <1>1, <3>2, <3>5 DEF ClosedOK
  <2>16. QED
    BY <2>2, <2>7, <2>9, <2>10, <2>11, <2>12, <2>13, <2>14, <2>15 DEF IInv
<1>16. QED
  BY <1>14, <1>15

-----------------------------------------------------------------------------
THEOREM SearchInductive == Spec => []IInv
<1>1. Init => IInv
  <2>1. SUFFICES ASSUME Init PROVE IInv
    OBVIOUS
  <2>2. Met = {} /\ onStack = {} /\ Frames = {}
    BY <2>1 DEF Init, Met, Frames
  <2>3. SearchOK
    <3>1. Cardinality({}) = 0
      BY FS_EmptySet, Zenon
    <3>2. QED
      BY <2>1, <2>2, <3>1 DEF Init, SearchOK
  <2>4. StackOK
    BY <2>1, <2>2 DEF Init, StackOK
  <2>5. ClosedOK
    BY <2>1, <2>2 DEF Init, ClosedOK
  <2>6. QED
    BY <2>2, <2>3, <2>4, <2>5 DEF IInv, FramesOK, Later, Below, LowOK, EdgesMet, EdgesKnown
<1>2. IInv /\ [Next]_vars => IInv'
  <2>1. SUFFICES ASSUME IInv, [Next]_vars PROVE IInv'
    OBVIOUS
  <2>2. CASE UNCHANGED vars
    <3>1. /\ deps' = deps /\ indexCounter' = indexCounter /\ indexMap' = indexMap
          /\ lowlinks' = lowlinks /\ stack' = stack /\ onStack' = onStack
          /\ workStack' = workStack /\ sccs' = sccs
      BY <2>2 DEF vars
    <3>2. Met' = Met /\ Frames' = Frames
      BY <3>1 DEF Met, Frames
    <3>3. \A k \in Frames : Node(k)' = Node(k) /\ Todo(k)' = Todo(k)
      BY <3>1 DEF Node, Todo
    <3>4. \A x, w : Pending(x, w)' <=> Pending(x, w)
      BY <3>1 DEF Pending, Frames, Node, Todo
    <3>5. \A k, x : Owns(k, x)' <=> Owns(k, x)
      BY <3>1 DEF Owns, Frames, Node
    <3>6. SearchOK' /\ StackOK' /\ FramesOK'
      BY <2>1, <3>1, <3>2, <3>3 DEF IInv, SearchOK, StackOK, FramesOK
    <3>7. Later' /\ LowOK' /\ ClosedOK'
      BY <2>1, <3>1, <3>2 DEF IInv, Later, LowOK, ClosedOK
    <3>8. Below'
      BY <2>1, <3>1, <3>2, <3>3 DEF IInv, Below
    <3>9. EdgesMet'
      BY <2>1, <3>1, <3>2, <3>4 DEF IInv, EdgesMet
    <3>10. EdgesKnown'
      BY <2>1, <3>1, <3>2, <3>3, <3>4, <3>5 DEF IInv, EdgesKnown
    <3>11. QED
      BY <3>6, <3>7, <3>8, <3>9, <3>10 DEF IInv
  <2>3. CASE Next
    BY <2>1, <2>3, StartNodeKeeps, VisitNewKeeps, VisitSeenKeeps, FinalizeKeeps DEF Next
  <2>4. QED
    BY <2>1, <2>2, <2>3
<1>3. QED
  BY <1>1, <1>2, PTL DEF Spec

(***************************************************************************)
(* The variables of the search keep their types: no number and no lowlink  *)
(* is larger than the number of functions.                                 *)
(***************************************************************************)
THEOREM SearchTypeCorrect == Spec => []TypeOK
<1>1. IInv => TypeOK
  <2>1. SUFFICES ASSUME IInv PROVE TypeOK
    OBVIOUS
  <2>2. Cardinality(Met) <= Cardinality(Funcs) /\ Cardinality(Funcs) \in Nat
    BY <2>1, CallGraphAssumption, FS_Subset, FS_CardinalityType DEF IInv, SearchOK
  <2>3. indexCounter \in 0..Cardinality(Funcs)
    BY <2>1, <2>2 DEF IInv, SearchOK
  <2>4. \A x \in Met : /\ indexMap[x] \in 0..Cardinality(Funcs)
                       /\ lowlinks[x] \in 0..Cardinality(Funcs)
    <3>1. \A x \in Met : /\ indexMap[x] \in Nat /\ lowlinks[x] \in Nat
                         /\ indexMap[x] < indexCounter /\ lowlinks[x] <= indexMap[x]
      BY <2>1 DEF IInv, SearchOK
    <3>2. QED
      BY <2>2, <2>3, <3>1
  <2>5. /\ indexMap \in [Met -> 0..Cardinality(Funcs)]
        /\ lowlinks \in [Met -> 0..Cardinality(Funcs)]
    BY <2>1, <2>4 DEF IInv, SearchOK
  <2>6. QED
    BY <2>1, <2>3, <2>5 DEF IInv, SearchOK, StackOK, TypeOK, Met, Frame
<1>2. QED
  BY <1>1, SearchInductive, PTL

(***************************************************************************)
(* Every node on the stack reaches the node of an open frame met no later  *)
(* than itself: no part of an unfinished component is left without a frame *)
(* that will close it.                                                     *)
(***************************************************************************)
THEOREM StackIsHeld == Spec => []StackReachesOpenFrame
<1>1. IInv => StackReachesOpenFrame
  <2>1. SUFFICES ASSUME IInv, NEW i \in DOMAIN stack
                 PROVE  \E k \in DOMAIN workStack :
                            /\ indexMap[workStack[k].node] <= indexMap[stack[i]]
                            /\ workStack[k].node \in Reach(deps, stack[i])
    BY DEF StackReachesOpenFrame
  <2>2. stack[i] \in onStack
    BY <2>1 DEF IInv, StackOK
  <2>3. DOMAIN workStack = Frames
    BY <2>1 DEF IInv, SearchOK, Frames
  <2>4. QED
    BY <2>1, <2>2, <2>3 DEF IInv, Below, Node
<1>2. QED
  BY <1>1, SearchInductive, PTL

(***************************************************************************)
(* What the search appends are the components of the call graph, each once *)
(* and after the components it calls: the safety part of                   *)
(* ImplementsSccOrder.  Closing a root is an Emit, any other step a        *)
(* stutter.                                                                *)
(***************************************************************************)
THEOREM SearchIsOrdered ==
  Spec => Order!Init /\ [][Order!Next]_<<deps, sccs>>
<1>1. Init => Order!Init
  BY DEF Init, Order!Init
<1>2. ASSUME IInv, Finalize, lowlinks[Top.node] = indexMap[Top.node]
      PROVE  Order!Next
  <2>1. /\ workStack # <<>> /\ Top.todo = {} /\ PopComponent(Top.node)
        /\ indexMap' = indexMap /\ deps' = deps
    BY <1>2 DEF Finalize
  <2>2. /\ Upper = Component(deps, Top.node)
        /\ \A x \in Upper : Adj(deps, x) \subseteq Upper \cup (Met \ onStack)
    BY <1>2, <2>1, UpperIsComponent
  <2>3. sccs' = Append(sccs, Upper)
    BY <1>2, <2>1, PopsUpper
  <2>4. Order!Emitted = Met \ onStack
    <3>1. DOMAIN sccs = 1..Len(sccs)
      BY <1>2, LenProperties DEF IInv, SearchOK
    <3>2. QED
      BY <1>2, <3>1 DEF IInv, ClosedOK, Order!Emitted
  <2>5. Upper \cap Order!Emitted = {}
    BY <2>4 DEF Upper
  <2>6. CalleesOf(deps, Upper) \subseteq Order!Emitted
    BY <2>2, <2>4 DEF CalleesOf
  <2>7. Upper \in Components(deps)
    <3>1. Top.node \in Funcs
      <4>1. Len(workStack) \in Frames
        BY <1>2, <2>1 DEF IInv, SearchOK, Frames
      <4>2. QED
        BY <1>2, <4>1 DEF IInv, SearchOK, FramesOK, Top, Last, Node
    <3>2. QED
      BY <2>2, <3>1 DEF Components
  <2>8. /\ Order!Components(deps) = Components(deps)
        /\ Order!CalleesOf(deps, Upper) = CalleesOf(deps, Upper)
    BY DEF Components, Order!Components, Component, Order!Component, Reach, Order!Reach,
           ClosedUnder, Order!ClosedUnder, Adj, Order!Adj, CalleesOf, Order!CalleesOf
  <2>9. QED
    BY <2>1, <2>3, <2>5, <2>6, <2>7, <2>8 DEF Order!Next, Order!Emit
<1>3. IInv /\ [Next]_vars => [Order!Next]_<<deps, sccs>>
  <2>1. SUFFICES ASSUME IInv, [Next]_vars, ~ UNCHANGED <<deps, sccs>> PROVE Order!Next
    OBVIOUS
  <2>2. Finalize /\ lowlinks[Top.node] = indexMap[Top.node]
    BY <2>1 DEF Next, vars, StartNode, VisitNew, Discover, VisitSeen, Finalize
  <2>3. QED
    BY <1>2, <2>1, <2>2
<1>4. QED
  BY <1>1, <1>3, SearchInductive, PTL DEF Spec
=============================================================================
