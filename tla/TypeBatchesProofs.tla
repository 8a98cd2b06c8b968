-------------------------- MODULE TypeBatchesProofs --------------------------
(***************************************************************************)
(* Type batches, for every finite set of types and every graph of type     *)
(* dependencies: the order is one of the type graph's components, and      *)
(* whichever batches fail the cascade finds nothing to cut.                *)
(***************************************************************************)
EXTENDS TypeBatches, FiniteSetTheorems, SequenceTheorems, WellFoundedInduction, TLAPS

-----------------------------------------------------------------------------
(***************************************************************************)
(* A type is in its component, and the component of a member is the one it *)
(* is a member of.                                                         *)
(***************************************************************************)
LEMMA TypeReach ==
  ASSUME NEW d \in TypeDeps, NEW t \in Types
  PROVE  /\ t \in Graph!Reach(d, t) /\ Graph!Reach(d, t) \subseteq Types
         /\ \A u \in Graph!Reach(d, t) :
               /\ Graph!Reach(d, u) \subseteq Graph!Reach(d, t)
               /\ Graph!Adj(d, u) \subseteq Graph!Reach(d, t)
<1>1. t \in Graph!Reach(d, t) /\ Graph!Reach(d, t) \subseteq Types
  BY DEF Graph!Reach
<1>2. ASSUME NEW u \in Graph!Reach(d, t)
      PROVE  /\ Graph!Reach(d, u) \subseteq Graph!Reach(d, t)
             /\ Graph!Adj(d, u) \subseteq Graph!Reach(d, t)
  <2>1. ASSUME NEW S \in SUBSET Types, t \in S, Graph!ClosedUnder(d, S)
        PROVE  u \in S
    BY <2>1 DEF Graph!Reach
  <2>2. ASSUME NEW v \in Graph!Reach(d, u), NEW S \in SUBSET Types, t \in S,
               Graph!ClosedUnder(d, S)
        PROVE  v \in S
    BY <2>1, <2>2 DEF Graph!Reach
  <2>3. ASSUME NEW v \in Graph!Adj(d, u), NEW S \in SUBSET Types, t \in S,
               Graph!ClosedUnder(d, S)
        PROVE  v \in S
    BY <2>1, <2>3 DEF Graph!ClosedUnder
  <2>4. Graph!Adj(d, u) \subseteq Types /\ Graph!Reach(d, u) \subseteq Types
    BY DEF Graph!Adj, Graph!Reach
  <2>5. QED
    BY <2>2, <2>3, <2>4 DEF Graph!Reach
<1>3. QED
  BY <1>1, <1>2

\* Components cover the types, are disjoint, and are those of their members.
LEMMA TypeComponents ==
  ASSUME NEW d \in TypeDeps
  PROVE  /\ \A t \in Types : /\ Graph!Component(d, t) \in Graph!Components(d)
                             /\ t \in Graph!Component(d, t)
         /\ \A c \in Graph!Components(d) : c \subseteq Types /\ c # {}
         /\ \A c \in Graph!Components(d) : \A t \in c : c = Graph!Component(d, t)
<1>1. \A t \in Types : /\ Graph!Component(d, t) \in Graph!Components(d)
                       /\ t \in Graph!Component(d, t)
  BY TypeReach DEF Graph!Component, Graph!Components
<1>2. \A c \in Graph!Components(d) : c \subseteq Types /\ c # {}
  BY <1>1, TypeReach DEF Graph!Component, Graph!Components
<1>3. ASSUME NEW s \in Types, NEW t \in Graph!Component(d, s)
      PROVE  Graph!Component(d, s) = Graph!Component(d, t)
  <2>1. t \in Types /\ t \in Graph!Reach(d, s) /\ s \in Graph!Reach(d, t)
    BY TypeReach DEF Graph!Component
  <2>2. Graph!Reach(d, s) = Graph!Reach(d, t)
    BY <2>1, TypeReach
  <2>3. ASSUME NEW u \in Graph!Reach(d, s)
        PROVE  s \in Graph!Reach(d, u) <=> t \in Graph!Reach(d, u)
    <3>1. u \in Types
      BY TypeReach
    <3>2. QED
      BY <2>1, <3>1, TypeReach
  <2>4. QED
    BY <2>2, <2>3 DEF Graph!Component
<1>4. QED
  BY <1>1, <1>2, <1>3 DEF Graph!Components

\* Two components that share a type are one.
LEMMA TypeComponentsDisjoint ==
  ASSUME NEW d \in TypeDeps, NEW c \in Graph!Components(d), NEW e \in Graph!Components(d),
         NEW t \in c, t \in e
  PROVE  c = e
BY TypeComponents

\* There are no more components than types.
LEMMA TypeComponentsFinite ==
  ASSUME NEW d \in TypeDeps
  PROVE  /\ IsFiniteSet(Graph!Components(d))
         /\ Cardinality(Graph!Components(d)) \in Nat /\ Cardinality(Types) \in Nat
         /\ Cardinality(Graph!Components(d)) <= Cardinality(Types)
<1> DEFINE f == [t \in Types |-> Graph!Component(d, t)]
<1>1. f \in Surjection(Types, Graph!Components(d))
  BY DEF Surjection, Graph!Components
<1>2. QED
  BY <1>1, TypeBatchesAssumption, FS_Surjection, FS_CardinalityType

(***************************************************************************)
(* The graph of components has no cycle: of any components left, one       *)
(* depends on none of the others.  It is the one of a type with a smallest *)
(* set of types in reach.                                                  *)
(***************************************************************************)
LEMMA SomeComponentIsFree ==
  ASSUME NEW d \in TypeDeps, NEW U \in SUBSET Graph!Components(d), U # {}
  PROVE  \E c \in U : \A e \in U : Graph!CalleesOf(d, c) \cap e = {}
<1> DEFINE T == {Graph!Reach(d, t) : t \in UNION U}
           R == StrictSubsetOrdering(Types)
<1>1. UNION U \subseteq Types /\ UNION U # {}
  BY TypeComponents
<1>2. T \subseteq SUBSET Types /\ T # {}
  BY <1>1, TypeReach
<1>3. IsWellFoundedOn(R, SUBSET Types)
  BY FS_StrictSubsetOrderingWellFounded, FS_FiniteSubsetsOfFinite, TypeBatchesAssumption
<1>4. \E x \in T : \A y \in T : ~ (<<y, x>> \in R)
  <2> HIDE DEF T, R
  <2>1. QED
    BY <1>2, <1>3, WFMin
<1>5. PICK t \in UNION U : \A u \in UNION U : ~ (<<Graph!Reach(d, u), Graph!Reach(d, t)>> \in R)
  BY <1>4
<1>6. PICK c \in U : t \in c
  OBVIOUS
<1>7. ASSUME NEW e \in U, NEW x \in Graph!CalleesOf(d, c) \cap e
      PROVE  FALSE
  <2>1. x \in Types /\ t \in Types /\ x \in UNION U
    BY <1>1, <1>7
  <2>2. c = Graph!Component(d, t) /\ x \notin c
    BY <1>6, TypeComponents DEF Graph!CalleesOf
  <2>3. PICK g \in c : x \in Graph!Adj(d, g)
    BY DEF Graph!CalleesOf
  <2>4. g \in Graph!Reach(d, t)
    BY <2>2 DEF Graph!Component
  <2>5. x \in Graph!Reach(d, t)
    BY <2>1, <2>3, <2>4, TypeReach
  <2>6. Graph!Reach(d, x) \subseteq Graph!Reach(d, t)
    BY <2>1, <2>5, TypeReach
  <2>7. Graph!Reach(d, x) = Graph!Reach(d, t)
    BY <1>5, <2>1, <2>6, TypeReach DEF StrictSubsetOrdering
  <2>8. QED
    BY <2>1, <2>2, <2>5, <2>7, TypeReach DEF Graph!Component
<1>8. QED
  BY <1>6, <1>7

-----------------------------------------------------------------------------
(***************************************************************************)
(* The inductive invariant.  indegree counts the components a component    *)
(* depends on that are not yet in order, so that what is ready depends on  *)
(* what is in order only.                                                  *)
(***************************************************************************)
Comps == Graph!Components(deps)
Taken == {order[i] : i \in DOMAIN order}
WaitsFor(c) == {e \in Comps \ Taken : DependsOn(c, e)}

GivenOK == deps \in TypeDeps /\ kind \in [Types -> Kinds]

CountOK ==
    /\ indegree \in [Comps -> Nat]
    /\ \A c \in Comps : indegree[c] = Cardinality(WaitsFor(c))
    /\ ready = {c \in Comps \ Taken : indegree[c] = 0}

OrderOK ==
    /\ order \in Seq(Comps)
    /\ \A i, j \in DOMAIN order : order[i] = order[j] => i = j
    /\ \A c \in Taken : WaitsFor(c) = {}
    /\ pc # "sort" => Taken = Comps

BatchOK ==
    /\ pc \in {"sort", "batch", "agent", "cascade", "done", "raised"}
    /\ next \in Nat \ {0} /\ next <= Len(order) + 1
    /\ pc = "sort" => next = 1
    /\ pc = "agent" => next <= Len(order) /\ Batch \ request \subseteq typeNodes
    /\ \A i \in DOMAIN order : i < next => order[i] \subseteq typeNodes

TextOK ==
    /\ request \subseteq Types /\ file \subseteq Types /\ typeNodes \subseteq Types
    /\ rustCode \in [Types -> SUBSET Types]
    /\ deleted \subseteq Types
    /\ pc \in {"cascade", "done"} =>
           /\ \A t \in Types : rustCode[t] = file
           /\ deleted # {} => file = {}

IInv == GivenOK /\ CountOK /\ OrderOK /\ BatchOK /\ TextOK

-----------------------------------------------------------------------------
\* What a component waits for is finite; before the sort that is all it depends on.
LEMMA WaitsFinite ==
  ASSUME GivenOK, NEW c
  PROVE  /\ IsFiniteSet(WaitsFor(c))
         /\ Cardinality(WaitsFor(c)) \in Nat
         /\ Cardinality(WaitsFor(c)) <= Cardinality(Types)
<1>1. WaitsFor(c) \in SUBSET Comps
  BY DEF WaitsFor
<1>2. /\ IsFiniteSet(Comps)
      /\ Cardinality(Comps) \in Nat /\ Cardinality(Types) \in Nat
      /\ Cardinality(Comps) <= Cardinality(Types)
  BY TypeComponentsFinite DEF GivenOK, Comps
<1>3. IsFiniteSet(WaitsFor(c)) /\ Cardinality(WaitsFor(c)) <= Cardinality(Comps)
  BY <1>1, <1>2, FS_Subset
<1>4. Cardinality(WaitsFor(c)) \in Nat
  BY <1>3, FS_CardinalityType
<1>5. QED
  BY <1>2, <1>3, <1>4

\* order never holds more components than there are types.
LEMMA OrderIsShort ==
  ASSUME GivenOK, OrderOK
  PROVE  Len(order) \in Nat /\ Len(order) <= Cardinality(Types)
<1>1. /\ Len(order) \in Nat /\ DOMAIN order = 1..Len(order)
      /\ order \in [1..Len(order) -> Comps]
  BY LenProperties DEF OrderOK
<1>2. order \in Injection(1..Len(order), Comps)
  BY <1>1 DEF OrderOK, Injection, IsInjective
<1>3. /\ IsFiniteSet(Comps)
      /\ Cardinality(Comps) \in Nat /\ Cardinality(Types) \in Nat
      /\ Cardinality(Comps) <= Cardinality(Types)
  BY TypeComponentsFinite DEF GivenOK, Comps
<1>4. Cardinality(1..Len(order)) <= Cardinality(Comps)
  BY <1>2, <1>3, FS_Injection
<1>5. Cardinality(1..Len(order)) = Len(order)
  BY <1>1, FS_Interval
<1>6. QED
  BY <1>1, <1>3, <1>4, <1>5

LEMMA InitInv ==
  ASSUME Init
  PROVE  IInv
<1>1. GivenOK
  BY DEF Init, GivenOK
<1>2. Taken = {} /\ order = <<>> /\ DOMAIN order = {} /\ Len(order) = 0
  BY DEF Init, Taken
<1>3. \A c : WaitsFor(c) = {e \in Comps : DependsOn(c, e)}
  BY <1>2 DEF WaitsFor
<1>4. indegree = [c \in Comps |-> Cardinality(WaitsFor(c))]
  BY <1>3 DEF Init, Comps
<1>5. CountOK
  BY <1>1, <1>2, <1>4, WaitsFinite DEF Init, CountOK, Sccs
<1>6. OrderOK
  BY <1>2 DEF Init, OrderOK
<1>7. BatchOK
  BY <1>2 DEF Init, BatchOK
<1>8. TextOK
  BY DEF Init, TextOK
<1>9. QED
  BY <1>1, <1>5, <1>6, <1>7, <1>8 DEF IInv

(***************************************************************************)
(* A ready component waits for none, and one that depends on it waits for  *)
(* one less when it is taken.                                              *)
(***************************************************************************)
LEMMA TakeInv ==
  ASSUME IInv, NEW c \in Sccs, Take(c)
  PROVE  IInv'
<1>1. /\ c \in Comps \ Taken /\ c \in ready /\ indegree[c] = 0
      /\ order \in Seq(Comps) /\ pc = "sort" /\ pc' = "sort"
      /\ deps \in TypeDeps /\ Sccs = Comps
  BY DEF IInv, GivenOK, CountOK, OrderOK, Take, Sccs
<1>2. GivenOK' /\ Comps' = Comps
  BY DEF IInv, GivenOK, Take, Comps
<1>3. /\ order' \in Seq(Comps) /\ Len(order') = Len(order) + 1
      /\ \A i \in 1..Len(order) : order'[i] = order[i]
      /\ order'[Len(order) + 1] = c
  BY <1>1, AppendProperties DEF Take
<1>4. /\ Len(order) \in Nat
      /\ DOMAIN order = 1..Len(order) /\ DOMAIN order' = 1..(Len(order) + 1)
  BY <1>1, <1>3, LenProperties
<1>5. Taken' = Taken \union {c}
  <2>1. \A i \in DOMAIN order' : order'[i] \in Taken \union {c}
    BY <1>3, <1>4 DEF Taken
  <2>2. \A x \in Taken \union {c} : \E i \in DOMAIN order' : x = order'[i]
    BY <1>3, <1>4 DEF Taken
  <2>3. QED
    BY <2>1, <2>2 DEF Taken
<1>6. \A a, e : DependsOn(a, e)' <=> DependsOn(a, e)
  BY DEF Take, DependsOn, Graph!CalleesOf, Graph!Adj
<1>7. \A e : WaitsFor(e)' = WaitsFor(e) \ {c}
  BY <1>2, <1>5, <1>6 DEF WaitsFor
<1>8. WaitsFor(c) = {}
  <2>1. Cardinality(WaitsFor(c)) = 0 /\ IsFiniteSet(WaitsFor(c))
    BY <1>1, WaitsFinite DEF IInv, CountOK
  <2>2. QED
    BY <2>1, FS_EmptySet, Zenon
<1>9. ASSUME NEW e \in Comps
      PROVE  /\ indegree'[e] = Cardinality(WaitsFor(e)')
             /\ indegree'[e] \in Nat
  <2>1. /\ IsFiniteSet(WaitsFor(e)) /\ Cardinality(WaitsFor(e)) \in Nat
        /\ indegree[e] = Cardinality(WaitsFor(e))
    BY WaitsFinite DEF IInv, CountOK
  <2>2. /\ IsFiniteSet(WaitsFor(e) \ {c})
        /\ Cardinality(WaitsFor(e) \ {c}) \in Nat
        /\ Cardinality(WaitsFor(e) \ {c}) = IF c \in WaitsFor(e) THEN Cardinality(WaitsFor(e)) - 1
                                                              ELSE Cardinality(WaitsFor(e))
    BY <2>1, FS_RemoveElement, FS_CardinalityType
  <2>3. c \in WaitsFor(e) <=> DependsOn(e, c)
    BY <1>1 DEF WaitsFor
  <2>4. indegree'[e] = IF DependsOn(e, c) THEN indegree[e] - 1 ELSE indegree[e]
    BY <1>1 DEF Take
  <2>5. QED
    BY <1>7, <2>1, <2>2, <2>3, <2>4
<1>10. DOMAIN indegree' = Comps /\ indegree' \in [Comps -> Nat]
  BY <1>1, <1>9 DEF Take
<1>11. \A e \in Taken : ~ DependsOn(e, c)
  BY <1>1 DEF IInv, OrderOK, WaitsFor
<1>12. ~ DependsOn(c, c)
  BY DEF DependsOn, Graph!CalleesOf
<1>13. ready' = {e \in Comps' \ Taken' : indegree'[e] = 0}
  <2>1. ready = {e \in Comps \ Taken : indegree[e] = 0}
    BY DEF IInv, CountOK
  <2>2. ready' = (ready \ {c}) \union {e \in Comps : DependsOn(e, c) /\ indegree'[e] = 0}
    BY <1>1 DEF Take
  <2>3. Taken \subseteq Comps
    BY <1>1, <1>4, LenProperties DEF Taken
  <2>4. ASSUME NEW e \in Comps
        PROVE  e \in ready' <=> e \notin Taken' /\ indegree'[e] = 0
    <3>1. CASE DependsOn(e, c)
      <4>1. e \notin Taken /\ e # c
        BY <1>11, <1>12, <3>1
      <4>2. c \in WaitsFor(e)
        BY <1>1, <3>1 DEF WaitsFor
      <4>3. e \notin ready
        <5>1. IsFiniteSet(WaitsFor(e)) /\ indegree[e] = Cardinality(WaitsFor(e))
          BY WaitsFinite DEF IInv, CountOK
        <5>2. Cardinality(WaitsFor(e)) # 0
          BY <4>2, <5>1, FS_EmptySet, Zenon
        <5>3. QED
          BY <2>1, <5>1, <5>2
      <4>4. QED
        BY <1>5, <2>2, <3>1, <4>1, <4>3
    <3>2. CASE ~ DependsOn(e, c)
      <4>1. indegree'[e] = indegree[e]
        BY <1>1, <3>2 DEF Take
      <4>2. QED
        BY <1>5, <2>1, <2>2, <3>2, <4>1
    <3>3. QED
      BY <3>1, <3>2
  <2>5. ready' \subseteq Comps
    BY <2>1, <2>2
  <2>6. QED
    BY <1>2, <2>4, <2>5
<1>14. CountOK'
  BY <1>2, <1>9, <1>10, <1>13 DEF CountOK
<1>15. OrderOK'
  <2>1. ASSUME NEW i \in DOMAIN order', NEW j \in DOMAIN order', order'[i] = order'[j]
        PROVE  i = j
    <3>1. \A k \in 1..Len(order) : order'[k] \in Taken
      BY <1>3, <1>4 DEF Taken
    <3>2. CASE i \in 1..Len(order) /\ j \in 1..Len(order)
      BY <1>3, <1>4, <2>1, <3>2 DEF IInv, OrderOK
    <3>3. CASE i = Len(order) + 1 \/ j = Len(order) + 1
      BY <1>1, <1>3, <1>4, <2>1, <3>1, <3>3
    <3>4. QED
      BY <1>4, <3>2, <3>3
  <2>2. \A e \in Taken' : WaitsFor(e)' = {}
    BY <1>5, <1>7, <1>8 DEF IInv, OrderOK
  <2>3. QED
    BY <1>1, <1>2, <1>3, <2>1, <2>2 DEF OrderOK
<1>16. BatchOK'
  BY <1>1, <1>3, <1>4 DEF IInv, BatchOK, Take
<1>17. TextOK'
  BY <1>1 DEF IInv, TextOK, Take
<1>18. QED
  BY <1>2, <1>14, <1>15, <1>16, <1>17 DEF IInv

\* When nothing is ready, every component is in order.
LEMMA SortedInv ==
  ASSUME IInv, Sorted
  PROVE  IInv'
<1>1. deps \in TypeDeps /\ pc' = "batch" /\ ready = {}
  BY DEF IInv, GivenOK, Sorted
<1>2. Taken = Comps
  <2>1. Taken \subseteq Comps
    BY LenProperties DEF IInv, OrderOK, Taken
  <2>2. SUFFICES ASSUME Comps \ Taken # {} PROVE FALSE
    BY <2>1
  <2>3. PICK c \in Comps \ Taken : \A e \in Comps \ Taken : Graph!CalleesOf(deps, c) \cap e = {}
    BY <1>1, <2>2, SomeComponentIsFree DEF Comps
  <2>4. WaitsFor(c) = {}
    BY <2>3 DEF WaitsFor, DependsOn
  <2>5. indegree[c] = 0
    BY <2>4, FS_EmptySet DEF IInv, CountOK
  <2>6. QED
    BY <1>1, <2>5 DEF IInv, CountOK
<1>3. /\ Comps' = Comps /\ Taken' = Taken /\ Sccs' = Sccs
      /\ \A c : WaitsFor(c)' = WaitsFor(c)
  BY DEF Sorted, sorting, Comps, Taken, Sccs, WaitsFor, DependsOn, Graph!CalleesOf, Graph!Adj
<1>4. GivenOK' /\ CountOK'
  BY <1>3 DEF IInv, GivenOK, CountOK, Sorted, sorting
<1>5. OrderOK'
  BY <1>2, <1>3 DEF IInv, OrderOK, Sorted, sorting
<1>6. BatchOK'
  BY DEF IInv, BatchOK, Sorted, sorting
<1>7. TextOK'
  BY DEF IInv, TextOK, Sorted, sorting
<1>8. QED
  BY <1>4, <1>5, <1>6, <1>7 DEF IInv

\* The batches and the cascade leave the sort alone.
LEMMA SortKept ==
  ASSUME IInv, pc # "sort", pc' # "sort", UNCHANGED <<deps, kind, sorting>>
  PROVE  GivenOK' /\ CountOK' /\ OrderOK'
<1>1. /\ Comps' = Comps /\ Taken' = Taken
      /\ \A c : WaitsFor(c)' = WaitsFor(c)
  BY DEF sorting, Comps, Taken, WaitsFor, DependsOn, Graph!CalleesOf, Graph!Adj
<1>2. QED
  BY <1>1 DEF IInv, GivenOK, CountOK, OrderOK, sorting

\* The types of a batch are types.
LEMMA BatchTypes ==
  ASSUME IInv
  PROVE  /\ Len(order) \in Nat /\ DOMAIN order = 1..Len(order)
         /\ \A i \in DOMAIN order : order[i] \subseteq Types
         /\ next <= Len(order) => next \in DOMAIN order /\ Batch \subseteq Types
<1>1. /\ Len(order) \in Nat /\ DOMAIN order = 1..Len(order)
      /\ \A i \in DOMAIN order : order[i] \in Comps
  BY LenProperties DEF IInv, OrderOK
<1>2. \A c \in Comps : c \subseteq Types
  BY TypeComponents DEF IInv, GivenOK, Comps
<1>3. QED
  BY <1>1, <1>2 DEF IInv, BatchOK, Batch

\* A batch of typedefs.
LEMMA TypedefsInv ==
  ASSUME IInv, TranslateTypedefs
  PROVE  IInv'
<1>1. PICK simple \in SUBSET Batch :
        /\ rustCode' = [t \in Types |-> IF t \in simple THEN {t} ELSE rustCode[t]]
        /\ file' = file \union simple
        /\ typeNodes' = typeNodes \union simple
        /\ request' = Batch \ simple
        /\ pc' = IF request' = {} THEN "batch" ELSE "agent"
        /\ next' = IF request' = {} THEN next + 1 ELSE next
  BY DEF TranslateTypedefs
<1>2. /\ pc = "batch" /\ pc' \in {"batch", "agent"} /\ next <= Len(order)
      /\ order' = order /\ deleted' = deleted
      /\ UNCHANGED <<deps, kind, sorting>>
  BY <1>1 DEF TranslateTypedefs, sorting
<1>3. /\ Len(order) \in Nat /\ DOMAIN order = 1..Len(order)
      /\ next \in DOMAIN order /\ Batch \subseteq Types /\ Batch = order[next]
  BY <1>2, BatchTypes DEF Batch
<1>4. GivenOK' /\ CountOK' /\ OrderOK'
  BY <1>2, SortKept
<1>5. BatchOK'
  <2>1. \A i \in DOMAIN order : i < next => order[i] \subseteq typeNodes'
    BY <1>1 DEF IInv, BatchOK
  <2>2. CASE request' = {}
    <3>1. order[next] \subseteq typeNodes'
      BY <1>1, <1>3, <2>2
    <3>2. \A i \in DOMAIN order : i < next + 1 => i < next \/ i = next
      BY <1>3
    <3>3. QED
      BY <1>1, <1>2, <1>3, <2>1, <2>2, <3>1, <3>2 DEF BatchOK, IInv
  <2>3. CASE request' # {}
    <3>1. Batch' = Batch /\ Batch \ request' \subseteq typeNodes'
      BY <1>1, <1>2, <2>3 DEF Batch
    <3>2. QED
      BY <1>1, <1>2, <1>3, <2>1, <2>3, <3>1 DEF BatchOK, IInv
  <2>4. QED
    BY <2>2, <2>3
<1>6. TextOK'
  BY <1>1, <1>2, <1>3 DEF IInv, TextOK
<1>7. QED
  BY <1>4, <1>5, <1>6 DEF IInv

\* A batch given to the agent whole.
LEMMA AskInv ==
  ASSUME IInv, AskAgent
  PROVE  IInv'
<1>1. /\ pc = "batch" /\ pc' = "agent" /\ next <= Len(order) /\ request' = Batch
      /\ UNCHANGED <<deps, kind, sorting, order, next, file, typeNodes, rustCode, deleted>>
  BY DEF AskAgent, sorting
<1>2. Batch \subseteq Types /\ Batch' = Batch
  BY <1>1, BatchTypes DEF Batch
<1>3. GivenOK' /\ CountOK' /\ OrderOK'
  BY <1>1, SortKept
<1>4. BatchOK'
  BY <1>1, <1>2 DEF IInv, BatchOK
<1>5. TextOK'
  BY <1>1, <1>2 DEF IInv, TextOK
<1>6. QED
  BY <1>3, <1>4, <1>5 DEF IInv

(***************************************************************************)
(* However the agent's run ends, unless it raises, the whole batch counts  *)
(* as its types.                                                           *)
(***************************************************************************)
LEMMA AgentInv ==
  ASSUME IInv, AgentAccepted \/ AgentFails
  PROVE  IInv'
<1>1. /\ pc = "agent" /\ pc' = "batch" /\ request' = {} /\ next' = next + 1
      /\ typeNodes' = typeNodes \union request /\ file' \subseteq Types
      /\ UNCHANGED <<deps, kind, sorting, order, rustCode, deleted>>
  BY DEF AgentAccepted, AgentFails, sorting, IInv, TextOK
<1>2. /\ next <= Len(order) /\ Batch \ request \subseteq typeNodes
      /\ Len(order) \in Nat /\ DOMAIN order = 1..Len(order)
  BY <1>1, BatchTypes DEF IInv, BatchOK
<1>3. order[next] \subseteq typeNodes'
  BY <1>1, <1>2 DEF Batch
<1>4. GivenOK' /\ CountOK' /\ OrderOK'
  BY <1>1, SortKept
<1>5. BatchOK'
  <2>1. next \in Nat \ {0} /\ \A i \in DOMAIN order : i < next => order[i] \subseteq typeNodes'
    BY <1>1 DEF IInv, BatchOK
  <2>2. \A i \in DOMAIN order : i < next + 1 => i < next \/ i = next
    BY <1>2, <2>1
  <2>3. QED
    BY <1>1, <1>2, <1>3, <2>1, <2>2 DEF BatchOK
<1>6. TextOK'
  BY <1>1 DEF IInv, TextOK
<1>7. QED
  BY <1>4, <1>5, <1>6 DEF IInv

\* A run that raises ends everything.
LEMMA RaiseInv ==
  ASSUME IInv, AgentRaises
  PROVE  IInv'
<1>1. /\ pc = "agent" /\ pc' = "raised"
      /\ UNCHANGED <<deps, kind, sorting, order, next, request, file, typeNodes, rustCode, deleted>>
  BY DEF AgentRaises, sorting
<1>2. GivenOK' /\ CountOK' /\ OrderOK'
  BY <1>1, SortKept
<1>3. BatchOK' /\ TextOK'
  BY <1>1 DEF IInv, BatchOK, TextOK
<1>4. QED
  BY <1>2, <1>3 DEF IInv

(***************************************************************************)
(* After the last batch every type is among typeNodes, since order covers  *)
(* the types: every one gets the whole file.                               *)
(***************************************************************************)
LEMMA FinishInv ==
  ASSUME IInv, FinishTypes
  PROVE  IInv'
<1>1. /\ pc = "batch" /\ pc' \in {"done", "cascade"} /\ next > Len(order)
      /\ rustCode' = [t \in Types |-> IF t \in typeNodes THEN file ELSE rustCode[t]]
      /\ deleted' = Seeds(rustCode')
      /\ UNCHANGED <<deps, kind, sorting, order, next, request, file, typeNodes>>
  BY DEF FinishTypes, sorting
<1>2. Types \subseteq typeNodes
  <2>1. SUFFICES ASSUME NEW t \in Types PROVE t \in typeNodes
    OBVIOUS
  <2>2. PICK c \in Comps : t \in c
    BY TypeComponents DEF IInv, GivenOK, Comps
  <2>3. PICK i \in DOMAIN order : c = order[i]
    BY <1>1, <2>2 DEF IInv, OrderOK, Taken
  <2>4. i < next
    BY <1>1, BatchTypes DEF IInv, BatchOK
  <2>5. QED
    BY <2>2, <2>3, <2>4 DEF IInv, BatchOK
<1>3. \A t \in Types : rustCode'[t] = file'
  BY <1>1, <1>2
<1>4. deleted' \subseteq Types /\ (deleted' # {} => file' = {})
  BY <1>1, <1>3 DEF Seeds
<1>5. GivenOK' /\ CountOK' /\ OrderOK'
  BY <1>1, SortKept
<1>6. BatchOK'
  BY <1>1 DEF IInv, BatchOK
<1>7. TextOK'
  BY <1>1, <1>3, <1>4 DEF IInv, TextOK
<1>8. QED
  BY <1>5, <1>6, <1>7 DEF IInv

\* A pass finds nothing that names a deleted type: there is no text at all.
LEMMA CascadeInv ==
  ASSUME IInv, CascadePass
  PROVE  IInv'
<1> DEFINE gone == {t \in Types : Refers(t) /\ ~ Composite(t)}
<1>1. PICK cut \in SUBSET {t \in Types : Refers(t) /\ Composite(t)} :
        rustCode' = [t \in Types |->
                        IF t \in gone THEN {}
                        ELSE IF t \in cut THEN rustCode[t] \ deleted ELSE rustCode[t]]
  BY DEF CascadePass
<1>2. /\ pc = "cascade" /\ pc' \in {"done", "cascade"}
      /\ deleted' = deleted \union gone
      /\ UNCHANGED <<deps, kind, sorting, order, next, request, file, typeNodes>>
  BY DEF CascadePass, sorting
<1>3. \A t \in Types : ~ Refers(t)
  BY <1>2 DEF IInv, TextOK, Refers
<1>4. gone = {} /\ cut = {}
  BY <1>1, <1>3
<1>5. rustCode' = rustCode /\ deleted' = deleted
  BY <1>1, <1>2, <1>4 DEF IInv, TextOK
<1>6. GivenOK' /\ CountOK' /\ OrderOK'
  BY <1>2, SortKept
<1>7. BatchOK'
  BY <1>2 DEF IInv, BatchOK
<1>8. TextOK'
  BY <1>2, <1>5 DEF IInv, TextOK
<1>9. QED
  BY <1>6, <1>7, <1>8 DEF IInv

\* Steps that change nothing.
LEMMA StutterInv ==
  ASSUME IInv, UNCHANGED vars
  PROVE  IInv'
<1>1. /\ Comps' = Comps /\ Taken' = Taken
      /\ \A c : WaitsFor(c)' = WaitsFor(c)
  BY DEF vars, sorting, Comps, Taken, WaitsFor, DependsOn, Graph!CalleesOf, Graph!Adj
<1>2. QED
  BY <1>1 DEF vars, sorting, IInv, GivenOK, CountOK, OrderOK, BatchOK, TextOK, Batch

-----------------------------------------------------------------------------
(***************************************************************************)
(* The invariant holds from the registry's first state through the sort,   *)
(* the batches and the cascade.                                            *)
(***************************************************************************)
THEOREM TypesInductive == Spec => []IInv
<1>1. Init => IInv
  BY InitInv
<1>2. IInv /\ [Next]_vars => IInv'
  BY TakeInv, SortedInv, TypedefsInv, AskInv, AgentInv, RaiseInv, FinishInv, CascadeInv,
     StutterInv DEF Next
<1>3. QED
  BY <1>1, <1>2, PTL DEF Spec

(***************************************************************************)
(* Every variable of the type batches keeps its type: no component waits   *)
(* for more components than there are types, and there are no more batches *)
(* than types.                                                             *)
(***************************************************************************)
THEOREM TypesTypeCorrect == Spec => []TypesOK
<1>1. IInv => TypesOK
  <2> SUFFICES ASSUME IInv PROVE TypesOK
    OBVIOUS
  <2>2. Cardinality(Types) \in Nat
    BY TypeBatchesAssumption, FS_CardinalityType
  <2>3. \A c \in Comps : indegree[c] \in 0..Cardinality(Types)
    BY <2>2, WaitsFinite DEF IInv, CountOK
  <2>4. indegree \in [Graph!Components(deps) -> 0..Cardinality(Types)]
    BY <2>3 DEF IInv, CountOK, Comps
  <2>5. Sccs = Comps /\ ready \subseteq Sccs /\ order \in Seq(Sccs)
    BY DEF IInv, CountOK, OrderOK, Sccs
  <2>6. next \in 1..(Cardinality(Types) + 1)
    BY <2>2, OrderIsShort DEF IInv, BatchOK
  <2>7. QED
    BY <2>4, <2>5, <2>6 DEF IInv, BatchOK, TextOK, TypesOK
<1>2. QED
  BY <1>1, TypesInductive, PTL

(***************************************************************************)
(* Whichever batches fail, agentFinishTypes gives every type the whole     *)
(* file, so the cascade cuts nothing.                                      *)
(***************************************************************************)
THEOREM CascadeIsIdle == Spec => []CascadeCutsNothing
<1>1. IInv => CascadeCutsNothing
  BY DEF IInv, TextOK, CascadeCutsNothing
<1>2. QED
  BY <1>1, TypesInductive, PTL

(***************************************************************************)
(* topo_batches emits the components of the type graph each once and after *)
(* all it depends on: the safety part of ImplementsTypeOrder.  A step of   *)
(* the sort is an Emit of SccOrder, any other step a stutter.              *)
(***************************************************************************)
THEOREM TypesAreOrdered ==
  Spec => Order!Init /\ [][Order!Next]_<<deps, order>>
<1>1. Init => Order!Init
  BY DEF Init, Order!Init
<1>2. ASSUME IInv, NEW c \in Sccs, Take(c)
      PROVE  Order!Next
  <2>1. /\ c \in Comps \ Taken /\ indegree[c] = 0 /\ deps \in TypeDeps
        /\ order' = Append(order, c) /\ deps' = deps
    BY <1>2 DEF IInv, GivenOK, CountOK, Take, Sccs
  <2>2. Order!Emitted = UNION Taken
    BY DEF Order!Emitted, Taken
  <2>3. Taken \subseteq Comps
    BY LenProperties, <1>2 DEF IInv, OrderOK, Taken
  <2>4. c \cap UNION Taken = {}
    BY <2>1, <2>3, TypeComponentsDisjoint DEF Comps
  <2>5. WaitsFor(c) = {}
    <3>1. Cardinality(WaitsFor(c)) = 0 /\ IsFiniteSet(WaitsFor(c))
      BY <1>2, <2>1, WaitsFinite DEF IInv, CountOK
    <3>2. QED
      BY <3>1, FS_EmptySet, Zenon
  <2>6. Graph!CalleesOf(deps, c) \subseteq UNION Taken
    <3>1. SUFFICES ASSUME NEW x \in Graph!CalleesOf(deps, c) PROVE x \in UNION Taken
      OBVIOUS
    <3>2. x \in Types
      BY DEF Graph!CalleesOf, Graph!Adj
    <3>3. PICK e \in Comps : x \in e
      BY <2>1, <3>2, TypeComponents DEF Comps
    <3>4. DependsOn(c, e)
      BY <3>3 DEF DependsOn
    <3>5. QED
      BY <2>5, <3>3, <3>4 DEF WaitsFor
  <2>7. c \in Order!Components(deps) /\ Order!CalleesOf(deps, c) = Graph!CalleesOf(deps, c)
    BY <2>1 DEF Comps, Graph!Components, Order!Components, Graph!Component, Order!Component,
                Graph!Reach, Order!Reach, Graph!ClosedUnder, Order!ClosedUnder,
                Graph!Adj, Order!Adj, Graph!CalleesOf, Order!CalleesOf
  <2>8. QED
    BY <2>1, <2>2, <2>4, <2>6, <2>7 DEF Order!Next, Order!Emit
<1>3. IInv /\ [Next]_vars => [Order!Next]_<<deps, order>>
  <2>1. SUFFICES ASSUME IInv, [Next]_vars, ~ UNCHANGED <<deps, order>> PROVE Order!Next
    OBVIOUS
  <2>2. \E c \in Sccs : Take(c)
    BY <2>1 DEF Next, vars, sorting, Sorted, TranslateTypedefs, AskAgent, AgentFails,
               AgentAccepted, AgentRaises, FinishTypes, CascadePass
  <2>3. QED
    BY <1>2, <2>1, <2>2
<1>4. QED
  BY <1>1, <1>3, TypesInductive, PTL DEF Spec
=============================================================================
