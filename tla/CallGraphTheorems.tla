-------------------------- MODULE CallGraphTheorems --------------------------
(***************************************************************************)
(* Facts about call graphs and their components, for every finite set of   *)
(* functions and every dependFunctions map.                                *)
(***************************************************************************)
EXTENDS CallGraph, FiniteSetTheorems, WellFoundedInduction, TLAPS

(***************************************************************************)
(* Reachability over dependFunctions is reflexive and transitive.          *)
(***************************************************************************)
LEMMA ReachReflexive ==
  ASSUME NEW d \in Graphs, NEW f \in Funcs
  PROVE  f \in Reach(d, f)
BY DEF Reach

\* Reachability is transitive.
LEMMA ReachTransitive ==
  ASSUME NEW d \in Graphs, NEW f \in Funcs,
         NEW g \in Reach(d, f), NEW h \in Reach(d, g)
  PROVE  h \in Reach(d, f)
<1>1. g \in Funcs /\ h \in Funcs
  BY DEF Reach
<1>2. ASSUME NEW S \in SUBSET Funcs, f \in S, ClosedUnder(d, S)
      PROVE  h \in S
  <2>1. g \in S
    BY <1>2 DEF Reach
  <2>2. QED
    BY <1>2, <2>1 DEF Reach
<1>3. QED
  BY <1>1, <1>2 DEF Reach

(***************************************************************************)
(* A function is in its component, and two components that share a         *)
(* function are one: funcToScc is well defined.                            *)
(***************************************************************************)
LEMMA InOwnComponent ==
  ASSUME NEW d \in Graphs, NEW f \in Funcs
  PROVE  f \in Component(d, f)
BY ReachReflexive DEF Component

\* A member of a component has that component.
LEMMA ComponentOfMember ==
  ASSUME NEW d \in Graphs, NEW f \in Funcs, NEW x \in Component(d, f)
  PROVE  x \in Funcs /\ Component(d, x) = Component(d, f)
<1>1. x \in Funcs /\ x \in Reach(d, f) /\ f \in Reach(d, x)
  BY DEF Component, Reach
<1>2. ASSUME NEW y \in Component(d, x)
      PROVE  y \in Component(d, f)
  <2>1. y \in Funcs /\ y \in Reach(d, x) /\ x \in Reach(d, y)
    BY DEF Component, Reach
  <2>2. y \in Reach(d, f) /\ f \in Reach(d, y)
    BY <1>1, <2>1, ReachTransitive
  <2>3. QED
    BY <2>2 DEF Component
<1>3. ASSUME NEW y \in Component(d, f)
      PROVE  y \in Component(d, x)
  <2>1. y \in Funcs /\ y \in Reach(d, f) /\ f \in Reach(d, y)
    BY DEF Component, Reach
  <2>2. y \in Reach(d, x) /\ x \in Reach(d, y)
    BY <1>1, <2>1, ReachTransitive
  <2>3. QED
    BY <2>2 DEF Component
<1>4. QED
  BY <1>1, <1>2, <1>3

\* Components are disjoint.
LEMMA ComponentsDisjoint ==
  ASSUME NEW d \in Graphs, NEW C \in Components(d), NEW D \in Components(d),
         NEW x \in C, x \in D
  PROVE  C = D
<1>1. PICK f \in Funcs : C = Component(d, f)
  BY DEF Components
<1>2. PICK g \in Funcs : D = Component(d, g)
  BY DEF Components
<1>3. QED
  BY <1>1, <1>2, ComponentOfMember

\* There are finitely many components.
LEMMA ComponentsFinite ==
  ASSUME NEW d \in Graphs
  PROVE  IsFiniteSet(Components(d)) /\ Cardinality(Components(d)) \in Nat
<1> DEFINE c == [f \in Funcs |-> Component(d, f)]
<1>1. c \in Surjection(Funcs, Components(d))
  BY DEF Surjection, Components
<1>2. QED
  BY <1>1, CallGraphAssumption, FS_Surjection, FS_CardinalityType

(***************************************************************************)
(* A non-empty set of natural numbers has a least element.                 *)
(***************************************************************************)
LEMMA LeastElement ==
  ASSUME NEW T \in SUBSET Nat, T # {}
  PROVE  \E x \in T : \A y \in T : x <= y
<1> DEFINE R == OpToRel(<, Nat)
<1>1. IsWellFoundedOn(R, Nat)
  BY NatLessThanWellFounded
<1>2. \E x \in T : \A y \in T : ~ (<<y, x>> \in R)
  BY <1>1, WFMin
<1>3. R = {ss \in Nat \X Nat : ss[1] < ss[2]}
  BY Zenon DEF OpToRel
<1> HIDE DEF R
<1>4. \A x, y \in Nat : <<y, x>> \in R <=> y < x
  BY <1>3
<1>5. PICK x \in T : \A y \in T : ~ (<<y, x>> \in R)
  BY <1>2
<1>6. ASSUME NEW y \in T
      PROVE  x <= y
  <2>1. x \in Nat /\ y \in Nat /\ ~ (y < x)
    BY <1>4, <1>5
  <2>2. QED
    BY <2>1
<1>7. QED
  BY <1>6

(***************************************************************************)
(* The sequence findStronglyConnectedComponents returns: its indices, and  *)
(* that it holds every function exactly once.                              *)
(***************************************************************************)
LEMMA SccOrderBasics ==
  ASSUME NEW d \in Graphs, NEW s \in SccOrders(d)
  PROVE  /\ DOMAIN s = 1..Cardinality(Components(d))
         /\ DOMAIN s \subseteq Nat \ {0}
         /\ IsFiniteSet(DOMAIN s)
         /\ \A i \in DOMAIN s : s[i] \in Components(d) /\ s[i] \subseteq Funcs
         /\ \A i, j \in DOMAIN s : \A x \in s[i] : x \in s[j] => i = j
         /\ UNION {s[i] : i \in DOMAIN s} = Funcs
<1> DEFINE n == Cardinality(Components(d))
<1>1. n \in Nat /\ IsFiniteSet(Components(d))
  BY ComponentsFinite
<1>2. s \in [1..n -> Components(d)] /\ \A i, j \in DOMAIN s : s[i] = s[j] => i = j
  BY DEF SccOrders
<1>3. DOMAIN s = 1..n /\ DOMAIN s \subseteq Nat \ {0} /\ IsFiniteSet(DOMAIN s)
  BY <1>1, <1>2, FS_Interval
<1>4. \A i \in DOMAIN s : s[i] \in Components(d) /\ s[i] \subseteq Funcs
  <2>1. \A C \in Components(d) : C \subseteq Funcs
    BY DEF Components, Component, Reach
  <2>2. QED
    BY <1>2, <2>1
<1>5. \A i, j \in DOMAIN s : \A x \in s[i] : x \in s[j] => i = j
  BY <1>2, <1>4, ComponentsDisjoint
<1>6. s \in Surjection(1..n, Components(d))
  <2>1. s \in Injection(1..n, Components(d))
    BY <1>2 DEF Injection, IsInjective
  <2>2. Cardinality(1..n) = n
    BY <1>1, FS_Interval
  <2>3. QED
    BY <1>1, <2>1, <2>2, FS_Injection
<1>7. UNION {s[i] : i \in DOMAIN s} = Funcs
  <2>1. ASSUME NEW f \in Funcs
        PROVE  \E i \in DOMAIN s : f \in s[i]
    <3>1. Component(d, f) \in Components(d)
      BY DEF Components
    <3>2. PICK i \in 1..n : s[i] = Component(d, f)
      BY <1>6, <3>1 DEF Surjection
    <3>3. QED
      BY <1>3, <3>2, InOwnComponent
  <2>2. QED
    BY <1>4, <2>1
<1>8. QED
  BY <1>3, <1>4, <1>5, <1>7
=============================================================================
