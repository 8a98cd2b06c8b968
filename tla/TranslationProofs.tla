-------------------------- MODULE TranslationProofs --------------------------
(***************************************************************************)
(* The translation loop and the split of what it translated, for every     *)
(* finite set of functions and every call graph.  The loop is type         *)
(* correct, leaves no unit over, keeps the translation file closed under   *)
(* calls, merges the checked file, and implements UnitOrder; the split     *)
(* computes reachability, loses no function, and fails the contract check  *)
(* for groups only.                                                        *)
(***************************************************************************)
EXTENDS SplitMerged, CallGraphTheorems


\* The unit of the current iteration is the popped one, and pending holds
\* consumers of it only while they are being released.
CurInv ==
    /\ pc \in {"unit", "fix", "release"} => cur \in Units
    /\ pc \in {"unit", "fix"} => outcome[cur] = "none" /\ incoming[cur] = 0
    /\ pc = "release" => outcome[cur] # "none" /\ pending \subseteq Consumers(cur)
    /\ pc # "release" => pending = {}

Queued(t) == \E i \in 1..Len(queue) : queue[i] = t

\* The queue holds, once each, the undecided units whose counter is zero,
\* except the one being translated.
QueueInv ==
    /\ \A i, j \in 1..Len(queue) : queue[i] = queue[j] => i = j
    /\ \A i \in 1..Len(queue) :
          /\ outcome[queue[i]] = "none"
          /\ incoming[queue[i]] = 0
          /\ pc \in {"unit", "fix", "raised"} => queue[i] # cur
    /\ \A t \in Units :
          incoming[t] = 0 /\ outcome[t] = "none" =>
              Queued(t) \/ (pc \in {"unit", "fix", "raised"} /\ t = cur)
    /\ \A t \in Units : outcome[t] # "none" => incoming[t] = 0

IInv ==
    /\ TypeOK
    /\ IncomingIsExact
    /\ CurInv
    /\ QueueInv
    /\ NothingLeftOver
-----------------------------------------------------------------------------
(***************************************************************************)
(* The graph never changes, so what is computed from it does not either.   *)
(***************************************************************************)
LEMMA GraphUnchanged ==
  ASSUME [Next]_vars
  PROVE  deps' = deps /\ sccs' = sccs
BY DEF vars, graph, kahn, result, Next, Pop, Accept, Fail, HandFix, SkipFix,
       Raise, Release, EndRelease, Finish

\* The units are finitely many, numbered, disjoint, and cover the functions.
LEMMA UnitFacts ==
  ASSUME TypeOK
  PROVE  /\ Units \subseteq Nat \ {0}
         /\ IsFiniteSet(Units)
         /\ \A s \in Units : sccs[s] \subseteq Funcs
         /\ \A s, t \in Units : \A x \in sccs[s] : x \in sccs[t] => s = t
         /\ UNION {sccs[s] : s \in Units} = Funcs
<1>1. deps \in Graphs /\ sccs \in SccOrders(deps)
  BY DEF TypeOK
<1>2. QED
  BY <1>1, SccOrderBasics DEF Units

(***************************************************************************)
(* A unit only calls units with a smaller index.                           *)
(***************************************************************************)
LEMMA CalleeIsEarlier ==
  ASSUME TypeOK, NEW t \in Units, NEW s \in Units, Calls(t, s)
  PROVE  s < t
<1>1. deps \in Graphs /\ sccs \in SccOrders(deps)
  BY DEF TypeOK
<1>2. PICK f \in sccs[t], g \in sccs[s] : g \in Adj(deps, f)
  BY DEF Calls
<1>3. g \notin sccs[t]
  BY UnitFacts DEF Calls
<1>4. g \in CalleesOf(deps, sccs[t])
  BY <1>2, <1>3 DEF CalleesOf
<1>5. CalleesOf(deps, sccs[t]) \subseteq UNION {sccs[j] : j \in 1..(t - 1)}
  BY <1>1 DEF SccOrders, Units
<1>6. PICK j \in 1..(t - 1) : g \in sccs[j]
  BY <1>4, <1>5
<1>7. t \in Nat \ {0} /\ Units = 1..Cardinality(Components(deps))
      /\ Cardinality(Components(deps)) \in Nat
  BY <1>1, SccOrderBasics, ComponentsFinite DEF Units
<1>8. j \in Units
  BY <1>7
<1>9. j = s
  BY <1>2, <1>6, <1>8, UnitFacts
<1>10. QED
  BY <1>6, <1>7, <1>9

\* A unit calls finitely many others.
LEMMA CalleeUnitsFinite ==
  ASSUME TypeOK, NEW t \in Units
  PROVE  IsFiniteSet(CalleeUnits(t)) /\ Cardinality(CalleeUnits(t)) \in Nat
<1>1. CalleeUnits(t) \in SUBSET Units
  BY DEF CalleeUnits
<1>2. QED
  BY <1>1, UnitFacts, FS_Subset, FS_CardinalityType
(***************************************************************************)
(* Initially.                                                              *)
(***************************************************************************)
LEMMA InitTypeOK == Init => TypeOK
<1> SUFFICES ASSUME Init PROVE TypeOK
  OBVIOUS
<1>1. deps \in Graphs /\ sccs \in SccOrders(deps)
  BY DEF Init
<1>2. Units \subseteq Nat \ {0} /\ IsFiniteSet(Units)
  BY <1>1, SccOrderBasics DEF Units
<1>3. \A t \in Units : IsFiniteSet(CalleeUnits(t)) /\ Cardinality(CalleeUnits(t)) \in Nat
  <2>1. \A t \in Units : CalleeUnits(t) \in SUBSET Units
    BY DEF CalleeUnits
  <2>2. QED
    BY <1>2, <2>1, FS_Subset, FS_CardinalityType
<1>4. incoming \in [Units -> Nat]
  BY <1>3 DEF Init
<1> DEFINE Ready == {t \in Units : incoming[t] = 0}
<1>5. queue \in Seq(Units)
  <2>1. Ready \in SUBSET Units
    OBVIOUS
  <2>2. Cardinality(Ready) \in Nat
    BY <1>2, <2>1, FS_Subset, FS_CardinalityType
  <2>3. PICK n \in Nat : queue \in [1..n -> Units]
    <3>1. queue \in [1..Cardinality(Ready) -> Ready]
      BY DEF Init, InIndexOrder
    <3>2. QED
      BY <2>1, <2>2, <3>1
  <2>4. QED
    BY <2>3
<1>6. IsText(file)
  BY DEF Init, IsText, Writers
<1>7. DOMAIN blocks = Units /\ \A s \in Units : IsText(blocks[s])
  BY DEF Init, IsText, NoText
<1>8. QED
  BY <1>1, <1>4, <1>5, <1>6, <1>7 DEF Init, TypeOK

\* createSccTopoQueue counts every edge between units once.
LEMMA InitIncoming == Init => IncomingIsExact
<1> SUFFICES ASSUME Init, NEW t \in Units
             PROVE  incoming[t] = Cardinality(CalleeUnits(t) \ ReleasedTo(t))
  BY DEF IncomingIsExact
<1>1. ReleasedTo(t) = {}
  BY DEF Init, ReleasedTo, CalleeUnits
<1>2. QED
  BY <1>1 DEF Init

\* No unit is at work before the loop.
LEMMA InitCur == Init => CurInv
BY DEF Init, CurInv

\* The queue starts with the units that call no other.
LEMMA InitQueue == Init => QueueInv
<1> SUFFICES ASSUME Init PROVE QueueInv
  OBVIOUS
<1> DEFINE Ready == {t \in Units : incoming[t] = 0}
<1>1. TypeOK
  BY InitTypeOK
<1>2. /\ queue \in [1..Cardinality(Ready) -> Ready]
      /\ \A t \in Ready : \E i \in DOMAIN queue : queue[i] = t
      /\ \A i, j \in DOMAIN queue : i < j => queue[i] < queue[j]
  BY DEF Init, InIndexOrder
<1>3. queue \in Seq(Units) /\ DOMAIN queue = 1..Len(queue) /\ Len(queue) \in Nat
  BY <1>1 DEF TypeOK
<1>4. \A i, j \in 1..Len(queue) : queue[i] = queue[j] => i = j
  <2> SUFFICES ASSUME NEW i \in 1..Len(queue), NEW j \in 1..Len(queue), i < j
               PROVE  queue[i] # queue[j]
    BY <1>3
  <2>1. queue[i] < queue[j] /\ queue[i] \in Nat /\ queue[j] \in Nat
    BY <1>1, <1>2, <1>3, UnitFacts
  <2>2. QED
    BY <2>1
<1>5. \A i \in 1..Len(queue) : queue[i] \in Ready
  BY <1>2, <1>3
<1>6. \A t \in Ready : Queued(t)
  BY <1>2, <1>3 DEF Queued
<1>7. pc = "pop" /\ outcome = [s \in Units |-> "none"]
  BY DEF Init
<1>8. QED
  BY <1>4, <1>5, <1>6, <1>7 DEF QueueInv

\* The loop does not start at its end.
LEMMA InitLeftOver == Init => NothingLeftOver
BY DEF Init, NothingLeftOver

(***************************************************************************)
(* Type correctness is preserved.                                          *)
(***************************************************************************)
LEMMA EditedIsText ==
  ASSUME TypeOK, NEW s \in Units, NEW text \in Edited(s)
  PROVE  IsText(text)
<1>1. PICK D \in SUBSET Funcs, K \in SUBSET Funcs :
        text = [f \in D |-> IF f \in K \cap DOMAIN file THEN file[f] ELSE <<"agent", s>>]
  BY DEF Edited
<1>2. \A f \in DOMAIN file : file[f] \in Writers
  BY DEF TypeOK, IsText
<1>3. <<"agent", s>> \in Writers
  BY DEF Writers
<1>4. QED
  BY <1>1, <1>2, <1>3 DEF IsText

\* A unit that is counted down was still waiting for the one just decided.
LEMMA ReleasedWasWaiting ==
  ASSUME TypeOK, CurInv, IncomingIsExact, NEW t \in Units, Release(t)
  PROVE  /\ cur \in CalleeUnits(t) \ ReleasedTo(t)
         /\ outcome[cur] # "none"
         /\ incoming[t] \in Nat \ {0}
<1>1. cur \in CalleeUnits(t) \ ReleasedTo(t) /\ outcome[cur] # "none"
  BY DEF Release, CurInv, Consumers, CalleeUnits, ReleasedTo
<1>2. IsFiniteSet(CalleeUnits(t) \ ReleasedTo(t))
  BY CalleeUnitsFinite, FS_Subset
<1>3. Cardinality(CalleeUnits(t) \ ReleasedTo(t)) # 0
  BY <1>1, <1>2, FS_EmptySet
<1>4. QED
  BY <1>1, <1>3 DEF IncomingIsExact, TypeOK

\* Every step keeps the types.
LEMMA NextTypeOK == TypeOK /\ CurInv /\ IncomingIsExact /\ [Next]_vars => TypeOK'
<1> SUFFICES ASSUME TypeOK, CurInv, IncomingIsExact, [Next]_vars PROVE TypeOK'
  OBVIOUS
<1> USE DEF TypeOK
<1>0. deps' = deps /\ sccs' = sccs /\ Units' = Units /\ Writers' = Writers
  BY GraphUnchanged DEF Units, Writers
<1>1. CASE UNCHANGED vars
  BY <1>1 DEF vars, graph, kahn, result, IsText, Units, Writers
<1>2. CASE Pop
  BY <1>0, <1>2 DEF Pop, graph, result, IsText
<1>3. CASE Accept
  <2>1. cur \in Units
    BY <1>3 DEF Accept, CurInv
  <2>2. PICK text \in Edited(cur) :
          /\ PassesCheck(cur, text)
          /\ file' = text
          /\ Succeed("accepted", Cut(cur, text), text)
    BY <1>3 DEF Accept
  <2>3. IsText(text)
    BY <2>1, EditedIsText
  <2>4. IsText(Cut(cur, text))
    BY <2>1, <2>2, <2>3, UnitFacts DEF Cut, IsText, PassesCheck
  <2>5. IsText(file)' /\ merged' = Written(merged'.text) /\ IsText(merged.text)'
    BY <1>0, <2>2, <2>3 DEF IsText, Succeed, Written
  <2>6. DOMAIN blocks' = Units /\ (\A s \in Units : IsText(blocks[s]))'
    BY <1>0, <2>1, <2>2, <2>4 DEF IsText, Succeed
  <2>7. pending' \in SUBSET Units
    BY <2>2 DEF Succeed, Consumers
  <2>8. QED
    BY <1>0, <1>3, <2>1, <2>2, <2>5, <2>6, <2>7 DEF Accept, Succeed, graph
<1>4. CASE Fail
  <2>1. cur \in Units
    BY <1>4 DEF Fail, CurInv
  <2>2. pending' \in SUBSET Units
    BY <1>4 DEF Fail, Drop, Consumers
  <2>3. QED
    BY <1>0, <1>4, <2>1, <2>2 DEF Fail, Drop, graph, IsText
<1>5. CASE HandFix
  <2>1. cur \in Units
    BY <1>5 DEF HandFix, CurInv
  <2> DEFINE block == [f \in sccs[cur] |-> <<"hand", cur>>]
  <2>2. IsText(block)
    BY <2>1, UnitFacts DEF IsText, Writers
  <2>3. DOMAIN blocks' = Units /\ (\A s \in Units : IsText(blocks[s]))'
    BY <1>0, <1>5, <2>1, <2>2 DEF IsText, Succeed, HandFix
  <2>4. pending' \in SUBSET Units
    BY <1>5 DEF HandFix, Succeed, Consumers
  <2>5. IsText(file)' /\ merged' = Written(merged'.text) /\ IsText(merged.text)'
    BY <1>0, <1>5 DEF IsText, Succeed, Written, HandFix
  <2>6. QED
    BY <1>0, <1>5, <2>1, <2>3, <2>4, <2>5 DEF HandFix, Succeed, graph
<1>6. CASE SkipFix
  <2>1. cur \in Units
    BY <1>6 DEF SkipFix, CurInv
  <2>2. pending' \in SUBSET Units
    BY <1>6 DEF SkipFix, Drop, Consumers
  <2>3. QED
    BY <1>0, <1>6, <2>1, <2>2 DEF SkipFix, Drop, graph, IsText
<1>7. CASE Raise
  BY <1>0, <1>7 DEF Raise, graph, kahn, result, IsText
<1>8. ASSUME NEW t \in Units, Release(t)
      PROVE  TypeOK'
  <2>1. incoming[t] \in Nat \ {0}
    BY <1>8, ReleasedWasWaiting
  <2>2. incoming' \in [Units -> Nat] /\ queue' \in Seq(Units)
    BY <1>8, <2>1 DEF Release
  <2>3. QED
    BY <1>0, <1>8, <2>2 DEF Release, graph, result, IsText
<1>9. CASE EndRelease
  BY <1>0, <1>9 DEF EndRelease, graph, kahn, result, IsText
<1>10. CASE Finish
  BY <1>0, <1>10 DEF Finish, graph, kahn, IsText, Written
<1>11. QED
  BY <1>1, <1>2, <1>3, <1>4, <1>5, <1>6, <1>7, <1>8, <1>9, <1>10 DEF Next

-----------------------------------------------------------------------------
(***************************************************************************)
(* What the steps do to the counters and the queue.  Every way to decide a *)
(* unit is one DecideStep; MoveStep is a step that leaves them alone.      *)
(***************************************************************************)
MoveStep ==
    /\ UNCHANGED <<incoming, queue, cur, pending, outcome>>
    /\ \/ pc' = pc
       \/ pc = "unit" /\ pc' = "fix"
       \/ pc \in {"unit", "fix"} /\ pc' = "raised"

DecideStep ==
    /\ pc \in {"unit", "fix"}
    /\ \E how \in {"accepted", "fixed", "dropped"} :
          outcome' = [outcome EXCEPT ![cur] = how]
    /\ pc' = "release"
    /\ pending' = Consumers(cur)
    /\ UNCHANGED <<incoming, queue, cur>>

\* Every step is a move, a decision or a step of the queue.
LEMMA StepShape ==
  ASSUME [Next]_vars
  PROVE  \/ MoveStep
         \/ DecideStep
         \/ Pop
         \/ \E t \in Units : Release(t)
         \/ EndRelease
         \/ Finish
<1>1. CASE UNCHANGED vars
  BY <1>1 DEF vars, graph, kahn, result, MoveStep
<1>2. CASE Accept
  BY <1>2 DEF Accept, Succeed, DecideStep
<1>3. CASE Fail
  <2>1. CASE InteractiveFix
    BY <1>3, <2>1 DEF Fail, MoveStep
  <2>2. CASE ~ InteractiveFix
    BY <1>3, <2>2 DEF Fail, Drop, DecideStep
  <2>3. QED
    BY <2>1, <2>2
<1>4. CASE HandFix
  BY <1>4 DEF HandFix, Succeed, DecideStep
<1>5. CASE SkipFix
  BY <1>5 DEF SkipFix, Drop, DecideStep
<1>6. CASE Raise
  BY <1>6 DEF Raise, kahn, result, MoveStep
<1>7. QED
  BY <1>1, <1>2, <1>3, <1>4, <1>5, <1>6 DEF Next

(***************************************************************************)
(* The counters stay exact.  Only Release moves a unit to ReleasedTo.      *)
(***************************************************************************)
LEMMA NextIncoming == TypeOK /\ CurInv /\ IncomingIsExact /\ [Next]_vars => IncomingIsExact'
<1> SUFFICES ASSUME TypeOK, CurInv, IncomingIsExact, [Next]_vars
             PROVE  IncomingIsExact'
  OBVIOUS
<1>1. /\ Units' = Units
      /\ \A t \in Units : CalleeUnits(t)' = CalleeUnits(t)
  BY GraphUnchanged DEF Units, CalleeUnits, Calls, Adj
<1>2. outcome \in [Units -> {"none", "accepted", "fixed", "dropped"}]
      /\ incoming \in [Units -> Nat]
  BY DEF TypeOK
<1>3. ASSUME incoming' = incoming,
             \A t \in Units : ReleasedTo(t)' = ReleasedTo(t)
      PROVE  IncomingIsExact'
  BY <1>1, <1>3 DEF IncomingIsExact
<1>4. CASE MoveStep
  <2>1. \A t \in Units : ReleasedTo(t)' = ReleasedTo(t)
    BY <1>1, <1>4 DEF MoveStep, ReleasedTo
  <2>2. QED
    BY <1>3, <1>4, <2>1 DEF MoveStep
<1>5. CASE DecideStep
  <2>1. cur \in Units /\ outcome[cur] = "none" /\ pc # "release"
    BY <1>5 DEF DecideStep, CurInv
  <2>2. PICK how \in {"accepted", "fixed", "dropped"} :
          outcome' = [outcome EXCEPT ![cur] = how]
    BY <1>5 DEF DecideStep
  <2>3. \A t \in Units : cur \in CalleeUnits(t) => t \in Consumers(cur)
    BY DEF CalleeUnits, Consumers
  <2>4. ASSUME NEW t \in Units
        PROVE  ReleasedTo(t)' = ReleasedTo(t)
    <3>1. ReleasedTo(t)' = {s \in CalleeUnits(t) :
            outcome'[s] # "none" /\ ~ (s = cur /\ t \in Consumers(cur))}
      BY <1>1, <1>5 DEF DecideStep, ReleasedTo
    <3>2. ReleasedTo(t) = {s \in CalleeUnits(t) : outcome[s] # "none"}
      BY <2>1 DEF ReleasedTo
    <3>3. \A s \in CalleeUnits(t) : s \in Units
      BY DEF CalleeUnits
    <3>4. \A s \in CalleeUnits(t) :
            (outcome'[s] # "none" /\ ~ (s = cur /\ t \in Consumers(cur)))
              <=> outcome[s] # "none"
      BY <1>2, <2>1, <2>2, <2>3, <3>3
    <3>5. QED
      BY <3>1, <3>2, <3>4
  <2>5. QED
    BY <1>3, <1>5, <2>4 DEF DecideStep
<1>6. CASE Pop
  <2>1. \A t \in Units : ReleasedTo(t)' = ReleasedTo(t)
    BY <1>1, <1>6 DEF Pop, result, ReleasedTo
  <2>2. QED
    BY <1>3, <1>6, <2>1 DEF Pop
<1>7. ASSUME NEW t \in Units, Release(t)
      PROVE  IncomingIsExact'
  <2>1. /\ cur \in CalleeUnits(t) \ ReleasedTo(t)
        /\ outcome[cur] # "none"
        /\ incoming[t] \in Nat \ {0}
    BY <1>7, ReleasedWasWaiting
  <2>2. ASSUME NEW u \in Units, u # t
        PROVE  ReleasedTo(u)' = ReleasedTo(u) /\ incoming'[u] = incoming[u]
    BY <1>1, <1>2, <1>7, <2>2 DEF Release, ReleasedTo, result
  <2>3. ReleasedTo(t)' = ReleasedTo(t) \cup {cur}
    BY <1>1, <1>7, <2>1 DEF Release, ReleasedTo, result
  <2>4. incoming'[t] = incoming[t] - 1
    BY <1>2, <1>7 DEF Release
  <2> DEFINE left == CalleeUnits(t) \ ReleasedTo(t)
  <2>5. (CalleeUnits(t) \ ReleasedTo(t))' = left \ {cur}
    BY <1>1, <2>3
  <2>6. IsFiniteSet(left) /\ cur \in left
    BY <2>1, CalleeUnitsFinite, FS_Subset
  <2>7. Cardinality(left \ {cur}) = Cardinality(left) - 1
    BY <2>6, FS_RemoveElement
  <2>8. incoming'[t] = Cardinality((CalleeUnits(t) \ ReleasedTo(t))')
    BY <2>4, <2>5, <2>7 DEF IncomingIsExact
  <2>9. ASSUME NEW u \in Units
        PROVE  incoming'[u] = Cardinality((CalleeUnits(u) \ ReleasedTo(u))')
    BY <1>1, <2>2, <2>8 DEF IncomingIsExact
  <2>10. QED
    BY <1>1, <2>9 DEF IncomingIsExact
<1>8. CASE EndRelease
  <2>1. \A t \in Units : ReleasedTo(t)' = ReleasedTo(t)
    BY <1>1, <1>8 DEF EndRelease, kahn, result, ReleasedTo
  <2>2. QED
    BY <1>3, <1>8, <2>1 DEF EndRelease, kahn
<1>9. CASE Finish
  <2>1. \A t \in Units : ReleasedTo(t)' = ReleasedTo(t)
    BY <1>1, <1>9 DEF Finish, kahn, ReleasedTo
  <2>2. QED
    BY <1>3, <1>9, <2>1 DEF Finish, kahn
<1>10. QED
  BY <1>4, <1>5, <1>6, <1>7, <1>8, <1>9, StepShape

(***************************************************************************)
(* The current unit is undecided, and ready, until its one DecideStep.     *)
(***************************************************************************)
LEMMA NextCur == TypeOK /\ CurInv /\ QueueInv /\ [Next]_vars => CurInv'
<1> SUFFICES ASSUME TypeOK, CurInv, QueueInv, [Next]_vars
             PROVE  CurInv'
  OBVIOUS
<1>1. Units' = Units /\ \A s \in Units : Consumers(s)' = Consumers(s)
  BY GraphUnchanged DEF Units, Consumers, Calls, Adj
<1>2. CASE MoveStep
  BY <1>1, <1>2 DEF MoveStep, CurInv
<1>3. CASE DecideStep
  <2>1. cur \in Units
    BY <1>3 DEF DecideStep, CurInv
  <2>2. QED
    BY <1>1, <1>3, <2>1 DEF DecideStep, CurInv, TypeOK
<1>4. CASE Pop
  <2>1. queue \in Seq(Units) /\ queue # <<>>
    BY <1>4 DEF Pop, TypeOK
  <2>2. Head(queue) = queue[1] /\ 1 \in 1..Len(queue) /\ queue[1] \in Units
    BY <2>1
  <2>3. outcome[queue[1]] = "none" /\ incoming[queue[1]] = 0
    BY <2>2 DEF QueueInv
  <2>4. QED
    BY <1>1, <1>4, <2>2, <2>3 DEF Pop, CurInv, result
<1>5. ASSUME NEW t \in Units, Release(t)
      PROVE  CurInv'
  BY <1>1, <1>5 DEF Release, CurInv, result
<1>6. CASE EndRelease
  BY <1>1, <1>6 DEF EndRelease, CurInv, kahn, result
<1>7. CASE Finish
  BY <1>1, <1>7 DEF Finish, CurInv, kahn
<1>8. QED
  BY <1>2, <1>3, <1>4, <1>5, <1>6, <1>7, StepShape

(***************************************************************************)
(* The queue holds exactly the ready units.  A released unit that becomes  *)
(* ready was waiting for the current one, so it is not in the queue yet.   *)
(***************************************************************************)
LEMMA NextQueue ==
  TypeOK /\ CurInv /\ QueueInv /\ IncomingIsExact /\ [Next]_vars => QueueInv'
<1> SUFFICES ASSUME TypeOK, CurInv, QueueInv, IncomingIsExact, [Next]_vars
             PROVE  QueueInv'
  OBVIOUS
<1>1. Units' = Units
  BY GraphUnchanged DEF Units
<1>2. /\ queue \in Seq(Units)
      /\ outcome \in [Units -> {"none", "accepted", "fixed", "dropped"}]
      /\ incoming \in [Units -> Nat]
      /\ \A i \in 1..Len(queue) : queue[i] \in Units
      /\ Len(queue) \in Nat
  BY DEF TypeOK
<1>3. CASE MoveStep
  BY <1>1, <1>3 DEF MoveStep, CurInv, QueueInv, Queued
<1>4. CASE DecideStep
  <2>1. /\ cur \in Units /\ incoming[cur] = 0
        /\ \A i \in 1..Len(queue) : queue[i] # cur
    BY <1>4 DEF DecideStep, CurInv, QueueInv
  <2>2. /\ outcome'[cur] # "none"
        /\ \A t \in Units \ {cur} : outcome'[t] = outcome[t]
    BY <1>2, <1>4, <2>1 DEF DecideStep
  <2>3. queue' = queue /\ incoming' = incoming /\ pc' = "release"
    BY <1>4 DEF DecideStep
  <2>4. QED
    BY <1>1, <1>2, <2>1, <2>2, <2>3 DEF QueueInv, Queued
<1>5. CASE Pop
  <2>1. /\ queue # <<>> /\ cur' = queue[1] /\ queue' = Tail(queue)
        /\ pc = "pop" /\ pc' = "unit"
        /\ incoming' = incoming /\ outcome' = outcome
    BY <1>2, <1>5 DEF Pop, result
  <2>2. /\ Len(queue') = Len(queue) - 1
        /\ Len(queue) \in Nat \ {0}
        /\ \A i \in 1..Len(queue') : i + 1 \in 1..Len(queue) /\ queue'[i] = queue[i + 1]
    BY <1>2, <2>1
  <2>3. \A i, j \in 1..Len(queue') : queue'[i] = queue'[j] => i = j
    BY <2>2 DEF QueueInv
  <2>4. \A i \in 1..Len(queue') : queue'[i] # cur'
    BY <2>1, <2>2 DEF QueueInv
  <2>5. ASSUME NEW t \in Units, Queued(t), t # cur'
        PROVE  Queued(t)'
    <3>1. PICK i \in 1..Len(queue) : queue[i] = t
      BY <2>5 DEF Queued
    <3>2. i # 1 /\ i - 1 \in 1..Len(queue') /\ queue'[i - 1] = queue[i]
      BY <2>1, <2>2, <2>5, <3>1
    <3>3. QED
      BY <3>1, <3>2 DEF Queued
  <2>6. \A i \in 1..Len(queue') : outcome'[queue'[i]] = "none" /\ incoming'[queue'[i]] = 0
    BY <2>1, <2>2 DEF QueueInv
  <2>7. \A t \in Units :
          incoming[t] = 0 /\ outcome[t] = "none" => Queued(t)
    BY <2>1 DEF QueueInv
  <2>8. QED
    BY <1>1, <2>1, <2>3, <2>4, <2>5, <2>6, <2>7 DEF QueueInv
<1>6. ASSUME NEW t \in Units, Release(t)
      PROVE  QueueInv'
  <2>1. incoming[t] \in Nat \ {0}
    BY <1>6, ReleasedWasWaiting
  <2>2. outcome[t] = "none" /\ \A i \in 1..Len(queue) : queue[i] # t
    BY <2>1 DEF QueueInv
  <2>3. /\ pc = "release" /\ pc' = "release" /\ outcome' = outcome
        /\ incoming' = [incoming EXCEPT ![t] = @ - 1]
        /\ queue' = IF incoming[t] = 1 THEN Append(queue, t) ELSE queue
    BY <1>6 DEF Release, result
  <2>4. /\ incoming'[t] = incoming[t] - 1
        /\ \A u \in Units \ {t} : incoming'[u] = incoming[u]
    BY <1>2, <2>3
  <2>5. CASE incoming[t] = 1
    <3>1. /\ Len(queue') = Len(queue) + 1
          /\ queue'[Len(queue) + 1] = t
          /\ \A i \in 1..Len(queue) : queue'[i] = queue[i]
      BY <1>2, <2>3, <2>5
    <3>2. \A i \in 1..Len(queue') : i \in 1..Len(queue) \/ i = Len(queue) + 1
      BY <1>2, <3>1
    <3>3. \A i, j \in 1..Len(queue') : queue'[i] = queue'[j] => i = j
      BY <2>2, <3>1, <3>2 DEF QueueInv
    <3>4. \A i \in 1..Len(queue') : outcome'[queue'[i]] = "none" /\ incoming'[queue'[i]] = 0
      <4>1. incoming'[t] = 0
        BY <2>4, <2>5
      <4>2. ASSUME NEW i \in 1..Len(queue)
            PROVE  outcome'[queue[i]] = "none" /\ incoming'[queue[i]] = 0
        BY <1>2, <2>2, <2>3, <2>4 DEF QueueInv
      <4>3. QED
        BY <2>2, <2>3, <3>1, <3>2, <4>1, <4>2
    <3>5. Len(queue) + 1 \in 1..Len(queue')
      BY <1>2, <3>1
    <3>6. 1..Len(queue) \subseteq 1..Len(queue')
      BY <1>2, <3>1
    <3>7. Queued(t)' /\ \A u \in Units : Queued(u) => Queued(u)'
      BY <3>1, <3>5, <3>6 DEF Queued
    <3>8. \A u \in Units : outcome'[u] # "none" => incoming'[u] = 0
      BY <2>2, <2>3, <2>4 DEF QueueInv
    <3>9. \A u \in Units : incoming'[u] = 0 /\ outcome'[u] = "none" => Queued(u)'
      BY <2>3, <2>4, <3>7 DEF QueueInv
    <3>10. QED
      BY <1>1, <2>3, <3>3, <3>4, <3>8, <3>9 DEF QueueInv
  <2>6. CASE incoming[t] # 1
    <3>1. queue' = queue /\ incoming'[t] # 0
      BY <2>1, <2>3, <2>4, <2>6
    <3>2. \A i \in 1..Len(queue) : incoming'[queue[i]] = incoming[queue[i]]
      BY <1>2, <2>2, <2>4
    <3>3. \A u \in Units : outcome'[u] # "none" => incoming'[u] = 0
      BY <2>2, <2>3, <2>4 DEF QueueInv
    <3>4. \A u \in Units : Queued(u)' <=> Queued(u)
      BY <3>1 DEF Queued
    <3>5. \A u \in Units : incoming'[u] = 0 /\ outcome'[u] = "none" => Queued(u)'
      BY <2>3, <2>4, <3>1, <3>4 DEF QueueInv
    <3>6. \A i \in 1..Len(queue) : outcome'[queue[i]] = "none" /\ incoming'[queue[i]] = 0
      BY <2>3, <3>2 DEF QueueInv
    <3>7. QED
      BY <1>1, <2>3, <3>1, <3>3, <3>5, <3>6 DEF QueueInv
  <2>7. QED
    BY <2>5, <2>6
<1>7. CASE EndRelease
  BY <1>1, <1>7 DEF EndRelease, kahn, result, QueueInv, Queued
<1>8. CASE Finish
  BY <1>1, <1>8 DEF Finish, kahn, QueueInv, Queued
<1>9. QED
  BY <1>3, <1>4, <1>5, <1>6, <1>7, <1>8, StepShape

(***************************************************************************)
(* A drained queue means that everything is decided: of the undecided      *)
(* units the one with the least index has no undecided callee, so its      *)
(* counter is zero and it would be in the queue.                           *)
(***************************************************************************)
LEMMA DrainedMeansDecided ==
  ASSUME TypeOK, IncomingIsExact, CurInv, QueueInv, pc = "pop", queue = <<>>
  PROVE  \A s \in Units : outcome[s] # "none" /\ incoming[s] = 0
<1> DEFINE U == {s \in Units : outcome[s] = "none"}
<1>1. U = {}
  <2> SUFFICES ASSUME U # {} PROVE FALSE
    OBVIOUS
  <2>1. U \in SUBSET Nat
    BY UnitFacts
  <2>2. PICK s \in U : \A y \in U : s <= y
    <3> HIDE DEF U
    <3> QED
      BY <2>1, LeastElement
  <2>3. ASSUME NEW t \in CalleeUnits(s)
        PROVE  t \in ReleasedTo(s)
    <3>1. t \in Units /\ Calls(s, t)
      BY DEF CalleeUnits
    <3>2. t < s /\ t \in Nat /\ s \in Nat
      BY <3>1, CalleeIsEarlier, UnitFacts
    <3>3. t \notin U
      BY <2>2, <3>2
    <3>4. QED
      BY <3>1, <3>3 DEF ReleasedTo
  <2>4. CalleeUnits(s) \ ReleasedTo(s) = {}
    BY <2>3
  <2>5. incoming[s] = 0
    BY <2>4, FS_EmptySet DEF IncomingIsExact
  <2>6. Queued(s)
    BY <2>5 DEF QueueInv
  <2>7. QED
    BY <2>6 DEF Queued
<1>2. QED
  BY <1>1 DEF QueueInv

\* Every step keeps that a drained queue leaves nothing.
LEMMA NextLeftOver == IInv /\ [Next]_vars => NothingLeftOver'
<1> SUFFICES ASSUME IInv, [Next]_vars, pc' = "done"
             PROVE  /\ \A s \in Units' : incoming'[s] = 0 /\ outcome'[s] # "none"
                    /\ Funcs = UNION {sccs'[s] : s \in Units'}
  BY DEF NothingLeftOver
<1>1. sccs' = sccs /\ Units' = Units
  BY GraphUnchanged DEF Units
<1>2. Funcs = UNION {sccs[s] : s \in Units}
  BY UnitFacts DEF IInv
<1>3. \A s \in Units : incoming'[s] = 0 /\ outcome'[s] # "none"
  <2>1. CASE pc = "done"
    <3>1. MoveStep
      BY <2>1, StepShape DEF DecideStep, Pop, Release, EndRelease, Finish
    <3>2. QED
      BY <2>1, <3>1 DEF MoveStep, IInv, NothingLeftOver
  <2>2. CASE pc # "done"
    <3>1. Finish
      BY <2>2, StepShape DEF MoveStep, DecideStep, Pop, Release, EndRelease
    <3>2. \A s \in Units : outcome[s] # "none" /\ incoming[s] = 0
      BY <3>1, DrainedMeansDecided DEF Finish, IInv
    <3>3. QED
      BY <3>1, <3>2 DEF Finish, kahn
  <2>3. QED
    BY <2>1, <2>2
<1>4. QED
  BY <1>1, <1>2, <1>3
-----------------------------------------------------------------------------
\* The loop starts in the invariant, and its steps keep it.
LEMMA InitInv == Init => IInv
BY InitTypeOK, InitIncoming, InitCur, InitQueue, InitLeftOver DEF IInv

\* A step of the loop, or of whatever leaves its variables alone.
LEMMA NextInv == IInv /\ [Next]_vars => IInv'
BY NextTypeOK, NextIncoming, NextCur, NextQueue, NextLeftOver DEF IInv

(***************************************************************************)
(* The inductive invariant holds in every reachable state.                 *)
(***************************************************************************)
THEOREM Inductive == Spec => []IInv
BY InitInv, NextInv, PTL DEF Spec

(***************************************************************************)
(* createSccTopoQueue and the loop keep the types of their data: above     *)
(* all, no counter of sccIncomingEdges is ever taken below zero.           *)
(***************************************************************************)
THEOREM TypeCorrect == Spec => []TypeOK
BY Inductive, PTL DEF IInv

(***************************************************************************)
(* sccIncomingEdges counts, at every moment, the callee units not yet      *)
(* taken off a unit.                                                       *)
(***************************************************************************)
THEOREM CountersExact == Spec => []IncomingIsExact
BY Inductive, PTL DEF IInv

(***************************************************************************)
(* When _runSccTopoTranslateLoop ends its while loop no unit is left over: *)
(* the "Loop ended with unprocessed SCC(s)" branch is dead code.           *)
(***************************************************************************)
THEOREM LoopLeavesNothing == Spec => []NothingLeftOver
BY Inductive, PTL DEF IInv

\* Accepted units and their callees stay in the file in every step.
LEMMA NextCallees == IInv /\ AcceptedKeepsItsCallees /\ [Next]_vars => AcceptedKeepsItsCallees'
<1> SUFFICES ASSUME IInv, AcceptedKeepsItsCallees, [Next]_vars,
                    NEW s \in Units', outcome'[s] = "accepted"
             PROVE  (sccs[s] \cup CalleesOf(deps, sccs[s]))' \subseteq DOMAIN file'
  BY DEF AcceptedKeepsItsCallees
<1>1. /\ s \in Units /\ sccs' = sccs /\ deps' = deps
      /\ CalleesOf(deps, sccs[s])' = CalleesOf(deps, sccs[s])
  BY GraphUnchanged DEF Units, CalleesOf, Adj
<1>2. outcome \in [Units -> {"none", "accepted", "fixed", "dropped"}]
  BY DEF IInv, TypeOK
<1>3. CASE Accept
  <2>1. PICK text \in Edited(cur) : PassesCheck(cur, text) /\ file' = text
    BY <1>3 DEF Accept
  <2>2. DOMAIN file \cup sccs[cur] \subseteq DOMAIN file'
    BY <2>1 DEF PassesCheck
  <2>3. CalleesOf(deps, sccs[cur]) \subseteq DOMAIN file
    BY <1>3 DEF Accept, FailedCallees
  <2>4. s = cur \/ outcome[s] = "accepted"
    BY <1>1, <1>2, <1>3 DEF Accept, Succeed
  <2>5. QED
    BY <1>1, <2>2, <2>3, <2>4 DEF AcceptedKeepsItsCallees
<1>4. CASE ~ Accept
  <2>1. file' = file
    BY <1>4 DEF Next, vars, Pop, Fail, HandFix, SkipFix, Raise, Release,
                EndRelease, Finish, result
  <2>2. outcome[s] = "accepted"
    <3>1. CASE Fail \/ HandFix \/ SkipFix
      <4>1. cur \in Units
        BY <3>1 DEF Fail, HandFix, SkipFix, IInv, CurInv
      <4>2. QED
        BY <1>1, <1>2, <3>1, <4>1 DEF Fail, HandFix, SkipFix, Drop, Succeed
    <3>2. CASE ~ (Fail \/ HandFix \/ SkipFix)
      BY <1>4, <3>2 DEF Next, vars, Pop, Raise, Release, EndRelease, Finish, result
    <3>3. QED
      BY <3>1, <3>2
  <2>3. QED
    BY <1>1, <2>1, <2>2 DEF AcceptedKeepsItsCallees
<1>5. QED
  BY <1>3, <1>4

(***************************************************************************)
(* The file the agents edit keeps every accepted unit and all it calls.    *)
(***************************************************************************)
THEOREM FileClosedUnderCalls == Spec => []AcceptedKeepsItsCallees
<1>1. Init => AcceptedKeepsItsCallees
  BY DEF Init, AcceptedKeepsItsCallees
<1>2. QED
  BY <1>1, NextCallees, Inductive, PTL DEF Spec

\* merged_funcs.rs is written when the file changes, with its text.
LEMMA NextMerged == MergedIsCheckedFile /\ [Next]_vars => MergedIsCheckedFile'
<1> SUFFICES ASSUME MergedIsCheckedFile, [Next]_vars
             PROVE  MergedIsCheckedFile'
  OBVIOUS
<1>1. CASE Accept \/ HandFix \/ Finish
  BY <1>1 DEF Accept, HandFix, Finish, Succeed, Written, MergedIsCheckedFile
<1>2. CASE ~ (Accept \/ HandFix \/ Finish)
  BY <1>2 DEF Next, vars, Pop, Fail, SkipFix, Drop, Raise, Release,
              EndRelease, result, MergedIsCheckedFile
<1>3. QED
  BY <1>1, <1>2

(***************************************************************************)
(* merged_funcs.rs on disk is the file that last passed the check.         *)
(***************************************************************************)
THEOREM MergedAlwaysChecked == Spec => []MergedIsCheckedFile
<1>1. Init => MergedIsCheckedFile
  BY DEF Init, MergedIsCheckedFile, NoFile
<1>2. QED
  BY <1>1, NextMerged, PTL DEF Spec

(***************************************************************************)
(* A unit whose counter is zero calls decided units only.                  *)
(***************************************************************************)
LEMMA ReadyMeansCalleesDecided ==
  ASSUME TypeOK, IncomingIsExact, NEW s \in Units, incoming[s] = 0,
         NEW t \in Units, sccs[t] \cap CalleesOf(deps, sccs[s]) # {}
  PROVE  outcome[t] # "none"
<1>1. PICK g \in sccs[t] : g \in CalleesOf(deps, sccs[s])
  OBVIOUS
<1>2. g \notin sccs[s] /\ \E f \in sccs[s] : g \in Adj(deps, f)
  BY <1>1 DEF CalleesOf
<1>3. t \in CalleeUnits(s)
  BY <1>1, <1>2 DEF CalleeUnits, Calls
<1>4. IsFiniteSet(CalleeUnits(s) \ ReleasedTo(s))
  BY CalleeUnitsFinite, FS_Subset
<1>5. CalleeUnits(s) \ ReleasedTo(s) = {}
  BY <1>4, FS_EmptySet DEF IncomingIsExact
<1>6. QED
  BY <1>3, <1>5 DEF ReleasedTo

(***************************************************************************)
(* The loop implements UnitOrder: each unit is decided once, after the     *)
(* units it calls.                                                         *)
(***************************************************************************)
THEOREM Refinement == Spec => ImplementsUnitOrder
<1>1. Init => Order!Init
  <2>1. Components(deps) = Order!Components(deps)
    BY DEF Components, Order!Components, Component, Order!Component,
           Reach, Order!Reach, ClosedUnder, Order!ClosedUnder, Adj, Order!Adj
  <2>2. \A C : CalleesOf(deps, C) = Order!CalleesOf(deps, C)
    BY DEF CalleesOf, Order!CalleesOf, Adj, Order!Adj
  <2>3. Cardinality(Components(deps)) = Order!Cardinality(Components(deps))
    BY DEF Cardinality, Order!Cardinality, IsFiniteSet, Order!IsFiniteSet
  <2>4. SccOrders(deps) = Order!SccOrders(deps)
    BY <2>1, <2>2, <2>3 DEF SccOrders, Order!SccOrders
  <2>5. QED
    BY <2>4 DEF Init, Order!Init, Units
<1>2. IInv /\ [Next]_vars => [Order!Next]_(Order!vars)
  <2> SUFFICES ASSUME IInv, [Next]_vars
               PROVE  [Order!Next]_(Order!vars)
    OBVIOUS
  <2>1. deps' = deps /\ sccs' = sccs
    BY GraphUnchanged
  <2>2. CASE outcome' = outcome
    BY <2>1, <2>2 DEF Order!vars
  <2>3. CASE outcome' # outcome
    <3>1. DecideStep
      BY <2>3, StepShape DEF MoveStep, Pop, Release, EndRelease, Finish, kahn, result
    <3>2. cur \in Units /\ outcome[cur] = "none" /\ incoming[cur] = 0
      BY <3>1 DEF DecideStep, IInv, CurInv
    <3>3. PICK how \in {"accepted", "fixed", "dropped"} :
            outcome' = [outcome EXCEPT ![cur] = how]
      BY <3>1 DEF DecideStep
    <3>4. \A t \in Units :
            sccs[t] \cap CalleesOf(deps, sccs[cur]) # {} => outcome[t] # "none"
      BY <3>2, ReadyMeansCalleesDecided DEF IInv
    <3>5. CalleesOf(deps, sccs[cur]) = Order!CalleesOf(deps, sccs[cur])
      BY DEF CalleesOf, Order!CalleesOf, Adj, Order!Adj
    <3>6. Order!Decide(cur, how)
      BY <2>1, <3>2, <3>3, <3>4, <3>5 DEF Order!Decide, Units
    <3>7. QED
      BY <3>2, <3>6 DEF Order!Next, Units
  <2>4. QED
    BY <2>2, <2>3
<1>3. QED
  BY <1>1, <1>2, Inductive, PTL DEF Spec, ImplementsUnitOrder, Order!Spec

-----------------------------------------------------------------------------
(***************************************************************************)
(* The split only reads what the loop leaves, so the invariant of the loop *)
(* carries over; its own says where the manifest, the dumps and the stack  *)
(* of a closure stand.                                                     *)
(***************************************************************************)
\* The manifest is the last thing the loop writes.
ManifestIsLast == manifest => pc = "done" /\ merged.present

\* A unit has a dump when it was dropped or repaired, or is at its repair.
DumpsAreOfFailures ==
    /\ dumps \subseteq Units
    /\ \A s \in Units :
        /\ s \in dumps => outcome[s] \in {"fixed", "dropped"} \/ (pc \in {"fix", "raised"} /\ s = cur)
        /\ outcome[s] = "dropped" => s \in dumps
    /\ pc = "fix" => cur \in dumps

\* Whatever is accepted or repaired comes with merged_funcs.rs.
TakenIsMerged == \A s \in Units : outcome[s] \in {"accepted", "fixed"} => merged.present

\* The types of the split's own variables; it begins when the loop is over, and
\* comes to the files when the manifest is there.
SplitTypes ==
    /\ stage \in {"translate", "split", "closure", "judging", "passed", "failed"}
    /\ rs \in [Funcs -> [kind : {"none", "dump", "split", "merge"}, has : SUBSET Funcs]]
    /\ stage # "translate" => manifest \/ pc = "raised"
    /\ stage \in {"split", "closure"} => manifest
    /\ stage \notin {"split", "closure"} => todo = {}
    /\ stage = "closure" => target \in Funcs

\* What a visited function calls is visited or on the stack, and all is reachable.
ClosureInv ==
    stage = "closure" =>
        /\ target \in seen \cup stack
        /\ seen \cup stack \subseteq Reach(deps, target)
        /\ need = {UnitOf(g) : g \in seen}
        /\ \A g \in seen : \A m \in sccs[UnitOf(g)] : ManifestDeps(m) \subseteq seen \cup stack

\* What main has made of f: an accepted function is in its file, one without block has none.
Treated(f) ==
    /\ outcome[UnitOf(f)] = "accepted" => f \in rs[f].has
    /\ rs[f].kind = "none" => ~ HasBlock(UnitOf(f))

FilesInv ==
    stage # "translate" /\ manifest =>
        \A f \in Funcs :
            /\ f \in Dumped => rs[f].kind # "none"
            /\ f \in todo \/ (stage = "closure" /\ f = target) \/ Treated(f)

\* The verdict of the contract check.
VerdictInv ==
    /\ stage = "failed" => MissingRs # {} \/ MissingI # {} \/ MergedFile
    /\ stage = "passed" => ~ MergedFile

\* The inductive invariant: the loop's, and the split's.
SplitInv ==
    /\ IInv /\ AcceptedKeepsItsCallees /\ MergedIsCheckedFile
    /\ ManifestIsLast /\ DumpsAreOfFailures /\ TakenIsMerged
    /\ SplitTypes /\ ClosureInv /\ FilesInv /\ VerdictInv
-----------------------------------------------------------------------------
\* Functions and their units.

\* block_of is a function: every function has its unit, and only one.
LEMMA UnitOfFacts ==
    ASSUME TypeOK, NEW f \in Funcs
    PROVE  /\ UnitOf(f) \in Units /\ f \in sccs[UnitOf(f)]
           /\ \A s \in Units : f \in sccs[s] => s = UnitOf(f)
<1>1. \E s \in Units : f \in sccs[s]
  BY UnitFacts
<1>2. UnitOf(f) \in Units /\ f \in sccs[UnitOf(f)]
  BY <1>1 DEF UnitOf
<1> QED BY <1>2, UnitFacts

\* What is called from what is reached is reached.
LEMMA ReachStep ==
    ASSUME NEW d, NEW f \in Funcs, NEW m \in Reach(d, f), NEW x \in Adj(d, m)
    PROVE  x \in Reach(d, f)
<1>1. m \in Funcs /\ x \in Funcs
  BY DEF Reach, Adj
<1>2. ASSUME NEW S \in SUBSET Funcs, f \in S, ClosedUnder(d, S)
      PROVE  x \in S
  BY <1>2 DEF Reach, ClosedUnder
<1> QED BY <1>1, <1>2 DEF Reach

\* The members of a function's unit are reached from it.
LEMMA UnitIsReached ==
    ASSUME TypeOK, NEW f \in Funcs, NEW g \in Reach(deps, f), NEW m \in sccs[UnitOf(g)]
    PROVE  m \in Reach(deps, f)
<1>1. deps \in Graphs /\ sccs \in SccOrders(deps)
  BY DEF TypeOK
<1>2. g \in Funcs
  BY DEF Reach
<1>3. UnitOf(g) \in Units /\ g \in sccs[UnitOf(g)]
  BY <1>2, UnitOfFacts
<1>4. sccs[UnitOf(g)] \in Components(deps)
  BY <1>1, <1>3, SccOrderBasics DEF Units
<1>5. PICK h \in Funcs : sccs[UnitOf(g)] = Component(deps, h)
  BY <1>4 DEF Components
<1>6. m \in Component(deps, g)
  BY <1>1, <1>3, <1>5, ComponentOfMember
<1> QED BY <1>1, <1>6, ReachTransitive DEF Component

\* A set that holds f and what its units call is all that f reaches.
LEMMA ReachedIsInside ==
    ASSUME TypeOK, NEW f \in Funcs, NEW S \in SUBSET Funcs, f \in S,
           \A g \in S : \A m \in sccs[UnitOf(g)] : ManifestDeps(m) \subseteq S,
           NEW h \in Reach(deps, f)
    PROVE  \E g \in S : h \in sccs[UnitOf(g)]
<1> DEFINE U == {x \in Funcs : \E g \in S : x \in sccs[UnitOf(g)]}
<1>1. f \in U
  BY UnitOfFacts
<1>2. ASSUME NEW x \in U, NEW y \in Adj(deps, x)
      PROVE  y \in U
  <2>1. PICK g \in S : x \in sccs[UnitOf(g)]
    OBVIOUS
  <2>2. y \in Funcs
    BY DEF Adj
  <2>3. CASE y = x
    BY <2>3
  <2>4. CASE y # x
    <3>1. y \in S
      BY <2>1, <2>4 DEF ManifestDeps
    <3> QED BY <2>2, <3>1, UnitOfFacts
  <2> QED BY <2>3, <2>4
<1>3. ClosedUnder(deps, U) /\ U \in SUBSET Funcs
  BY <1>2 DEF ClosedUnder
<1> HIDE DEF U
<1>4. h \in U
  BY <1>1, <1>3 DEF Reach
<1> QED BY <1>4 DEF U
-----------------------------------------------------------------------------
\* The loop's part.

\* Nothing is translated once the manifest is there, or after an exception.
LEMMA LoopIsOver == ManifestIsLast /\ (manifest \/ pc = "raised") => ~ Next
BY DEF ManifestIsLast, Next, Pop, Accept, Fail, HandFix, SkipFix, Raise, Release, EndRelease, Finish

\* The manifest comes with the final merged_funcs.rs.
LEMMA NextManifest ==
    ASSUME ManifestIsLast, [Next]_vars
    PROVE  ManifestIsLast'
<1>1. CASE Finish
  BY <1>1 DEF Finish, ManifestIsLast, Written
<1>2. CASE ~ Finish /\ Next
  <2>1. ~ manifest
    BY <1>2, LoopIsOver
  <2>2. manifest' = manifest
    BY <1>2 DEF Next, Pop, Accept, Fail, HandFix, SkipFix, Raise, Release, EndRelease, Finish, result
  <2> QED BY <2>1, <2>2 DEF ManifestIsLast
<1>3. CASE UNCHANGED vars
  BY <1>3 DEF vars, result, ManifestIsLast
<1> QED BY <1>1, <1>2, <1>3

\* A dump is made when a unit fails, and stays when the unit is repaired.
LEMMA NextDumps ==
    ASSUME IInv, DumpsAreOfFailures, [Next]_vars
    PROVE  DumpsAreOfFailures'
<1> USE DEF IInv
<1>t. outcome \in [Units -> {"none", "accepted", "fixed", "dropped"}]
  BY DEF TypeOK
<1>u. Units' = Units
  BY GraphUnchanged DEF Units
<1>1. CASE Fail
  <2>1. cur \in Units /\ dumps' = dumps \cup {cur} /\ pc = "unit" /\ outcome[cur] = "none" /\ cur' = cur
    BY <1>1 DEF Fail, CurInv
  <2>2. CASE pc' = "fix" /\ outcome' = outcome
    BY <1>u, <2>1, <2>2 DEF DumpsAreOfFailures
  <2>3. CASE Drop
    BY <1>t, <1>u, <2>1, <2>3 DEF Drop, DumpsAreOfFailures
  <2> QED BY <1>1, <2>2, <2>3 DEF Fail
<1>2. CASE HandFix \/ SkipFix
  <2>1. cur \in Units /\ dumps' = dumps /\ pc = "fix" /\ pc' = "release"
    BY <1>2 DEF HandFix, SkipFix, Succeed, Drop, CurInv
  <2>2. PICK how \in {"fixed", "dropped"} : outcome' = [outcome EXCEPT ![cur] = how]
    BY <1>2 DEF HandFix, SkipFix, Succeed, Drop
  <2> QED BY <1>t, <1>u, <2>1, <2>2 DEF DumpsAreOfFailures
<1>3. CASE Accept
  <2>1. cur \in Units /\ dumps' = dumps /\ pc = "unit" /\ pc' = "release" /\ outcome[cur] = "none"
    BY <1>3 DEF Accept, Succeed, CurInv
  <2>2. outcome' = [outcome EXCEPT ![cur] = "accepted"]
    BY <1>3 DEF Accept, Succeed
  <2> QED BY <1>t, <1>u, <2>1, <2>2 DEF DumpsAreOfFailures
<1>4. CASE Pop \/ Raise \/ (\E t \in Units : Release(t)) \/ EndRelease \/ Finish \/ UNCHANGED vars
  <2>1. /\ UNCHANGED <<outcome, dumps>>
        /\ pc # "pop" =>
            cur' = cur /\ (pc' = pc \/ pc \notin {"fix", "raised"} \/ pc' = "raised")
        /\ pc' = "fix" => pc = "fix" /\ cur' = cur
    BY <1>4 DEF Pop, Raise, Release, EndRelease, Finish, vars, kahn, result
  <2> QED BY <1>u, <2>1 DEF DumpsAreOfFailures
<1> QED BY <1>1, <1>2, <1>3, <1>4 DEF Next
\* Both ways to succeed write merged_funcs.rs.
LEMMA NextTaken ==
    ASSUME TypeOK, CurInv, TakenIsMerged, [Next]_vars
    PROVE  TakenIsMerged'
<1>t. outcome \in [Units -> {"none", "accepted", "fixed", "dropped"}]
  BY DEF TypeOK
<1>u. Units' = Units
  BY GraphUnchanged DEF Units
<1>1. CASE Accept \/ HandFix
  <2>1. merged'.present
    BY <1>1 DEF Accept, HandFix, Succeed, Written
  <2> QED BY <2>1 DEF TakenIsMerged
<1>2. CASE Fail \/ SkipFix
  <2>1. merged' = merged /\ (outcome' = outcome \/ outcome' = [outcome EXCEPT ![cur] = "dropped"])
    BY <1>2 DEF Fail, SkipFix, Drop
  <2> QED BY <1>t, <1>u, <2>1 DEF TakenIsMerged
<1>3. CASE Finish
  <2>1. merged'.present
    BY <1>3 DEF Finish, Written
  <2> QED BY <2>1 DEF TakenIsMerged
<1>4. CASE Pop \/ Raise \/ (\E t \in Units : Release(t)) \/ EndRelease \/ UNCHANGED vars
  <2>1. UNCHANGED <<outcome, merged>>
    BY <1>4 DEF Pop, Raise, Release, EndRelease, vars, kahn, result
  <2> QED BY <1>u, <2>1 DEF TakenIsMerged
<1> QED BY <1>1, <1>2, <1>3, <1>4 DEF Next
-----------------------------------------------------------------------------
\* The split's part.

allVars == <<vars, splitVars>>

\* The loop moves before the split begins, and stands still after.
LEMMA LoopOrSplit ==
    ASSUME SplitInv, [SplitNext]_allVars
    PROVE  \/ stage = "translate" /\ UNCHANGED splitVars
           \/ SplitStep /\ UNCHANGED vars
           \/ UNCHANGED allVars
<1>1. CASE Next /\ UNCHANGED splitVars
  <2>1. ~ manifest /\ pc # "raised"
    BY <1>1, LoopIsOver DEF SplitInv
  <2> QED BY <1>1, <2>1 DEF SplitInv, SplitTypes
<1> QED BY <1>1 DEF SplitNext

\* The split reads what the loop left, and does not write it.
LEMMA SplitReads ==
    ASSUME UNCHANGED vars
    PROVE  /\ deps' = deps /\ sccs' = sccs /\ outcome' = outcome /\ dumps' = dumps
           /\ merged' = merged /\ manifest' = manifest /\ pc' = pc /\ Units' = Units
           /\ \A f : UnitOf(f)' = UnitOf(f)
           /\ Dumped' = Dumped
BY DEF vars, graph, result, Units, UnitOf, Dumped, GroupDumps

\* The split starts as soon as there is something to split.
LEMMA InitSplit == SplitInit => SplitInv
<1> SUFFICES ASSUME SplitInit PROVE SplitInv
  OBVIOUS
<1> USE DEF SplitInit
<1>1. IInv
  BY InitInv
<1>2. /\ AcceptedKeepsItsCallees /\ MergedIsCheckedFile
      /\ ManifestIsLast /\ DumpsAreOfFailures /\ TakenIsMerged
  BY DEF Init, AcceptedKeepsItsCallees, MergedIsCheckedFile, NoFile, ManifestIsLast, DumpsAreOfFailures, TakenIsMerged
<1>3. SplitTypes /\ ClosureInv /\ FilesInv /\ VerdictInv
  BY DEF SplitTypes, NoRs, ClosureInv, FilesInv, VerdictInv
<1> QED BY <1>1, <1>2, <1>3 DEF SplitInv

\* The files are of functions; what the merge holds are functions too.
LEMMA NextSplitTypes ==
    ASSUME SplitInv, [SplitNext]_allVars
    PROVE  SplitTypes'
<1> USE DEF SplitInv
<1>1. CASE SplitStep /\ UNCHANGED vars
  <2>m. manifest' = manifest /\ pc' = pc
    BY <1>1, SplitReads
  <2>1. CASE WriteRs
    <3>1. PICK file_ \in {[kind |-> "split", has |-> Assembled],
                         [kind |-> "merge", has |-> DOMAIN merged.text]} :
            rs' = [rs EXCEPT ![target] = file_]
      BY <2>1 DEF WriteRs
    <3>2. Assembled \in SUBSET Funcs
      <4>1. \A s \in need : s \in Units
        <5>1. seen \subseteq Funcs
          BY <2>1 DEF WriteRs, ClosureInv, Reach
        <5> QED BY <2>1, <5>1, UnitOfFacts DEF WriteRs, ClosureInv, IInv
      <4> QED BY <4>1, UnitFacts DEF Assembled, IInv
    <3>3. DOMAIN merged.text \in SUBSET Funcs
      <4>1. merged.present
        BY <2>1 DEF WriteRs, SplitTypes, ManifestIsLast
      <4>2. merged.text = file /\ IsText(file)
        BY <4>1 DEF MergedIsCheckedFile, IInv, TypeOK
      <4> QED BY <4>2 DEF IsText
    <3>4. file_ \in [kind : {"none", "dump", "split", "merge"}, has : SUBSET Funcs]
      BY <3>1, <3>2, <3>3
    <3> QED BY <2>m, <2>1, <3>1, <3>4 DEF WriteRs, SplitTypes, closure
  <2>2. CASE StartSplit \/ SkipSplit
    BY <2>m, <2>2 DEF StartSplit, SkipSplit, LeftByLoop, SplitTypes, NoRs, closure
  <2>3. CASE Tidy \/ CheckContract
    BY <2>m, <2>3 DEF Tidy, CheckContract, SplitTypes, closure
  <2>4. ASSUME NEW f \in Funcs, SkipFailed(f) \/ StartClosure(f) \/ Visit(f)
        PROVE  SplitTypes'
    BY <2>m, <2>4 DEF SkipFailed, StartClosure, Visit, SplitTypes, closure
  <2> QED BY <1>1, <2>1, <2>2, <2>3, <2>4 DEF SplitStep
<1>2. CASE UNCHANGED allVars
  BY <1>2, SplitReads DEF allVars, splitVars, closure, SplitTypes
<1>3. CASE stage = "translate" /\ UNCHANGED splitVars
  BY <1>3 DEF splitVars, closure, SplitTypes
<1> QED BY <1>1, <1>2, <1>3, LoopOrSplit

\* closure_blocks visits what is reachable, and pushes all that is called.
LEMMA NextClosure ==
    ASSUME SplitInv, [SplitNext]_allVars
    PROVE  ClosureInv'
<1> USE DEF SplitInv
<1>1. CASE SplitStep /\ UNCHANGED vars
  <2>r. /\ deps' = deps /\ sccs' = sccs /\ \A f : UnitOf(f)' = UnitOf(f)
        /\ \A m : ManifestDeps(m)' = ManifestDeps(m) /\ ManifestDeps(m) = Adj(deps, m) \ {m}
    BY <1>1, SplitReads DEF ManifestDeps, Adj
  <2>1. CASE StartSplit \/ SkipSplit \/ WriteRs \/ Tidy \/ CheckContract
    BY <2>1 DEF StartSplit, SkipSplit, WriteRs, Tidy, CheckContract, ClosureInv
  <2>2. ASSUME NEW f \in Funcs, SkipFailed(f)
        PROVE  ClosureInv'
    BY <2>2 DEF SkipFailed, ClosureInv
  <2>3. ASSUME NEW f \in Funcs, StartClosure(f)
        PROVE  ClosureInv'
    <3>1. target' = f /\ seen' = {} /\ stack' = {f} /\ need' = {}
      BY <2>3 DEF StartClosure
    <3>2. f \in Reach(deps', f)
      BY <2>r DEF Reach
    <3> QED BY <3>1, <3>2 DEF ClosureInv
  <2>4. ASSUME NEW g \in Funcs, Visit(g)
        PROVE  ClosureInv'
    <3> DEFINE called == UNION {ManifestDeps(m) : m \in sccs[UnitOf(g)]}
    <3>1. /\ stage = "closure" /\ stage' = stage /\ target' = target /\ target \in Funcs
          /\ g \in stack /\ seen' = seen \cup {g} /\ need' = need \cup {UnitOf(g)}
          /\ seen' \cup stack' = seen \cup stack \cup called
      BY <2>4 DEF Visit, SplitTypes
    <3>2. called \subseteq Reach(deps, target)
      <4>1. ASSUME NEW m \in sccs[UnitOf(g)], NEW x \in ManifestDeps(m)
            PROVE  x \in Reach(deps, target)
        <5>1. g \in Reach(deps, target)
          BY <3>1 DEF ClosureInv
        <5>2. m \in Reach(deps, target)
          BY <3>1, <5>1, UnitIsReached DEF IInv
        <5> QED BY <2>r, <3>1, <5>2, ReachStep
      <4> QED BY <4>1
    <3>3. target \in seen' \cup stack' /\ seen' \cup stack' \subseteq Reach(deps, target)
      BY <3>1, <3>2 DEF ClosureInv
    <3>4. need' = {UnitOf(h) : h \in seen'}
      BY <3>1 DEF ClosureInv
    <3>5. \A h \in seen' : \A m \in sccs[UnitOf(h)] : ManifestDeps(m) \subseteq seen' \cup stack'
      BY <3>1 DEF ClosureInv
    <3> HIDE DEF called
    <3>6. need' = {UnitOf(h)' : h \in seen'}
      BY <2>r, <3>4
    <3> QED BY <2>r, <3>1, <3>3, <3>5, <3>6 DEF ClosureInv
  <2> QED BY <1>1, <2>1, <2>2, <2>3, <2>4 DEF SplitStep
<1>2. CASE UNCHANGED allVars
  <2>1. UNCHANGED <<stage, target, seen, stack, need>> /\ UNCHANGED vars
    BY <1>2 DEF allVars, splitVars, closure
  <2>2. /\ deps' = deps /\ sccs' = sccs /\ \A f : UnitOf(f)' = UnitOf(f)
        /\ \A m : ManifestDeps(m)' = ManifestDeps(m)
    BY <2>1, SplitReads DEF ManifestDeps, Adj
  <2> QED BY <2>1, <2>2 DEF ClosureInv
<1>3. CASE stage = "translate" /\ UNCHANGED splitVars
  BY <1>3 DEF splitVars, ClosureInv
<1> QED BY <1>1, <1>2, <1>3, LoopOrSplit

\* Every function main is through with has what it should have.
LEMMA NextFiles ==
    ASSUME SplitInv, [SplitNext]_allVars
    PROVE  FilesInv'
<1> USE DEF SplitInv
<1>1. CASE SplitStep /\ UNCHANGED vars
  <2>r. /\ outcome' = outcome /\ Dumped' = Dumped /\ manifest' = manifest
        /\ \A f : UnitOf(f)' = UnitOf(f) /\ HasBlock(UnitOf(f))' = HasBlock(UnitOf(f))
        /\ \A s : HasBlock(s) <=> outcome[s] \in {"accepted", "fixed"}
    BY <1>1, SplitReads DEF HasBlock
  <2>1. CASE StartSplit
    <3>1. /\ todo' = Funcs /\ stage' = "split"
          /\ rs' = [f \in Funcs |-> IF f \in Dumped THEN [kind |-> "dump", has |-> {}] ELSE NoRs]
      BY <2>1 DEF StartSplit, LeftByLoop
    <3> QED BY <2>r, <3>1 DEF FilesInv
  <2>6. CASE SkipSplit
    BY <2>r, <2>6 DEF SkipSplit, FilesInv
  <2>2. ASSUME NEW f \in Funcs, SkipFailed(f)
        PROVE  FilesInv'
    <3>1. /\ stage = "split" /\ stage' = stage /\ rs' = rs
          /\ todo' = todo \ {f} /\ ~ HasBlock(UnitOf(f))
      BY <2>2 DEF SkipFailed
    <3>2. Treated(f)'
      BY <2>r, <3>1 DEF Treated
    <3>3. ASSUME NEW g \in Funcs, Treated(g) PROVE Treated(g)'
      BY <2>r, <3>1, <3>3 DEF Treated
    <3> QED BY <2>r, <3>1, <3>2, <3>3 DEF FilesInv
  <2>3. ASSUME NEW f \in Funcs, StartClosure(f)
        PROVE  FilesInv'
    <3>1. /\ stage = "split" /\ stage' = "closure" /\ rs' = rs
          /\ todo' = todo \ {f} /\ target' = f
      BY <2>3 DEF StartClosure
    <3>2. ASSUME NEW g \in Funcs, Treated(g) PROVE Treated(g)'
      BY <2>r, <3>1, <3>2 DEF Treated
    <3> QED BY <2>r, <3>1, <3>2 DEF FilesInv
  <2>4. CASE WriteRs
    <3>1. PICK file_ \in {[kind |-> "split", has |-> Assembled],
                         [kind |-> "merge", has |-> DOMAIN merged.text]} :
            rs' = [rs EXCEPT ![target] = file_]
      BY <2>4 DEF WriteRs
    <3>2. /\ stage = "closure" /\ stage' = "split" /\ todo' = todo /\ target' = target
          /\ target \in Funcs /\ stack = {}
      BY <2>4 DEF WriteRs, SplitTypes, closure
    <3>3. ASSUME outcome[UnitOf(target)] = "accepted"
          PROVE  target \in file_.has
      <4>1. target \in Assembled
        <5>1. target \in seen /\ UnitOf(target) \in need
          BY <3>2 DEF ClosureInv
        <5>2. target \in sccs[UnitOf(target)] /\ HasBlock(UnitOf(target))
          BY <3>2, <3>3, UnitOfFacts DEF HasBlock, IInv
        <5> QED BY <5>1, <5>2 DEF Assembled
      <4>2. target \in DOMAIN merged.text
        <5>1. target \in sccs[UnitOf(target)] /\ UnitOf(target) \in Units
          BY <3>2, UnitOfFacts DEF IInv
        <5>2. target \in DOMAIN file
          BY <3>3, <5>1 DEF AcceptedKeepsItsCallees
        <5> QED BY <3>2, <5>2 DEF MergedIsCheckedFile, ManifestIsLast, SplitTypes
      <4> QED BY <3>1, <4>1, <4>2
    <3>4. rs'[target] = file_ /\ file_.kind # "none" /\ \A g \in Funcs : g # target => rs'[g] = rs[g]
      BY <3>1, <3>2 DEF SplitTypes
    <3>5. Treated(target)'
      BY <2>r, <3>2, <3>3, <3>4 DEF Treated
    <3>6. ASSUME NEW g \in Funcs, g # target
          PROVE  (g \in todo' \/ Treated(g)') /\ (g \in Dumped => rs'[g].kind # "none")
      <4>1. /\ g \in Dumped => rs[g].kind # "none"
            /\ g \in todo \/ Treated(g)
        BY <3>2, <3>6 DEF FilesInv, SplitTypes
      <4> QED BY <2>r, <3>2, <3>4, <3>6, <4>1 DEF Treated
    <3> QED BY <2>r, <3>2, <3>4, <3>5, <3>6 DEF FilesInv
  <2>5. CASE (\E g \in Funcs : Visit(g)) \/ Tidy \/ CheckContract
    <3>1. /\ stage # "translate" /\ UNCHANGED <<rs, todo, target>>
          /\ stage = "closure" => stage' = "closure"
      BY <2>5 DEF Visit, Tidy, CheckContract, closure
    <3>2. ASSUME NEW g \in Funcs, Treated(g) PROVE Treated(g)'
      BY <2>r, <3>1, <3>2 DEF Treated
    <3> QED BY <2>r, <3>1, <3>2 DEF FilesInv
  <2> QED BY <1>1, <2>1, <2>2, <2>3, <2>4, <2>5, <2>6 DEF SplitStep
<1>2. CASE UNCHANGED allVars
  <2>1. UNCHANGED <<stage, rs, todo, target>> /\ UNCHANGED vars
    BY <1>2 DEF allVars, splitVars, closure
  <2>2. outcome' = outcome /\ Dumped' = Dumped /\ manifest' = manifest /\ \A f : UnitOf(f)' = UnitOf(f)
    BY <2>1, SplitReads
  <2> QED BY <2>1, <2>2 DEF FilesInv, Treated, HasBlock
<1>3. CASE stage = "translate" /\ UNCHANGED splitVars
  BY <1>3 DEF splitVars, FilesInv
<1> QED BY <1>1, <1>2, <1>3, LoopOrSplit

\* A failed verdict has its reason.
LEMMA NextVerdict ==
    ASSUME SplitInv, [SplitNext]_allVars
    PROVE  VerdictInv'
<1> USE DEF SplitInv
<1>r. UNCHANGED vars /\ rs' = rs => MissingRs' = MissingRs /\ MissingI' = MissingI /\ MergedFile' = MergedFile
  BY SplitReads DEF MissingRs, MissingI, GroupDumps, MergedFile
<1>1. CASE SplitStep /\ UNCHANGED vars
  <2>1. CASE CheckContract
    BY <1>1, <1>r, <2>1 DEF CheckContract, VerdictInv
  <2>2. CASE ~ CheckContract
    <3>1. stage' # "failed" /\ stage' # "passed"
      BY <1>1, <2>2 DEF SplitStep, StartSplit, SkipSplit, SkipFailed, StartClosure, Visit, WriteRs, Tidy
    <3> QED BY <3>1 DEF VerdictInv
  <2> QED BY <2>1, <2>2
<1>2. CASE UNCHANGED allVars
  BY <1>2, <1>r DEF allVars, splitVars, VerdictInv
<1>3. CASE stage = "translate" /\ UNCHANGED splitVars
  BY <1>3 DEF splitVars, VerdictInv
<1> QED BY <1>1, <1>2, <1>3, LoopOrSplit
-----------------------------------------------------------------------------
(***************************************************************************)
(* SplitInv is inductive: the loop's invariant carries over, because the   *)
(* split only reads what the loop has left.                                *)
(***************************************************************************)
THEOREM SplitInductive == SplitSpec => []SplitInv
<1>1. SplitInv /\ [SplitNext]_<<vars, splitVars>> => SplitInv'
  <2> SUFFICES ASSUME SplitInv, [SplitNext]_<<vars, splitVars>> PROVE SplitInv'
    OBVIOUS
  <2>1. [Next]_vars /\ [SplitNext]_allVars
    BY DEF SplitNext, allVars
  <2>2. IInv' /\ AcceptedKeepsItsCallees' /\ MergedIsCheckedFile'
    BY <2>1, NextInv, NextCallees, NextMerged DEF SplitInv
  <2>3. ManifestIsLast' /\ DumpsAreOfFailures' /\ TakenIsMerged'
    BY <2>1, NextManifest, NextDumps, NextTaken DEF SplitInv, IInv
  <2>4. SplitTypes' /\ ClosureInv' /\ FilesInv' /\ VerdictInv'
    BY <2>1, NextSplitTypes, NextClosure, NextFiles, NextVerdict
  <2> QED BY <2>2, <2>3, <2>4 DEF SplitInv
<1> QED BY InitSplit, <1>1, PTL DEF SplitSpec

(***************************************************************************)
(* closure_blocks computes reachability on every call graph: the blocks it *)
(* takes are those of the functions the target reaches by calls.           *)
(***************************************************************************)
THEOREM ClosureIsExact == SplitSpec => []ClosureIsReachability
<1>1. SplitInv => ClosureIsReachability
  <2> SUFFICES ASSUME SplitInv, stage = "closure", stack = {}
               PROVE  UNION {sccs[s] : s \in need} = Reach(deps, target)
    BY DEF ClosureIsReachability
  <2>1. /\ TypeOK /\ target \in Funcs /\ target \in seen /\ seen \subseteq Reach(deps, target)
        /\ need = {UnitOf(g) : g \in seen}
        /\ \A g \in seen : \A m \in sccs[UnitOf(g)] : ManifestDeps(m) \subseteq seen
    BY DEF SplitInv, IInv, SplitTypes, ClosureInv
  <2>2. seen \in SUBSET Funcs
    BY <2>1 DEF Reach
  <2>3. ASSUME NEW s \in need, NEW m \in sccs[s]
        PROVE  m \in Reach(deps, target)
    BY <2>1, <2>3, UnitIsReached
  <2>4. ASSUME NEW h \in Reach(deps, target)
        PROVE  \E s \in need : h \in sccs[s]
    BY <2>1, <2>2, ReachedIsInside
  <2> QED BY <2>3, <2>4
<1> QED BY <1>1, SplitInductive, PTL

(***************************************************************************)
(* Every function an agent translated is in the file named after it, be it *)
(* its own blocks or the whole merge.                                      *)
(***************************************************************************)
THEOREM FilesHaveTheirFunctions == SplitSpec => []AcceptedFileHasItsFunction
<1>1. SplitInv => AcceptedFileHasItsFunction
  BY DEF SplitInv, SplitTypes, FilesInv, Treated, AcceptedFileHasItsFunction
<1> QED BY <1>1, SplitInductive, PTL

(***************************************************************************)
(* A translation that came to its end is refused for no other reason than  *)
(* a group of functions that call each other and was not accepted; the     *)
(* other reason for a refusal is an exception in the front end.            *)
(***************************************************************************)
THEOREM ContractFailsForGroups == SplitSpec => []OnlyGroupsBreakContract
<1>1. SplitInv => OnlyGroupsBreakContract
  <2> SUFFICES ASSUME SplitInv, stage = "failed", pc # "raised"
               PROVE  \E s \in Units : Cardinality(sccs[s]) > 1 /\ outcome[s] # "accepted"
    BY DEF OnlyGroupsBreakContract
  <2>1. /\ TypeOK /\ NothingLeftOver /\ todo = {} /\ manifest /\ pc = "done"
        /\ MissingRs # {} \/ MissingI # {}
    BY DEF SplitInv, IInv, SplitTypes, ManifestIsLast, VerdictInv, MergedFile
  <2>2. /\ dumps \subseteq Units
        /\ \A s \in Units : (s \in dumps => outcome[s] # "accepted") /\ (outcome[s] = "dropped" => s \in dumps)
    BY <2>1 DEF SplitInv, DumpsAreOfFailures
  <2>3. CASE MissingI # {}
    BY <2>2, <2>3 DEF MissingI, GroupDumps
  <2>4. CASE MissingRs # {}
    <3>1. PICK f \in Funcs : rs[f].kind = "none"
      BY <2>4 DEF MissingRs
    <3>2. f \notin Dumped /\ ~ HasBlock(UnitOf(f))
      BY <2>1, <3>1 DEF SplitInv, FilesInv, Treated
    <3>3. UnitOf(f) \in Units /\ outcome[UnitOf(f)] # "none"
      BY <2>1, UnitOfFacts DEF NothingLeftOver
    <3>4. outcome[UnitOf(f)] = "dropped"
      BY <2>1, <3>2, <3>3 DEF HasBlock, TypeOK
    <3>5. UnitOf(f) \in GroupDumps
      BY <2>2, <3>2, <3>3, <3>4 DEF Dumped
    <3> QED BY <3>3, <3>4, <3>5 DEF GroupDumps
  <2> QED BY <2>1, <2>3, <2>4
<1> QED BY <1>1, SplitInductive, PTL

(***************************************************************************)
(* Nothing that an agent or the user completed reaches the backend out of  *)
(* a translation that an exception ended.                                  *)
(***************************************************************************)
THEOREM UnfinishedNeverPasses == SplitSpec => []UnfinishedIsRefused
<1>1. SplitInv => UnfinishedIsRefused
  BY DEF SplitInv, VerdictInv, MergedFile, TakenIsMerged, UnfinishedIsRefused
<1> QED BY <1>1, SplitInductive, PTL
=============================================================================
