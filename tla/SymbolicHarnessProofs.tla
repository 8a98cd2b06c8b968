------------------------ MODULE SymbolicHarnessProofs ------------------------
(***************************************************************************)
(* The two walks of the harness, for every finite set of struct types,     *)
(* every layout of their fields and every number of arguments: they are    *)
(* type correct, visited_structs is what the open calls have put there,    *)
(* a chain of struct pointers is cut after one hop out of each type, every *)
(* pointer the walks care for is bound, names lead to the right buffers,   *)
(* and the walk after the call goes where the walk before it went, in four *)
(* inductive invariants:                                                   *)
(* IInv, PointersInv with DepthInv, NamesInv and MatchInv.                 *)
(***************************************************************************)
EXTENDS SymbolicHarness, FiniteSetTheorems, SequenceTheorems, TLAPS

\* The pointer at place s leads to the object made for it.
Points(s) == s \in DOMAIN slot /\ slot[s] = "object"

\* The pointer hop that led to call k of the stack s.
Hop(s, k) == k > 1 /\ Fields(s[k - 1].type)[Last(s[k].name)].kind \in {"ptr", "box"}

\* A call made through a pointer, and no other, has the type it came from to erase.
ErasesHop(s) == \A k \in 1..Len(s) : s[k].by = IF Hop(s, k) THEN {s[k - 1].type} ELSE {}

\* No type is erased twice.
Disjoint(s) == \A j, k \in 1..Len(s) : j # k => s[j].by \cap s[k].by = {}

Balanced(s, v) == v = UNION {s[k].by : k \in 1..Len(s)}

Good(s, v) == ErasesHop(s) /\ Disjoint(s) /\ Balanced(s, v)

\* The inductive invariant.
IInv == TypeOK /\ prog \in Programs /\ Good(stack, visited)
-----------------------------------------------------------------------------
\* Sequences of calls.

\* Adding an entry keeps a map typed.
LEMMA WithTyped ==
    ASSUME NEW f, NEW x \in Places, NEW D, NEW y \in D,
           DOMAIN f \subseteq Places, \A z \in DOMAIN f : f[z] \in D
    PROVE  /\ DOMAIN With(f, x, y) \subseteq Places
           /\ \A z \in DOMAIN With(f, x, y) : With(f, x, y)[z] \in D
<1>1. DOMAIN With(f, x, y) = DOMAIN f \union {x}
  BY DEF With
<1>2. \A z \in DOMAIN f \union {x} : With(f, x, y)[z] = IF z = x THEN y ELSE f[z]
  BY DEF With
<1> QED BY <1>1, <1>2

\* A sequence without its last element.
LEMMA FrontOf ==
    ASSUME NEW S, NEW s \in Seq(S), s # <<>>
    PROVE  /\ Len(s) \in Nat \ {0}
           /\ SubSeq(s, 1, Len(s) - 1) \in Seq(S)
           /\ Len(SubSeq(s, 1, Len(s) - 1)) = Len(s) - 1
           /\ \A k \in 1..(Len(s) - 1) : SubSeq(s, 1, Len(s) - 1)[k] = s[k]
<1>1. Len(s) \in Nat \ {0}
  OBVIOUS
<1> DEFINE m == Len(s) - 1
<1>2. m \in Nat /\ \A i \in 1..m : s[i] \in S
  BY <1>1
<1> HIDE DEF m
<1>3. /\ SubSeq(s, 1, m) \in Seq(S)
      /\ Len(SubSeq(s, 1, m)) = IF 1 <= m THEN m - 1 + 1 ELSE 0
      /\ \A i \in 1..(m - 1 + 1) : SubSeq(s, 1, m)[i] = s[1 + i - 1]
  BY <1>2, SubSeqProperties
<1>4. Len(SubSeq(s, 1, m)) = m
  BY <1>2, <1>3
<1>5. \A k \in 1..m : SubSeq(s, 1, m)[k] = s[k]
  BY <1>2, <1>3
<1> QED BY <1>1, <1>3, <1>4, <1>5 DEF m

\* A step that only moves the current call on, or changes its mode, keeps the rest.
LEMMA GoodTouch ==
    ASSUME NEW s \in Seq(Frame), NEW t \in Seq(Frame), NEW v, Good(s, v), Len(t) = Len(s),
           \A k \in 1..Len(s) : /\ t[k].by = s[k].by
                                /\ t[k].type = s[k].type
                                /\ t[k].name = s[k].name
    PROVE  Good(t, v)
<1>1. \A k \in 1..Len(t) : Hop(t, k) <=> Hop(s, k)
  BY DEF Hop
<1>2. ErasesHop(t)
  <2> SUFFICES ASSUME NEW k \in 1..Len(t)
               PROVE  t[k].by = IF Hop(t, k) THEN {t[k - 1].type} ELSE {}
    BY DEF ErasesHop
  <2>1. s[k].by = IF Hop(s, k) THEN {s[k - 1].type} ELSE {}
    BY DEF Good, ErasesHop
  <2>2. Hop(s, k) => k - 1 \in 1..Len(s)
    BY DEF Hop
  <2> QED BY <1>1, <2>1, <2>2
<1>3. Disjoint(t)
  BY DEF Good, Disjoint
<1>4. {t[k].by : k \in 1..Len(t)} = {s[k].by : k \in 1..Len(s)}
  OBVIOUS
<1> QED BY <1>2, <1>3, <1>4 DEF Good, Balanced

\* A new call whose type is not being expanded yet.
LEMMA GoodPush ==
    ASSUME NEW s \in Seq(Frame), NEW f \in Frame, NEW v, Good(s, v),
           f.by \cap v = {},
           f.by = IF Hop(Append(s, f), Len(s) + 1) THEN {s[Len(s)].type} ELSE {}
    PROVE  Good(Append(s, f), v \union f.by)
<1> DEFINE t == Append(s, f)
<1>1. /\ t \in Seq(Frame)
      /\ Len(t) = Len(s) + 1 /\ t[Len(s) + 1] = f
      /\ \A k \in 1..Len(s) : t[k] = s[k]
      /\ Len(s) \in Nat
  OBVIOUS
<1> HIDE DEF t
<1>2. \A k \in 1..Len(s) : Hop(t, k) <=> Hop(s, k)
  <2> SUFFICES ASSUME NEW k \in 1..Len(s) PROVE Hop(t, k) <=> Hop(s, k)
    OBVIOUS
  <2>1. k > 1 => k - 1 \in 1..Len(s)
    OBVIOUS
  <2> QED BY <1>1, <2>1 DEF Hop
<1>3. ErasesHop(t)
  <2> SUFFICES ASSUME NEW k \in 1..Len(t)
               PROVE  t[k].by = IF Hop(t, k) THEN {t[k - 1].type} ELSE {}
    BY DEF ErasesHop
  <2>1. CASE k = Len(s) + 1
    <3>1. Hop(t, k) => k - 1 = Len(s) /\ Len(s) \in 1..Len(s)
      BY <1>1, <2>1 DEF Hop
    <3>2. f.by = IF Hop(t, k) THEN {s[Len(s)].type} ELSE {}
      BY <2>1 DEF t
    <3>3. Hop(t, k) => t[k - 1] = s[Len(s)]
      BY <1>1, <3>1
    <3>4. t[k] = f
      BY <1>1, <2>1
    <3> QED BY <3>2, <3>3, <3>4
  <2>2. CASE k \in 1..Len(s)
    <3>1. s[k].by = IF Hop(s, k) THEN {s[k - 1].type} ELSE {}
      BY <2>2 DEF Good, ErasesHop
    <3>2. Hop(s, k) => k - 1 \in 1..Len(s)
      BY <2>2 DEF Hop
    <3> QED BY <1>1, <1>2, <2>2, <3>1, <3>2
  <2> QED BY <1>1, <2>1, <2>2
<1>4. \A k \in 1..Len(s) : s[k].by \subseteq v
  BY DEF Good, Balanced
<1>5. Disjoint(t)
  <2> SUFFICES ASSUME NEW j \in 1..Len(t), NEW k \in 1..Len(t), j # k
               PROVE  t[j].by \cap t[k].by = {}
    BY DEF Disjoint
  <2>1. CASE j \in 1..Len(s) /\ k \in 1..Len(s)
    BY <1>1, <2>1 DEF Good, Disjoint
  <2>2. CASE j = Len(s) + 1 /\ k \in 1..Len(s)
    BY <1>1, <1>4, <2>2
  <2>3. CASE k = Len(s) + 1 /\ j \in 1..Len(s)
    BY <1>1, <1>4, <2>3
  <2> QED BY <1>1, <2>1, <2>2, <2>3
<1>6. UNION {t[k].by : k \in 1..Len(t)} = (UNION {s[k].by : k \in 1..Len(s)}) \union f.by
  <2>1. \A x : (\E k \in 1..Len(t) : x \in t[k].by) <=> (\E k \in 1..Len(s) : x \in s[k].by) \/ x \in f.by
    <3> TAKE x
    <3>1. ASSUME NEW k \in 1..Len(t), x \in t[k].by
          PROVE  (\E m \in 1..Len(s) : x \in s[m].by) \/ x \in f.by
      <4>1. CASE k = Len(s) + 1 BY <1>1, <3>1, <4>1
      <4>2. CASE k \in 1..Len(s) BY <1>1, <3>1, <4>2
      <4> QED BY <1>1, <4>1, <4>2
    <3>2. ASSUME NEW k \in 1..Len(s), x \in s[k].by
          PROVE  \E m \in 1..Len(t) : x \in t[m].by
      BY <1>1, <3>2
    <3>3. x \in f.by => \E m \in 1..Len(t) : x \in t[m].by
      BY <1>1
    <3> QED BY <3>1, <3>2, <3>3
  <2>2. \A x : x \in UNION {t[k].by : k \in 1..Len(t)} <=> \E k \in 1..Len(t) : x \in t[k].by
    OBVIOUS
  <2>3. \A x : x \in UNION {s[k].by : k \in 1..Len(s)} <=> \E k \in 1..Len(s) : x \in s[k].by
    OBVIOUS
  <2> QED BY <2>1, <2>2, <2>3
<1>7. Balanced(t, v \union f.by)
  BY <1>6 DEF Good, Balanced
<1> QED BY <1>3, <1>5, <1>7 DEF Good, t

\* The return from a call.
LEMMA GoodPop ==
    ASSUME NEW s \in Seq(Frame), NEW v, s # <<>>, Good(s, v)
    PROVE  Good(SubSeq(s, 1, Len(s) - 1), v \ s[Len(s)].by)
<1> DEFINE t == SubSeq(s, 1, Len(s) - 1)
           n == Len(s)
<1>1. /\ n \in 1..Len(s) /\ Len(t) = n - 1 /\ n - 1 \in Nat
      /\ \A k \in 1..(n - 1) : t[k] = s[k] /\ k \in 1..Len(s) /\ k # n
  <2>1. n \in Nat \ {0} /\ Len(t) = n - 1 /\ \A k \in 1..(n - 1) : t[k] = s[k]
    BY FrontOf
  <2> HIDE DEF t
  <2> QED BY <2>1
<1> HIDE DEF t
<1>2. \A k \in 1..(n - 1) : Hop(t, k) <=> Hop(s, k)
  <2> SUFFICES ASSUME NEW k \in 1..(n - 1) PROVE Hop(t, k) <=> Hop(s, k)
    OBVIOUS
  <2>1. k > 1 => k - 1 \in 1..(n - 1)
    BY <1>1
  <2> QED BY <1>1, <2>1 DEF Hop
<1>3. ErasesHop(t)
  <2> SUFFICES ASSUME NEW k \in 1..(n - 1)
               PROVE  t[k].by = IF Hop(t, k) THEN {t[k - 1].type} ELSE {}
    BY <1>1 DEF ErasesHop
  <2>1. s[k].by = IF Hop(s, k) THEN {s[k - 1].type} ELSE {}
    BY <1>1 DEF Good, ErasesHop
  <2>2. Hop(s, k) => k - 1 \in 1..(n - 1)
    BY <1>1 DEF Hop
  <2> QED BY <1>1, <1>2, <2>1, <2>2
<1>4. Disjoint(t)
  BY <1>1 DEF Good, Disjoint
<1>5. UNION {t[k].by : k \in 1..Len(t)} = (UNION {s[k].by : k \in 1..Len(s)}) \ s[n].by
  <2>1. \A x : (\E k \in 1..Len(t) : x \in t[k].by)
               <=> (\E k \in 1..Len(s) : x \in s[k].by) /\ x \notin s[n].by
    <3> TAKE x
    <3>1. ASSUME NEW k \in 1..Len(t), x \in t[k].by
          PROVE  (\E m \in 1..Len(s) : x \in s[m].by) /\ x \notin s[n].by
      <4>1. k \in 1..Len(s) /\ n \in 1..Len(s) /\ k # n /\ x \in s[k].by
        BY <1>1, <3>1
      <4>2. s[k].by \cap s[n].by = {}
        BY <4>1 DEF Good, Disjoint
      <4> QED BY <4>1, <4>2
    <3>2. ASSUME NEW k \in 1..Len(s), x \in s[k].by, x \notin s[n].by
          PROVE  \E m \in 1..Len(t) : x \in t[m].by
      <4>1. k # n BY <3>2
      <4>2. k \in 1..(n - 1) BY <4>1
      <4> QED BY <1>1, <3>2, <4>2
    <3> QED BY <3>1, <3>2
  <2> QED BY <2>1
<1>6. Balanced(t, v \ s[n].by)
  BY <1>5 DEF Good, Balanced
<1> QED BY <1>3, <1>4, <1>6 DEF Good, t

-----------------------------------------------------------------------------
\* The current call.

\* The current call and its field are typed.
LEMMA Current ==
    ASSUME IInv, stack # <<>>
    PROVE  /\ Len(stack) \in Nat \ {0}
           /\ Top \in Frame
           /\ Fields(Top.type) \in Seq(Field)
           /\ HasField => Fld \in Field
           /\ Name \in Places /\ Place \in Places
           /\ Len(Name) \in Nat /\ Last(Name) = Top.i
<1>1. Len(stack) \in Nat \ {0} /\ stack \in Seq(Frame)
  BY DEF IInv, TypeOK
<1>2. Top \in Frame
  BY <1>1 DEF Top
<1>3. Top.name \in Places /\ Top.place \in Places /\ Top.i \in Nat \ {0} /\ Top.type \in Types
  BY <1>2 DEF Frame
<1>4. Fields(Top.type) \in Seq(Field)
  BY <1>3, HarnessAssumption DEF IInv, Fields
<1>5. HasField => Fld \in Field
  BY <1>3, <1>4 DEF HasField, Fld
<1>6. Name \in Places /\ Place \in Places /\ Len(Name) \in Nat /\ Last(Name) = Top.i
  BY <1>3 DEF Name, Place, Places, Last
<1> QED BY <1>1, <1>2, <1>4, <1>5, <1>6

\* Moving on to the next field changes nothing else of the calls.
LEMMA MovedOn ==
    ASSUME IInv, stack # <<>>
    PROVE  /\ Next1 \in Seq(Frame)
           /\ Len(Next1) = Len(stack)
           /\ \A k \in 1..Len(stack) : /\ Next1[k].by = stack[k].by
                                        /\ Next1[k].type = stack[k].type
                                        /\ Next1[k].name = stack[k].name
           /\ Good(Next1, visited)
<1>1. stack \in Seq(Frame) /\ Len(stack) \in Nat \ {0}
  BY Current DEF IInv, TypeOK
<1>2. /\ Next1 \in Seq(Frame)
      /\ Len(Next1) = Len(stack)
      /\ \A k \in 1..Len(stack) : /\ Next1[k].by = stack[k].by
                                   /\ Next1[k].type = stack[k].type
                                   /\ Next1[k].name = stack[k].name
  <2> DEFINE n == Len(stack)
             f == [stack[n] EXCEPT !.i = @ + 1]
  <2>1. stack[n] \in Frame
    BY <1>1
  <2>2. /\ f \in Frame
        /\ f.by = stack[n].by /\ f.type = stack[n].type /\ f.name = stack[n].name
    BY <2>1 DEF Frame
  <2>3. Next1 = [stack EXCEPT ![n] = f]
    BY DEF Next1
  <2> HIDE DEF f
  <2> QED BY <1>1, <2>2, <2>3
<1>3. Good(stack, visited)
  BY DEF IInv
<1> QED BY <1>1, <1>2, <1>3, GoodTouch

\* A call is a frame.
LEMMA NewCall ==
    ASSUME NEW n \in Places, NEW p \in Places, NEW t \in Types,
           NEW m \in {"bind", "null", "dump"}, NEW b \in SUBSET Types
    PROVE  /\ Call(n, p, t, m, b) \in Frame
           /\ Call(n, p, t, m, b).by = b
           /\ Call(n, p, t, m, b).name = n
BY DEF Call, Frame, Values

\* What a pointer holds is known to be a value.
LEMMA FoundTyped ==
    ASSUME IInv, stack # <<>>, NEW a \in Found
    PROVE  a \in Values
<1>1. Place \in DOMAIN slot => slot[Place] \in Values
  BY DEF IInv, TypeOK
<1> QED BY <1>1 DEF Found, Values

\* A call of the second walk below the current field.
LEMMA NewReached ==
    ASSUME IInv, HasField, NEW b \in SUBSET Types, NEW a \in Values
    PROVE  /\ Reached(b, a) \in Frame
           /\ Reached(b, a).by = b /\ Reached(b, a).at = a
           /\ Reached(b, a).name = Name /\ Reached(b, a).place = Place
           /\ Reached(b, a).type = Fld.type /\ Reached(b, a).i = 1
           /\ Reached(b, a).mode = "dump"
<1>1. Name \in Places /\ Place \in Places /\ Fld.type \in Types
  BY Current DEF HasField, Field
<1>2. Call(Name, Place, Fld.type, "dump", b) \in Frame
  BY <1>1, NewCall
<1>3. Reached(b, a) =
         [name |-> Name, place |-> Place, type |-> Fld.type, i |-> 1, mode |-> "dump",
          by |-> b, depth |-> 0, at |-> a]
  BY DEF Reached, Call
<1>4. 1 \in Nat \ {0} /\ 0 \in Nat /\ "dump" \in {"bind", "null", "dump"}
  OBVIOUS
<1> QED BY <1>1, <1>3, <1>4 DEF Frame

\* DumpFollows and DumpInPlace make one such call.
LEMMA FollowsCall ==
    ASSUME IInv, DumpFollows
    PROVE  /\ HasField /\ Fld.kind \in {"ptr", "box"} /\ Top.type \notin visited
           /\ Shown({"ptr", "box"}) /\ Top.at # "NULL"
           /\ visited' = visited \union {Top.type}
           /\ \E a \in Values : a \in Found /\ Push(Reached({Top.type}, a))
<1>1. /\ HasField /\ Fld.kind \in {"ptr", "box"} /\ Top.type \notin visited /\ ~ Pruned
      /\ Shown({"ptr", "box"}) /\ Survives
      /\ visited' = visited \union {Top.type}
      /\ \E a \in Found : Push(Reached({Top.type}, a))
  BY DEF DumpFollows, Follow, Dumping, Shown
<1>2. Top.at # "NULL"
  BY <1>1 DEF Survives, Loads
<1> QED BY <1>1, <1>2, FoundTyped DEF HasField

LEMMA InPlaceCall ==
    ASSUME IInv, DumpInPlace
    PROVE  /\ HasField /\ Fld.kind = "val" /\ Shown({"val"})
           /\ visited' = visited /\ Top.at \in Values
           /\ Push(Reached({}, Top.at))
<1>1. HasField /\ Fld.kind = "val" /\ Shown({"val"}) /\ visited' = visited /\ Push(Reached({}, Top.at))
  BY DEF DumpInPlace, Dumping, Shown
<1>2. Top \in Frame
  BY <1>1, Current DEF HasField
<1> QED BY <1>1, <1>2 DEF Frame

\* Both make one call and change nothing of the graph.
LEMMA DumpCall ==
    ASSUME IInv, DumpFollows \/ DumpInPlace
    PROVE  /\ HasField /\ stack # <<>> /\ Fld.kind \in {"ptr", "box", "val"} /\ pc = "dump"
           /\ pc' = pc /\ prog' = prog /\ arg' = arg /\ boundary' = boundary /\ nodes' = nodes
           /\ slot' = slot /\ leaf' = leaf /\ changed' = changed /\ reads' = reads
           /\ \E g \in Frame :
                 /\ Push(g) /\ g.name = Name /\ g.place = Place /\ g.type = Fld.type
                 /\ g.i = 1 /\ g.mode = "dump"
<1>1. /\ pc = "dump" /\ pc' = pc /\ prog' = prog /\ arg' = arg /\ boundary' = boundary
      /\ nodes' = nodes /\ slot' = slot /\ leaf' = leaf /\ changed' = changed /\ reads' = reads
  BY DEF DumpFollows, DumpInPlace, Follow, Dumping, Shown, graph
<1>2. CASE DumpFollows
  <2>1. PICK a \in Values : HasField /\ Fld.kind \in {"ptr", "box"} /\ Push(Reached({Top.type}, a))
    BY <1>2, FollowsCall
  <2>2. {Top.type} \in SUBSET Types /\ stack # <<>>
    BY <2>1, Current DEF HasField, Frame
  <2> QED BY <1>1, <2>1, <2>2, NewReached
<1>3. CASE DumpInPlace
  <2>1. HasField /\ Fld.kind = "val" /\ Top.at \in Values /\ Push(Reached({}, Top.at))
    BY <1>3, InPlaceCall
  <2>2. {} \in SUBSET Types /\ stack # <<>>
    BY <2>1 DEF HasField
  <2> QED BY <1>1, <2>1, <2>2, NewReached
<1> QED BY <1>2, <1>3

\* A call on the current field.
LEMMA Pushed ==
    ASSUME IInv, HasField, NEW f \in Frame, f.name = Name,
           f.by = IF Fld.kind \in {"ptr", "box"} THEN {Top.type} ELSE {},
           f.by \cap visited = {}
    PROVE  /\ Append(Next1, f) \in Seq(Frame)
           /\ Good(Append(Next1, f), visited \union f.by)
<1>1. stack # <<>>
  BY DEF HasField
<1>2. /\ Next1 \in Seq(Frame) /\ Len(Next1) = Len(stack) /\ Good(Next1, visited)
      /\ Len(stack) \in Nat \ {0} /\ Next1[Len(stack)].type = Top.type
  BY <1>1, MovedOn, Current DEF Top
<1> DEFINE n == Len(stack)
           s == Append(Next1, f)
<1>3. s[n + 1] = f /\ s[n] = Next1[n] /\ s \in Seq(Frame)
  BY <1>2
<1> HIDE DEF s
<1>4. Hop(s, n + 1) <=> Fld.kind \in {"ptr", "box"}
  <2>1. Last(s[n + 1].name) = Top.i
    BY <1>1, <1>3, Current
  <2>2. s[n + 1 - 1].type = Top.type
    BY <1>2, <1>3
  <2> QED BY <1>2, <2>1, <2>2 DEF Hop, Fld
<1>5. f.by = IF Hop(s, Len(Next1) + 1) THEN {Next1[Len(Next1)].type} ELSE {}
  BY <1>2, <1>4
<1> QED BY <1>2, <1>3, <1>5, GoodPush DEF s

\* The first call on an argument.
LEMMA FirstCall ==
    ASSUME NEW t \in Types, NEW a \in Nat, NEW m \in {"bind", "dump"},
           IInv, stack = <<>>
    PROVE  LET s == <<Call(<<a>>, <<a>>, t, m, {})>>
           IN  s \in Seq(Frame) /\ Good(s, visited)
<1> DEFINE f == Call(<<a>>, <<a>>, t, m, {})
           s == <<f>>
<1>1. f \in Frame /\ f.by = {}
  <2>1. <<a>> \in Places /\ {} \in SUBSET Types /\ m \in {"bind", "null", "dump"}
    BY DEF Places
  <2> QED BY <2>1, NewCall
<1>2. s \in Seq(Frame) /\ Len(s) = 1 /\ s[1] = f
  BY <1>1
<1>3. visited = {}
  BY DEF IInv, Good, Balanced
<1> HIDE DEF f, s
<1>4. ErasesHop(s)
  BY <1>1, <1>2 DEF ErasesHop, Hop
<1>5. Disjoint(s)
  BY <1>2 DEF Disjoint
<1>6. Balanced(s, visited)
  BY <1>1, <1>2, <1>3 DEF Balanced
<1> QED BY <1>2, <1>4, <1>5, <1>6 DEF Good, s, f

-----------------------------------------------------------------------------
\* Before the first walk the invariant holds.
LEMMA InitInv == Init => IInv
<1> SUFFICES ASSUME Init PROVE IInv
  OBVIOUS
<1>1. TypeOK
  BY DEF Init, TypeOK
<1>2. Good(stack, visited)
  BY DEF Init, Good, ErasesHop, Disjoint, Balanced
<1> QED BY <1>1, <1>2 DEF Init, IInv

\* The arguments are typed.
LEMMA Arguments ==
    ASSUME IInv, arg < Len(prog.args)
    PROVE  prog.args[arg + 1] \in Types /\ arg + 1 \in Nat /\ <<arg + 1>> \in Places
<1>1. prog.args \in Seq(Types) /\ arg \in Nat
  BY HarnessAssumption DEF IInv, TypeOK
<1> QED BY <1>1 DEF Places

\* Buffers and objects are typed.
LEMMA Recorded ==
    ASSUME TypeOK, NEW n \in Places, NEW q \in Places, Record(n, q)
    PROVE  /\ DOMAIN leaf' \subseteq Places /\ \A x \in DOMAIN leaf' : leaf'[x] \in Places
           /\ worklist' \in Seq(Places)
           /\ DOMAIN slot' \subseteq Places
           /\ \A x \in DOMAIN slot' : slot'[x] \in Values
<1>1. /\ DOMAIN leaf' \subseteq Places /\ \A x \in DOMAIN leaf' : leaf'[x] \in Places
  BY WithTyped DEF TypeOK, Record
<1>2. worklist' \in Seq(Places)
  BY DEF TypeOK, Record
<1>3. /\ DOMAIN slot' \subseteq Places
      /\ \A x \in DOMAIN slot' : slot'[x] \in Values
  <2> DEFINE D == Values
  <2>1. "buffer" \in D /\ DOMAIN slot \subseteq Places /\ \A x \in DOMAIN slot : slot[x] \in D
    BY DEF TypeOK, Values
  <2> HIDE DEF D
  <2>2. DOMAIN With(slot, q, "buffer") \subseteq Places
        /\ \A x \in DOMAIN With(slot, q, "buffer") : With(slot, q, "buffer")[x] \in D
    BY <2>1, WithTyped
  <2> QED BY <2>2 DEF Record, D
<1> QED BY <1>1, <1>2, <1>3

\* A stored pointer is typed.
LEMMA SlotTyped ==
    ASSUME TypeOK, NEW q \in Places, NEW v \in Values, slot' = With(slot, q, v)
    PROVE  /\ DOMAIN slot' \subseteq Places
           /\ \A x \in DOMAIN slot' : slot'[x] \in Values
<1> DEFINE D == Values
<1>1. DOMAIN slot \subseteq Places /\ \A x \in DOMAIN slot : slot[x] \in D
  BY DEF TypeOK
<1>2. v \in D
  OBVIOUS
<1> HIDE DEF D
<1>3. /\ DOMAIN With(slot, q, v) \subseteq Places
      /\ \A x \in DOMAIN With(slot, q, v) : With(slot, q, v)[x] \in D
  BY <1>1, <1>2, WithTyped
<1> QED BY <1>3 DEF D

\* A boxed object's entries are typed.
LEMMA BoxRecorded ==
    ASSUME TypeOK, Name \in Places, Place \in Places, RecordBox
    PROVE  /\ DOMAIN leaf' \subseteq Places /\ \A x \in DOMAIN leaf' : leaf'[x] \in Places
           /\ worklist' \in Seq(Places)
<1>1. CASE Fld.kind = "box"
  <2>1. leaf' = With(leaf, Name, Place) /\ worklist' = Append(worklist, Place)
    BY <1>1 DEF RecordBox
  <2>2. DOMAIN leaf \subseteq Places /\ \A x \in DOMAIN leaf : leaf[x] \in Places
    BY DEF TypeOK
  <2>3. /\ DOMAIN With(leaf, Name, Place) \subseteq Places
        /\ \A x \in DOMAIN With(leaf, Name, Place) : With(leaf, Name, Place)[x] \in Places
    BY <2>2, WithTyped
  <2> QED BY <2>1, <2>3 DEF TypeOK
<1>2. CASE Fld.kind # "box"
  BY <1>2 DEF TypeOK, RecordBox
<1> QED BY <1>1, <1>2

\* A new struct is typed.
LEMMA NodesTyped ==
    ASSUME TypeOK, NEW n \in Places, NEW q \in Places, NEW t \in Types, Made(n, q, t)
    PROVE  nodes' \subseteq [name : Places, place : Places, type : Types]
BY DEF TypeOK, Made

\* The data pointer of a Vec is at a place.
LEMMA DataTyped ==
    ASSUME NEW q \in Places
    PROVE  Data(q) \in Places
BY DEF Data, Places

\* A step of the current call and nothing else of the walk.
LEMMA StepKeeps ==
    ASSUME IInv, stack # <<>>, Step
    PROVE  stack' \in Seq(Frame) /\ visited' \subseteq Types /\ Good(stack', visited')
<1>1. stack' = Next1 /\ visited' = visited
  BY DEF Step
<1>2. Next1 \in Seq(Frame) /\ Good(Next1, visited)
  BY MovedOn
<1> QED BY <1>1, <1>2 DEF IInv, TypeOK

\* A call on the struct a field is, or leads to without a pointer.
LEMMA InPlaceKeeps ==
    ASSUME IInv, HasField, Fld.kind \notin {"ptr", "box"}, NEW f \in Frame,
           f.name = Name, f.by = {}, Push(f), visited' = visited
    PROVE  stack' \in Seq(Frame) /\ visited' \subseteq Types /\ Good(stack', visited')
<1>1. Append(Next1, f) \in Seq(Frame) /\ Good(Append(Next1, f), visited \union f.by)
  BY Pushed
<1>2. visited \union f.by = visited
  OBVIOUS
<1> QED BY <1>1, <1>2 DEF Push, IInv, TypeOK

\* A call through a pointer out of a type that is not being expanded.
LEMMA HopKeeps ==
    ASSUME IInv, HasField, Fld.kind \in {"ptr", "box"}, Top.type \notin visited,
           NEW f \in Frame, f.name = Name, f.by = {Top.type}, Push(f),
           visited' = visited \union {Top.type}
    PROVE  stack' \in Seq(Frame) /\ visited' \subseteq Types /\ Good(stack', visited')
<1>1. Top.type \in Types
  BY Current DEF HasField, Frame
<1>2. Append(Next1, f) \in Seq(Frame) /\ Good(Append(Next1, f), visited \union f.by)
  BY Pushed
<1> QED BY <1>1, <1>2 DEF Push, IInv, TypeOK

\* The program never changes, so Good may be read in the next state.
LEMMA SameProgram ==
    ASSUME Good(stack', visited'), prog' = prog
    PROVE  Good(stack, visited)'
BY DEF Good, ErasesHop, Disjoint, Balanced, Hop, Fields

-----------------------------------------------------------------------------
\* Every step of the harness keeps the invariant.
LEMMA NextInv == IInv /\ [Next]_vars => IInv'
<1> SUFFICES ASSUME IInv, [Next]_vars PROVE IInv'
  OBVIOUS
<1> USE DEF walk, graph
<1>0. TypeOK /\ prog \in Programs /\ Good(stack, visited)
  BY DEF IInv
<1>i. SUFFICES prog' = prog /\ Good(stack', visited') /\ TypeOK'
  BY <1>0, SameProgram DEF IInv
<1>1. CASE StartArgument
  <2> DEFINE t == prog.args[arg + 1]
             a == arg + 1
  <2>1. t \in Types /\ a \in Nat /\ <<a>> \in Places
    BY <1>1, Arguments DEF StartArgument
  <2>2. /\ stack' = <<Call(<<a>>, <<a>>, t, "bind", {})>> /\ visited' = visited
        /\ Made(<<a>>, <<a>>, t) /\ arg' = a /\ stack = <<>>
    BY <1>1 DEF StartArgument
  <2> HIDE DEF t, a
  <2>3. stack' \in Seq(Frame) /\ Good(stack', visited')
    BY <2>1, <2>2, FirstCall
  <2>4. nodes' \subseteq [name : Places, place : Places, type : Types]
    BY <1>0, <2>1, <2>2, NodesTyped
  <2> QED BY <1>0, <1>1, <2>1, <2>2, <2>3, <2>4 DEF StartArgument, TypeOK
<1>2. CASE BindNothing
  <2>1. Step /\ stack # <<>>
    BY <1>2 DEF BindNothing, Walking, HasField
  <2> QED BY <1>0, <1>2, <2>1, StepKeeps DEF BindNothing, TypeOK
<1>3. CASE BindLeaf
  <2>1. Step /\ stack # <<>> /\ Record(Name, Place)
    BY <1>3 DEF BindLeaf, Walking, HasField
  <2>2. Name \in Places /\ Place \in Places
    BY <2>1, Current
  <2> QED BY <1>0, <1>3, <2>1, <2>2, StepKeeps, Recorded DEF BindLeaf, TypeOK
<1>4. CASE BindObject
  <2>1. /\ HasField /\ stack # <<>> /\ Fld.kind \in {"ptr", "box"} /\ Top.type \notin visited
        /\ Push(Call(Name, Place, Fld.type, "bind", {Top.type}))
        /\ visited' = visited \union {Top.type}
    BY <1>4 DEF BindObject, Walking, HasField
  <2>2. Name \in Places /\ Place \in Places /\ Fld.type \in Types /\ Top.type \in Types
    BY <2>1, Current DEF Field, Frame
  <2>3. stack' \in Seq(Frame) /\ visited' \subseteq Types /\ Good(stack', visited')
    <3> DEFINE f == Call(Name, Place, Fld.type, "bind", {Top.type})
    <3>1. f \in Frame /\ f.name = Name /\ f.by = {Top.type}
      BY <2>2, NewCall
    <3> HIDE DEF f
    <3> QED BY <2>1, <3>1, HopKeeps DEF f
  <2>4. /\ DOMAIN slot' \subseteq Places
        /\ \A x \in DOMAIN slot' : slot'[x] \in Values
    BY <1>0, <1>4, <2>2, SlotTyped DEF BindObject, Values
  <2>5. nodes' \subseteq [name : Places, place : Places, type : Types]
    BY <1>0, <1>4, <2>2, NodesTyped DEF BindObject
  <2>6. /\ DOMAIN leaf' \subseteq Places /\ \A x \in DOMAIN leaf' : leaf'[x] \in Places
        /\ worklist' \in Seq(Places)
    BY <1>0, <1>4, <2>2, BoxRecorded DEF BindObject
  <2> QED BY <1>0, <1>4, <2>3, <2>4, <2>5, <2>6 DEF BindObject, TypeOK
<1>5. CASE StopAtBoundary
  <2> DEFINE f == [stack[Len(stack)] EXCEPT !.mode = "null", !.depth = 0]
  <2>1. /\ stack # <<>> /\ stack' = [stack EXCEPT ![Len(stack)] = f]
        /\ visited' = visited /\ boundary' = boundary \union {Top.name}
    BY <1>5 DEF StopAtBoundary, Walking, HasField
  <2>2. stack \in Seq(Frame) /\ Len(stack) \in Nat \ {0} /\ Top.name \in Places
    BY <1>0, <2>1, Current DEF TypeOK, Frame
  <2>3. f \in Frame /\ f.by = Top.by /\ f.type = Top.type /\ f.name = Top.name
    BY <2>1, Current DEF Top, Frame
  <2> HIDE DEF f
  <2>5. /\ stack' \in Seq(Frame) /\ Len(stack') = Len(stack)
        /\ \A k \in 1..Len(stack) : /\ stack'[k].by = stack[k].by
                                     /\ stack'[k].type = stack[k].type
                                     /\ stack'[k].name = stack[k].name
    BY <2>1, <2>2, <2>3 DEF Top
  <2>6. Good(stack', visited)
    BY <1>0, <2>2, <2>5, GoodTouch
  <2> QED BY <1>0, <1>5, <2>1, <2>2, <2>5, <2>6 DEF StopAtBoundary, TypeOK
<1>6. CASE NullPointer
  <2>1. Step /\ stack # <<>> /\ slot' = With(slot, Place, "NULL")
    BY <1>6 DEF NullPointer, Walking, HasField
  <2>2. Place \in Places
    BY <2>1, Current
  <2>3. /\ DOMAIN slot' \subseteq Places
        /\ \A x \in DOMAIN slot' : slot'[x] \in Values
    BY <1>0, <2>1, <2>2, SlotTyped DEF Values
  <2> QED BY <1>0, <1>6, <2>1, <2>3, StepKeeps DEF NullPointer, TypeOK
<1>7. CASE BindInPlace
  <2> DEFINE f == [Call(Name, Place, Fld.type, Top.mode, {}) EXCEPT !.depth = Top.depth + 1]
  <2>1. /\ HasField /\ stack # <<>> /\ Fld.kind \notin {"ptr", "box"}
        /\ Push(f) /\ visited' = visited
    BY <1>7 DEF BindInPlace, Walking, HasField
  <2>2. /\ Name \in Places /\ Place \in Places /\ Fld.type \in Types
        /\ Top.mode \in {"bind", "null", "dump"} /\ Top.depth \in Nat
    BY <2>1, Current DEF Field, Frame
  <2>3. f \in Frame /\ f.name = Name /\ f.by = {}
    BY <2>2, NewCall DEF Frame
  <2> HIDE DEF f
  <2>4. stack' \in Seq(Frame) /\ visited' \subseteq Types /\ Good(stack', visited')
    BY <2>1, <2>3, InPlaceKeeps
  <2>5. nodes' \subseteq [name : Places, place : Places, type : Types]
    BY <1>0, <1>7, <2>2, NodesTyped DEF BindInPlace
  <2> QED BY <1>0, <1>7, <2>4, <2>5 DEF BindInPlace, TypeOK
<1>8. CASE BindVecElement
  <2>1. /\ HasField /\ stack # <<>> /\ Fld.kind \notin {"ptr", "box"}
        /\ Push(Call(Name, Data(Place), Fld.type, "bind", {})) /\ visited' = visited
    BY <1>8 DEF BindVecElement, Walking, HasField
  <2>2. Name \in Places /\ Data(Place) \in Places /\ Fld.type \in Types
    BY <2>1, Current, DataTyped DEF Field
  <2>3. stack' \in Seq(Frame) /\ visited' \subseteq Types /\ Good(stack', visited')
    <3> DEFINE f == Call(Name, Data(Place), Fld.type, "bind", {})
    <3>1. f \in Frame /\ f.name = Name /\ f.by = {}
      BY <2>2, NewCall
    <3> HIDE DEF f
    <3> QED BY <2>1, <3>1, InPlaceKeeps DEF f
  <2>4. nodes' \subseteq [name : Places, place : Places, type : Types]
    BY <1>0, <1>8, <2>2, NodesTyped DEF BindVecElement
  <2>5. /\ DOMAIN slot' \subseteq Places
        /\ \A x \in DOMAIN slot' : slot'[x] \in Values
    BY <1>0, <1>8, <2>2, SlotTyped DEF BindVecElement, Values
  <2> QED BY <1>0, <1>8, <2>3, <2>4, <2>5 DEF BindVecElement, TypeOK
<1>9. CASE NullVec
  <2>1. Step /\ stack # <<>> /\ Record(Data(Name), Data(Place))
    BY <1>9 DEF NullVec, Walking, HasField
  <2>2. Data(Name) \in Places /\ Data(Place) \in Places
    BY <2>1, Current, DataTyped
  <2> QED BY <1>0, <1>9, <2>1, <2>2, StepKeeps, Recorded DEF NullVec, TypeOK
<1>10. CASE Return
  <2>1. /\ stack # <<>> /\ stack' = SubSeq(stack, 1, Len(stack) - 1)
        /\ visited' = visited \ stack[Len(stack)].by
    BY <1>10 DEF Return, Top
  <2>2. stack \in Seq(Frame)
    BY <1>0 DEF TypeOK
  <2>3. stack' \in Seq(Frame)
    BY <2>1, <2>2, FrontOf
  <2>4. Good(stack', visited')
    BY <1>0, <2>1, <2>2, GoodPop
  <2> QED BY <1>0, <1>10, <2>1, <2>3, <2>4 DEF Return, TypeOK
<1>11. CASE Target
  <2>1. PICK q \in Writable, v \in {"NULL", "elsewhere"} :
           slot' = With(slot, q, v) /\ changed' = {q}
    BY <1>11 DEF Target
  <2>2. q \in Places
    BY <1>0 DEF Writable, TypeOK
  <2>3. /\ DOMAIN slot' \subseteq Places
        /\ \A x \in DOMAIN slot' : slot'[x] \in Values
    BY <1>0, <2>1, <2>2, SlotTyped DEF Values
  <2> QED BY <1>0, <1>11, <2>1, <2>2, <2>3 DEF Target, TypeOK
<1>12. CASE TargetKeepsPointers
  BY <1>0, <1>12 DEF TargetKeepsPointers, TypeOK
<1>13. CASE DumpArgument
  <2> DEFINE t == prog.args[arg + 1]
             a == arg + 1
  <2>1. t \in Types /\ a \in Nat /\ <<a>> \in Places
    BY <1>13, Arguments DEF DumpArgument
  <2>2. /\ stack' = <<Call(<<a>>, <<a>>, t, "dump", {})>> /\ visited' = visited
        /\ arg' = a /\ stack = <<>>
    BY <1>13 DEF DumpArgument
  <2> HIDE DEF t, a
  <2>3. stack' \in Seq(Frame) /\ Good(stack', visited')
    BY <2>1, <2>2, FirstCall
  <2> QED BY <1>0, <1>13, <2>1, <2>2, <2>3 DEF DumpArgument, TypeOK
<1>14. CASE DumpNothing \/ DumpLeafUnbound \/ DumpLeafAtRunTime \/ DumpSkips
  <2>1. Step /\ stack # <<>>
    BY <1>14 DEF DumpNothing, DumpLeafUnbound, DumpLeafAtRunTime, DumpSkips, Dumping, Shown, HasField
  <2> QED BY <1>0, <1>14, <2>1, StepKeeps
          DEF DumpNothing, DumpLeafUnbound, DumpLeafAtRunTime, DumpSkips, TypeOK
<1>15. CASE DumpLeafHit
  <2>1. Step /\ stack # <<>> /\ LeafName \in DOMAIN leaf
    BY <1>15 DEF DumpLeafHit, Dumping, Shown, HasField
  <2>2. leaf[LeafName] \in Places /\ LeafName \in Places
    BY <1>0, <2>1 DEF TypeOK
  <2> QED BY <1>0, <1>15, <2>1, <2>2, StepKeeps DEF DumpLeafHit, TakeLeafBuffer, TypeOK
<1>16. CASE DumpFollows
  <2>1. PICK a \in Values :
           /\ HasField /\ Fld.kind \in {"ptr", "box"} /\ Top.type \notin visited
           /\ Push(Reached({Top.type}, a))
           /\ visited' = visited \union {Top.type}
    BY <1>16, FollowsCall
  <2>2. stack' \in Seq(Frame) /\ visited' \subseteq Types /\ Good(stack', visited')
    <3>1. {Top.type} \in SUBSET Types
      BY <2>1, Current DEF HasField, Frame
    <3> QED BY <2>1, <3>1, NewReached, HopKeeps
  <2> QED BY <1>0, <1>16, <2>2 DEF DumpFollows, TypeOK
<1>17. CASE DumpDies \/ DumpEnds
  BY <1>0, <1>17 DEF DumpDies, DumpEnds, TypeOK
<1>18. CASE DumpInPlace
  <2>1. /\ HasField /\ Fld.kind \notin {"ptr", "box"} /\ Top.at \in Values
        /\ Push(Reached({}, Top.at)) /\ visited' = visited
    BY <1>18, InPlaceCall
  <2>3. stack' \in Seq(Frame) /\ visited' \subseteq Types /\ Good(stack', visited')
    BY <2>1, NewReached, InPlaceKeeps
  <2> QED BY <1>0, <1>18, <2>3 DEF DumpInPlace, TypeOK
<1>19. CASE UNCHANGED vars
  BY <1>0, <1>19 DEF vars, TypeOK
<1> QED BY <1>1, <1>2, <1>3, <1>4, <1>5, <1>6, <1>7, <1>8, <1>9, <1>10, <1>11, <1>12,
           <1>13, <1>14, <1>15, <1>16, <1>17, <1>18, <1>19 DEF Next

\* The inductive invariant holds of every behaviour of the harness.
THEOREM Inductive == Spec => []IInv
BY InitInv, NextInv, PTL DEF Spec

(***************************************************************************)
(* Both walks keep the types of their state, whatever the layouts.         *)
(***************************************************************************)
THEOREM HarnessTypeCorrect == Spec => []TypeOK
<1>1. IInv => TypeOK
  BY DEF IInv
<1> QED BY <1>1, Inductive, PTL

(***************************************************************************)
(* visited_structs is always what the open calls have still to erase; it   *)
(* is empty between arguments and between the walks.                       *)
(***************************************************************************)
THEOREM VisitedBalanced == Spec => []WalksAreBalanced
<1>1. IInv => WalksAreBalanced
  <2> SUFFICES ASSUME IInv PROVE WalksAreBalanced
    OBVIOUS
  <2>1. DOMAIN stack = 1..Len(stack)
    BY DEF IInv, TypeOK
  <2> QED BY <2>1 DEF IInv, Good, Balanced, WalksAreBalanced
<1> QED BY <1>1, Inductive, PTL

(***************************************************************************)
(* No chain of calls of either walk has more hops through struct pointers  *)
(* than there are struct types: each hop leaves a type no other hop has    *)
(* left.  The way into a Vec is no hop: bind_vec_element looks at no       *)
(* guard, and a chain of Vecs alone has no bound.                          *)
(***************************************************************************)
THEOREM ChainsCut == Spec => []ChainsAreCut
<1>1. IInv => ChainsAreCut
  <2> SUFFICES ASSUME IInv PROVE ChainsAreCut
    OBVIOUS
  <2>1. stack \in Seq(Frame) /\ Len(stack) \in Nat
    BY DEF IInv, TypeOK
  <2>2. \A k \in Hops : k \in 1..Len(stack) /\ k - 1 \in 1..Len(stack)
                      /\ stack[k].by = {stack[k - 1].type} /\ stack[k - 1].type \in Types
    <3> SUFFICES ASSUME NEW k \in Hops
                 PROVE  k \in 1..Len(stack) /\ k - 1 \in 1..Len(stack)
                        /\ stack[k].by = {stack[k - 1].type} /\ stack[k - 1].type \in Types
      OBVIOUS
    <3>1. k \in 1..Len(stack) /\ k - 1 \in 1..Len(stack) /\ Hop(stack, k)
      BY <2>1 DEF Hops, Hop
    <3>2. stack[k].by = {stack[k - 1].type}
      BY <3>1 DEF IInv, Good, ErasesHop
    <3>3. stack[k - 1] \in Frame
      BY <2>1, <3>1
    <3> QED BY <3>1, <3>2, <3>3 DEF Frame
  <2> DEFINE f == [k \in Hops |-> stack[k - 1].type]
  <2>3. f \in [Hops -> Types]
    BY <2>2
  <2>4. \A j, k \in Hops : f[j] = f[k] => j = k
    <3> SUFFICES ASSUME NEW j \in Hops, NEW k \in Hops, f[j] = f[k], j # k
                 PROVE  FALSE
      OBVIOUS
    <3>1. stack[j].by \cap stack[k].by = {}
      BY <2>2 DEF IInv, Good, Disjoint
    <3>2. stack[j].by = stack[k].by /\ stack[k].by # {}
      BY <2>2
    <3> QED BY <3>1, <3>2
  <2> HIDE DEF f
  <2>5. f \in Injection(Hops, Types)
    BY <2>3, <2>4 DEF Injection, IsInjective
  <2>6. IsFiniteSet(Types)
    BY HarnessAssumption
  <2>7. Cardinality(Hops) <= Cardinality(Types)
    BY <2>5, <2>6, FS_Injection
  <2> QED BY <2>7 DEF ChainsAreCut
<1> QED BY <1>1, Inductive, PTL

-----------------------------------------------------------------------------
(***************************************************************************)
(* Pointers of the harness: what is not bound yet is ahead of some open    *)
(* call, and the boundary walk counts its depth from the boundary node.    *)
(***************************************************************************)
Awaited(n, i) ==
    \E k \in 1..Len(stack) :
        /\ stack[k].name = n.name /\ stack[k].place = n.place /\ stack[k].type = n.type
        /\ stack[k].i <= i

PointersInv ==
    \A n \in nodes : \A i \in DOMAIN Fields(n.type) :
        Provided(n, i) \/ (pc = "init" /\ Awaited(n, i))

FromBoundary(f) ==
    \E b \in boundary : IsPrefix(b, f.name) /\ Len(f.name) = Len(b) + f.depth

DepthInv ==
    pc = "init" => \A k \in 1..Len(stack) : stack[k].mode # "bind" => FromBoundary(stack[k])

\* What is below a node stays below it one field further.
LEMMA PrefixAppend ==
    ASSUME NEW b \in Places, NEW t \in Places, NEW x \in Nat, IsPrefix(b, t)
    PROVE  IsPrefix(b, Append(t, x)) /\ Append(t, x) \in Places /\ Len(Append(t, x)) = Len(t) + 1
<1> USE DEF Places
<1> DEFINE u == Append(t, x)
           m == Len(b)
<1>1. /\ m \in Nat /\ Len(t) \in Nat /\ m <= Len(t) /\ Len(u) = Len(t) + 1 /\ u \in Seq(Nat)
      /\ \A k \in 1..m : u[k] = t[k] /\ t[k] \in Nat /\ u[k] \in Nat
  BY DEF IsPrefix
<1>2. SubSeq(b, 1, m) = SubSeq(t, 1, m)
  BY DEF IsPrefix
<1> HIDE DEF m, u
<1>3. /\ SubSeq(t, 1, m) \in Seq(Nat)
      /\ Len(SubSeq(t, 1, m)) = IF 1 <= m THEN m - 1 + 1 ELSE 0
      /\ \A i \in 1..(m - 1 + 1) : SubSeq(t, 1, m)[i] = t[1 + i - 1]
  BY <1>1, SubSeqProperties
<1>4. /\ SubSeq(u, 1, m) \in Seq(Nat)
      /\ Len(SubSeq(u, 1, m)) = IF 1 <= m THEN m - 1 + 1 ELSE 0
      /\ \A i \in 1..(m - 1 + 1) : SubSeq(u, 1, m)[i] = u[1 + i - 1]
  BY <1>1, SubSeqProperties
<1>5. /\ Len(SubSeq(t, 1, m)) = m /\ Len(SubSeq(u, 1, m)) = m
      /\ \A i \in 1..m : SubSeq(t, 1, m)[i] = t[i] /\ SubSeq(u, 1, m)[i] = u[i]
  BY <1>1, <1>3, <1>4
<1>6. SubSeq(t, 1, m) = SubSeq(u, 1, m)
  BY <1>1, <1>3, <1>4, <1>5, SeqEqual
<1> QED BY <1>1, <1>2, <1>6 DEF IsPrefix, m, u

\* What is bound stays bound.
LEMMA HeldStays ==
    ASSUME NEW n, NEW i, Provided(n, i), prog' = prog,
           DOMAIN slot \subseteq DOMAIN slot', boundary \subseteq boundary', nodes \subseteq nodes'
    PROVE  Provided(n, i)'
<1>1. \A m : GivenUp(m) => GivenUp(m)'
  BY DEF GivenUp
<1>2. \A t : Fields(t)' = Fields(t)
  BY DEF Fields
<1>3. \A s, t : HoldsStruct(n, s, t) => HoldsStruct(n, s, t)'
  <2>1. \A s, t : NodeAt(s, t) => NodeAt(s, t)'
    BY DEF NodeAt
  <2>2. \A x : UnderBoundary(x) => UnderBoundary(x)'
    BY DEF UnderBoundary
  <2> QED BY <2>1, <2>2 DEF HoldsStruct
<1> QED BY <1>1, <1>2, <1>3 DEF Provided

\* Adding an entry loses none.
LEMMA WithGrows ==
    ASSUME NEW f, NEW x, NEW y
    PROVE  DOMAIN f \subseteq DOMAIN With(f, x, y) /\ x \in DOMAIN With(f, x, y)
BY DEF With

\* The calls below the current one, and the current one moved on.
LEMMA Ahead ==
    ASSUME IInv, stack # <<>>, NEW n, NEW i, Awaited(n, i),
           ~ (/\ n.name = Top.name /\ n.place = Top.place /\ n.type = Top.type /\ i = Top.i),
           i \in Nat
    PROVE  \E k \in 1..Len(Next1) :
              /\ Next1[k].name = n.name /\ Next1[k].place = n.place /\ Next1[k].type = n.type
              /\ Next1[k].i <= i
<1>1. PICK k \in 1..Len(stack) :
        /\ stack[k].name = n.name /\ stack[k].place = n.place /\ stack[k].type = n.type
        /\ stack[k].i <= i
  BY DEF Awaited
<1>2. stack \in Seq(Frame) /\ Len(stack) \in Nat \ {0} /\ Top \in Frame
  BY Current DEF IInv, TypeOK
<1>3. Len(Next1) = Len(stack)
  BY MovedOn
<1>4. CASE k # Len(stack)
  <2>1. Next1[k] = stack[k]
    BY <1>2, <1>4 DEF Next1
  <2> QED BY <1>1, <1>3, <2>1
<1>5. CASE k = Len(stack)
  <2>1. stack[k] = Top /\ Top.i \in Nat /\ Top.i < i
    BY <1>1, <1>2, <1>5 DEF Top, Frame
  <2>2. /\ Next1[k].i = Top.i + 1 /\ Next1[k].name = Top.name /\ Next1[k].type = Top.type
        /\ Next1[k].place = Top.place
    BY <1>2, <1>5, <2>1 DEF Next1, Top, Frame
  <2> QED BY <1>1, <1>3, <2>1, <2>2
<1> QED BY <1>4, <1>5

IsTop(n) == n.name = Top.name /\ n.place = Top.place /\ n.type = Top.type

\* The current field is done and the walk goes on to the next one.
LEMMA FieldDone ==
    ASSUME IInv, PointersInv, pc = "init", pc' = "init", stack # <<>>, prog' = prog,
           DOMAIN slot \subseteq DOMAIN slot', boundary \subseteq boundary',
           stack' = Next1, nodes' = nodes,
           \A n \in nodes : \A j : IsTop(n) /\ j = Top.i => Provided(n, j)'
    PROVE  PointersInv'
<1> SUFFICES ASSUME NEW n \in nodes, NEW i \in DOMAIN Fields(n.type), ~ Provided(n, i)'
             PROVE  Awaited(n, i)'
  BY DEF PointersInv, Fields
<1>1. ~ Provided(n, i)
  BY HeldStays
<1>2. Awaited(n, i)
  BY <1>1 DEF PointersInv
<1>3. ~ (IsTop(n) /\ i = Top.i)
  OBVIOUS
<1>4. i \in Nat
  <2>1. n.type \in Types
    BY DEF IInv, TypeOK
  <2>2. Fields(n.type) \in Seq(Field)
    BY <2>1, HarnessAssumption DEF IInv, Fields
  <2> QED BY <2>2
<1> QED BY <1>2, <1>3, <1>4, Ahead DEF Awaited, IsTop

\* The current field is done and its struct is walked next.
LEMMA FieldPushed ==
    ASSUME IInv, PointersInv, pc = "init", pc' = "init", stack # <<>>, prog' = prog,
           DOMAIN slot \subseteq DOMAIN slot', boundary \subseteq boundary',
           NEW f \in Frame, f.i = 1, Push(f), Made(f.name, f.place, f.type),
           \A n \in nodes : \A j : IsTop(n) /\ j = Top.i => Provided(n, j)'
    PROVE  PointersInv'
<1> SUFFICES ASSUME NEW n \in nodes', NEW i \in DOMAIN Fields(n.type), ~ Provided(n, i)'
             PROVE  Awaited(n, i)'
  BY DEF PointersInv, Fields
<1>1. Next1 \in Seq(Frame) /\ Len(Next1) \in Nat
  BY MovedOn
<1>2. /\ stack' = Append(Next1, f) /\ Len(stack') = Len(Next1) + 1
      /\ stack'[Len(Next1) + 1] = f /\ \A k \in 1..Len(Next1) : stack'[k] = Next1[k]
  BY <1>1 DEF Push
<1>3. i \in Nat \ {0}
  <2>1. n.type \in Types
    BY DEF IInv, TypeOK, Made, Frame
  <2>2. Fields(n.type) \in Seq(Field)
    BY <2>1, HarnessAssumption DEF IInv, Fields
  <2> QED BY <2>2
<1>4. CASE n \in nodes
  <2>1. ~ Provided(n, i)
    BY HeldStays DEF Made
  <2>2. Awaited(n, i) /\ ~ (IsTop(n) /\ i = Top.i)
    BY <1>4, <2>1 DEF PointersInv
  <2>3. PICK k \in 1..Len(Next1) :
          /\ Next1[k].name = n.name /\ Next1[k].place = n.place /\ Next1[k].type = n.type
          /\ Next1[k].i <= i
    BY <1>3, <2>2, Ahead DEF IsTop
  <2>4. k \in 1..Len(stack') /\ stack'[k] = Next1[k]
    BY <1>1, <1>2
  <2> QED BY <2>3, <2>4 DEF Awaited
<1>5. CASE n = [name |-> f.name, place |-> f.place, type |-> f.type]
  <2>1. Len(Next1) + 1 \in 1..Len(stack')
    BY <1>1, <1>2
  <2> QED BY <1>2, <1>3, <1>5, <2>1 DEF Awaited
<1> QED BY <1>4, <1>5 DEF Made

\* Depths: a step of the current call, and a new one.
LEMMA DepthStep ==
    ASSUME IInv, DepthInv, stack # <<>>, boundary \subseteq boundary', stack' = Next1, pc' = pc
    PROVE  DepthInv'
<1>1. stack \in Seq(Frame) /\ Len(stack) \in Nat \ {0}
  BY Current DEF IInv, TypeOK
<1>2. /\ Len(Next1) = Len(stack)
      /\ \A k \in 1..Len(stack) : /\ Next1[k].name = stack[k].name
                                   /\ Next1[k].mode = stack[k].mode
                                   /\ Next1[k].depth = stack[k].depth
  BY <1>1 DEF Next1, Frame
<1> QED BY <1>2 DEF DepthInv, FromBoundary

\* The depth counted in a new call is its distance from the boundary node.
LEMMA DepthPush ==
    ASSUME IInv, DepthInv, stack # <<>>, boundary' = boundary, NEW f \in Frame, Push(f),
           pc' = pc, f.mode # "bind" => FromBoundary(f)
    PROVE  DepthInv'
<1>1. stack \in Seq(Frame) /\ Len(stack) \in Nat \ {0} /\ Next1 \in Seq(Frame)
  BY Current, MovedOn DEF IInv, TypeOK
<1>2. /\ Len(Next1) = Len(stack)
      /\ \A k \in 1..Len(stack) : /\ Next1[k].name = stack[k].name
                                   /\ Next1[k].mode = stack[k].mode
                                   /\ Next1[k].depth = stack[k].depth
  BY <1>1 DEF Next1, Frame
<1>3. /\ Len(stack') = Len(stack) + 1 /\ stack'[Len(stack) + 1] = f
      /\ \A k \in 1..Len(stack) : stack'[k] = Next1[k]
  BY <1>1, <1>2 DEF Push
<1> SUFFICES ASSUME pc = "init", NEW k \in 1..Len(stack'), stack'[k].mode # "bind"
             PROVE  FromBoundary(stack'[k])
  BY DEF DepthInv, FromBoundary
<1>4. CASE k = Len(stack) + 1
  BY <1>3, <1>4
<1>5. CASE k \in 1..Len(stack)
  BY <1>2, <1>3, <1>5 DEF DepthInv, FromBoundary
<1> QED BY <1>1, <1>3, <1>4, <1>5

AllHeld == \A n \in nodes : \A i \in DOMAIN Fields(n.type) : Provided(n, i)

\* Between the walks every pointer stays held.
LEMMA AllHeldKeeps ==
    ASSUME AllHeld, nodes' = nodes, prog' = prog,
           DOMAIN slot \subseteq DOMAIN slot', boundary \subseteq boundary'
    PROVE  PointersInv'
<1> SUFFICES ASSUME NEW n \in nodes, NEW i \in DOMAIN Fields(n.type) PROVE Provided(n, i)'
  BY DEF PointersInv, Fields
<1>1. Provided(n, i)
  BY DEF AllHeld
<1> QED BY <1>1, HeldStays

\* With no call open, every pointer of every struct is held.
LEMMA NothingOpen ==
    ASSUME IInv, PointersInv, stack = <<>> \/ pc # "init"
    PROVE  AllHeld
<1> SUFFICES ASSUME NEW n \in nodes, NEW i \in DOMAIN Fields(n.type) PROVE Provided(n, i)
  BY DEF AllHeld
<1>1. CASE stack = <<>>
  <2>1. ~ Awaited(n, i)
    BY <1>1 DEF Awaited
  <2> QED BY <2>1 DEF PointersInv
<1>2. CASE pc # "init"
  BY <1>2 DEF PointersInv
<1> QED BY <1>1, <1>2

\* The current field of a node is the one the walk is at.
LEMMA TopField ==
    ASSUME NEW n, NEW j, IsTop(n), j = Top.i
    PROVE  /\ Fields(n.type)[j] = Fld
           /\ Append(n.place, j) = Place
           /\ Append(n.name, j) = Name
BY DEF IsTop, Fld, Place, Name

\* The pointer of the current field has been stored.
LEMMA StoredHeld ==
    ASSUME HasField, prog' = prog,
           Fld.kind \in {"leaf", "ptr", "box"} => Place \in DOMAIN slot',
           Fld.kind = "vec" => Data(Place) \in DOMAIN slot',
           Fld.kind \in {"ptr", "box", "vec"} =>
               \/ \E b \in boundary' : IsPrefix(b, Top.name)
               \/ \E e \in nodes' : /\ e.type = Fld.type
                                     /\ e.place = IF Fld.kind = "vec" THEN Data(Place) ELSE Place
    PROVE  \A n \in nodes : \A j : IsTop(n) /\ j = Top.i => Provided(n, j)'
<1> SUFFICES ASSUME NEW n \in nodes, NEW j, IsTop(n), j = Top.i PROVE Provided(n, j)'
  OBVIOUS
<1>1. /\ Fields(n.type)'[j] = Fld /\ Append(n.place, j) = Place
  BY TopField DEF Fields
<1>2. Data(Append(n.place, j)) = Data(Place) /\ n.name = Top.name
  BY <1>1 DEF IsTop
<1>3. CASE Fld.kind \in {"ptr", "box"}
  <2>1. HoldsStruct(n, Append(n.place, j), Fields(n.type)[j].type)'
    BY <1>1, <1>2, <1>3 DEF HoldsStruct, NodeAt, UnderBoundary
  <2> QED BY <1>1, <1>3, <2>1 DEF Provided
<1>4. CASE Fld.kind = "vec"
  <2>1. HoldsStruct(n, Data(Append(n.place, j)), Fields(n.type)[j].type)'
    BY <1>1, <1>2, <1>4 DEF HoldsStruct, NodeAt, UnderBoundary
  <2> QED BY <1>1, <1>4, <2>1 DEF Provided
<1>5. CASE Fld.kind \notin {"ptr", "box", "vec"}
  BY <1>1, <1>5 DEF Provided
<1> QED BY <1>3, <1>4, <1>5

\* A call of the first walk that does not bind is in a boundary node.
LEMMA NotBinding ==
    ASSUME IInv, DepthInv, pc = "init", stack # <<>>, ~ Binding
    PROVE  UnderBoundary(Top.name)
<1>1. Len(stack) \in 1..Len(stack) /\ Top = stack[Len(stack)]
  BY Current DEF Top
<1>2. FromBoundary(Top)
  BY <1>1 DEF DepthInv, Binding
<1> QED BY <1>2 DEF FromBoundary, UnderBoundary

\* A Vec below the depth of the boundary walk.
LEMMA TooDeepHeld ==
    ASSUME IInv, DepthInv, pc = "init", HasField, TooDeep, Fld.kind = "vec"
    PROVE  GivenUp(Append(Name, 1))
<1>1. stack # <<>>
  BY DEF HasField
<1>2. Len(stack) \in 1..Len(stack) /\ Top = stack[Len(stack)] /\ Top \in Frame
  BY <1>1, Current DEF Top
<1>3. FromBoundary(Top)
  BY <1>2 DEF TooDeep, DepthInv
<1>4. PICK b \in boundary : IsPrefix(b, Top.name) /\ Len(Top.name) = Len(b) + Top.depth
  BY <1>3 DEF FromBoundary
<1>5. b \in Places /\ Top.name \in Places /\ Top.i \in Nat /\ Top.depth \in Nat
  BY <1>2 DEF IInv, TypeOK, Frame
<1>6. IsPrefix(b, Name) /\ Name \in Places /\ Len(Name) = Len(Top.name) + 1
  BY <1>4, <1>5, PrefixAppend DEF Name
<1>7. IsPrefix(b, Append(Name, 1)) /\ Len(Append(Name, 1)) = Len(Name) + 1
  BY <1>5, <1>6, PrefixAppend
<1>8. Top.depth + 2 > NullDepth /\ NullDepth \in Nat
  BY HarnessAssumption DEF TooDeep, Levels
<1>9. Len(b) \in Nat
  BY <1>5 DEF Places
<1> QED BY <1>4, <1>5, <1>6, <1>7, <1>8, <1>9 DEF GivenUp

LInv == IInv /\ PointersInv /\ DepthInv

\* Before the first walk there is no pointer to hold.
LEMMA InitPointers == Init => PointersInv /\ DepthInv
BY DEF Init, PointersInv, DepthInv

\* Every step keeps the account of unbound pointers and depths.
LEMMA NextPointers ==
    LInv /\ [Next]_vars => PointersInv' /\ DepthInv'
<1> SUFFICES ASSUME LInv, [Next]_vars PROVE PointersInv' /\ DepthInv'
  OBVIOUS
<1> USE DEF walk, graph
<1>0. IInv /\ PointersInv /\ DepthInv /\ stack \in Seq(Frame)
  BY DEF LInv, IInv, TypeOK
<1>1. CASE StartArgument
  <2> DEFINE t == prog.args[arg + 1]
             a == arg + 1
             f == Call(<<a>>, <<a>>, t, "bind", {})
  <2>1. /\ stack = <<>> /\ stack' = <<f>> /\ Made(<<a>>, <<a>>, t)
        /\ prog' = prog /\ slot' = slot /\ boundary' = boundary /\ pc' = "init"
    BY <1>1 DEF StartArgument
  <2>2. f.i = 1 /\ f.name = <<a>> /\ f.place = <<a>> /\ f.type = t /\ f.mode = "bind"
    BY DEF Call
  <2>3. t \in Types
    BY <1>0, <1>1, Arguments DEF StartArgument
  <2> HIDE DEF t, a, f
  <2>4. Len(stack') = 1 /\ stack'[1] = f
    BY <2>1
  <2>5. DepthInv'
    BY <2>2, <2>4 DEF DepthInv
  <2>6. ASSUME NEW n \in nodes', NEW i \in DOMAIN Fields(n.type), ~ Provided(n, i)'
        PROVE  Awaited(n, i)'
    <3>1. CASE n \in nodes
      <4>1. AllHeld
        BY <1>0, <2>1, NothingOpen
      <4>2. Provided(n, i)
        BY <3>1, <4>1 DEF AllHeld
      <4> QED BY <2>1, <2>6, <4>2, HeldStays DEF Made
    <3>2. CASE n = [name |-> <<a>>, place |-> <<a>>, type |-> t]
      <4>1. Fields(t) \in Seq(Field)
        BY <1>0, <2>3, HarnessAssumption DEF IInv, Fields
      <4>2. 1 <= i
        BY <3>2, <4>1
      <4> QED BY <2>2, <2>4, <3>2, <4>2 DEF Awaited
    <3> QED BY <2>1, <3>1, <3>2 DEF Made
  <2>7. PointersInv'
    BY <2>1, <2>6 DEF PointersInv, Fields
  <2> QED BY <2>5, <2>7
<1>2. CASE BindNothing
  <2>1. /\ HasField /\ stack # <<>> /\ stack' = Next1 /\ nodes' = nodes /\ prog' = prog
        /\ slot' = slot /\ boundary' = boundary /\ pc = "init" /\ pc' = "init"
        /\ Fld.kind \in {"scalar", "fn", "val"} \/ (Fld.kind = "vec" /\ TooDeep)
    BY <1>2 DEF BindNothing, Walking, HasField, Step
  <2>2. ASSUME NEW n \in nodes, NEW j, IsTop(n), j = Top.i
        PROVE  Provided(n, j)'
    <3>1. Fields(n.type)'[j] = Fld /\ Append(n.name, j) = Name
      BY <2>1, <2>2, TopField DEF Fields
    <3>2. CASE Fld.kind \in {"scalar", "fn", "val"}
      BY <3>1, <3>2 DEF Provided
    <3>3. CASE Fld.kind = "vec" /\ TooDeep
      <4>1. GivenUp(Append(Name, 1))
        BY <1>0, <2>1, <3>3, TooDeepHeld
      <4>2. GivenUp(Append(Append(n.name, j), 1))'
        BY <2>1, <3>1, <4>1 DEF GivenUp
      <4> QED BY <3>1, <3>3, <4>2 DEF Provided
    <3> QED BY <2>1, <3>2, <3>3
  <2>3. PointersInv'
    BY <1>0, <2>1, <2>2, FieldDone
  <2> QED BY <1>0, <2>1, <2>3, DepthStep
<1>3. CASE BindLeaf
  <2>1. /\ HasField /\ stack # <<>> /\ stack' = Next1 /\ nodes' = nodes /\ prog' = prog
        /\ boundary' = boundary /\ pc = "init" /\ pc' = "init" /\ Fld.kind = "leaf"
        /\ slot' = With(slot, Place, "buffer")
    BY <1>3 DEF BindLeaf, Walking, HasField, Step, Record
  <2>2. DOMAIN slot \subseteq DOMAIN slot' /\ Place \in DOMAIN slot'
    BY <2>1, WithGrows
  <2>3. PointersInv'
    BY <1>0, <2>1, <2>2, StoredHeld, FieldDone
  <2> QED BY <1>0, <2>1, <2>3, DepthStep
<1>4. CASE BindObject
  <2> DEFINE f == Call(Name, Place, Fld.type, "bind", {Top.type})
  <2>1. /\ HasField /\ stack # <<>> /\ Push(f) /\ Made(Name, Place, Fld.type) /\ prog' = prog
        /\ boundary' = boundary /\ pc = "init" /\ pc' = "init" /\ Fld.kind \in {"ptr", "box"}
        /\ slot' = With(slot, Place, "object")
    BY <1>4 DEF BindObject, Walking, HasField
  <2>2. DOMAIN slot \subseteq DOMAIN slot' /\ Place \in DOMAIN slot'
    BY <2>1, WithGrows
  <2>3. Name \in Places /\ Place \in Places /\ Fld.type \in Types /\ Top.type \in Types
    BY <1>0, <2>1, Current DEF Field, Frame
  <2>4. /\ f \in Frame /\ f.i = 1 /\ f.mode = "bind"
        /\ f.name = Name /\ f.place = Place /\ f.type = Fld.type
    BY <2>3 DEF Call, Frame, Values
  <2> HIDE DEF f
  <2>5. PointersInv'
    <3>1. \E e \in nodes' : e.type = Fld.type /\ e.place = Place
      <4> DEFINE e == [name |-> Name, place |-> Place, type |-> Fld.type]
      <4>1. e \in nodes' /\ e.type = Fld.type /\ e.place = Place
        BY <2>1 DEF Made
      <4> QED BY <4>1
    <3> QED BY <1>0, <2>1, <2>2, <2>4, <3>1, StoredHeld, FieldPushed
  <2> QED BY <1>0, <2>1, <2>4, <2>5, DepthPush
<1>5. CASE StopAtBoundary
  <2> DEFINE f == [stack[Len(stack)] EXCEPT !.mode = "null", !.depth = 0]
  <2>1. /\ stack # <<>> /\ stack' = [stack EXCEPT ![Len(stack)] = f] /\ pc' = pc
        /\ boundary' = boundary \union {Top.name} /\ nodes' = nodes /\ slot' = slot /\ prog' = prog
    BY <1>5 DEF StopAtBoundary, Walking, HasField
  <2>2. Len(stack) \in Nat \ {0} /\ Top \in Frame /\ Top = stack[Len(stack)]
    BY <1>0, <2>1, Current DEF Top
  <2>3. /\ f.name = Top.name /\ f.place = Top.place /\ f.type = Top.type /\ f.i = Top.i
        /\ f.depth = 0
    BY <2>2 DEF Frame
  <2> HIDE DEF f
  <2>4. /\ Len(stack') = Len(stack) /\ stack'[Len(stack)] = f
        /\ \A k \in 1..Len(stack) : k # Len(stack) => stack'[k] = stack[k]
    BY <1>0, <2>1, <2>2
  <2>5. ASSUME NEW n \in nodes, NEW i \in DOMAIN Fields(n.type), ~ Provided(n, i)'
        PROVE  Awaited(n, i)' /\ pc = "init"
    <3>1. pc = "init" /\ Awaited(n, i)
      BY <1>0, <2>1, <2>5, HeldStays DEF PointersInv
    <3>2. PICK k \in 1..Len(stack) :
            /\ stack[k].name = n.name /\ stack[k].place = n.place /\ stack[k].type = n.type
            /\ stack[k].i <= i
      BY <3>1 DEF Awaited
    <3>3. /\ stack'[k].name = n.name /\ stack'[k].place = n.place /\ stack'[k].type = n.type
          /\ stack'[k].i <= i
      BY <2>2, <2>3, <2>4, <3>2
    <3> QED BY <2>4, <3>1, <3>3 DEF Awaited
  <2>6. PointersInv'
    BY <2>1, <2>5 DEF PointersInv, Fields
  <2>7. ASSUME NEW k \in 1..Len(stack'), pc = "init", stack'[k].mode # "bind"
        PROVE  \E b \in boundary' : IsPrefix(b, stack'[k].name)
                                     /\ Len(stack'[k].name) = Len(b) + stack'[k].depth
    <3>1. CASE k = Len(stack)
      <4>1. IsPrefix(Top.name, Top.name) /\ Len(Top.name) \in Nat
        BY <2>2 DEF IsPrefix, Frame, Places
      <4>2. stack'[k].name = Top.name /\ stack'[k].depth = 0 /\ Top.name \in boundary'
        BY <2>1, <2>3, <2>4, <3>1
      <4>3. Len(Top.name) = Len(Top.name) + 0
        BY <4>1
      <4> QED BY <4>1, <4>2, <4>3
    <3>2. CASE k # Len(stack)
      <4>1. stack'[k] = stack[k] /\ k \in 1..Len(stack)
        BY <2>4, <3>2
      <4> QED BY <1>0, <2>1, <2>7, <4>1 DEF DepthInv, FromBoundary
    <3> QED BY <3>1, <3>2
  <2> QED BY <2>1, <2>6, <2>7 DEF DepthInv, FromBoundary
<1>6. CASE NullPointer
  <2>1. /\ HasField /\ stack # <<>> /\ stack' = Next1 /\ nodes' = nodes /\ prog' = prog
        /\ boundary' = boundary /\ pc = "init" /\ pc' = "init" /\ Fld.kind \in {"ptr", "box"}
        /\ slot' = With(slot, Place, "NULL") /\ ~ Binding
    BY <1>6 DEF NullPointer, Walking, HasField, Step
  <2>2. DOMAIN slot \subseteq DOMAIN slot' /\ Place \in DOMAIN slot'
    BY <2>1, WithGrows
  <2>3. PointersInv'
    <3>1. \E b \in boundary' : IsPrefix(b, Top.name)
      BY <1>0, <2>1, NotBinding DEF UnderBoundary
    <3> QED BY <1>0, <2>1, <2>2, <3>1, StoredHeld, FieldDone
  <2> QED BY <1>0, <2>1, <2>3, DepthStep
<1>7. CASE BindInPlace
  <2> DEFINE f == [Call(Name, Place, Fld.type, Top.mode, {}) EXCEPT !.depth = Top.depth + 1]
  <2>1. /\ HasField /\ stack # <<>> /\ Push(f) /\ Made(Name, Place, Fld.type) /\ prog' = prog
        /\ boundary' = boundary /\ pc = "init" /\ pc' = "init" /\ Fld.kind = "val" /\ slot' = slot
    BY <1>7 DEF BindInPlace, Walking, HasField
  <2>2. /\ Name \in Places /\ Place \in Places /\ Fld.type \in Types /\ Top \in Frame
        /\ Len(stack) \in 1..Len(stack) /\ Top = stack[Len(stack)]
    BY <1>0, <2>1, Current DEF Field, Top
  <2>3. /\ f \in Frame /\ f.i = 1 /\ f.mode = Top.mode /\ f.depth = Top.depth + 1
        /\ f.name = Name /\ f.place = Place /\ f.type = Fld.type
    BY <2>2 DEF Call, Frame, Values
  <2> HIDE DEF f
  <2>4. PointersInv'
    BY <1>0, <2>1, <2>3, StoredHeld, FieldPushed
  <2>5. ASSUME f.mode # "bind" PROVE FromBoundary(f)
    <3>1. FromBoundary(Top)
      BY <1>0, <2>1, <2>2, <2>3, <2>5 DEF DepthInv
    <3>2. PICK b \in boundary : IsPrefix(b, Top.name) /\ Len(Top.name) = Len(b) + Top.depth
      BY <3>1 DEF FromBoundary
    <3>3. b \in Places /\ Top.name \in Places /\ Top.i \in Nat /\ Top.depth \in Nat /\ Len(b) \in Nat
      BY <1>0, <2>2 DEF IInv, TypeOK, Frame, Places
    <3>4. IsPrefix(b, Name) /\ Len(Name) = Len(Top.name) + 1
      BY <3>2, <3>3, PrefixAppend DEF Name
    <3> QED BY <2>3, <3>2, <3>3, <3>4 DEF FromBoundary
  <2> QED BY <1>0, <2>1, <2>3, <2>4, <2>5, DepthPush
<1>8. CASE BindVecElement
  <2> DEFINE f == Call(Name, Data(Place), Fld.type, "bind", {})
  <2>1. /\ HasField /\ stack # <<>> /\ Push(f) /\ Made(Name, Data(Place), Fld.type) /\ prog' = prog
        /\ boundary' = boundary /\ pc = "init" /\ pc' = "init" /\ Fld.kind = "vec"
        /\ slot' = With(slot, Data(Place), "object")
    BY <1>8 DEF BindVecElement, Walking, HasField
  <2>2. DOMAIN slot \subseteq DOMAIN slot' /\ Data(Place) \in DOMAIN slot'
    BY <2>1, WithGrows
  <2>3. Name \in Places /\ Data(Place) \in Places /\ Fld.type \in Types
    BY <1>0, <2>1, Current, DataTyped DEF Field
  <2>4. /\ f \in Frame /\ f.i = 1 /\ f.mode = "bind"
        /\ f.name = Name /\ f.place = Data(Place) /\ f.type = Fld.type
    BY <2>3 DEF Call, Frame, Values
  <2> HIDE DEF f
  <2>5. PointersInv'
    <3>1. \E e \in nodes' : e.type = Fld.type /\ e.place = Data(Place)
      <4> DEFINE e == [name |-> Name, place |-> Data(Place), type |-> Fld.type]
      <4>1. e \in nodes' /\ e.type = Fld.type /\ e.place = Data(Place)
        BY <2>1 DEF Made
      <4> QED BY <4>1
    <3> QED BY <1>0, <2>1, <2>2, <2>4, <3>1, StoredHeld, FieldPushed
  <2> QED BY <1>0, <2>1, <2>4, <2>5, DepthPush
<1>9. CASE NullVec
  <2>1. /\ HasField /\ stack # <<>> /\ stack' = Next1 /\ nodes' = nodes /\ prog' = prog
        /\ boundary' = boundary /\ pc = "init" /\ pc' = "init" /\ Fld.kind = "vec"
        /\ slot' = With(slot, Data(Place), "buffer") /\ ~ Binding
    BY <1>9 DEF NullVec, Walking, HasField, Step, Record
  <2>2. DOMAIN slot \subseteq DOMAIN slot' /\ Data(Place) \in DOMAIN slot'
    BY <2>1, WithGrows
  <2>3. PointersInv'
    <3>1. \E b \in boundary' : IsPrefix(b, Top.name)
      BY <1>0, <2>1, NotBinding DEF UnderBoundary
    <3> QED BY <1>0, <2>1, <2>2, <3>1, StoredHeld, FieldDone
  <2> QED BY <1>0, <2>1, <2>3, DepthStep
<1>10. CASE Return
  <2>1. /\ stack # <<>> /\ stack' = SubSeq(stack, 1, Len(stack) - 1) /\ Top.i > Len(Fields(Top.type))
        /\ nodes' = nodes /\ slot' = slot /\ boundary' = boundary /\ prog' = prog /\ pc' = pc
    BY <1>10 DEF Return
  <2>2. /\ Len(stack) \in Nat \ {0} /\ Len(stack') = Len(stack) - 1
        /\ \A k \in 1..(Len(stack) - 1) : stack'[k] = stack[k]
    BY <1>0, <2>1, FrontOf
  <2>3. DepthInv'
    <3> SUFFICES ASSUME pc = "init", NEW k \in 1..Len(stack'), stack'[k].mode # "bind"
                 PROVE  FromBoundary(stack'[k])
      BY <2>1 DEF DepthInv, FromBoundary
    <3>1. k \in 1..Len(stack) /\ stack'[k] = stack[k]
      BY <2>2
    <3> QED BY <1>0, <3>1 DEF DepthInv
  <2>4. ASSUME NEW n \in nodes, NEW i \in DOMAIN Fields(n.type), ~ Provided(n, i)'
        PROVE  Awaited(n, i)' /\ pc = "init"
    <3>1. pc = "init" /\ Awaited(n, i)
      BY <1>0, <2>1, <2>4, HeldStays DEF PointersInv
    <3>2. PICK k \in 1..Len(stack) :
            /\ stack[k].name = n.name /\ stack[k].place = n.place /\ stack[k].type = n.type
            /\ stack[k].i <= i
      BY <3>1 DEF Awaited
    <3>3. CASE k = Len(stack)
      <4>1. Top.type = n.type /\ Top.i <= i /\ Top.i \in Nat /\ Fields(Top.type) \in Seq(Field)
        BY <1>0, <2>1, <3>2, <3>3, Current DEF Top, Frame
      <4> QED BY <2>1, <2>4, <4>1
    <3>4. CASE k # Len(stack)
      <4>1. k \in 1..Len(stack') /\ stack'[k] = stack[k]
        BY <2>2, <3>4
      <4> QED BY <3>1, <3>2, <4>1 DEF Awaited
    <3> QED BY <3>3, <3>4
  <2>5. PointersInv'
    BY <2>1, <2>4 DEF PointersInv, Fields
  <2> QED BY <2>3, <2>5
<1>11. CASE Target
  <2>1. PICK q, v : slot' = With(slot, q, v)
    BY <1>11 DEF Target
  <2>2. /\ stack = <<>> /\ stack' = stack /\ nodes' = nodes /\ boundary' = boundary /\ prog' = prog
    BY <1>11 DEF Target
  <2>3. DOMAIN slot \subseteq DOMAIN slot'
    BY <2>1, WithGrows
  <2>4. PointersInv'
    BY <1>0, <2>2, <2>3, NothingOpen, AllHeldKeeps
  <2> QED BY <2>2, <2>4 DEF DepthInv
<1>12. CASE TargetKeepsPointers
  <2>1. /\ stack = <<>> /\ stack' = stack /\ nodes' = nodes /\ boundary' = boundary /\ prog' = prog
        /\ slot' = slot
    BY <1>12 DEF TargetKeepsPointers
  <2>2. PointersInv'
    BY <1>0, <2>1, NothingOpen, AllHeldKeeps
  <2> QED BY <2>1, <2>2 DEF DepthInv
<1>13. ASSUME pc = "dump", nodes' = nodes, boundary' = boundary, prog' = prog, slot' = slot
       PROVE  PointersInv'
  BY <1>0, <1>13, NothingOpen, AllHeldKeeps
<1>14. CASE DumpArgument \/ DumpNothing \/ DumpLeafUnbound \/ DumpLeafAtRunTime \/ DumpSkips
            \/ DumpLeafHit \/ DumpFollows \/ DumpInPlace \/ DumpDies \/ DumpEnds
  <2>1. /\ pc = "dump" /\ pc' # "init"
        /\ nodes' = nodes /\ boundary' = boundary /\ prog' = prog /\ slot' = slot
    BY <1>14 DEF DumpArgument, DumpNothing, DumpLeafUnbound, DumpLeafAtRunTime, DumpSkips,
                 DumpLeafHit, DumpFollows, DumpInPlace, DumpDies, DumpEnds, Follow, Dumping, Shown
  <2> QED BY <1>13, <2>1 DEF DepthInv
<1>18. CASE UNCHANGED vars
  BY <1>0, <1>18 DEF vars, PointersInv, DepthInv, FromBoundary, Awaited, Provided, GivenUp, Fields,
                     HoldsStruct, NodeAt, UnderBoundary
<1> QED BY <1>1, <1>2, <1>3, <1>4, <1>5, <1>6, <1>7, <1>8, <1>9, <1>10, <1>11, <1>12,
           <1>14, <1>18 DEF Next

(***************************************************************************)
(* Whatever the types, when the target is called each leaf, struct pointer *)
(* and Vec of each struct the harness made is bound, and outside boundary  *)
(* nodes a struct pointer or Vec leads to a struct of its type.  Not said  *)
(* of function pointers, of Vecs deeper in a boundary node than            *)
(* null_boundary_pointers goes, and of what the raw buffer of a boundary   *)
(* node's Vec is read as: these stay symbolic.                             *)
(***************************************************************************)
THEOREM PointersHeld == Spec => []NoLoosePointer
<1>1. Init => LInv
  BY InitInv, InitPointers DEF LInv
<1>2. LInv /\ [Next]_vars => LInv'
  BY NextInv, NextPointers DEF LInv
<1>3. LInv => NoLoosePointer
  BY DEF LInv, PointersInv, NoLoosePointer
<1> QED BY <1>1, <1>2, <1>3, PTL DEF Spec

-----------------------------------------------------------------------------
(***************************************************************************)
(* Names.  A struct is named after the field that leads to it, so its name *)
(* fixes its type; only below a Vec does its place differ from its name,   *)
(* and the second walk never goes below a Vec.                             *)
(***************************************************************************)
NodeOf(f) == [name |-> f.name, place |-> f.place, type |-> f.type]

Argument(n) == Len(n.name) = 1 /\ n.type = prog.args[n.name[1]]

ChildOf(n, p) ==
    \E i \in DOMAIN Fields(p.type) :
        n.name = Append(p.name, i) /\ n.type = Fields(p.type)[i].type

InVec(x) ==
    \E a \in nodes : \E j \in DOMAIN Fields(a.type) :
        Fields(a.type)[j].kind = "vec" /\ IsPrefix(Append(a.name, j), x)

NodesOK ==
    /\ \A n \in nodes : n.name # <<>> /\ (Argument(n) \/ \E p \in nodes : ChildOf(n, p))
    /\ \A m, n \in nodes : m.name = n.name => m.type = n.type
    /\ \A n \in nodes : n.place = n.name \/ InVec(n.name)

\* A buffer is that of a field of a node, or of the data pointer of a Vec.
OwnBuffer(x, y) ==
    \E n \in nodes : \E i \in DOMAIN Fields(n.type) :
        x = Append(n.name, i) /\ y = Append(n.place, i)

LeafOK == \A x \in DOMAIN leaf : OfVec(x) \/ OwnBuffer(x, leaf[x])

\* A call of the second walk.
Plain(f) ==
    /\ f.name # <<>> /\ ~ InVec(f.name)
    /\ \A n \in nodes : n.name = f.name => n.type = f.type

OnNode(k) == NodeOf(stack[k]) \in nodes
OnPlain(k) == Plain(stack[k])

CallsOK == \A k \in 1..Len(stack) : IF pc = "init" THEN OnNode(k) ELSE OnPlain(k)

NamesInv == NodesOK /\ LeafOK /\ CallsOK /\ (pc = "init" => reads = {})

\* What is at or below a node is below it or the node itself.
LEMMA PrefixOfAppend ==
    ASSUME NEW b \in Places, NEW t \in Places, NEW x \in Nat, IsPrefix(b, Append(t, x))
    PROVE  IsPrefix(b, t) \/ b = Append(t, x)
<1> USE DEF Places
<1> DEFINE u == Append(t, x)
           m == Len(b)
<1>1. /\ m \in Nat /\ Len(t) \in Nat /\ m <= Len(t) + 1 /\ Len(u) = Len(t) + 1 /\ u \in Seq(Nat)
      /\ \A k \in 1..Len(t) : u[k] = t[k] /\ t[k] \in Nat
      /\ \A k \in 1..m : u[k] \in Nat /\ b[k] \in Nat
  BY DEF IsPrefix
<1>2. SubSeq(b, 1, m) = SubSeq(u, 1, m)
  BY DEF IsPrefix
<1> HIDE DEF m, u
<1>3. /\ SubSeq(u, 1, m) \in Seq(Nat)
      /\ Len(SubSeq(u, 1, m)) = IF 1 <= m THEN m - 1 + 1 ELSE 0
      /\ \A i \in 1..(m - 1 + 1) : SubSeq(u, 1, m)[i] = u[1 + i - 1]
  BY <1>1, SubSeqProperties
<1>4. /\ SubSeq(b, 1, m) \in Seq(Nat)
      /\ Len(SubSeq(b, 1, m)) = IF 1 <= m THEN m - 1 + 1 ELSE 0
      /\ \A i \in 1..(m - 1 + 1) : SubSeq(b, 1, m)[i] = b[1 + i - 1]
  BY <1>1, SubSeqProperties
<1>5. \A i \in 1..m : b[i] = u[i]
  BY <1>1, <1>2, <1>3, <1>4
<1>6. CASE m = Len(t) + 1
  <2>1. b \in Seq(Nat) /\ u \in Seq(Nat) /\ Len(b) = Len(u)
    BY <1>1, <1>6 DEF m
  <2>2. \A i \in 1..Len(b) : b[i] = u[i]
    BY <1>5 DEF m
  <2>3. b = u
    BY <2>1, <2>2, SeqEqual
  <2> QED BY <2>3 DEF u
<1>7. CASE m <= Len(t)
  <2>1. /\ SubSeq(t, 1, m) \in Seq(Nat)
        /\ Len(SubSeq(t, 1, m)) = IF 1 <= m THEN m - 1 + 1 ELSE 0
        /\ \A i \in 1..(m - 1 + 1) : SubSeq(t, 1, m)[i] = t[1 + i - 1]
    <3>1. \A k \in 1..m : t[k] \in Nat
      BY <1>1, <1>7
    <3> QED BY <1>1, <1>7, <3>1, SubSeqProperties
  <2>2. /\ Len(SubSeq(t, 1, m)) = m /\ Len(SubSeq(u, 1, m)) = m
        /\ \A i \in 1..m : SubSeq(t, 1, m)[i] = t[i] /\ SubSeq(u, 1, m)[i] = u[i] /\ u[i] = t[i]
    BY <1>1, <1>3, <1>7, <2>1
  <2>3. SubSeq(t, 1, m) = SubSeq(u, 1, m)
    BY <1>3, <2>1, <2>2, SeqEqual
  <2> QED BY <1>1, <1>2, <1>7, <2>3 DEF IsPrefix, m
<1> QED BY <1>1, <1>6, <1>7

\* Names of fields are as distinct as the nodes and the fields.
LEMMA FieldNames ==
    ASSUME NEW x \in Places, NEW y \in Places, NEW i \in Nat, NEW j \in Nat,
           Append(x, i) = Append(y, j)
    PROVE  x = y /\ i = j
BY AppendInjective DEF Places

\* The fields of a node.
LEMMA NodeFields ==
    ASSUME IInv, NEW n \in nodes
    PROVE  /\ n.name \in Places /\ n.place \in Places /\ n.type \in Types
           /\ Fields(n.type) \in Seq(Field) /\ DOMAIN Fields(n.type) \subseteq Nat \ {0}
           /\ \A i \in DOMAIN Fields(n.type) :
                 Append(n.name, i) \in Places /\ Append(n.place, i) \in Places
                 /\ Len(Append(n.name, i)) = Len(n.name) + 1 /\ Len(n.name) \in Nat
<1>1. n.name \in Places /\ n.place \in Places /\ n.type \in Types
  BY DEF IInv, TypeOK
<1>2. Fields(n.type) \in Seq(Field)
  BY <1>1, HarnessAssumption DEF IInv, Fields
<1>3. DOMAIN Fields(n.type) \subseteq Nat \ {0}
  BY <1>2
<1> QED BY <1>1, <1>2, <1>3 DEF Places

\* What is below a Vec, or the data pointer of one, stays so when nodes are added.
LEMMA VecsStay ==
    ASSUME nodes \subseteq nodes', prog' = prog
    PROVE  /\ \A x : InVec(x) => InVec(x)'
           /\ \A x : OfVec(x) => OfVec(x)'
           /\ \A x, y : OwnBuffer(x, y) => OwnBuffer(x, y)'
           /\ \A t : Fields(t)' = Fields(t)
<1>1. \A t : Fields(t)' = Fields(t)
  BY DEF Fields
<1> QED BY <1>1 DEF InVec, OfVec, OwnBuffer

\* Nothing of the names changes when no node is added.
LEMMA SameNodes ==
    ASSUME nodes' = nodes, prog' = prog
    PROVE  /\ \A x : InVec(x) <=> InVec(x)'
           /\ \A x : OfVec(x) <=> OfVec(x)'
           /\ NodesOK => NodesOK'
<1>1. /\ \A x : InVec(x) <=> InVec(x)'
      /\ \A x : OfVec(x) <=> OfVec(x)'
      /\ \A n : Argument(n) <=> Argument(n)'
      /\ \A n, p : ChildOf(n, p) <=> ChildOf(n, p)'
  BY DEF InVec, OfVec, Fields, Argument, ChildOf
<1>2. ASSUME NodesOK PROVE NodesOK'
  <2>1. \A n \in nodes' : n.name # <<>> /\ (Argument(n)' \/ \E p \in nodes' : ChildOf(n, p)')
    BY <1>1, <1>2 DEF NodesOK
  <2>2. \A n \in nodes' : n.place = n.name \/ InVec(n.name)'
    BY <1>1, <1>2 DEF NodesOK
  <2> QED BY <1>2, <2>1, <2>2 DEF NodesOK
<1> QED BY <1>1, <1>2

\* The current call of the first walk is on a node.
LEMMA TopNode ==
    ASSUME IInv, NamesInv, pc = "init", stack # <<>>
    PROVE  /\ NodeOf(Top) \in nodes
           /\ NodeOf(Top).name = Top.name /\ NodeOf(Top).place = Top.place
           /\ NodeOf(Top).type = Top.type
           /\ HasField => Top.i \in DOMAIN Fields(Top.type)
<1>1. Len(stack) \in 1..Len(stack) /\ Top = stack[Len(stack)] /\ Top \in Frame
  BY Current DEF Top
<1>2. NodeOf(Top) \in nodes
  BY <1>1 DEF NamesInv, CallsOK, OnNode
<1>3. HasField => Top.i \in DOMAIN Fields(Top.type)
  BY <1>1, Current DEF HasField, Frame
<1> QED BY <1>2, <1>3 DEF NodeOf

\* A struct in a field of a node, named after the field.
LEMMA ChildAdded ==
    ASSUME IInv, NamesInv, pc = "init", HasField, prog' = prog,
           NEW q \in Places, q = Place \/ Fld.kind = "vec", Made(Name, q, Fld.type)
    PROVE  NodesOK'
<1> DEFINE c == [name |-> Name, place |-> q, type |-> Fld.type]
           top == NodeOf(Top)
<1>0. stack # <<>> /\ nodes' = nodes \union {c}
  BY DEF HasField, Made
<1>1. /\ top \in nodes /\ Top.i \in DOMAIN Fields(top.type) /\ Top.i \in Nat
      /\ Name = Append(top.name, Top.i) /\ Place = Append(top.place, Top.i)
      /\ Fld = Fields(top.type)[Top.i]
  BY <1>0, TopNode, Current DEF Name, Place, Fld, Frame
<1>2. /\ Name \in Places /\ Place \in Places /\ Len(Name) \in Nat
      /\ top.name \in Places /\ top.name # <<>> /\ Len(Name) = Len(top.name) + 1 /\ Len(Name) # 1
  <2>1. top.name \in Places /\ top.name # <<>>
    BY <1>1, NodeFields DEF NamesInv, NodesOK
  <2>2. Len(top.name) \in Nat /\ Len(top.name) # 0
    BY <2>1 DEF Places
  <2>3. Name \in Places /\ Place \in Places /\ Len(Name) = Len(top.name) + 1
    BY <1>1, NodeFields
  <2> QED BY <2>1, <2>2, <2>3
<1> HIDE DEF top
<1>3. \A n \in nodes' : n.name # <<>> /\ (Argument(n) \/ \E p \in nodes : ChildOf(n, p))
  <2>1. Name # <<>>
    BY <1>2
  <2>2. ChildOf(c, top)
    BY <1>1 DEF ChildOf
  <2>3. ASSUME NEW n \in nodes
        PROVE  n.name # <<>> /\ (Argument(n) \/ \E p \in nodes : ChildOf(n, p))
    BY DEF NamesInv, NodesOK
  <2>4. c.name = Name
    OBVIOUS
  <2> HIDE DEF c
  <2> QED BY <1>0, <1>1, <2>1, <2>2, <2>3, <2>4
<1>4. ASSUME NEW m \in nodes, m.name = Name
      PROVE  m.type = Fld.type
  <2>1. ~ Argument(m)
    BY <1>2, <1>4 DEF Argument
  <2>2. PICK p \in nodes : ChildOf(m, p)
    BY <2>1 DEF NamesInv, NodesOK
  <2>3. PICK i \in DOMAIN Fields(p.type) :
          m.name = Append(p.name, i) /\ m.type = Fields(p.type)[i].type
    BY <2>2 DEF ChildOf
  <2>4. p.name \in Places /\ i \in Nat
    BY NodeFields
  <2>5. p.name = top.name /\ i = Top.i
    <3>1. Append(p.name, i) = Append(top.name, Top.i) /\ top.name \in Places /\ Top.i \in Nat
      BY <1>1, <1>2, <1>4, <2>3
    <3> QED BY ONLY <2>4, <3>1, FieldNames
  <2>6. p.type = top.type
    BY <1>1, <2>5 DEF NamesInv, NodesOK
  <2> QED BY <1>1, <2>3, <2>5, <2>6
<1>5. \A m, n \in nodes' : m.name = n.name => m.type = n.type
  BY <1>0, <1>4 DEF NamesInv, NodesOK
<1>6. c.place = c.name \/ InVec(c.name)
  <2>1. CASE Fld.kind = "vec"
    <3>1. IsPrefix(Name, Name)
      BY <1>2 DEF IsPrefix, Places
    <3> QED BY <1>1, <2>1, <3>1 DEF InVec
  <2>2. CASE q = Place /\ top.place = top.name
    BY <1>1, <2>2
  <2>3. CASE q = Place /\ InVec(top.name)
    <3>1. PICK a \in nodes : \E j \in DOMAIN Fields(a.type) :
            Fields(a.type)[j].kind = "vec" /\ IsPrefix(Append(a.name, j), top.name)
      BY <2>3 DEF InVec
    <3>2. PICK j \in DOMAIN Fields(a.type) :
            Fields(a.type)[j].kind = "vec" /\ IsPrefix(Append(a.name, j), top.name)
      BY <3>1
    <3>3. Append(a.name, j) \in Places
      BY NodeFields
    <3>4. IsPrefix(Append(a.name, j), Name)
      BY <1>1, <1>2, <3>2, <3>3, PrefixAppend
    <3> QED BY <3>2, <3>4 DEF InVec
  <2> QED BY <1>1, <2>1, <2>2, <2>3 DEF NamesInv, NodesOK
<1>7. nodes \subseteq nodes' /\ \A n : Argument(n)' <=> Argument(n)
  BY <1>0 DEF Argument
<1>8. \A n, p : ChildOf(n, p)' <=> ChildOf(n, p)
  BY DEF ChildOf, Fields
<1>9. \A n \in nodes' : n.place = n.name \/ InVec(n.name)'
  BY <1>0, <1>6, <1>7, VecsStay DEF NamesInv, NodesOK
<1>10. \A n \in nodes' : n.name # <<>> /\ (Argument(n)' \/ \E p \in nodes' : ChildOf(n, p)')
  BY <1>3, <1>7, <1>8
<1> QED BY <1>5, <1>9, <1>10 DEF NodesOK

\* The object of an argument.
LEMMA ArgumentAdded ==
    ASSUME IInv, NamesInv, StartArgument
    PROVE  NodesOK'
<1> DEFINE x == <<arg + 1>>
           t == prog.args[arg + 1]
           c == [name |-> x, place |-> x, type |-> t]
<1>1. nodes' = nodes \union {c} /\ prog' = prog
  BY DEF StartArgument, Made
<1>2. x # <<>> /\ Len(x) = 1 /\ x[1] = arg + 1
  OBVIOUS
<1>3. Argument(c)
  BY <1>2 DEF Argument
<1> HIDE DEF x, t
<1>4. ASSUME NEW m \in nodes, m.name = x
      PROVE  m.type = t
  <2>1. ASSUME NEW p \in nodes, ChildOf(m, p) PROVE FALSE
    <3>1. PICK i \in DOMAIN Fields(p.type) : m.name = Append(p.name, i)
      BY <2>1 DEF ChildOf
    <3>2. Len(m.name) = Len(p.name) + 1 /\ p.name \in Places /\ p.name # <<>>
      BY <3>1, NodeFields DEF NamesInv, NodesOK
    <3>3. Len(p.name) \in Nat /\ Len(p.name) # 0
      BY <3>2 DEF Places
    <3>4. Len(m.name) = 1
      BY <1>2, <1>4
    <3>5. \A a \in Nat : a # 0 => a + 1 # 1
      OBVIOUS
    <3>6. Len(p.name) + 1 # 1
      BY ONLY <3>3, <3>5
    <3> QED BY ONLY <3>2, <3>4, <3>6
  <2>2. Argument(m)
    BY <2>1 DEF NamesInv, NodesOK
  <2> QED BY <1>2, <1>4, <2>2 DEF Argument, t
<1>5. \A m, n \in nodes' : m.name = n.name => m.type = n.type
  BY <1>1, <1>4 DEF NamesInv, NodesOK
<1>6. nodes \subseteq nodes' /\ \A n : Argument(n)' <=> Argument(n)
  BY <1>1 DEF Argument
<1>7. \A n, p : ChildOf(n, p)' <=> ChildOf(n, p)
  BY <1>1 DEF ChildOf, Fields
<1>8. \A n \in nodes' : n.place = n.name \/ InVec(n.name)'
  BY <1>1, <1>6, VecsStay DEF NamesInv, NodesOK
<1>9. \A n \in nodes' : n.name # <<>> /\ (Argument(n)' \/ \E p \in nodes' : ChildOf(n, p)')
  BY <1>1, <1>2, <1>3, <1>6, <1>7 DEF NamesInv, NodesOK
<1> QED BY <1>5, <1>8, <1>9 DEF NodesOK

\* Recording a buffer for a field of the current node.
LEMMA LeafAdded ==
    ASSUME LeafOK, nodes \subseteq nodes', prog' = prog,
           NEW x, NEW y, leaf' = With(leaf, x, y), OfVec(x) \/ OwnBuffer(x, y)
    PROVE  LeafOK'
<1>1. /\ DOMAIN leaf' = DOMAIN leaf \union {x}
      /\ \A z \in DOMAIN leaf' : leaf'[z] = IF z = x THEN y ELSE leaf[z]
  BY DEF With
<1>2. \A z \in DOMAIN leaf' : OfVec(z) \/ OwnBuffer(z, leaf'[z])
  BY <1>1 DEF LeafOK
<1>3. \A z, w : OwnBuffer(z, w) => \E n \in nodes' : \E i \in DOMAIN Fields(n.type)' :
          z = Append(n.name, i) /\ w = Append(n.place, i)
  BY VecsStay DEF OwnBuffer
<1> QED BY <1>2, <1>3, VecsStay DEF LeafOK, OwnBuffer

\* No buffer recorded.
LEMMA LeafKept ==
    ASSUME LeafOK, nodes \subseteq nodes', prog' = prog, leaf' = leaf
    PROVE  LeafOK'
<1>1. \A z, w : OwnBuffer(z, w) => \E n \in nodes' : \E i \in DOMAIN Fields(n.type)' :
          z = Append(n.name, i) /\ w = Append(n.place, i)
  BY VecsStay DEF OwnBuffer
<1> QED BY <1>1, VecsStay DEF LeafOK, OwnBuffer

\* The current field is a field of a node.
LEMMA TopBuffer ==
    ASSUME IInv, NamesInv, pc = "init", HasField
    PROVE  OwnBuffer(Name, Place) /\ (Fld.kind = "vec" => OfVec(Data(Name)))
<1>1. stack # <<>>
  BY DEF HasField
<1> QED BY <1>1, TopNode DEF OwnBuffer, OfVec, Name, Place, Fld

\* A call as it was is on what it was on.
LEMMA CallStays ==
    ASSUME nodes' = nodes, prog' = prog, NEW j, NEW k,
           stack'[k].name = stack[j].name, stack'[k].place = stack[j].place,
           stack'[k].type = stack[j].type
    PROVE  (OnNode(j) => OnNode(k)') /\ (OnPlain(j) => OnPlain(k)')
BY DEF OnNode, OnPlain, NodeOf, Plain, InVec, Fields

\* The calls keep what they are on.
LEMMA CallsTouched ==
    ASSUME CallsOK, nodes' = nodes, prog' = prog, pc = "init" <=> pc' = "init",
           Len(stack') = Len(stack),
           \A k \in 1..Len(stack) : /\ stack'[k].name = stack[k].name
                                    /\ stack'[k].place = stack[k].place
                                    /\ stack'[k].type = stack[k].type
    PROVE  CallsOK'
<1> SUFFICES ASSUME NEW k \in 1..Len(stack)
             PROVE  IF pc = "init" THEN OnNode(k)' ELSE OnPlain(k)'
  BY DEF CallsOK
<1> QED BY CallStays DEF CallsOK

\* The current call moved on.
LEMMA Next1Names ==
    ASSUME IInv, stack # <<>>
    PROVE  /\ Len(Next1) = Len(stack) /\ Len(stack) \in Nat \ {0}
           /\ \A k \in 1..Len(stack) : /\ Next1[k].name = stack[k].name
                                       /\ Next1[k].place = stack[k].place
                                       /\ Next1[k].type = stack[k].type
                                       /\ Next1[k].at = stack[k].at
<1>1. stack \in Seq(Frame) /\ Len(stack) \in Nat \ {0}
  BY Current DEF IInv, TypeOK
<1> QED BY <1>1 DEF Next1, Frame

\* A new call.
LEMMA CallsPushed ==
    ASSUME IInv, CallsOK, stack # <<>>, NEW f \in Frame, Push(f), pc' = pc, prog' = prog,
           IF pc = "init" THEN nodes' = nodes \union {NodeOf(f)} ELSE nodes' = nodes /\ Plain(f)
    PROVE  CallsOK'
<1>1. /\ Len(Next1) = Len(stack) /\ Len(stack) \in Nat \ {0} /\ Next1 \in Seq(Frame)
      /\ \A k \in 1..Len(stack) : /\ Next1[k].name = stack[k].name
                                  /\ Next1[k].place = stack[k].place
                                  /\ Next1[k].type = stack[k].type
  BY Next1Names, MovedOn
<1>2. /\ Len(stack') = Len(stack) + 1 /\ stack'[Len(stack) + 1] = f
      /\ \A k \in 1..Len(stack) : stack'[k] = Next1[k]
  BY <1>1 DEF Push
<1>3. CASE pc = "init"
  <2> SUFFICES ASSUME NEW k \in 1..Len(stack') PROVE OnNode(k)'
    BY <1>3 DEF CallsOK
  <2>1. CASE k = Len(stack) + 1
    BY <1>2, <1>3, <2>1 DEF OnNode
  <2>2. CASE k \in 1..Len(stack)
    <3>1. NodeOf(stack'[k]) = NodeOf(stack[k])
      BY <1>1, <1>2, <2>2 DEF NodeOf
    <3>2. OnNode(k)
      BY <1>3, <2>2 DEF CallsOK
    <3> QED BY <1>3, <3>1, <3>2 DEF OnNode
  <2> QED BY <1>1, <1>2, <2>1, <2>2
<1>4. CASE pc # "init"
  <2> SUFFICES ASSUME NEW k \in 1..Len(stack') PROVE OnPlain(k)'
    BY <1>4 DEF CallsOK
  <2>1. CASE k = Len(stack) + 1
    BY <1>2, <1>4, <2>1 DEF OnPlain, Plain, InVec, Fields
  <2>2. CASE k \in 1..Len(stack)
    <3>1. OnPlain(k)
      BY <1>4, <2>2 DEF CallsOK
    <3> QED BY <1>1, <1>2, <1>4, <2>2, <3>1, CallStays
  <2> QED BY <1>1, <1>2, <2>1, <2>2
<1> QED BY <1>3, <1>4

\* Before the first walk there are no names.
LEMMA InitNames == Init => NamesInv
<1> SUFFICES ASSUME Init PROVE NamesInv
  OBVIOUS
<1>1. nodes = {} /\ leaf = <<>> /\ DOMAIN leaf = {} /\ Len(stack) = 0 /\ reads = {} /\ pc = "init"
  BY DEF Init
<1> QED BY <1>1 DEF NamesInv, NodesOK, LeafOK, CallsOK

\* The first walk.
LEMMA BindNames ==
    ASSUME IInv, NamesInv,
           \/ BindNothing \/ BindLeaf \/ BindObject \/ NullPointer
           \/ BindInPlace \/ BindVecElement \/ NullVec
    PROVE  NamesInv'
<1> USE DEF walk, graph
<1>1. /\ HasField /\ stack # <<>> /\ pc = "init" /\ pc' = "init" /\ prog' = prog
      /\ reads' = reads /\ reads = {} /\ NodesOK /\ LeafOK /\ CallsOK
  BY DEF BindNothing, BindLeaf, BindObject, NullPointer, BindInPlace, BindVecElement, NullVec,
         Walking, HasField, NamesInv
<1>2. /\ Name \in Places /\ Place \in Places /\ Data(Place) \in Places /\ Fld.type \in Types
      /\ Top \in Frame /\ Top.type \in Types /\ Top.depth \in Nat /\ Top.mode \in {"bind", "null", "dump"}
  BY <1>1, Current, DataTyped DEF Field, Frame
<1>3. CASE BindNothing \/ BindLeaf \/ NullPointer \/ NullVec
  <2>1. nodes' = nodes /\ stack' = Next1
    BY <1>3 DEF BindNothing, BindLeaf, NullPointer, NullVec, Step, Record
  <2>2. NodesOK' /\ CallsOK'
    BY <1>1, <2>1, SameNodes, CallsTouched, Next1Names
  <2>3. LeafOK'
    <3>1. CASE BindNothing \/ NullPointer
      BY <1>1, <2>1, <3>1, LeafKept DEF BindNothing, NullPointer
    <3>2. CASE BindLeaf
      BY <1>1, <2>1, <3>2, TopBuffer, LeafAdded DEF BindLeaf, Record
    <3>3. CASE NullVec
      BY <1>1, <2>1, <3>3, TopBuffer, LeafAdded DEF NullVec, Walking, Record
    <3> QED BY <1>3, <3>1, <3>2, <3>3
  <2> QED BY <1>1, <2>2, <2>3 DEF NamesInv
<1>4. CASE BindObject
  <2> DEFINE g == Call(Name, Place, Fld.type, "bind", {Top.type})
  <2>1. Push(g) /\ Made(Name, Place, Fld.type) /\ RecordBox
    BY <1>4 DEF BindObject
  <2>2. g \in Frame /\ NodeOf(g) = [name |-> Name, place |-> Place, type |-> Fld.type]
    BY <1>2 DEF Call, Frame, Values, NodeOf
  <2> HIDE DEF g
  <2>3. nodes' = nodes \union {NodeOf(g)}
    BY <2>1, <2>2 DEF Made
  <2>4. NodesOK' /\ CallsOK'
    BY <1>1, <1>2, <2>1, <2>2, <2>3, ChildAdded, CallsPushed
  <2>5. LeafOK'
    <3>1. CASE Fld.kind = "box"
      BY <1>1, <2>1, <2>3, <3>1, TopBuffer, LeafAdded DEF RecordBox
    <3>2. CASE Fld.kind # "box"
      BY <1>1, <2>1, <2>3, <3>2, LeafKept DEF RecordBox
    <3> QED BY <3>1, <3>2
  <2> QED BY <1>1, <2>4, <2>5 DEF NamesInv
<1>5. CASE BindInPlace
  <2> DEFINE g == [Call(Name, Place, Fld.type, Top.mode, {}) EXCEPT !.depth = Top.depth + 1]
  <2>1. Push(g) /\ Made(Name, Place, Fld.type) /\ leaf' = leaf
    BY <1>5 DEF BindInPlace
  <2>2. g \in Frame /\ NodeOf(g) = [name |-> Name, place |-> Place, type |-> Fld.type]
    BY <1>2 DEF Call, Frame, Values, NodeOf
  <2> HIDE DEF g
  <2>3. nodes' = nodes \union {NodeOf(g)}
    BY <2>1, <2>2 DEF Made
  <2>4. NodesOK' /\ CallsOK'
    BY <1>1, <1>2, <2>1, <2>2, <2>3, ChildAdded, CallsPushed
  <2>5. LeafOK'
    BY <1>1, <2>1, <2>3, LeafKept
  <2> QED BY <1>1, <2>4, <2>5 DEF NamesInv
<1>6. CASE BindVecElement
  <2> DEFINE g == Call(Name, Data(Place), Fld.type, "bind", {})
  <2>1. Push(g) /\ Made(Name, Data(Place), Fld.type) /\ leaf' = leaf /\ Fld.kind = "vec"
    BY <1>6 DEF BindVecElement, Walking
  <2>2. g \in Frame /\ NodeOf(g) = [name |-> Name, place |-> Data(Place), type |-> Fld.type]
    BY <1>2 DEF Call, Frame, Values, NodeOf
  <2> HIDE DEF g
  <2>3. nodes' = nodes \union {NodeOf(g)}
    BY <2>1, <2>2 DEF Made
  <2>4. NodesOK' /\ CallsOK'
    BY <1>1, <1>2, <2>1, <2>2, <2>3, ChildAdded, CallsPushed
  <2>5. LeafOK'
    BY <1>1, <2>1, <2>3, LeafKept
  <2> QED BY <1>1, <2>4, <2>5 DEF NamesInv
<1> QED BY <1>3, <1>4, <1>5, <1>6

\* The second walk goes on to a struct that is not below a Vec, and the name fixes its type.
LEMMA PlainChild ==
    ASSUME IInv, NamesInv, pc # "init", HasField, Fld.kind # "vec",
           NEW g \in Frame, g.name = Name, g.type = Fld.type
    PROVE  Plain(g)
<1>1. /\ stack # <<>> /\ Len(stack) \in 1..Len(stack) /\ Top = stack[Len(stack)] /\ Top \in Frame
  BY Current DEF HasField, Top
<1>2. Plain(Top)
  BY <1>1 DEF NamesInv, CallsOK, OnPlain
<1>3. /\ Name \in Places /\ Top.name \in Places /\ Top.i \in Nat /\ Name = Append(Top.name, Top.i)
      /\ Len(Name) = Len(Top.name) + 1 /\ Len(Top.name) \in Nat /\ Len(Top.name) # 0
      /\ Name # <<>>
  <2>1. Top.name \in Places /\ Top.i \in Nat /\ Top.name # <<>>
    BY <1>1, <1>2 DEF Frame, Plain
  <2>2. Name \in Places /\ Place \in Places
    BY <1>1, Current
  <2>3. Len(Name) = Len(Top.name) + 1 /\ Len(Top.name) \in Nat /\ Len(Top.name) # 0 /\ Name # <<>>
    BY <2>1 DEF Name, Places
  <2> QED BY <2>1, <2>2, <2>3 DEF Name
<1>i. Top.name \in Places /\ Top.i \in Nat
  BY <1>3
<1>4. ASSUME NEW n \in nodes, n.name = Name
      PROVE  n.type = Fld.type
  <2>1. \A a \in Nat : a # 0 => a + 1 # 1
    OBVIOUS
  <2>2. Len(n.name) # 1
    BY <1>3, <1>4, <2>1
  <2>3. PICK p \in nodes : ChildOf(n, p)
    BY <2>2 DEF NamesInv, NodesOK, Argument
  <2>4. PICK i \in DOMAIN Fields(p.type) :
          n.name = Append(p.name, i) /\ n.type = Fields(p.type)[i].type
    BY <2>3 DEF ChildOf
  <2>5. p.name \in Places /\ i \in Nat
    BY NodeFields
  <2>6. p.name = Top.name /\ i = Top.i
    <3>1. Append(p.name, i) = Append(Top.name, Top.i)
      BY <1>3, <1>4, <2>4
    <3> QED BY ONLY <1>i, <2>5, <3>1, FieldNames
  <2>7. p.type = Top.type
    BY <1>2, <2>6 DEF Plain
  <2> QED BY <2>4, <2>6, <2>7 DEF Fld
<1>5. ASSUME InVec(Name) PROVE FALSE
  <2>1. PICK a \in nodes : \E j \in DOMAIN Fields(a.type) :
          Fields(a.type)[j].kind = "vec" /\ IsPrefix(Append(a.name, j), Name)
    BY <1>5 DEF InVec
  <2>2. PICK j \in DOMAIN Fields(a.type) :
          Fields(a.type)[j].kind = "vec" /\ IsPrefix(Append(a.name, j), Name)
    BY <2>1
  <2>3. Append(a.name, j) \in Places /\ a.name \in Places /\ j \in Nat
    BY NodeFields
  <2>4. CASE IsPrefix(Append(a.name, j), Top.name)
    BY <1>2, <2>2, <2>4 DEF Plain, InVec
  <2>5. CASE Append(a.name, j) = Name
    <3>1. a.name = Top.name /\ j = Top.i
      <4>1. Append(a.name, j) = Append(Top.name, Top.i)
        BY <1>3, <2>5
      <4>2. a.name \in Places /\ j \in Nat
        BY <2>3
      <4> QED BY ONLY <1>i, <4>1, <4>2, FieldNames
    <3>2. a.type = Top.type
      BY <1>2, <3>1 DEF Plain
    <3> QED BY <2>2, <3>1, <3>2 DEF Fld
  <2>6. IsPrefix(Append(a.name, j), Append(Top.name, Top.i))
    BY <1>3, <2>2
  <2>7. IsPrefix(Append(a.name, j), Top.name) \/ Append(a.name, j) = Append(Top.name, Top.i)
    BY ONLY <1>i, <2>3, <2>6, PrefixOfAppend
  <2> QED BY <1>3, <2>4, <2>5, <2>7
<1> QED BY <1>3, <1>4, <1>5 DEF Plain

\* An argument's own struct is not below a Vec.
LEMMA PlainArgument ==
    ASSUME IInv, NamesInv, NEW g, NEW a \in Nat, g.name = <<a>>, g.type = prog.args[a]
    PROVE  Plain(g)
<1>1. <<a>> # <<>> /\ Len(<<a>>) = 1 /\ <<a>>[1] = a
  OBVIOUS
<1>2. \A n \in nodes : Len(n.name) \in Nat /\ Len(n.name) # 0
  BY NodeFields DEF NamesInv, NodesOK, Places
<1>3. \A k \in Nat : k # 0 => k + 1 # 1 /\ ~ (k + 1 <= 1)
  OBVIOUS
<1>4. ASSUME NEW n \in nodes, n.name = <<a>>
      PROVE  n.type = prog.args[a]
  <2>1. ASSUME NEW p \in nodes, ChildOf(n, p) PROVE FALSE
    <3>1. PICK i \in DOMAIN Fields(p.type) : n.name = Append(p.name, i)
      BY <2>1 DEF ChildOf
    <3>2. Len(n.name) = Len(p.name) + 1
      BY <3>1, NodeFields
    <3>3. Len(p.name) + 1 # 1
      BY <1>2, <1>3
    <3> QED BY <1>1, <1>4, <3>2, <3>3
  <2>2. Argument(n)
    BY <2>1 DEF NamesInv, NodesOK
  <2> QED BY <1>1, <1>4, <2>2 DEF Argument
<1>5. ASSUME InVec(<<a>>) PROVE FALSE
  <2>1. PICK b \in nodes : \E j \in DOMAIN Fields(b.type) : IsPrefix(Append(b.name, j), <<a>>)
    BY <1>5 DEF InVec
  <2>2. PICK j \in DOMAIN Fields(b.type) : IsPrefix(Append(b.name, j), <<a>>)
    BY <2>1
  <2>3. Len(Append(b.name, j)) = Len(b.name) + 1
    BY NodeFields
  <2>4. Len(Append(b.name, j)) <= 1
    BY <1>1, <2>2 DEF IsPrefix
  <2>5. ~ (Len(b.name) + 1 <= 1)
    BY <1>2, <1>3
  <2> QED BY <2>3, <2>4, <2>5
<1> QED BY <1>1, <1>4, <1>5 DEF Plain

\* Every step keeps the account of names.
LEMMA NextNames == IInv /\ NamesInv /\ [Next]_vars => NamesInv'
<1> SUFFICES ASSUME IInv, NamesInv, [Next]_vars PROVE NamesInv'
  OBVIOUS
<1> USE DEF walk, graph
<1>0. NodesOK /\ LeafOK /\ CallsOK /\ (pc = "init" => reads = {}) /\ stack \in Seq(Frame)
  BY DEF NamesInv, IInv, TypeOK
<1>1. CASE StartArgument
  <2> DEFINE g == Call(<<arg + 1>>, <<arg + 1>>, prog.args[arg + 1], "bind", {})
  <2>1. /\ stack' = <<g>> /\ pc = "init" /\ pc' = "init" /\ prog' = prog /\ leaf' = leaf /\ reads' = reads
        /\ Made(<<arg + 1>>, <<arg + 1>>, prog.args[arg + 1])
    BY <1>1 DEF StartArgument
  <2>2. NodeOf(g) = [name |-> <<arg + 1>>, place |-> <<arg + 1>>, type |-> prog.args[arg + 1]]
    BY DEF NodeOf, Call
  <2> HIDE DEF g
  <2>3. Len(stack') = 1 /\ stack'[1] = g /\ nodes \subseteq nodes' /\ NodeOf(g) \in nodes'
    BY <2>1, <2>2 DEF Made
  <2>4. CallsOK'
    <3> SUFFICES ASSUME NEW k \in 1..Len(stack') PROVE OnNode(k)'
      BY <2>1 DEF CallsOK
    <3>1. stack'[k] = g
      BY <2>3
    <3> QED BY <2>3, <3>1 DEF OnNode
  <2>5. LeafOK'
    BY <1>0, <2>1, <2>3, LeafKept
  <2> QED BY <1>0, <1>1, <2>1, <2>4, <2>5, ArgumentAdded DEF NamesInv
<1>2. CASE \/ BindNothing \/ BindLeaf \/ BindObject \/ NullPointer
           \/ BindInPlace \/ BindVecElement \/ NullVec
  BY <1>2, BindNames
<1>3. CASE StopAtBoundary
  <2> DEFINE h == [stack[Len(stack)] EXCEPT !.mode = "null", !.depth = 0]
  <2>1. /\ stack # <<>> /\ stack' = [stack EXCEPT ![Len(stack)] = h]
        /\ nodes' = nodes /\ leaf' = leaf /\ prog' = prog /\ pc' = pc /\ reads' = reads
    BY <1>3 DEF StopAtBoundary, Walking, HasField
  <2>2. Len(stack) \in Nat \ {0} /\ stack[Len(stack)] \in Frame
    BY <1>0, <2>1
  <2>3. h.name = stack[Len(stack)].name /\ h.place = stack[Len(stack)].place
        /\ h.type = stack[Len(stack)].type
    BY <2>2 DEF Frame
  <2> HIDE DEF h
  <2>4. Len(stack') = Len(stack) /\ \A k \in 1..Len(stack) : /\ stack'[k].name = stack[k].name
                                                             /\ stack'[k].place = stack[k].place
                                                             /\ stack'[k].type = stack[k].type
    BY <1>0, <2>1, <2>2, <2>3
  <2> QED BY <1>0, <2>1, <2>4, SameNodes, CallsTouched, LeafKept DEF NamesInv
<1>4. CASE Return
  <2>1. /\ stack # <<>> /\ stack' = SubSeq(stack, 1, Len(stack) - 1)
        /\ nodes' = nodes /\ leaf' = leaf /\ prog' = prog /\ pc' = pc /\ reads' = reads
    BY <1>4 DEF Return
  <2>2. /\ Len(stack) \in Nat \ {0} /\ Len(stack') = Len(stack) - 1
        /\ \A k \in 1..(Len(stack) - 1) : stack'[k] = stack[k]
    BY <1>0, <2>1, FrontOf
  <2>3. CallsOK'
    <3> SUFFICES ASSUME NEW k \in 1..Len(stack')
                 PROVE  IF pc = "init" THEN OnNode(k)' ELSE OnPlain(k)'
      BY <2>1 DEF CallsOK
    <3>1. k \in 1..Len(stack) /\ stack'[k] = stack[k]
      BY <2>2
    <3>2. IF pc = "init" THEN OnNode(k) ELSE OnPlain(k)
      BY <1>0, <3>1 DEF CallsOK
    <3> QED BY <2>1, <3>1, <3>2, CallStays
  <2> QED BY <1>0, <2>1, <2>3, SameNodes, LeafKept DEF NamesInv
<1>5. CASE Target \/ TargetKeepsPointers
  <2>1. /\ stack = <<>> /\ stack' = stack /\ nodes' = nodes /\ leaf' = leaf /\ prog' = prog
        /\ pc' = "dump"
    BY <1>5 DEF Target, TargetKeepsPointers
  <2>2. CallsOK'
    BY <2>1 DEF CallsOK
  <2> QED BY <1>0, <2>1, <2>2, SameNodes, LeafKept DEF NamesInv
<1>6. CASE DumpArgument
  <2> DEFINE g == Call(<<arg + 1>>, <<arg + 1>>, prog.args[arg + 1], "dump", {})
  <2>1. /\ stack' = <<g>> /\ pc = "dump" /\ pc' = pc /\ prog' = prog /\ leaf' = leaf /\ nodes' = nodes
        /\ arg < Len(prog.args)
    BY <1>6 DEF DumpArgument
  <2>2. g.name = <<arg + 1>> /\ g.type = prog.args[arg + 1] /\ arg + 1 \in Nat
    BY <2>1, Arguments DEF Call
  <2> HIDE DEF g
  <2>3. Plain(g)
    BY <2>2, PlainArgument
  <2>4. CallsOK'
    <3> SUFFICES ASSUME NEW k \in 1..Len(stack') PROVE OnPlain(k)'
      BY <2>1 DEF CallsOK
    <3>1. stack'[k] = g
      BY <2>1
    <3> QED BY <2>1, <2>3, <3>1 DEF OnPlain, Plain, InVec, Fields
  <2> QED BY <1>0, <2>1, <2>4, SameNodes, LeafKept DEF NamesInv
<1>7. CASE DumpNothing \/ DumpLeafHit \/ DumpLeafUnbound \/ DumpLeafAtRunTime \/ DumpSkips
  <2>1. /\ stack # <<>> /\ stack' = Next1 /\ nodes' = nodes /\ leaf' = leaf /\ prog' = prog
        /\ pc = "dump" /\ pc' = pc
    BY <1>7 DEF DumpNothing, DumpLeafHit, DumpLeafUnbound, DumpLeafAtRunTime, DumpSkips,
                Dumping, Shown, HasField, Step
  <2>2. CallsOK'
    BY <1>0, <2>1, Next1Names, CallsTouched
  <2> QED BY <1>0, <2>1, <2>2, SameNodes, LeafKept DEF NamesInv
<1>8. CASE DumpFollows \/ DumpInPlace
  <2>2. /\ HasField /\ stack # <<>> /\ Fld.kind # "vec" /\ nodes' = nodes /\ leaf' = leaf
        /\ prog' = prog /\ pc = "dump" /\ pc' = pc
    BY <1>8, DumpCall
  <2>3. PICK g \in Frame : Push(g) /\ g.name = Name /\ g.type = Fld.type
    BY <1>8, DumpCall
  <2>4. Push(g)
    BY <2>3
  <2>5. CallsOK'
    BY <1>0, <2>2, <2>3, <2>4, PlainChild, CallsPushed
  <2> QED BY <1>0, <2>2, <2>5, SameNodes, LeafKept DEF NamesInv
<1>9. CASE DumpDies \/ DumpEnds
  <2>1. /\ stack' = stack /\ nodes' = nodes /\ leaf' = leaf /\ prog' = prog
        /\ pc = "dump" /\ pc' # "init"
    BY <1>9 DEF DumpDies, DumpEnds
  <2>2. CallsOK'
    BY <1>0, <2>1, CallsTouched
  <2> QED BY <1>0, <2>1, <2>2, SameNodes, LeafKept DEF NamesInv
<1>10. CASE UNCHANGED vars
  <2>1. /\ stack' = stack /\ nodes' = nodes /\ leaf' = leaf /\ prog' = prog /\ pc' = pc /\ reads' = reads
    BY <1>10 DEF vars
  <2>2. CallsOK'
    BY <1>0, <2>1, CallsTouched
  <2> QED BY <1>0, <2>1, <2>2, SameNodes, LeafKept DEF NamesInv
<1> QED BY <1>1, <1>2, <1>3, <1>4, <1>5, <1>6, <1>7, <1>8, <1>9, <1>10 DEF Next

\* What take_leaf_buffer returns under a field's name is the field's own buffer.
LEMMA ReadOwn ==
    ASSUME IInv, NamesInv, DumpLeafHit
    PROVE  OfVec(LeafName) \/ leaf[LeafName] = LeafName
<1>1. /\ pc = "dump" /\ HasField /\ stack # <<>> /\ Fld.kind \in {"leaf", "vec"}
      /\ LeafName \in DOMAIN leaf
  BY DEF DumpLeafHit, Dumping, Shown, HasField
<1>2. /\ Len(stack) \in 1..Len(stack) /\ Top = stack[Len(stack)] /\ Top \in Frame
      /\ Top.i \in DOMAIN Fields(Top.type)
  BY <1>1, Current DEF HasField, Top, Frame
<1>3. Plain(Top)
  BY <1>1, <1>2 DEF NamesInv, CallsOK, OnPlain
<1>4. /\ Top.name \in Places /\ Top.i \in Nat /\ Top.name # <<>> /\ Name = Append(Top.name, Top.i)
      /\ Name \in Places
  BY <1>1, <1>2, <1>3, Current DEF Frame, Plain, Name
<1>5. SUFFICES ASSUME OwnBuffer(LeafName, leaf[LeafName]), ~ OfVec(LeafName)
               PROVE  leaf[LeafName] = LeafName
  BY <1>1 DEF NamesInv, LeafOK
<1>6. PICK n \in nodes : \E i \in DOMAIN Fields(n.type) :
        LeafName = Append(n.name, i) /\ leaf[LeafName] = Append(n.place, i)
  BY <1>5 DEF OwnBuffer
<1>7. PICK i \in DOMAIN Fields(n.type) :
        LeafName = Append(n.name, i) /\ leaf[LeafName] = Append(n.place, i)
  BY <1>6
<1>8. n.name \in Places /\ i \in Nat
  BY NodeFields
<1>9. CASE Fld.kind = "leaf"
  <2>1. Append(n.name, i) = Append(Top.name, Top.i)
    BY <1>4, <1>7, <1>9 DEF LeafName
  <2>2. n.name = Top.name
    <3>1. Top.name \in Places /\ Top.i \in Nat
      BY <1>4
    <3> QED BY ONLY <1>8, <2>1, <3>1, FieldNames
  <2>3. n.place = n.name
    BY <1>3, <2>2 DEF Plain, NamesInv, NodesOK
  <2> QED BY <1>7, <2>3
<1>10. CASE Fld.kind = "vec"
  <2>1. LeafName = Append(Append(Name, 1), 1) /\ Append(Name, 1) \in Places
    <3>1. ASSUME NEW x \in Seq(Nat)
          PROVE  x \o <<1, 1>> = Append(Append(x, 1), 1) /\ Append(x, 1) \in Seq(Nat)
      <4>1. Append(x, 1) \in Seq(Nat) /\ Append(Append(x, 1), 1) \in Seq(Nat)
        OBVIOUS
      <4>2. /\ x \o <<1, 1>> \in Seq(Nat)
            /\ Len(x \o <<1, 1>>) = Len(x) + 2 /\ Len(Append(Append(x, 1), 1)) = Len(x) + 2
        OBVIOUS
      <4>3. \A k \in 1..(Len(x) + 2) : (x \o <<1, 1>>)[k] = Append(Append(x, 1), 1)[k]
        OBVIOUS
      <4> QED BY <4>1, <4>2, <4>3, SeqEqual
    <3> QED BY <1>4, <1>10, <3>1 DEF LeafName, Data, Places
  <2>2. n.name = Append(Name, 1)
    <3>1. Append(n.name, i) = Append(Append(Name, 1), 1)
      BY <1>7, <2>1
    <3>2. Append(Name, 1) \in Places /\ 1 \in Nat
      BY <2>1
    <3> QED BY ONLY <1>8, <3>1, <3>2, FieldNames
  <2>3. Len(n.name) # 1 /\ Len(Name) # 1
    <3>1. /\ Len(Name) = Len(Top.name) + 1 /\ Len(Append(Name, 1)) = Len(Name) + 1
          /\ Len(Top.name) \in Nat /\ Len(Top.name) # 0
      BY <1>4 DEF Places
    <3>2. \A a \in Nat : a # 0 => a + 1 # 1 /\ a + 1 + 1 # 1
      OBVIOUS
    <3> QED BY <2>2, <3>1, <3>2
  <2>4. PICK p \in nodes : ChildOf(n, p)
    BY <2>3 DEF NamesInv, NodesOK, Argument
  <2>5. PICK j \in DOMAIN Fields(p.type) : n.name = Append(p.name, j)
    BY <2>4 DEF ChildOf
  <2>6. p.name = Name
    <3>1. Append(p.name, j) = Append(Name, 1)
      BY <2>2, <2>5
    <3>2. p.name \in Places /\ j \in Nat /\ Name \in Places /\ 1 \in Nat
      BY <1>4, NodeFields
    <3> QED BY ONLY <3>1, <3>2, FieldNames
  <2>7. PICK q \in nodes : ChildOf(p, q)
    BY <2>3, <2>6 DEF NamesInv, NodesOK, Argument
  <2>8. PICK k \in DOMAIN Fields(q.type) : p.name = Append(q.name, k)
    BY <2>7 DEF ChildOf
  <2>9. q.name = Top.name /\ k = Top.i
    <3>1. Append(q.name, k) = Append(Top.name, Top.i)
      BY <1>4, <2>6, <2>8
    <3>2. q.name \in Places /\ k \in Nat /\ Top.name \in Places /\ Top.i \in Nat
      BY <1>4, NodeFields
    <3> QED BY ONLY <3>1, <3>2, FieldNames
  <2>10. q.type = Top.type
    BY <1>3, <2>9 DEF Plain
  <2>11. OfVec(Data(Append(q.name, k)))
    BY <1>10, <2>9, <2>10 DEF OfVec, Fld
  <2>12. LeafName = Data(Append(q.name, k))
    BY <1>10, <2>6, <2>8 DEF LeafName
  <2> QED BY <1>5, <2>11, <2>12
<1> QED BY <1>1, <1>9, <1>10

(***************************************************************************)
(* The walks keep LeafContract: buffers are recorded before the call, one  *)
(* at a time, and what is printed under a field's name after it is read    *)
(* from that field's buffer, whatever the layouts (take_leaf_buffer).      *)
(***************************************************************************)
THEOREM LeafContractKept == Spec => KeepsLeafContract
<1> USE DEF walk, graph
<1>1. Init => Contract!Init
  BY DEF Init, Contract!Init
<1>2. ASSUME IInv, NamesInv, [Next]_vars
      PROVE  [Contract!Next]_(Contract!vars)
  <2>1. NamesInv'
    BY <1>2, NextNames
  <2> DEFINE bound == DOMAIN leaf
             own == {r \in reads : ~ OfVec(r.path)}
  <2>2. pc = "init" => own = {}
    BY <1>2 DEF NamesInv
  <2>3. pc' = "init" => own' = {}
    BY <2>1 DEF NamesInv
  <2>4. CASE leaf' = leaf /\ (pc = "init" <=> pc' = "init") /\ (pc # "init" => own' = own)
    <3>1. (pc # "init")' = (pc # "init") /\ bound' = bound /\ own' = own
      BY <2>2, <2>3, <2>4
    <3> QED BY <3>1 DEF Contract!vars
  <2>5. CASE pc = "init" /\ pc' = "init" /\ leaf' # leaf
    <3>1. \E x, y : leaf' = With(leaf, x, y)
      BY <1>2, <2>5 DEF Next, vars, StartArgument, BindNothing, BindLeaf, BindObject, StopAtBoundary,
              NullPointer, BindInPlace, BindVecElement, NullVec, Return, Target, TargetKeepsPointers,
              DumpArgument, DumpNothing, DumpLeafHit, DumpLeafUnbound, DumpLeafAtRunTime, DumpSkips,
              DumpFollows, DumpDies, DumpInPlace, DumpEnds, Record, RecordBox, Dumping, Shown, Follow
    <3>2. PICK x : bound' = bound \union {x}
      BY <3>1 DEF With
    <3>3. own' = own
      BY <2>2, <2>3, <2>5
    <3>4. CASE x \in bound
      <4>1. bound' = bound
        BY <3>2, <3>4
      <4> QED BY <2>5, <3>3, <4>1 DEF Contract!vars
    <3>5. CASE x \notin bound
      <4>1. x \in bound' \ bound
        BY <3>2, <3>5
      <4> HIDE DEF bound, own
      <4> QED BY <2>5, <3>2, <3>3, <4>1 DEF Contract!Next, Contract!Bind, bound, own
    <3> QED BY <3>4, <3>5
  <2>6. CASE Target \/ TargetKeepsPointers
    <3>1. pc = "init" /\ pc' = "dump" /\ leaf' = leaf /\ reads' = reads
      BY <2>6 DEF Target, TargetKeepsPointers
    <3>2. own' = {} /\ own = {}
      BY <1>2, <3>1 DEF NamesInv
    <3> QED BY <3>1, <3>2 DEF Contract!Next, Contract!Call
  <2>7. CASE DumpLeafHit
    <3>1. /\ pc = "dump" /\ pc' = pc /\ leaf' = leaf /\ nodes' = nodes /\ prog' = prog
          /\ LeafName \in bound
          /\ reads' = reads \union {[path |-> LeafName, src |-> leaf[LeafName]]}
      BY <2>7 DEF DumpLeafHit, TakeLeafBuffer, Dumping, Shown
    <3>2. \A x : OfVec(x) <=> OfVec(x)'
      BY <3>1, SameNodes
    <3>3. CASE OfVec(LeafName)
      <4>1. own' = own
        BY <3>1, <3>2, <3>3
      <4> QED BY <3>1, <4>1 DEF Contract!vars
    <3>4. CASE ~ OfVec(LeafName)
      <4>1. leaf[LeafName] = LeafName
        BY <1>2, <2>7, <3>4, ReadOwn
      <4>2. own' = own \union {[path |-> LeafName, src |-> LeafName]}
        BY <3>1, <3>2, <3>4, <4>1
      <4>3. Contract!Read
        BY <3>1, <4>2 DEF Contract!Read
      <4> QED BY <4>3 DEF Contract!Next
    <3> QED BY <3>3, <3>4
  <2>8. CASE \/ StartArgument \/ BindNothing \/ BindLeaf \/ BindObject \/ StopAtBoundary
             \/ NullPointer \/ BindInPlace \/ BindVecElement \/ NullVec
    <3>1. pc = "init" /\ pc' = "init"
      BY <2>8 DEF StartArgument, BindNothing, BindLeaf, BindObject, StopAtBoundary,
                  NullPointer, BindInPlace, BindVecElement, NullVec, Walking
    <3> QED BY <2>4, <2>5, <3>1
  <2>9. ASSUME nodes' = nodes, prog' = prog, reads' = reads
        PROVE  own' = own
    BY <2>9, SameNodes
  <2>10. CASE \/ Return \/ DumpArgument \/ DumpNothing \/ DumpLeafUnbound \/ DumpLeafAtRunTime
              \/ DumpSkips \/ DumpFollows \/ DumpDies \/ DumpInPlace \/ DumpEnds \/ UNCHANGED vars
    <3>1. leaf' = leaf /\ nodes' = nodes /\ prog' = prog /\ reads' = reads /\ (pc = "init" <=> pc' = "init")
      BY <2>10 DEF Return, DumpArgument, DumpNothing, DumpLeafUnbound, DumpLeafAtRunTime, DumpSkips,
                   DumpFollows, DumpDies, DumpInPlace, DumpEnds, vars, Dumping, Shown, Follow
    <3> QED BY <2>4, <2>9, <3>1
  <2> QED BY <1>2, <2>6, <2>7, <2>8, <2>10 DEF Next
<1>3. Init => IInv /\ NamesInv
  BY InitInv, InitNames
<1>4. IInv /\ NamesInv /\ [Next]_vars => (IInv /\ NamesInv)'
  BY NextInv, NextNames
<1> QED BY <1>1, <1>2, <1>3, <1>4, PTL DEF Spec, KeepsLeafContract, Contract!Spec

-----------------------------------------------------------------------------
(***************************************************************************)
(* What the first walk leaves for the second.  The first walk never comes  *)
(* back: nothing lies below a field a call has not come to, so every       *)
(* object and every pointer gets a place no other has.                     *)
(***************************************************************************)
Under(p, x) == Len(p) < Len(x) /\ \A j \in 1..Len(p) : x[j] = p[j]

\* Below the path p only fields before i have been met.
Clear(x, p, i) == Under(p, x) => x[Len(p) + 1] < i

NestInv ==
    \A k \in 1..Len(stack) :
        /\ Len(stack[k].name) = k
        /\ \A l \in 1..Len(stack) : k < l =>
            /\ Len(stack[k].place) < Len(stack[l].place)
            /\ \A j \in 1..k : stack[l].name[j] = stack[k].name[j]

Used == DOMAIN slot \union {n.place : n \in nodes}

FreshInv ==
    pc = "init" =>
        /\ \A n \in nodes : n.name[1] <= arg
        /\ \A s \in Used : s # <<>> /\ s[1] <= arg
        /\ \A k \in 1..Len(stack) :
            /\ \A n \in nodes : Clear(n.name, stack[k].name, stack[k].i)
            /\ \A s \in Used : Clear(s, stack[k].place, stack[k].i)

\* The types a walk expands on its way to the struct called x.
HopsTo(m, x) ==
    Under(m.name, x) /\ Fields(m.type)[x[Len(m.name) + 1]].kind \in {"ptr", "box"}
Above(x) == {m.type : m \in {n \in nodes : HopsTo(n, x)}}

\* The first walk stops where the type is being expanded, and only there.
BoundaryOK == \A b \in boundary : \E n \in nodes : n.name = b /\ n.type \in Above(b)

Child(n, i) ==
    [name |-> Append(n.name, i), place |-> Append(n.place, i), type |-> Fields(n.type)[i].type]

Settled(n, i) == pc = "init" => ~ Awaited(n, i)

\* What a field the first walk is done with has got.
Bound(n, i) ==
    LET kind == Fields(n.type)[i].kind
        there == Append(n.place, i)
    IN  /\ kind = "leaf" => Append(n.name, i) \in DOMAIN leaf
        /\ kind = "val" => Child(n, i) \in nodes \/ GivenUp(Append(n.name, i))
        /\ kind \in {"ptr", "box"} =>
               \/ UnderBoundary(n.name)
               \/ /\ n.type \notin Above(n.name) /\ Child(n, i) \in nodes
                  /\ Points(there) \/ there \in changed

MadeInv ==
    \A n \in nodes : \A i \in DOMAIN Fields(n.type) : Settled(n, i) => Bound(n, i)

\* A call of the second walk is on a struct of the first, or inside a boundary node; the
\* pointer followed to it leads to the struct, unless the target has set it or one on the
\* way.
Seen(f) == NodeOf(f) \in nodes \/ InBoundary(f.name)
Led(f) == f.at = "object" \/ InBoundary(f.name) \/ \E s \in changed : IsPrefix(s, f.name)

DumpOK == pc # "init" => \A k \in 1..Len(stack) : Seen(stack[k]) /\ Led(stack[k])

\* The arguments' own structs are there, and the target has set nothing before the call.
ArgumentsMade ==
    /\ \A a \in 1..(IF pc = "init" THEN arg ELSE Len(prog.args)) :
        [name |-> <<a>>, place |-> <<a>>, type |-> prog.args[a]] \in nodes
    /\ pc = "init" => changed = {}

\* The calls of the first walk are of initialize_inner_objects and null_boundary_pointers.
ModesOK == pc = "init" => \A k \in 1..Len(stack) : stack[k].mode # "dump"

DiedOK == pc = "died" => HasField /\ Top.at # "object"

MatchInv ==
    /\ NestInv
    /\ FreshInv
    /\ BoundaryOK
    /\ MadeInv
    /\ ArgumentsMade
    /\ ModesOK
    /\ DumpOK
    /\ DiedOK

-----------------------------------------------------------------------------
\* A prefix, element by element.
LEMMA PrefixElements ==
    ASSUME NEW b \in Places, NEW t \in Places
    PROVE  IsPrefix(b, t) <=> Len(b) <= Len(t) /\ \A j \in 1..Len(b) : t[j] = b[j]
<1> USE DEF Places
<1>1. PICK m \in Nat, n \in Nat : m = Len(b) /\ n = Len(t)
  OBVIOUS
<1>2. (\A j \in 1..m : b[j] \in Nat) /\ (\A j \in 1..n : t[j] \in Nat)
  BY <1>1
<1>3. SUFFICES ASSUME m <= n
               PROVE  SubSeq(b, 1, m) = SubSeq(t, 1, m) <=> \A j \in 1..m : t[j] = b[j]
  BY <1>1 DEF IsPrefix
<1>4. \A j \in 1..m : t[j] \in Nat
  BY <1>2, <1>3
<1>5. /\ SubSeq(b, 1, m) \in Seq(Nat)
      /\ Len(SubSeq(b, 1, m)) = IF 1 <= m THEN m - 1 + 1 ELSE 0
      /\ \A i \in 1..(m - 1 + 1) : SubSeq(b, 1, m)[i] = b[1 + i - 1]
  BY <1>2, SubSeqProperties
<1>6. /\ SubSeq(t, 1, m) \in Seq(Nat)
      /\ Len(SubSeq(t, 1, m)) = IF 1 <= m THEN m - 1 + 1 ELSE 0
      /\ \A i \in 1..(m - 1 + 1) : SubSeq(t, 1, m)[i] = t[1 + i - 1]
  BY <1>4, SubSeqProperties
<1>7. /\ Len(SubSeq(b, 1, m)) = m /\ Len(SubSeq(t, 1, m)) = m
      /\ \A i \in 1..m : SubSeq(b, 1, m)[i] = b[i] /\ SubSeq(t, 1, m)[i] = t[i]
  BY <1>5, <1>6
<1>8. ASSUME \A j \in 1..m : t[j] = b[j]
      PROVE  SubSeq(b, 1, m) = SubSeq(t, 1, m)
  <2>1. \A i \in 1..m : SubSeq(b, 1, m)[i] = SubSeq(t, 1, m)[i]
    BY <1>7, <1>8
  <2> QED BY <1>5, <1>6, <1>7, <2>1, SeqEqual
<1>9. ASSUME SubSeq(b, 1, m) = SubSeq(t, 1, m)
      PROVE  \A j \in 1..m : t[j] = b[j]
  BY <1>7, <1>9
<1> QED BY <1>8, <1>9

\* The path x goes through field i of p.
Beyond(x, p, i) == x \in Places /\ Under(p, x) /\ x[Len(p) + 1] = i

\* The paths of a field and of its data pointer.
LEMMA FieldPaths ==
    ASSUME NEW p \in Places, NEW i \in Nat
    PROVE  /\ Beyond(Append(p, i), p, i) /\ Beyond(Data(Append(p, i)), p, i)
           /\ Len(Append(p, i)) = Len(p) + 1
           /\ Append(p, i) # <<>> /\ Data(Append(p, i)) # <<>>
           /\ p # <<>> => Append(p, i)[1] = p[1] /\ Data(Append(p, i))[1] = p[1]
<1> USE DEF Places
<1>1. PICK n \in Nat : n = Len(p)
  OBVIOUS
<1>2. PICK u \in Places : u = Append(p, i)
  <2>1. Append(p, i) \in Places
    OBVIOUS
  <2> QED BY ONLY <2>1
<1>3. Len(u) = n + 1 /\ u[n + 1] = i /\ \A j \in 1..n : u[j] = p[j]
  BY <1>1, <1>2
<1>4. PICK v \in Places : v = Data(u)
  BY DataTyped
<1>5. /\ Len(v) = n + 3
      /\ \A j \in 1..(n + 1) : v[j] = u[j]
  <2>1. <<1, 1>> \in Seq(Nat) /\ Len(<<1, 1>>) = 2
    OBVIOUS
  <2>2. v = u \o <<1, 1>>
    BY <1>4 DEF Data
  <2>3. /\ Len(v) = Len(u) + Len(<<1, 1>>)
        /\ \A j \in 1..Len(u) : v[j] = u[j]
    BY <2>1, <2>2, ConcatProperties
  <2> QED BY <1>3, <2>1, <2>3
<1>6. v[n + 1] = i /\ \A j \in 1..n : v[j] = p[j]
  BY <1>3, <1>5
<1>7. n < n + 1 /\ n < n + 3 /\ n + 1 # 0 /\ n + 3 # 0
  OBVIOUS
<1>8. Beyond(u, p, i) /\ Beyond(v, p, i)
  BY <1>1, <1>3, <1>5, <1>6, <1>7 DEF Beyond, Under
<1>9. p # <<>> => 1 \in 1..n
  BY <1>1
<1>10. u # <<>> /\ v # <<>>
  BY <1>3, <1>5, <1>7
<1> QED BY <1>1, <1>2, <1>3, <1>4, <1>6, <1>8, <1>9, <1>10

\* What holds of a path holds of what lies beyond it.
LEMMA ClearBeyond ==
    ASSUME NEW x, NEW p \in Places, NEW q \in Places, NEW i, NEW j,
           Len(q) < Len(p), Beyond(x, p, j), Clear(p, q, i)
    PROVE  Clear(x, q, i)
<1>1. PICK m \in Nat, n \in Nat, l \in Nat : m = Len(q) /\ n = Len(p) /\ l = Len(x)
  BY DEF Places, Beyond
<1>2. SUFFICES ASSUME Under(q, x) PROVE x[m + 1] < i
  BY <1>1 DEF Clear
<1>3. m < n /\ n < l /\ \A k \in 1..n : x[k] = p[k]
  BY <1>1 DEF Beyond, Under
<1>4. \A k \in 1..m : x[k] = q[k] /\ k \in 1..n
  BY <1>1, <1>2, <1>3 DEF Under
<1>5. Under(q, p)
  BY <1>1, <1>3, <1>4 DEF Under
<1>6. p[m + 1] < i /\ m + 1 \in 1..n
  BY <1>1, <1>3, <1>5 DEF Clear
<1> QED BY <1>3, <1>6

\* A path beyond the field a call is at is new, and nothing lies below it.
LEMMA NothingBeyond ==
    ASSUME NEW x \in Places, NEW p \in Places, NEW y, NEW j \in Nat,
           Clear(x, p, j), Beyond(y, p, j)
    PROVE  x # y /\ ~ Under(y, x)
<1>1. PICK m \in Nat, n \in Nat, l \in Nat : m = Len(p) /\ n = Len(y) /\ l = Len(x)
  BY DEF Places, Beyond
<1>2. m < n /\ y[m + 1] = j /\ \A k \in 1..m : y[k] = p[k]
  BY <1>1 DEF Beyond, Under
<1>3. ~ (j < j)
  OBVIOUS
<1>4. x # y
  BY <1>1, <1>2, <1>3 DEF Clear, Beyond
<1>5. ASSUME Under(y, x) PROVE FALSE
  <2>1. n < l /\ \A k \in 1..n : x[k] = y[k]
    BY <1>1, <1>5 DEF Under
  <2>2. m + 1 \in 1..n /\ m < l /\ \A k \in 1..m : k \in 1..n
    BY <1>2, <2>1
  <2>3. Under(p, x) /\ x[m + 1] = j
    BY <1>1, <1>2, <2>1, <2>2 DEF Under
  <2> QED BY <1>1, <1>3, <2>3 DEF Clear
<1> QED BY <1>4, <1>5

-----------------------------------------------------------------------------
\* What lies below a boundary node, or in a struct the first walk gave up at, is inside one.
LEMMA InsideBoundary ==
    ASSUME TypeOK, NEW x \in Places, NEW i \in Nat
    PROVE  /\ UnderBoundary(x) => InBoundary(Append(x, i))
           /\ InBoundary(x) => UnderBoundary(x)
           /\ GivenUp(x) => InBoundary(x)
<1>1. \A b \in boundary : b \in Places /\ Len(b) \in Nat
  BY DEF TypeOK, Places
<1>2. Len(x) \in Nat /\ NullDepth \in Nat /\ Append(x, i) \in Places
  BY HarnessAssumption DEF Places
<1>3. ASSUME NEW b \in boundary, IsPrefix(b, x)
      PROVE  IsPrefix(b, Append(x, i)) /\ b # Append(x, i)
  <2>1. IsPrefix(b, Append(x, i)) /\ Len(Append(x, i)) = Len(x) + 1
    BY <1>1, <1>3, PrefixAppend
  <2>2. Len(b) <= Len(x)
    BY <1>3 DEF IsPrefix
  <2>3. b # Append(x, i)
    BY ONLY <1>1, <1>2, <2>1, <2>2
  <2> QED BY <2>1, <2>3
<1>4. UnderBoundary(x) => InBoundary(Append(x, i))
  BY <1>3 DEF UnderBoundary, InBoundary
<1>5. ASSUME GivenUp(x)
      PROVE  InBoundary(x)
  <2>1. PICK b \in boundary : IsPrefix(b, x) /\ Len(x) > Len(b) + NullDepth
    BY <1>5 DEF GivenUp
  <2>2. b # x
    BY ONLY <1>1, <1>2, <2>1
  <2> QED BY <2>1, <2>2 DEF InBoundary
<1>6. InBoundary(x) => UnderBoundary(x)
  BY DEF InBoundary, UnderBoundary
<1> QED BY <1>4, <1>5, <1>6

\* An open call and the current one: the name of the one begins the name of the other.
LEMMA OpenNames ==
    ASSUME IInv, NestInv, stack # <<>>, NEW k \in 1..Len(stack)
    PROVE  /\ stack[k] \in Frame
           /\ stack[k].name \in Places /\ Top.name \in Places
           /\ Len(stack[k].name) = k /\ Len(Top.name) = Len(stack)
           /\ \A j \in 1..k : Top.name[j] = stack[k].name[j]
           /\ k < Len(stack) => Under(stack[k].name, Top.name)
           /\ IsPrefix(stack[k].name, Top.name)
<1>1. PICK n \in Nat \ {0} : n = Len(stack)
  BY Current
<1>2. stack \in Seq(Frame) /\ n \in 1..Len(stack) /\ k \in Nat
  BY <1>1 DEF IInv, TypeOK
<1>3. stack[k] \in Frame /\ stack[k].name \in Places /\ Top.name \in Places /\ Top = stack[n]
  <2>1. stack[k] \in Frame /\ stack[n] \in Frame /\ Top = stack[n]
    BY <1>1, <1>2 DEF Top
  <2> QED BY <2>1 DEF Frame
<1>4. Len(stack[k].name) = k /\ Len(Top.name) = n
  BY <1>1, <1>2, <1>3 DEF NestInv
<1>5. \A j \in 1..k : Top.name[j] = stack[k].name[j]
  <2>1. CASE k = n
    BY <1>3, <2>1
  <2>2. CASE k # n
    <3>1. k < n
      BY <1>1, <1>2, <2>2
    <3> QED BY <1>1, <1>2, <1>3, <3>1 DEF NestInv
  <2> QED BY <2>1, <2>2
<1>6. k < n => Under(stack[k].name, Top.name)
  BY <1>4, <1>5 DEF Under
<1>7. IsPrefix(stack[k].name, Top.name)
  <2>1. k <= n
    BY <1>1
  <2> QED BY <1>3, <1>4, <1>5, <2>1, PrefixElements
<1> QED BY <1>1, <1>3, <1>4, <1>5, <1>6, <1>7

\* A call has the type of the struct it is named after.
LEMMA OpenTypes ==
    ASSUME NamesInv, NEW k \in 1..Len(stack), NEW m \in nodes, m.name = stack[k].name
    PROVE  m.type = stack[k].type
<1>1. CASE pc = "init"
  <2>1. NodeOf(stack[k]) \in nodes
    BY <1>1 DEF NamesInv, CallsOK, OnNode
  <2>2. NodeOf(stack[k]).name = stack[k].name /\ NodeOf(stack[k]).type = stack[k].type
    BY DEF NodeOf
  <2> QED BY <2>1, <2>2 DEF NamesInv, NodesOK
<1>2. CASE pc # "init"
  BY <1>2 DEF NamesInv, CallsOK, OnPlain, Plain
<1> QED BY <1>1, <1>2

\* The guard of both walks: the types expanded on the way to the current struct.
LEMMA ExpandedIsVisited ==
    ASSUME IInv, NamesInv, NestInv, stack # <<>>, NEW m \in nodes, HopsTo(m, Top.name)
    PROVE  m.type \in visited
<1>1. PICK n \in Nat \ {0} : n = Len(stack)
  BY Current
<1>2. m.name \in Places /\ m.name # <<>>
  BY NodeFields DEF NamesInv, NodesOK
<1>3. PICK j \in Nat \ {0} : j = Len(m.name)
  <2>1. Len(m.name) \in Nat \ {0}
    BY <1>2 DEF Places
  <2> QED BY ONLY <2>1
<1>4. n \in 1..Len(stack) /\ Top.name \in Places /\ Len(Top.name) = n
  BY <1>1, OpenNames
<1>5. j < n /\ \A i \in 1..j : Top.name[i] = m.name[i]
  BY <1>3, <1>4 DEF HopsTo, Under
<1>6. j \in 1..Len(stack) /\ j + 1 \in 1..Len(stack)
  BY <1>1, <1>5
<1>7. stack[j].name \in Places /\ Len(stack[j].name) = j /\ \A i \in 1..j : Top.name[i] = stack[j].name[i]
  BY <1>6, OpenNames
<1>8. m.name = stack[j].name
  <2>1. \A i \in 1..j : m.name[i] = stack[j].name[i]
    BY <1>5, <1>7
  <2> QED BY <1>2, <1>3, <1>7, <2>1, SeqEqual DEF Places
<1>9. m.type = stack[j].type
  BY <1>6, <1>8, OpenTypes
<1>10. Last(stack[j + 1].name) = Top.name[j + 1]
  <2>1. stack[j + 1].name \in Places /\ Len(stack[j + 1].name) = j + 1
        /\ Top.name[j + 1] = stack[j + 1].name[j + 1]
    <3>1. \A i \in 1..(j + 1) : Top.name[i] = stack[j + 1].name[i]
      BY <1>6, OpenNames
    <3>2. stack[j + 1].name \in Places /\ Len(stack[j + 1].name) = j + 1
      BY <1>6, OpenNames
    <3> QED BY <3>1, <3>2
  <2> QED BY <2>1 DEF Last
<1>11. Hop(stack, j + 1)
  <2>1. Fields(m.type)[Top.name[j + 1]].kind \in {"ptr", "box"}
    BY <1>3 DEF HopsTo
  <2>2. j + 1 > 1 /\ j + 1 - 1 = j
    OBVIOUS
  <2> QED BY <1>9, <1>10, <2>1, <2>2 DEF Hop
<1>12. stack[j + 1].by = {stack[j].type}
  <2>1. \A k \in 1..Len(stack) : Hop(stack, k) => stack[k].by = {stack[k - 1].type}
    BY DEF IInv, Good, ErasesHop
  <2>2. j + 1 - 1 = j
    OBVIOUS
  <2> QED BY <1>6, <1>11, <2>1, <2>2
<1> QED BY <1>6, <1>9, <1>12 DEF IInv, Good, Balanced

\* Conversely, a type in visited_structs is that of an open call with a pointer on the way.
LEMMA VisitedIsExpanded ==
    ASSUME IInv, NestInv, stack # <<>>, NEW t \in visited
    PROVE  \E k \in 1..(Len(stack) - 1) :
               /\ stack[k].type = t
               /\ Under(stack[k].name, Top.name)
               /\ Fields(t)[Top.name[Len(stack[k].name) + 1]].kind \in {"ptr", "box"}
<1>1. PICK n \in Nat \ {0} : n = Len(stack)
  BY Current
<1>2. PICK j \in 1..n : t \in stack[j].by
  BY <1>1 DEF IInv, Good, Balanced
<1>3. Hop(stack, j) /\ t = stack[j - 1].type
  BY <1>1, <1>2 DEF IInv, Good, ErasesHop
<1>4. j > 1
  BY <1>3 DEF Hop
<1>5. PICK k \in Nat : k = j - 1 /\ k \in 1..(n - 1) /\ j = k + 1 /\ k < n
  BY <1>2, <1>4
<1>6. j \in 1..Len(stack) /\ k \in 1..Len(stack)
  BY <1>1, <1>2, <1>5
<1>7. Len(stack[k].name) = k /\ Under(stack[k].name, Top.name)
  BY <1>1, <1>5, <1>6, OpenNames
<1>8. Last(stack[j].name) = Top.name[j]
  <2>1. \A i \in 1..j : Top.name[i] = stack[j].name[i]
    BY <1>6, OpenNames
  <2>2. stack[j].name \in Places /\ Len(stack[j].name) = j
    BY <1>6, OpenNames
  <2> QED BY <1>2, <2>1, <2>2 DEF Last
<1>9. Fields(t)[Top.name[j]].kind \in {"ptr", "box"}
  BY <1>3, <1>8 DEF Hop
<1> QED BY <1>1, <1>3, <1>5, <1>7, <1>9

\* At a node the first walk stopped at, the type is visited.
LEMMA BoundaryIsVisited ==
    ASSUME IInv, NamesInv, NestInv, BoundaryOK, stack # <<>>, Top.name \in boundary
    PROVE  Top.type \in visited
<1>1. PICK n \in nodes : n.name = Top.name /\ n.type \in Above(Top.name)
  BY DEF BoundaryOK
<1>2. PICK m \in nodes : HopsTo(m, Top.name) /\ m.type = n.type
  BY <1>1 DEF Above
<1>3. m.type \in visited
  BY <1>2, ExpandedIsVisited
<1>4. Len(stack) \in 1..Len(stack) /\ Top = stack[Len(stack)]
  BY Current DEF Top
<1>5. n.type = Top.type
  BY <1>1, <1>4, OpenTypes
<1> QED BY <1>2, <1>3, <1>5

\* Prefixes of prefixes.
LEMMA PrefixOfPrefix ==
    ASSUME NEW b \in Places, NEW p \in Places, NEW x \in Places, IsPrefix(b, p), IsPrefix(p, x)
    PROVE  IsPrefix(b, x)
<1>1. PICK k \in Nat, m \in Nat, n \in Nat : k = Len(b) /\ m = Len(p) /\ n = Len(x)
  BY DEF Places
<1>2. k <= m /\ \A j \in 1..k : p[j] = b[j]
  BY <1>1, PrefixElements
<1>3. m <= n /\ \A j \in 1..m : x[j] = p[j]
  BY <1>1, PrefixElements
<1>4. k <= n /\ \A j \in 1..k : x[j] = b[j]
  BY <1>2, <1>3
<1> QED BY <1>1, <1>4, PrefixElements

\* In the second walk: a type visited at a node is below a boundary node.
LEMMA VisitedIsUnderBoundary ==
    ASSUME IInv, NamesInv, MatchInv, pc # "init", HasField, Fld.kind \in {"ptr", "box"},
           Top.type \in visited
    PROVE  UnderBoundary(Top.name)
<1>0. stack # <<>> /\ IInv /\ NestInv /\ TypeOK
  BY DEF HasField, MatchInv, IInv
<1>1. PICK n \in Nat \ {0} : n = Len(stack) /\ n \in 1..Len(stack) /\ Top = stack[n]
  BY <1>0, Current DEF Top
<1>2. PICK k \in 1..(n - 1) :
        /\ stack[k].type = Top.type
        /\ Under(stack[k].name, Top.name)
        /\ Fields(Top.type)[Top.name[Len(stack[k].name) + 1]].kind \in {"ptr", "box"}
  BY <1>0, <1>1, VisitedIsExpanded
<1>3. k \in 1..Len(stack) /\ stack[k].name \in Places /\ Top.name \in Places
      /\ IsPrefix(stack[k].name, Top.name)
  <2>1. k \in 1..Len(stack)
    BY <1>1
  <2> QED BY <1>0, <2>1, OpenNames
<1>4. CASE InBoundary(Top.name)
  BY <1>4 DEF InBoundary, UnderBoundary
<1>5. CASE InBoundary(stack[k].name)
  <2>1. PICK b \in boundary : IsPrefix(b, stack[k].name)
    BY <1>5 DEF InBoundary
  <2>2. b \in Places
    BY <1>0 DEF TypeOK
  <2> QED BY <1>3, <2>1, <2>2, PrefixOfPrefix DEF UnderBoundary
<1>6. CASE OnNode(k) /\ OnNode(n)
  <2>1. NodeOf(stack[k]) \in nodes /\ NodeOf(Top) \in nodes
    BY <1>1, <1>6 DEF OnNode
  <2>2. /\ NodeOf(stack[k]).name = stack[k].name /\ NodeOf(stack[k]).type = Top.type
        /\ NodeOf(Top).name = Top.name /\ NodeOf(Top).type = Top.type
    BY <1>2 DEF NodeOf
  <2>3. Top.type \in Above(Top.name)
    BY <1>2, <2>1, <2>2 DEF Above, HopsTo
  <2>4. Settled(NodeOf(Top), Top.i) /\ Top.i \in DOMAIN Fields(Top.type)
    <3>1. Top.i \in Nat \ {0} /\ Fields(Top.type) \in Seq(Field) /\ Top.i <= Len(Fields(Top.type))
      BY <1>0, Current DEF HasField, Frame
    <3> QED BY <3>1 DEF Settled
  <2>5. Bound(NodeOf(Top), Top.i)
    BY <2>1, <2>2, <2>4 DEF MatchInv, MadeInv
  <2> QED BY <2>2, <2>3, <2>5 DEF Bound, Fld
<1>7. /\ OnNode(k) \/ InBoundary(stack[k].name)
      /\ OnNode(n) \/ InBoundary(Top.name)
  BY <1>1, <1>3 DEF MatchInv, DumpOK, Seen, OnNode
<1> QED BY <1>4, <1>5, <1>6, <1>7

-----------------------------------------------------------------------------
(***************************************************************************)
(* A step of the first walk on the current field: it may store a pointer   *)
(* and make a struct, both at a new place y.                               *)
(***************************************************************************)
Struct(n, p, t) == [name |-> n, place |-> p, type |-> t]

Grows(y) ==
    /\ pc = "init" /\ HasField /\ y \in {Place, Data(Place)}
    /\ slot' = slot \/ \E v : slot' = With(slot, y, v)
    /\ nodes' = nodes \/ nodes' = nodes \union {Struct(Name, y, Fld.type)}
    /\ DOMAIN leaf \subseteq DOMAIN leaf'
    /\ UNCHANGED <<prog, pc, arg, boundary, changed>>

\* The place and the name lie beyond the current field.
LEMMA GrowsWhere ==
    ASSUME IInv, NEW y, Grows(y)
    PROVE  /\ y \in Places /\ Name \in Places /\ Place \in Places /\ Top.i \in Nat \ {0}
           /\ Top.name \in Places /\ Top.place \in Places
           /\ Beyond(y, Top.place, Top.i) /\ Beyond(Name, Top.name, Top.i)
           /\ y # <<>> /\ (Top.place # <<>> => y[1] = Top.place[1])
           /\ (Top.name # <<>> => Name[1] = Top.name[1])
           /\ stack # <<>>
<1>1. stack # <<>>
  BY DEF Grows, HasField
<1>2. Top.name \in Places /\ Top.place \in Places /\ Top.i \in Nat \ {0}
  BY <1>1, Current DEF Frame
<1>3. /\ Beyond(Name, Top.name, Top.i) /\ (Top.name # <<>> => Name[1] = Top.name[1])
  BY <1>2, FieldPaths DEF Name
<1>4. /\ Beyond(Place, Top.place, Top.i) /\ Beyond(Data(Place), Top.place, Top.i)
      /\ Place # <<>> /\ Data(Place) # <<>>
      /\ Top.place # <<>> => Place[1] = Top.place[1] /\ Data(Place)[1] = Top.place[1]
  BY <1>2, FieldPaths DEF Place
<1>5. y = Place \/ y = Data(Place)
  BY DEF Grows
<1> QED BY <1>1, <1>2, <1>3, <1>4, <1>5 DEF Beyond

\* What is there stays, and only the place y and the name of the field are added.
LEMMA GrowsFacts ==
    ASSUME IInv, NEW y, Grows(y)
    PROVE  /\ nodes \subseteq nodes'
           /\ \A n \in nodes' : n \in nodes \/ n = Struct(Name, y, Fld.type)
           /\ \A x \in DOMAIN slot : x \in DOMAIN slot' /\ (x # y => slot'[x] = slot[x])
           /\ \A x \in DOMAIN slot' : x \in DOMAIN slot \/ x = y
           /\ \A x \in Used' : x \in Used \/ x = y
           /\ \A t : Fields(t)' = Fields(t)
<1>1. /\ nodes \subseteq nodes'
      /\ \A n \in nodes' : n \in nodes \/ n = Struct(Name, y, Fld.type)
  BY DEF Grows
<1>2. /\ \A x \in DOMAIN slot : x \in DOMAIN slot' /\ (x # y => slot'[x] = slot[x])
      /\ \A x \in DOMAIN slot' : x \in DOMAIN slot \/ x = y
  <2>1. CASE slot' = slot
    BY <2>1
  <2>2. ASSUME NEW v, slot' = With(slot, y, v)
        PROVE  /\ \A x \in DOMAIN slot : x \in DOMAIN slot' /\ (x # y => slot'[x] = slot[x])
               /\ \A x \in DOMAIN slot' : x \in DOMAIN slot \/ x = y
    <3>1. DOMAIN With(slot, y, v) = DOMAIN slot \union {y}
      BY DEF With
    <3>2. \A x \in DOMAIN slot \union {y} : With(slot, y, v)[x] = IF x = y THEN v ELSE slot[x]
      BY DEF With
    <3> QED BY <2>2, <3>1, <3>2
  <2> QED BY <2>1, <2>2 DEF Grows
<1>3. \A x \in Used' : x \in Used \/ x = y
  <2> SUFFICES ASSUME NEW x \in Used' PROVE x \in Used \/ x = y
    OBVIOUS
  <2>1. CASE x \in DOMAIN slot'
    BY <1>2, <2>1 DEF Used
  <2>2. ASSUME NEW n \in nodes', x = n.place
        PROVE  x \in Used \/ x = y
    <3>1. CASE n \in nodes
      BY <2>2, <3>1 DEF Used
    <3>2. CASE n = Struct(Name, y, Fld.type)
      BY <2>2, <3>2 DEF Struct
    <3> QED BY <1>1, <2>2, <3>1, <3>2
  <2> QED BY <2>1, <2>2 DEF Used
<1>4. \A t : Fields(t)' = Fields(t)
  BY DEF Grows, Fields
<1> QED BY <1>1, <1>2, <1>3, <1>4

\* Nothing is at y or below, and no struct has the name or one below it.
LEMMA GrowsFresh ==
    ASSUME IInv, FreshInv, NEW y, Grows(y)
    PROVE  /\ \A x \in Used : x # y /\ ~ Under(y, x)
           /\ \A n \in nodes : n.name # Name /\ ~ Under(Name, n.name)
<1>1. pc = "init" /\ stack # <<>>
  BY GrowsWhere DEF Grows
<1>2. Len(stack) \in 1..Len(stack) /\ Top = stack[Len(stack)]
  BY <1>1, Current DEF Top
<1>3. /\ \A n \in nodes : Clear(n.name, Top.name, Top.i)
      /\ \A s \in Used : Clear(s, Top.place, Top.i)
  BY <1>1, <1>2 DEF FreshInv
<1>4. ASSUME NEW x \in Used
      PROVE  x # y /\ ~ Under(y, x)
  <2>1. x \in Places
    BY <1>4 DEF Used, IInv, TypeOK
  <2> QED BY <1>3, <1>4, <2>1, GrowsWhere, NothingBeyond
<1>5. ASSUME NEW n \in nodes
      PROVE  n.name # Name /\ ~ Under(Name, n.name)
  <2>1. n.name \in Places
    BY <1>5, NodeFields
  <2> QED BY <1>3, <1>5, <2>1, GrowsWhere, NothingBeyond
<1> QED BY <1>4, <1>5

\* The types expanded on the way to a struct stay the same.
LEMMA AboveStays ==
    ASSUME IInv, FreshInv, NEW y, Grows(y), NEW n \in nodes
    PROVE  \A t : t \in Above(n.name)' <=> t \in Above(n.name)
<1>1. \A m : HopsTo(m, n.name)' <=> HopsTo(m, n.name)
  BY GrowsFacts DEF HopsTo
<1>2. ~ HopsTo(Struct(Name, y, Fld.type), n.name)
  <2>1. Struct(Name, y, Fld.type).name = Name
    BY DEF Struct
  <2> QED BY <2>1, GrowsFresh DEF HopsTo
<1>3. \A m : m \in nodes' /\ HopsTo(m, n.name)' <=> m \in nodes /\ HopsTo(m, n.name)
  BY <1>1, <1>2, GrowsFacts
<1>4. \A t : t \in Above(n.name)' <=> \E m : m \in nodes' /\ HopsTo(m, n.name)' /\ t = m.type
  BY DEF Above
<1>5. \A t : t \in Above(n.name) <=> \E m : m \in nodes /\ HopsTo(m, n.name) /\ t = m.type
  BY DEF Above
<1> QED BY <1>3, <1>4, <1>5

\* Boundary nodes stay justified.
LEMMA GrowsBoundary ==
    ASSUME IInv, FreshInv, BoundaryOK, NEW y, Grows(y)
    PROVE  BoundaryOK'
<1>1. boundary' = boundary /\ nodes \subseteq nodes'
  BY GrowsFacts DEF Grows
<1> SUFFICES ASSUME NEW b \in boundary
             PROVE  \E n \in nodes' : n.name = b /\ n.type \in Above(b)'
  BY <1>1 DEF BoundaryOK
<1>2. PICK n \in nodes : n.name = b /\ n.type \in Above(b)
  BY DEF BoundaryOK
<1>3. n.type \in Above(n.name)' <=> n.type \in Above(n.name)
  BY AboveStays
<1> QED BY <1>1, <1>2, <1>3

\* What a settled field has got it keeps.
LEMMA GrowsBound ==
    ASSUME IInv, FreshInv, NEW y, Grows(y), NEW n \in nodes, NEW i \in DOMAIN Fields(n.type),
           Bound(n, i)
    PROVE  Bound(n, i)'
<1> DEFINE kind == Fields(n.type)[i].kind
           there == Append(n.place, i)
<1>1. /\ Fields(n.type)'[i].kind = kind
      /\ boundary' = boundary /\ changed' = changed /\ nodes \subseteq nodes'
      /\ DOMAIN leaf \subseteq DOMAIN leaf'
  BY GrowsFacts DEF Grows
<1>2. \A x : (UnderBoundary(x)' <=> UnderBoundary(x)) /\ (GivenUp(x)' <=> GivenUp(x))
  BY <1>1 DEF UnderBoundary, GivenUp
<1>3. Points(there) => Points(there)'
  <2>1. there \in DOMAIN slot => there # y
    BY GrowsFresh DEF Used
  <2> QED BY <2>1, GrowsFacts DEF Points
<1>4. Child(n, i)' = Child(n, i)
  BY GrowsFacts DEF Child
<1>5. n.type \in Above(n.name)' <=> n.type \in Above(n.name)
  BY AboveStays
<1> HIDE DEF there
<1>6. /\ kind = "leaf" => Append(n.name, i) \in DOMAIN leaf
      /\ kind = "val" => Child(n, i) \in nodes \/ GivenUp(Append(n.name, i))
      /\ kind \in {"ptr", "box"} =>
             \/ UnderBoundary(n.name)
             \/ /\ n.type \notin Above(n.name) /\ Child(n, i) \in nodes
                /\ Points(there) \/ there \in changed
  BY DEF Bound, there
<1> HIDE DEF kind
<1>7. /\ kind = "leaf" => Append(n.name, i) \in DOMAIN leaf'
      /\ kind = "val" => Child(n, i)' \in nodes' \/ GivenUp(Append(n.name, i))'
      /\ kind \in {"ptr", "box"} =>
             \/ UnderBoundary(n.name)'
             \/ /\ n.type \notin Above(n.name)' /\ Child(n, i)' \in nodes'
                /\ Points(there)' \/ there \in changed'
  BY <1>1, <1>2, <1>3, <1>4, <1>5, <1>6
<1> QED BY <1>1, <1>7 DEF Bound, there

-----------------------------------------------------------------------------
\* Calls lie inside each other.

\* The same calls under the same names.
LEMMA NestTouched ==
    ASSUME NestInv, Len(stack') = Len(stack),
           \A k \in 1..Len(stack) : /\ stack'[k].name = stack[k].name
                                    /\ stack'[k].place = stack[k].place
    PROVE  NestInv'
<1> SUFFICES ASSUME NEW k \in 1..Len(stack)
             PROVE  /\ Len(stack'[k].name) = k
                    /\ \A l \in 1..Len(stack) : k < l =>
                        /\ Len(stack'[k].place) < Len(stack'[l].place)
                        /\ \A j \in 1..k : stack'[l].name[j] = stack'[k].name[j]
  BY DEF NestInv
<1>1. stack'[k].name = stack[k].name /\ stack'[k].place = stack[k].place
  OBVIOUS
<1>2. Len(stack[k].name) = k
  BY DEF NestInv
<1>3. ASSUME NEW l \in 1..Len(stack), k < l
      PROVE  /\ Len(stack'[k].place) < Len(stack'[l].place)
             /\ \A j \in 1..k : stack'[l].name[j] = stack'[k].name[j]
  <2>1. stack'[l].name = stack[l].name /\ stack'[l].place = stack[l].place
    OBVIOUS
  <2>2. /\ Len(stack[k].place) < Len(stack[l].place)
        /\ \A j \in 1..k : stack[l].name[j] = stack[k].name[j]
    BY <1>3 DEF NestInv
  <2> QED BY <1>1, <2>1, <2>2
<1> QED BY <1>1, <1>2, <1>3

LEMMA NestPushed ==
    ASSUME IInv, NestInv, stack # <<>>, NEW f \in Frame, f.name = Name, Push(f),
           Len(Top.place) < Len(f.place)
    PROVE  NestInv'
<1>1. PICK n \in Nat \ {0} : n = Len(stack) /\ n \in 1..Len(stack) /\ Top = stack[n]
  BY Current DEF Top
<1>2. /\ Len(stack') = n + 1 /\ stack'[n + 1] = f
      /\ \A k \in 1..n : /\ stack'[k].name = stack[k].name
                         /\ stack'[k].place = stack[k].place
  <2>1. Next1 \in Seq(Frame) /\ Len(Next1) = n
    BY <1>1, MovedOn
  <2>2. /\ Len(stack') = n + 1 /\ stack'[n + 1] = f
        /\ \A k \in 1..n : stack'[k] = Next1[k]
    BY <2>1 DEF Push
  <2> QED BY <1>1, <2>2, Next1Names
<1>3. \A k \in 1..n : /\ Len(stack[k].name) = k
                      /\ \A l \in 1..n : k < l =>
                          /\ Len(stack[k].place) < Len(stack[l].place)
                          /\ \A j \in 1..k : stack[l].name[j] = stack[k].name[j]
  BY <1>1 DEF NestInv
<1>4. Top.name \in Places /\ Top.i \in Nat /\ Len(Top.name) = n
  <2>1. Top \in Frame
    BY Current
  <2> QED BY <1>1, <1>3, <2>1 DEF Frame
<1>5. Len(f.name) = n + 1 /\ \A j \in 1..n : f.name[j] = Top.name[j]
  BY <1>4 DEF Name, Places
<1>6. \A k \in 1..n : Len(stack[k].place) < Len(f.place)
  <2> SUFFICES ASSUME NEW k \in 1..n PROVE Len(stack[k].place) < Len(f.place)
    OBVIOUS
  <2>1. CASE k = n
    BY <1>1, <2>1
  <2>2. CASE k < n
    <3>1. Len(stack[k].place) < Len(Top.place)
      BY <1>1, <1>3, <2>2
    <3>2. Len(stack[k].place) \in Nat /\ Len(Top.place) \in Nat /\ Len(f.place) \in Nat
      <4>1. stack[k] \in Frame /\ Top \in Frame
        BY <1>1 DEF IInv, TypeOK
      <4>2. \A g \in Frame : g.place \in Seq(Nat)
        BY DEF Frame, Places
      <4>3. \A p \in Seq(Nat) : Len(p) \in Nat
        OBVIOUS
      <4> QED BY <4>1, <4>2, <4>3
    <3> QED BY <3>1, <3>2
  <2> QED BY <1>1, <2>1, <2>2
<1> SUFFICES ASSUME NEW k \in 1..(n + 1)
             PROVE  /\ Len(stack'[k].name) = k
                    /\ \A l \in 1..(n + 1) : k < l =>
                        /\ Len(stack'[k].place) < Len(stack'[l].place)
                        /\ \A j \in 1..k : stack'[l].name[j] = stack'[k].name[j]
  BY <1>2 DEF NestInv
<1>7. CASE k = n + 1
  BY <1>2, <1>5, <1>7
<1>8. CASE k \in 1..n
  <2>1. Len(stack'[k].name) = k
    BY <1>2, <1>3, <1>8
  <2>2. ASSUME NEW l \in 1..n, k < l
        PROVE  /\ Len(stack'[k].place) < Len(stack'[l].place)
               /\ \A j \in 1..k : stack'[l].name[j] = stack'[k].name[j]
    BY <1>2, <1>3, <1>8, <2>2
  <2>3. \A j \in 1..k : f.name[j] = stack[k].name[j]
    <3>1. CASE k = n
      BY <1>1, <1>5, <3>1
    <3>2. CASE k < n
      <4>1. \A j \in 1..k : Top.name[j] = stack[k].name[j] /\ j \in 1..n
        BY <1>1, <1>3, <3>2
      <4> QED BY <1>5, <4>1
    <3> QED BY <1>8, <3>1, <3>2
  <2>4. ASSUME NEW l \in 1..(n + 1), l = n + 1
        PROVE  /\ Len(stack'[k].place) < Len(stack'[l].place)
               /\ \A j \in 1..k : stack'[l].name[j] = stack'[k].name[j]
    BY <1>2, <1>6, <1>8, <2>3, <2>4
  <2>5. \A l \in 1..(n + 1) : l \in 1..n \/ l = n + 1
    OBVIOUS
  <2> QED BY <2>1, <2>2, <2>4, <2>5
<1> QED BY <1>7, <1>8

LEMMA NestPopped ==
    ASSUME IInv, NestInv, stack # <<>>, stack' = SubSeq(stack, 1, Len(stack) - 1)
    PROVE  NestInv'
<1>1. PICK n \in Nat : n = Len(stack) - 1 /\ Len(stack) = n + 1
  BY Current
<1>2. Len(stack') = n /\ \A k \in 1..n : stack'[k] = stack[k] /\ k \in 1..Len(stack)
  BY <1>1, FrontOf DEF IInv, TypeOK
<1>3. \A k \in 1..n : /\ Len(stack[k].name) = k
                      /\ \A l \in 1..n : k < l =>
                          /\ Len(stack[k].place) < Len(stack[l].place)
                          /\ \A j \in 1..k : stack[l].name[j] = stack[k].name[j]
  BY <1>2 DEF NestInv
<1> QED BY <1>2, <1>3 DEF NestInv

-----------------------------------------------------------------------------
\* A step of the first walk: on to the next field, with or without a call on this one.
Walks(y) ==
    /\ Grows(y)
    /\ \/ stack' = Next1 /\ nodes' = nodes
       \/ \E f \in Frame :
            /\ Push(f) /\ f.i = 1 /\ NodeOf(f) = Struct(Name, y, Fld.type)
            /\ f.mode \in {"bind", Top.mode}
            /\ nodes' = nodes \union {NodeOf(f)}

\* The calls after it.
LEMMA WalksCalls ==
    ASSUME IInv, NEW y, Walks(y), NEW n, n = Len(stack)
    PROVE  /\ n \in Nat \ {0} /\ n \in 1..Len(stack) /\ Top = stack[n]
           /\ Len(stack') = n \/ Len(stack') = n + 1
           /\ \A k \in 1..n : /\ stack'[k].name = stack[k].name
                              /\ stack'[k].place = stack[k].place
                              /\ stack'[k].type = stack[k].type
                              /\ stack'[k].mode = stack[k].mode
                              /\ stack'[k].i = IF k = n THEN Top.i + 1 ELSE stack[k].i
           /\ Len(stack') = n + 1 =>
                  /\ stack'[n + 1].name = Name /\ stack'[n + 1].place = y
                  /\ stack'[n + 1].type = Fld.type /\ stack'[n + 1].i = 1
                  /\ stack'[n + 1].mode \in {"bind", Top.mode}
           /\ Len(stack') = n => nodes' = nodes
<1>0. stack # <<>>
  BY DEF Walks, Grows, HasField
<1>1. n \in Nat \ {0} /\ n \in 1..Len(stack) /\ Top = stack[n] /\ stack \in Seq(Frame)
  BY <1>0, Current DEF Top, IInv, TypeOK
<1>2. /\ Next1 \in Seq(Frame) /\ Len(Next1) = n
      /\ \A k \in 1..n : /\ Next1[k].name = stack[k].name
                         /\ Next1[k].place = stack[k].place
                         /\ Next1[k].type = stack[k].type
  BY <1>0, MovedOn, Next1Names
<1>6. \A k \in 1..n : Next1[k].mode = stack[k].mode
  BY <1>1 DEF Next1, Frame
<1>3. \A k \in 1..n : Next1[k].i = IF k = n THEN Top.i + 1 ELSE stack[k].i
  <2> SUFFICES ASSUME NEW k \in 1..n PROVE Next1[k].i = IF k = n THEN Top.i + 1 ELSE stack[k].i
    OBVIOUS
  <2>1. stack[n] \in Frame
    BY <1>1
  <2>2. Next1 = [stack EXCEPT ![n] = [stack[n] EXCEPT !.i = @ + 1]]
    BY DEF Next1
  <2>3. [stack[n] EXCEPT !.i = @ + 1].i = Top.i + 1
    BY <1>1, <2>1 DEF Frame
  <2> QED BY <1>1, <2>2, <2>3
<1>4. CASE stack' = Next1 /\ nodes' = nodes
  BY <1>1, <1>2, <1>3, <1>4, <1>6
<1>5. CASE stack' # Next1 \/ nodes' # nodes
  <2>1. PICK f \in Frame : /\ Push(f) /\ f.i = 1 /\ NodeOf(f) = Struct(Name, y, Fld.type)
                           /\ f.mode \in {"bind", Top.mode}
    BY <1>5 DEF Walks
  <2>2. f.name = Name /\ f.place = y /\ f.type = Fld.type
    BY <2>1 DEF NodeOf, Struct
  <2>3. /\ Len(stack') = n + 1 /\ stack'[n + 1] = f
        /\ \A k \in 1..n : stack'[k] = Next1[k]
    BY <1>2, <2>1 DEF Push
  <2>4. n + 1 # n
    BY <1>1
  <2> QED BY <1>1, <1>2, <1>3, <1>6, <2>1, <2>2, <2>3, <2>4
<1> QED BY <1>4, <1>5

LEMMA ClearMore ==
    ASSUME NEW x \in Places, NEW p \in Places, NEW i \in Nat, Clear(x, p, i)
    PROVE  Clear(x, p, i + 1)
<1>1. PICK m \in Nat, n \in Nat : m = Len(p) /\ n = Len(x)
  BY DEF Places
<1> SUFFICES ASSUME Under(p, x) PROVE x[m + 1] < i + 1
  BY <1>1 DEF Clear
<1>2. m + 1 \in 1..n /\ x[m + 1] < i
  BY <1>1 DEF Under, Clear
<1>3. x[m + 1] \in Nat
  BY <1>1, <1>2 DEF Places
<1> QED BY <1>2, <1>3

LEMMA WalksFresh ==
    ASSUME IInv, NamesInv, NestInv, FreshInv, NEW y, Walks(y)
    PROVE  FreshInv'
<1>0. Grows(y) /\ pc = "init" /\ arg' = arg /\ stack # <<>>
  BY DEF Walks, Grows, HasField
<1>1. PICK n \in Nat \ {0} : n = Len(stack)
  BY <1>0, Current
<1>2. /\ n \in 1..n /\ Top = stack[n]
      /\ NodeOf(Top) \in nodes /\ NodeOf(Top).name = Top.name /\ NodeOf(Top).place = Top.place
  BY <1>0, <1>1, TopNode DEF Top
<1>3. Top.place \in Used /\ Top.name # <<>>
  BY <1>2 DEF Used, NamesInv, NodesOK
<1>4. /\ y \in Places /\ Name \in Places /\ Top.i \in Nat
      /\ Top.name \in Places /\ Top.place \in Places
      /\ Beyond(y, Top.place, Top.i) /\ Beyond(Name, Top.name, Top.i)
      /\ y # <<>> /\ (Top.place # <<>> => y[1] = Top.place[1])
      /\ Name[1] = Top.name[1]
  BY <1>0, <1>3, GrowsWhere
<1>5. /\ \A m \in nodes' : m \in nodes \/ m.name = Name
      /\ \A s \in Used' : s \in Used \/ s = y
  BY <1>0, GrowsFacts DEF Struct
<1>6. /\ \A m \in nodes : m.name \in Places
      /\ \A s \in Used : s \in Places
  BY NodeFields DEF Used, IInv, TypeOK
<1>7. /\ \A m \in nodes : m.name[1] <= arg
      /\ \A s \in Used : s # <<>> /\ s[1] <= arg
  BY <1>0 DEF FreshInv
<1>8. \A k \in 1..n : /\ stack[k].name \in Places /\ stack[k].place \in Places
                      /\ stack[k].i \in Nat
                      /\ \A m \in nodes : Clear(m.name, stack[k].name, stack[k].i)
                      /\ \A s \in Used : Clear(s, stack[k].place, stack[k].i)
                      /\ k # n => /\ Len(stack[k].name) < Len(Top.name)
                                  /\ Len(stack[k].place) < Len(Top.place)
  <2> SUFFICES ASSUME NEW k \in 1..n
               PROVE  /\ stack[k].name \in Places /\ stack[k].place \in Places
                      /\ stack[k].i \in Nat
                      /\ \A m \in nodes : Clear(m.name, stack[k].name, stack[k].i)
                      /\ \A s \in Used : Clear(s, stack[k].place, stack[k].i)
                      /\ k # n => /\ Len(stack[k].name) < Len(Top.name)
                                  /\ Len(stack[k].place) < Len(Top.place)
    OBVIOUS
  <2>1. stack[k] \in Frame
    BY <1>1 DEF IInv, TypeOK
  <2>2. \A g \in Frame : g.name \in Places /\ g.place \in Places /\ g.i \in Nat
    BY DEF Frame
  <2>3. k # n => Len(stack[k].name) < Len(Top.name) /\ Len(stack[k].place) < Len(Top.place)
    <3>1. k # n => k < n
      OBVIOUS
    <3>2. Len(stack[k].name) = k /\ Len(Top.name) = n
      BY <1>1, <1>2 DEF NestInv
    <3> QED BY <1>1, <1>2, <3>1, <3>2 DEF NestInv
  <2> QED BY <1>0, <1>1, <2>1, <2>2, <2>3 DEF FreshInv
<1>w. \A k \in 1..n : stack'[k].i = IF k = n THEN Top.i + 1 ELSE stack[k].i
  BY <1>1, WalksCalls
<1>9. ASSUME NEW k \in 1..n
      PROVE  /\ \A m \in nodes' : Clear(m.name, stack[k].name, stack'[k].i)
             /\ \A s \in Used' : Clear(s, stack[k].place, stack'[k].i)
  <2>1. CASE k # n
    <3>1. stack'[k].i = stack[k].i
      BY <1>w, <1>9, <2>1
    <3>2. Clear(Top.name, stack[k].name, stack[k].i) /\ Clear(Top.place, stack[k].place, stack[k].i)
      BY <1>2, <1>3, <1>8
    <3>3. Clear(Name, stack[k].name, stack[k].i)
      BY <1>4, <1>8, <2>1, <3>2, ClearBeyond
    <3>4. Clear(y, stack[k].place, stack[k].i)
      BY <1>4, <1>8, <2>1, <3>2, ClearBeyond
    <3> QED BY <1>5, <1>8, <3>1, <3>3, <3>4
  <2>2. CASE k = n
    <3>1. stack'[k].i = Top.i + 1
      BY <1>w, <1>9, <2>2
    <3>2. Clear(Name, Top.name, Top.i + 1) /\ Clear(y, Top.place, Top.i + 1)
      BY <1>4 DEF Clear, Beyond
    <3>3. /\ \A m \in nodes : Clear(m.name, Top.name, Top.i)
          /\ \A s \in Used : Clear(s, Top.place, Top.i)
      BY <1>2, <1>8
    <3>4. /\ \A m \in nodes : Clear(m.name, Top.name, Top.i + 1)
          /\ \A s \in Used : Clear(s, Top.place, Top.i + 1)
      BY <1>4, <1>6, <3>3, ClearMore
    <3> QED BY <1>2, <1>5, <2>2, <3>1, <3>2, <3>4
  <2> QED BY <2>1, <2>2
<1>10. /\ \A m \in nodes' : Clear(m.name, Name, 1)
       /\ \A s \in Used' : Clear(s, y, 1)
  <2>1. ~ Under(Name, Name) /\ ~ Under(y, y)
    <3>1. \A p \in Seq(Nat) : ~ (Len(p) < Len(p))
      OBVIOUS
    <3> QED BY <1>4, <3>1 DEF Under, Places
  <2>2. (\A m \in nodes : ~ Under(Name, m.name)) /\ (\A s \in Used : ~ Under(y, s))
    BY <1>0, GrowsFresh
  <2> QED BY <1>5, <2>1, <2>2 DEF Clear
<1>11. /\ \A m \in nodes' : m.name[1] <= arg'
       /\ \A s \in Used' : s # <<>> /\ s[1] <= arg'
  BY <1>0, <1>2, <1>3, <1>4, <1>5, <1>7
<1>12. ASSUME NEW k \in 1..Len(stack')
       PROVE  /\ \A m \in nodes' : Clear(m.name, stack'[k].name, stack'[k].i)
              /\ \A s \in Used' : Clear(s, stack'[k].place, stack'[k].i)
  <2>1. CASE k \in 1..n
    <3>1. stack'[k].name = stack[k].name /\ stack'[k].place = stack[k].place
      BY <1>0, <1>1, <2>1, WalksCalls
    <3> QED BY <1>9, <2>1, <3>1
  <2>2. CASE k \notin 1..n
    <3>1. Len(stack') = n + 1 /\ k = n + 1
      <4>1. Len(stack') = n \/ Len(stack') = n + 1
        BY <1>0, <1>1, WalksCalls
      <4> QED BY <1>1, <2>2, <4>1
    <3>2. stack'[k].name = Name /\ stack'[k].place = y /\ stack'[k].i = 1
      BY <1>0, <1>1, <3>1, WalksCalls
    <3> QED BY <1>10, <3>2
  <2> QED BY <2>1, <2>2
<1> QED BY <1>11, <1>12 DEF FreshInv

\* The step settles the current field and no other.
LEMMA WalksMade ==
    ASSUME IInv, FreshInv, MadeInv, NEW y, Walks(y),
           \A n \in nodes : \A j : IsTop(n) /\ j = Top.i => Bound(n, j)'
    PROVE  MadeInv'
<1>0. Grows(y) /\ pc = "init" /\ pc' = "init" /\ stack # <<>>
  BY DEF Walks, Grows, HasField
<1>1. PICK l \in Nat \ {0} : l = Len(stack)
  BY <1>0, Current
<1>2. \A t : Fields(t)' = Fields(t)
  BY <1>0, GrowsFacts
<1> SUFFICES ASSUME NEW n \in nodes', NEW i \in DOMAIN Fields(n.type), ~ Awaited(n, i)'
             PROVE  Bound(n, i)'
  BY <1>0, <1>2 DEF MadeInv, Settled
<1>3. n \in nodes \/ n = Struct(Name, y, Fld.type)
  BY <1>0, GrowsFacts
<1>4. i \in Nat \ {0}
  <2>1. n.type \in Types
    <3>1. CASE n \in nodes
      BY <3>1, NodeFields
    <3>2. CASE n = Struct(Name, y, Fld.type)
      <4>1. Fld \in Field
        BY <1>0, Current DEF Grows
      <4> QED BY <3>2, <4>1 DEF Struct, Field
    <3> QED BY <1>3, <3>1, <3>2
  <2>2. Fields(n.type) \in Seq(Field)
    BY <2>1, HarnessAssumption DEF IInv, Fields
  <2> QED BY <2>2
<1>5. n \in nodes
  <2>1. SUFFICES ASSUME n \notin nodes PROVE FALSE
    OBVIOUS
  <2>2. n.name = Name /\ n.place = y /\ n.type = Fld.type
    BY <1>3, <2>1 DEF Struct
  <2>3. Len(stack') = l + 1
    <3>1. Len(stack') # l
      BY <1>1, <2>1, WalksCalls
    <3> QED BY <1>1, <3>1, WalksCalls
  <2>4. /\ stack'[l + 1].name = n.name /\ stack'[l + 1].place = n.place
        /\ stack'[l + 1].type = n.type /\ stack'[l + 1].i = 1
    BY <1>1, <2>2, <2>3, WalksCalls
  <2>5. l + 1 \in 1..Len(stack') /\ 1 <= i
    BY <1>1, <1>4, <2>3
  <2> QED BY <2>4, <2>5 DEF Awaited
<1>6. CASE IsTop(n) /\ i = Top.i
  BY <1>5, <1>6
<1>7. CASE ~ (IsTop(n) /\ i = Top.i)
  <2>1. ASSUME Awaited(n, i) PROVE FALSE
    <3>1. PICK k \in 1..Len(stack) :
            /\ stack[k].name = n.name /\ stack[k].place = n.place /\ stack[k].type = n.type
            /\ stack[k].i <= i
      BY <2>1 DEF Awaited
    <3>2. k \in 1..l /\ k \in 1..Len(stack')
      <4>1. Len(stack') = l \/ Len(stack') = l + 1
        BY <1>1, WalksCalls
      <4> QED BY <1>1, <4>1
    <3>3. /\ stack'[k].name = n.name /\ stack'[k].place = n.place /\ stack'[k].type = n.type
          /\ stack'[k].i = IF k = l THEN Top.i + 1 ELSE stack[k].i
      BY <1>1, <3>1, <3>2, WalksCalls
    <3>4. stack'[k].i <= i
      <4>1. CASE k = l
        <5>1. stack[k] = Top /\ Top.i \in Nat
          BY <1>0, <1>1, <4>1, GrowsWhere DEF Top
        <5>2. IsTop(n) /\ Top.i <= i
          BY <3>1, <5>1 DEF IsTop
        <5>3. Top.i # i
          BY <1>7, <5>2
        <5>4. Top.i + 1 <= i
          BY <1>4, <5>1, <5>2, <5>3
        <5> QED BY <3>3, <4>1, <5>4
      <4>2. CASE k # l
        BY <3>1, <3>3, <4>2
      <4> QED BY <4>1, <4>2
    <3> QED BY <3>2, <3>3, <3>4 DEF Awaited
  <2>2. Bound(n, i)
    BY <1>5, <2>1 DEF MadeInv, Settled
  <2> QED BY <1>0, <1>5, <2>2, GrowsBound
<1> QED BY <1>6, <1>7

\* All of the account that a step of the first walk on the current field can disturb.
LEMMA WalksMatch ==
    ASSUME IInv, NamesInv, MatchInv, NEW y, Walks(y),
           \A n \in nodes : \A j : IsTop(n) /\ j = Top.i => Bound(n, j)'
    PROVE  MatchInv'
<1>0. /\ Grows(y) /\ pc = "init" /\ pc' = "init" /\ stack # <<>>
      /\ prog' = prog /\ arg' = arg /\ changed' = changed
  BY DEF Walks, Grows, HasField
<1>m. /\ NestInv /\ FreshInv /\ BoundaryOK /\ MadeInv
      /\ ArgumentsMade /\ ModesOK
  BY DEF MatchInv
<1>1. NestInv'
  <2>1. CASE stack' = Next1
    <3>1. Len(stack') = Len(stack)
          /\ \A k \in 1..Len(stack) : /\ stack'[k].name = stack[k].name
                                      /\ stack'[k].place = stack[k].place
      BY <1>0, <2>1, Next1Names
    <3> QED BY <1>m, <3>1, NestTouched
  <2>2. CASE stack' # Next1
    <3>1. PICK f \in Frame : Push(f) /\ NodeOf(f) = Struct(Name, y, Fld.type)
      BY <2>2 DEF Walks
    <3>2. f.name = Name /\ f.place = y
      BY <3>1 DEF NodeOf, Struct
    <3>3. Len(Top.place) < Len(f.place)
      BY <1>0, <3>2, GrowsWhere DEF Beyond, Under
    <3> QED BY <1>0, <1>m, <3>1, <3>2, <3>3, NestPushed
  <2> QED BY <2>1, <2>2
<1>2. FreshInv' /\ MadeInv'
  BY <1>m, WalksFresh, WalksMade
<1>3. BoundaryOK'
  BY <1>0, <1>m, GrowsBoundary
<1>5. ArgumentsMade'
  BY <1>0, <1>m, GrowsFacts DEF ArgumentsMade
<1>6. DumpOK' /\ DiedOK'
  BY <1>0 DEF DumpOK, DiedOK
<1>7. ModesOK'
  <2> SUFFICES ASSUME NEW k \in 1..Len(stack') PROVE stack'[k].mode # "dump"
    BY DEF ModesOK
  <2>1. PICK n \in Nat \ {0} : n = Len(stack)
    BY <1>0, Current
  <2>2. \A j \in 1..n : stack[j].mode # "dump"
    BY <1>0, <1>m, <2>1 DEF ModesOK
  <2>3. n \in 1..n /\ Top = stack[n] /\ (Len(stack') = n \/ Len(stack') = n + 1)
    BY <2>1, WalksCalls
  <2>4. CASE k \in 1..n
    <3>1. stack'[k].mode = stack[k].mode
      BY <2>1, <2>4, WalksCalls
    <3> QED BY <2>2, <2>4, <3>1
  <2>5. CASE k \notin 1..n
    <3>1. k = n + 1 /\ Len(stack') = n + 1
      BY <2>1, <2>3, <2>5
    <3>2. stack'[k].mode \in {"bind", Top.mode}
      BY <2>1, <3>1, WalksCalls
    <3>3. Top.mode # "dump"
      BY <2>2, <2>3
    <3> QED BY <3>2, <3>3
  <2> QED BY <2>4, <2>5
<1> QED BY <1>1, <1>2, <1>3, <1>5, <1>6, <1>7 DEF MatchInv

-----------------------------------------------------------------------------
\* What the current field gets in the step that settles it.
LEMMA FieldBound ==
    ASSUME IInv, NamesInv, MatchInv, NEW y, Grows(y),
           Fld.kind = "leaf" => Name \in DOMAIN leaf',
           Fld.kind = "val" => Struct(Name, Place, Fld.type) \in nodes' \/ GivenUp(Name),
           Fld.kind \in {"ptr", "box"} =>
               \/ UnderBoundary(Top.name)
               \/ /\ Top.type \notin visited /\ Struct(Name, Place, Fld.type) \in nodes'
                  /\ Place \in DOMAIN slot' /\ slot'[Place] = "object"
    PROVE  \A n \in nodes : \A j : IsTop(n) /\ j = Top.i => Bound(n, j)'
<1> SUFFICES ASSUME NEW n \in nodes, NEW j, IsTop(n), j = Top.i PROVE Bound(n, j)'
  OBVIOUS
<1>0. FreshInv /\ NestInv /\ stack # <<>> /\ boundary' = boundary
  BY GrowsWhere DEF MatchInv, Grows
<1>1. n.name = Top.name /\ n.type = Top.type
  BY DEF IsTop
<1>2. Fields(n.type)'[j] = Fld /\ Append(n.place, j) = Place /\ Append(n.name, j) = Name
  BY TopField, GrowsFacts
<1>3. Child(n, j)' = Struct(Name, Place, Fld.type)
  BY <1>2 DEF Child, Struct
<1>4. GivenUp(Name) => GivenUp(Append(n.name, j))'
  BY <1>0, <1>2 DEF GivenUp
<1>5. UnderBoundary(Top.name) => UnderBoundary(n.name)'
  BY <1>0, <1>1 DEF UnderBoundary
<1>6. Top.type \notin visited => n.type \notin Above(n.name)'
  <2>1. SUFFICES ASSUME n.type \in Above(n.name)' PROVE Top.type \in visited
    OBVIOUS
  <2>2. n.type \in Above(n.name)
    BY <1>0, <2>1, AboveStays
  <2>3. PICK m \in nodes : HopsTo(m, Top.name) /\ m.type = Top.type
    BY <1>1, <2>2 DEF Above
  <2> QED BY <1>0, <2>3, ExpandedIsVisited
<1>7. Place \in DOMAIN slot' /\ slot'[Place] = "object" => Points(Append(n.place, j))'
  <2>1. Append(n.place, j) \in DOMAIN slot' /\ slot'[Append(n.place, j)] = "object"
        => Points(Append(n.place, j))'
    BY DEF Points
  <2> QED BY <1>2, <2>1
<1> DEFINE there == Append(n.place, j)
<1>8. /\ Fields(n.type)'[j].kind = "leaf" => Append(n.name, j) \in DOMAIN leaf'
      /\ Fields(n.type)'[j].kind = "val" => Child(n, j)' \in nodes' \/ GivenUp(Append(n.name, j))'
      /\ Fields(n.type)'[j].kind \in {"ptr", "box"} =>
             \/ UnderBoundary(n.name)'
             \/ /\ n.type \notin Above(n.name)' /\ Child(n, j)' \in nodes'
                /\ Points(there)' \/ there \in changed'
  <2> HIDE DEF there
  <2>1. Place \in DOMAIN slot' /\ slot'[Place] = "object" => Points(there)'
    BY <1>7 DEF there
  <2> QED BY <1>2, <1>3, <1>4, <1>5, <1>6, <2>1
<1> QED BY <1>8 DEF Bound

\* By-value structs below the depth of the boundary walk.
LEMMA TooDeepGivenUp ==
    ASSUME IInv, DepthInv, pc = "init", HasField, TooDeep, Fld.kind = "val"
    PROVE  GivenUp(Name)
<1>1. stack # <<>>
  BY DEF HasField
<1>2. Len(stack) \in 1..Len(stack) /\ Top = stack[Len(stack)] /\ Top \in Frame
  BY <1>1, Current DEF Top
<1>3. FromBoundary(Top)
  BY <1>2 DEF TooDeep, DepthInv
<1>4. PICK b \in boundary : IsPrefix(b, Top.name) /\ Len(Top.name) = Len(b) + Top.depth
  BY <1>3 DEF FromBoundary
<1>5. b \in Places /\ Top.name \in Places /\ Top.i \in Nat /\ Top.depth \in Nat
  BY <1>2 DEF IInv, TypeOK, Frame
<1>6. IsPrefix(b, Name) /\ Len(Name) = Len(Top.name) + 1
  BY <1>4, <1>5, PrefixAppend DEF Name
<1>7. Top.depth + 1 > NullDepth /\ NullDepth \in Nat
  BY HarnessAssumption DEF TooDeep, Levels
<1>8. Len(b) \in Nat
  BY <1>5 DEF Places
<1> QED BY <1>4, <1>5, <1>6, <1>7, <1>8 DEF GivenUp

\* The new call of the first walk.
LEMMA NewStruct ==
    ASSUME NEW n \in Places, NEW p \in Places, NEW t \in Types,
           NEW m \in {"bind", "null", "dump"}, NEW b \in SUBSET Types
    PROVE  LET c == Call(n, p, t, m, b)
           IN  /\ c \in Frame /\ c.i = 1 /\ c.mode = m /\ NodeOf(c) = Struct(n, p, t)
               /\ \A d \in Nat : LET e == [c EXCEPT !.depth = d]
                                IN  /\ e \in Frame /\ e.i = 1 /\ e.mode = m
                                    /\ NodeOf(e) = Struct(n, p, t)
BY DEF Call, Frame, Values, NodeOf, Struct

\* Every action of the first walk on a field keeps the account.
LEMMA BindMatch ==
    ASSUME LInv, NamesInv, MatchInv,
           \/ BindNothing \/ BindLeaf \/ BindObject \/ NullPointer
           \/ BindInPlace \/ BindVecElement \/ NullVec
    PROVE  MatchInv'
<1> USE DEF graph
<1>0. /\ IInv /\ DepthInv /\ ModesOK /\ pc = "init" /\ HasField /\ stack # <<>>
      /\ UNCHANGED <<prog, pc, arg, boundary, changed>>
  BY DEF LInv, MatchInv, BindNothing, BindLeaf, BindObject, NullPointer, BindInPlace,
         BindVecElement, NullVec, Walking, HasField
<1>1. /\ Top \in Frame /\ Fld \in Field /\ Name \in Places /\ Place \in Places
      /\ Data(Place) \in Places
  BY <1>0, Current, DataTyped
<1>2. /\ Fld.type \in Types /\ Fld.kind \in Kinds
      /\ Top.type \in Types /\ Top.mode \in {"bind", "null", "dump"} /\ Top.depth + 1 \in Nat
  BY <1>1 DEF Field, Frame
<1>3. CASE BindNothing
  <2>1. Walks(Place)
    BY <1>0, <1>3 DEF BindNothing, Walks, Grows, Step
  <2>2. Fld.kind \in {"scalar", "fn", "val", "vec"} /\ (Fld.kind = "val" => GivenUp(Name))
    BY <1>0, <1>3, TooDeepGivenUp DEF BindNothing, Walking
  <2>3. Grows(Place)
    BY <2>1 DEF Walks
  <2>4. \A n \in nodes : \A j : IsTop(n) /\ j = Top.i => Bound(n, j)'
    BY <1>0, <2>2, <2>3, FieldBound
  <2> QED BY <1>0, <2>1, <2>2, <2>4, WalksMatch
<1>4. CASE BindLeaf
  <2>1. /\ Fld.kind = "leaf" /\ stack' = Next1 /\ nodes' = nodes
        /\ leaf' = With(leaf, Name, Place) /\ slot' = With(slot, Place, "buffer")
    BY <1>4 DEF BindLeaf, Walking, Record, Step
  <2>2. DOMAIN leaf \subseteq DOMAIN leaf' /\ Name \in DOMAIN leaf'
    BY <2>1, WithGrows
  <2>3. Walks(Place) /\ Grows(Place)
    BY <1>0, <2>1, <2>2 DEF Walks, Grows
  <2>4. \A n \in nodes : \A j : IsTop(n) /\ j = Top.i => Bound(n, j)'
    BY <1>0, <2>1, <2>2, <2>3, FieldBound
  <2> QED BY <1>0, <2>1, <2>3, <2>4, WalksMatch
<1>5. CASE BindObject
  <2> DEFINE f == Call(Name, Place, Fld.type, "bind", {Top.type})
  <2>1. /\ Fld.kind \in {"ptr", "box"} /\ Top.type \notin visited
        /\ Push(f) /\ slot' = With(slot, Place, "object")
        /\ nodes' = nodes \union {Struct(Name, Place, Fld.type)} /\ RecordBox
    BY <1>5 DEF BindObject, Walking, Made, Struct
  <2>2. f \in Frame /\ f.i = 1 /\ f.mode = "bind" /\ NodeOf(f) = Struct(Name, Place, Fld.type)
    <3>1. {Top.type} \in SUBSET Types /\ "bind" \in {"bind", "null", "dump"}
      BY <1>2
    <3> QED BY <1>1, <1>2, <3>1, NewStruct
  <2> HIDE DEF f
  <2>3. DOMAIN leaf \subseteq DOMAIN leaf'
    <3>1. leaf' = leaf \/ leaf' = With(leaf, Name, Place)
      BY <2>1 DEF RecordBox
    <3> QED BY <3>1, WithGrows
  <2>4. Walks(Place) /\ Grows(Place)
    BY <1>0, <2>1, <2>2, <2>3 DEF Walks, Grows
  <2>5. Place \in DOMAIN slot' /\ slot'[Place] = "object" /\ Struct(Name, Place, Fld.type) \in nodes'
    BY <2>1 DEF With
  <2>6. \A n \in nodes : \A j : IsTop(n) /\ j = Top.i => Bound(n, j)'
    BY <1>0, <2>1, <2>4, <2>5, FieldBound
  <2> QED BY <1>0, <2>1, <2>4, <2>6, WalksMatch
<1>6. CASE NullPointer
  <2>1. /\ Fld.kind \in {"ptr", "box"} /\ ~ Binding /\ stack' = Next1 /\ nodes' = nodes
        /\ leaf' = leaf /\ slot' = With(slot, Place, "NULL")
    BY <1>6 DEF NullPointer, Walking, Step
  <2>2. Walks(Place) /\ Grows(Place)
    BY <1>0, <2>1 DEF Walks, Grows
  <2>3. UnderBoundary(Top.name)
    BY <1>0, <2>1, NotBinding
  <2>5. \A n \in nodes : \A j : IsTop(n) /\ j = Top.i => Bound(n, j)'
    BY <1>0, <2>1, <2>2, <2>3, FieldBound
  <2> QED BY <1>0, <2>2, <2>5, WalksMatch
<1>7. CASE BindInPlace
  <2> DEFINE f == [Call(Name, Place, Fld.type, Top.mode, {}) EXCEPT !.depth = Top.depth + 1]
  <2>1. /\ Fld.kind = "val" /\ Push(f) /\ slot' = slot /\ leaf' = leaf
        /\ nodes' = nodes \union {Struct(Name, Place, Fld.type)}
    BY <1>7 DEF BindInPlace, Walking, Made, Struct
  <2>2. f \in Frame /\ f.i = 1 /\ f.mode = Top.mode /\ NodeOf(f) = Struct(Name, Place, Fld.type)
    <3>1. {} \in SUBSET Types
      OBVIOUS
    <3> QED BY <1>1, <1>2, <3>1, NewStruct
  <2> HIDE DEF f
  <2>3. Walks(Place) /\ Grows(Place)
    BY <1>0, <2>1, <2>2 DEF Walks, Grows
  <2>4. \A n \in nodes : \A j : IsTop(n) /\ j = Top.i => Bound(n, j)'
    BY <1>0, <2>1, <2>3, FieldBound
  <2> QED BY <1>0, <2>1, <2>3, <2>4, WalksMatch
<1>8. CASE BindVecElement
  <2> DEFINE f == Call(Name, Data(Place), Fld.type, "bind", {})
  <2>1. /\ Fld.kind = "vec" /\ Push(f) /\ slot' = With(slot, Data(Place), "object") /\ leaf' = leaf
        /\ nodes' = nodes \union {Struct(Name, Data(Place), Fld.type)}
    BY <1>8 DEF BindVecElement, Walking, Made, Struct
  <2>2. f \in Frame /\ f.i = 1 /\ f.mode = "bind" /\ NodeOf(f) = Struct(Name, Data(Place), Fld.type)
    <3>1. {} \in SUBSET Types /\ "bind" \in {"bind", "null", "dump"}
      OBVIOUS
    <3> QED BY <1>1, <1>2, <3>1, NewStruct
  <2> HIDE DEF f
  <2>3. Walks(Data(Place)) /\ Grows(Data(Place))
    BY <1>0, <2>1, <2>2 DEF Walks, Grows
  <2>4. \A n \in nodes : \A j : IsTop(n) /\ j = Top.i => Bound(n, j)'
    BY <1>0, <2>1, <2>3, FieldBound
  <2> QED BY <1>0, <2>1, <2>3, <2>4, WalksMatch
<1>9. CASE NullVec
  <2>1. /\ Fld.kind = "vec" /\ stack' = Next1 /\ nodes' = nodes
        /\ leaf' = With(leaf, Data(Name), Data(Place))
        /\ slot' = With(slot, Data(Place), "buffer")
    BY <1>9 DEF NullVec, Walking, Record, Step
  <2>2. DOMAIN leaf \subseteq DOMAIN leaf'
    BY <2>1, WithGrows
  <2>3. Walks(Data(Place)) /\ Grows(Data(Place))
    BY <1>0, <2>1, <2>2 DEF Walks, Grows
  <2>4. \A n \in nodes : \A j : IsTop(n) /\ j = Top.i => Bound(n, j)'
    BY <1>0, <2>1, <2>3, FieldBound
  <2> QED BY <1>0, <2>1, <2>3, <2>4, WalksMatch
<1> QED BY <1>3, <1>4, <1>5, <1>6, <1>7, <1>8, <1>9

-----------------------------------------------------------------------------
\* Before the first argument there is nothing to match.
LEMMA InitMatch == Init => MatchInv
<1> SUFFICES ASSUME Init PROVE MatchInv
  OBVIOUS
<1>1. /\ pc = "init" /\ arg = 0 /\ stack = <<>> /\ boundary = {} /\ nodes = {} /\ changed = {}
      /\ DOMAIN slot = {} /\ Len(stack) = 0
  BY DEF Init
<1>2. NestInv /\ ModesOK /\ DumpOK /\ DiedOK
  BY <1>1 DEF NestInv, ModesOK, DumpOK, DiedOK
<1>3. FreshInv /\ ArgumentsMade
  BY <1>1 DEF FreshInv, Used, ArgumentsMade
<1>4. BoundaryOK /\ MadeInv
  BY <1>1 DEF BoundaryOK, MadeInv
<1> QED BY <1>2, <1>3, <1>4 DEF MatchInv

\* What the first walk has made is as it was.
LEMMA SameGraph ==
    ASSUME UNCHANGED <<prog, boundary, leaf, nodes, slot, changed>>
    PROVE  /\ BoundaryOK => BoundaryOK'
           /\ \A n, i : Bound(n, i) => Bound(n, i)'
           /\ \A t : Fields(t)' = Fields(t)
           /\ \A x : (UnderBoundary(x)' <=> UnderBoundary(x)) /\ (GivenUp(x)' <=> GivenUp(x))
           /\ Used' = Used
<1>1. \A t : Fields(t)' = Fields(t)
  BY DEF Fields
<1>2. \A x : (UnderBoundary(x)' <=> UnderBoundary(x)) /\ (GivenUp(x)' <=> GivenUp(x))
  BY DEF UnderBoundary, GivenUp
<1>3. \A x : Points(x)' <=> Points(x)
  BY DEF Points
<1>4. \A n, i : Child(n, i)' = Child(n, i)
  BY <1>1 DEF Child
<1>5. \A x : Above(x)' = Above(x)
  BY <1>1 DEF Above, HopsTo
<1>6. ASSUME NEW n, NEW i, Bound(n, i)
      PROVE  Bound(n, i)'
  BY <1>1, <1>2, <1>3, <1>4, <1>5, <1>6 DEF Bound
<1>7. BoundaryOK => BoundaryOK'
  BY <1>5 DEF BoundaryOK
<1>8. Used' = Used
  BY DEF Used
<1> QED BY <1>1, <1>2, <1>6, <1>7, <1>8

\* After the call only the calls of the second walk matter.
LEMMA DumpKeeps ==
    ASSUME MatchInv, pc # "init", pc' # "init", UNCHANGED <<prog, boundary, leaf, nodes, slot, changed>>,
           NestInv', DumpOK', DiedOK'
    PROVE  MatchInv'
<1>1. BoundaryOK'
  BY SameGraph DEF MatchInv
<1>2. MadeInv'
  <2>1. \A n \in nodes : \A i \in DOMAIN Fields(n.type) : Bound(n, i)
    BY DEF MatchInv, MadeInv, Settled
  <2>2. \A t : Fields(t)' = Fields(t)
    BY SameGraph
  <2>3. \A n \in nodes : \A i \in DOMAIN Fields(n.type)' : Bound(n, i)'
    BY <2>1, <2>2, SameGraph
  <2> QED BY <2>3 DEF MadeInv
<1>3. ArgumentsMade' /\ FreshInv' /\ ModesOK'
  BY DEF MatchInv, ArgumentsMade, FreshInv, ModesOK
<1> QED BY <1>1, <1>2, <1>3 DEF MatchInv


\* A call that is on what another was on.
LEMMA SeenStays ==
    ASSUME boundary' = boundary, nodes' = nodes, changed' = changed, NEW j, NEW k,
           stack'[k].name = stack[j].name, stack'[k].place = stack[j].place,
           stack'[k].type = stack[j].type, stack'[k].at = stack[j].at,
           Seen(stack[j]), Led(stack[j])
    PROVE  Seen(stack[k])' /\ Led(stack[k])'
BY DEF Seen, Led, NodeOf, InBoundary

\* The second walk moves on in its struct.
LEMMA DumpStep ==
    ASSUME IInv, MatchInv, pc = "dump", pc' = "dump", stack # <<>>, stack' = Next1,
           UNCHANGED <<prog, boundary, leaf, nodes, slot, changed>>
    PROVE  MatchInv'
<1>1. /\ Len(stack') = Len(stack)
      /\ \A k \in 1..Len(stack) : /\ stack'[k].name = stack[k].name
                                  /\ stack'[k].place = stack[k].place
                                  /\ stack'[k].type = stack[k].type
                                  /\ stack'[k].at = stack[k].at
  BY Next1Names
<1>2. NestInv'
  BY <1>1, NestTouched DEF MatchInv
<1>3. DumpOK'
  <2> SUFFICES ASSUME NEW k \in 1..Len(stack')
               PROVE  Seen(stack[k])' /\ Led(stack[k])'
    BY DEF DumpOK
  <2>1. k \in 1..Len(stack)
    BY <1>1
  <2>2. Seen(stack[k]) /\ Led(stack[k])
    BY <2>1 DEF MatchInv, DumpOK
  <2> QED BY <1>1, <2>1, <2>2, SeenStays
<1>4. DiedOK'
  BY DEF DiedOK
<1> QED BY <1>2, <1>3, <1>4, DumpKeeps

\* The field of the struct the second walk is in.
LEMMA TopBound ==
    ASSUME IInv, MatchInv, pc # "init", HasField, OnNode(Len(stack))
    PROVE  /\ NodeOf(Top) \in nodes /\ NodeOf(Top).type = Top.type /\ NodeOf(Top).name = Top.name
           /\ Top.i \in DOMAIN Fields(Top.type) /\ Append(NodeOf(Top).place, Top.i) = Place
           /\ Child(NodeOf(Top), Top.i) = Struct(Name, Place, Fld.type)
           /\ Bound(NodeOf(Top), Top.i)
<1>0. stack # <<>>
  BY DEF HasField
<1>1. Len(stack) \in 1..Len(stack) /\ Top = stack[Len(stack)]
  BY <1>0, Current DEF Top
<1>2. NodeOf(Top) \in nodes
  BY <1>1 DEF OnNode
<1>3. NodeOf(Top).name = Top.name /\ NodeOf(Top).type = Top.type /\ NodeOf(Top).place = Top.place
  BY DEF NodeOf
<1>4. Settled(NodeOf(Top), Top.i) /\ Top.i \in DOMAIN Fields(Top.type)
  <2>1. Top.i \in Nat \ {0} /\ Fields(Top.type) \in Seq(Field) /\ Top.i <= Len(Fields(Top.type))
    BY <1>0, Current DEF HasField, Frame
  <2> QED BY <2>1 DEF Settled
<1>5. Bound(NodeOf(Top), Top.i)
  BY <1>2, <1>3, <1>4 DEF MatchInv, MadeInv
<1>6. Child(NodeOf(Top), Top.i) = Struct(Name, Place, Fld.type) /\ Append(NodeOf(Top).place, Top.i) = Place
  BY <1>3 DEF Child, Struct, Name, Place, Fld
<1> QED BY <1>2, <1>3, <1>4, <1>5, <1>6

\* The call the second walk is in.
LEMMA TopSeen ==
    ASSUME IInv, MatchInv, pc # "init", stack # <<>>
    PROVE  /\ OnNode(Len(stack)) \/ InBoundary(Top.name)
           /\ Led(Top)
           /\ Top.name \in Places /\ Top.i \in Nat
<1>1. Len(stack) \in 1..Len(stack) /\ Top = stack[Len(stack)] /\ Top \in Frame
  BY Current DEF Top
<1> QED BY <1>1 DEF MatchInv, DumpOK, Seen, OnNode, Frame

\* What the second walk goes into is a struct of the first, or inside a boundary node.
LEMMA DumpChild ==
    ASSUME IInv, MatchInv, pc # "init", HasField, Fld.kind \in {"val", "ptr", "box"}
    PROVE  Struct(Name, Place, Fld.type) \in nodes \/ InBoundary(Name)
<1>0. stack # <<>> /\ TypeOK
  BY DEF HasField, IInv
<1>1. Top.name \in Places /\ Top.i \in Nat /\ Name \in Places /\ Name = Append(Top.name, Top.i)
  BY <1>0, TopSeen, Current DEF Name
<1>2. /\ UnderBoundary(Top.name) => InBoundary(Name)
      /\ InBoundary(Top.name) => UnderBoundary(Top.name)
      /\ GivenUp(Name) => InBoundary(Name)
  BY <1>0, <1>1, InsideBoundary
<1>3. CASE OnNode(Len(stack))
  <2> DEFINE n == NodeOf(Top)
  <2>1. /\ n \in nodes /\ n.type = Top.type /\ n.name = Top.name
        /\ Top.i \in DOMAIN Fields(n.type) /\ Append(n.place, Top.i) = Place
        /\ Child(n, Top.i) = Struct(Name, Place, Fld.type)
        /\ Bound(n, Top.i)
    BY <1>3, TopBound
  <2>2. Fields(n.type)[Top.i] = Fld
    BY <2>1 DEF Fld
  <2>3. Append(n.name, Top.i) = Name
    BY <2>1 DEF Name
  <2> HIDE DEF n
  <2>4. CASE Fld.kind = "val"
    BY <1>2, <2>1, <2>2, <2>3, <2>4 DEF Bound
  <2>5. CASE Fld.kind \in {"ptr", "box"}
    BY <1>2, <2>1, <2>2, <2>5 DEF Bound
  <2> QED BY <2>4, <2>5
<1> QED BY <1>0, <1>2, <1>3, TopSeen

\* Where a call of the second walk is led to, the one on its current field is.
LEMMA LedOn ==
    ASSUME IInv, MatchInv, HasField, Led(Top), Top.at # "object"
    PROVE  InBoundary(Name) \/ \E s \in changed : IsPrefix(s, Name)
<1>0. stack # <<>> /\ TypeOK
  BY DEF HasField, IInv
<1>1. Top.name \in Places /\ Top.i \in Nat /\ Name = Append(Top.name, Top.i)
  BY <1>0, Current DEF Name, Frame
<1>2. CASE InBoundary(Top.name)
  BY <1>0, <1>1, <1>2, InsideBoundary
<1>3. CASE \E s \in changed : IsPrefix(s, Top.name)
  <2>1. PICK s \in changed : IsPrefix(s, Top.name)
    BY <1>3
  <2>2. s \in Places
    BY <1>0 DEF TypeOK
  <2> QED BY <1>1, <2>1, <2>2, PrefixAppend
<1> QED BY <1>2, <1>3 DEF Led

\* A pointer that is followed leads to its object, or the target has set it or one on the
\* way, or a boundary node has it.
LEMMA FoundWhere ==
    ASSUME IInv, NamesInv, MatchInv, pc # "init", HasField, Fld.kind \in {"ptr", "box"},
           NEW a \in Found, a # "object"
    PROVE  InBoundary(Name) \/ \E s \in changed : IsPrefix(s, Name)
<1>0. stack # <<>> /\ TypeOK
  BY DEF HasField, IInv
<1>1. Top.name \in Places /\ Top.i \in Nat /\ Name \in Places /\ Name = Append(Top.name, Top.i)
  BY <1>0, TopSeen, Current DEF Name
<1>2. /\ UnderBoundary(Top.name) => InBoundary(Name)
      /\ InBoundary(Top.name) => UnderBoundary(Top.name)
  BY <1>0, <1>1, InsideBoundary
<1>3. CASE Top.at # "object"
  BY <1>0, <1>3, TopSeen, LedOn
<1>4. CASE Top.at = "object" /\ OnNode(Len(stack))
  <2>1. a = IF Place \in DOMAIN slot THEN slot[Place] ELSE "elsewhere"
    BY <1>4 DEF Found
  <2>2. ~ Points(Place)
    BY <2>1 DEF Points
  <2> DEFINE n == NodeOf(Top)
  <2>3. /\ n \in nodes /\ n.type = Top.type /\ n.name = Top.name
        /\ Append(n.place, Top.i) = Place /\ Bound(n, Top.i)
    BY <1>4, TopBound
  <2>4. Fields(n.type)[Top.i] = Fld /\ n.place = Top.place
    BY <2>3 DEF Fld, NodeOf
  <2>5. n.place = n.name \/ InVec(n.name)
    BY <2>3 DEF NamesInv, NodesOK
  <2> HIDE DEF n
  <2>6. UnderBoundary(Top.name) \/ Place \in changed
    BY <2>2, <2>3, <2>4 DEF Bound
  <2>7. ~ InVec(Top.name)
    <3>1. Len(stack) \in 1..Len(stack) /\ Top = stack[Len(stack)]
      BY <1>0, Current DEF Top
    <3> QED BY <3>1 DEF NamesInv, CallsOK, OnPlain, Plain
  <2>8. Place = Name
    BY <1>1, <2>3, <2>4, <2>5, <2>7 DEF Place
  <2>9. IsPrefix(Name, Name)
    <3>1. \A j \in 1..Len(Name) : Name[j] = Name[j]
      OBVIOUS
    <3>2. Len(Name) <= Len(Name)
      BY <1>1 DEF Places
    <3> QED BY <1>1, <3>1, <3>2, PrefixElements
  <2> QED BY <1>2, <2>6, <2>8, <2>9
<1> QED BY <1>0, <1>2, <1>3, <1>4, TopSeen

\* The second walk goes into a struct.
LEMMA DumpPush ==
    ASSUME IInv, MatchInv, pc = "dump", pc' = "dump", HasField,
           NEW f \in Frame, Push(f), NodeOf(f) = Struct(Name, Place, Fld.type),
           Struct(Name, Place, Fld.type) \in nodes \/ InBoundary(Name), Led(f),
           UNCHANGED <<prog, boundary, leaf, nodes, slot, changed>>
    PROVE  MatchInv'
<1>0. stack # <<>> /\ f.name = Name /\ f.place = Place
  BY DEF HasField, NodeOf, Struct
<1>1. PICK n \in Nat \ {0} : n = Len(stack) /\ n \in 1..Len(stack) /\ Top = stack[n]
  BY <1>0, Current DEF Top
<1>2. /\ Len(stack') = n + 1 /\ stack'[n + 1] = f
      /\ \A k \in 1..n : /\ stack'[k].name = stack[k].name
                         /\ stack'[k].place = stack[k].place
                         /\ stack'[k].type = stack[k].type
                         /\ stack'[k].at = stack[k].at
  <2>1. Next1 \in Seq(Frame) /\ Len(Next1) = n
    BY <1>0, <1>1, MovedOn
  <2>2. /\ Len(stack') = n + 1 /\ stack'[n + 1] = f
        /\ \A k \in 1..n : stack'[k] = Next1[k]
    BY <2>1 DEF Push
  <2> QED BY <1>0, <1>1, <2>2, Next1Names
<1>3. NestInv'
  <2>1. Top.place \in Places /\ Top.i \in Nat
    BY <1>0, Current DEF Frame
  <2>2. Len(Place) = Len(Top.place) + 1 /\ Len(Top.place) \in Nat
    BY <2>1, FieldPaths DEF Place, Places
  <2>3. Len(Top.place) < Len(f.place)
    BY <1>0, <2>2
  <2> QED BY <1>0, <2>3, NestPushed DEF MatchInv
<1>4. DumpOK'
  <2> SUFFICES ASSUME NEW k \in 1..(n + 1)
               PROVE  Seen(stack[k])' /\ Led(stack[k])'
    BY <1>2 DEF DumpOK
  <2>1. CASE k \in 1..n
    <3>1. Seen(stack[k]) /\ Led(stack[k])
      BY <1>1, <2>1 DEF MatchInv, DumpOK
    <3> QED BY <1>2, <2>1, <3>1, SeenStays
  <2>2. CASE k = n + 1
    <3>1. stack'[k] = f
      BY <1>2, <2>2
    <3>2. Seen(stack[k])' <=> NodeOf(f) \in nodes \/ InBoundary(f.name)
      BY <3>1 DEF Seen, NodeOf, InBoundary
    <3>3. Led(stack[k])' <=> Led(f)
      BY <3>1 DEF Led, InBoundary
    <3> QED BY <1>0, <3>2, <3>3
  <2> QED BY <2>1, <2>2
<1>5. DiedOK'
  BY DEF DiedOK
<1> QED BY <1>3, <1>4, <1>5, DumpKeeps

\* The second walk starts at an argument's struct.
LEMMA DumpStart ==
    ASSUME IInv, MatchInv, DumpArgument
    PROVE  MatchInv'
<1> USE DEF graph
<1> DEFINE x == <<arg + 1>>
           g == Call(x, x, prog.args[arg + 1], "dump", {})
<1>1. /\ stack' = <<g>> /\ pc = "dump" /\ pc' = "dump" /\ arg < Len(prog.args)
      /\ UNCHANGED <<prog, boundary, leaf, nodes, slot, changed>>
  BY DEF DumpArgument
<1>2. NodeOf(g) = [name |-> x, place |-> x, type |-> prog.args[arg + 1]] /\ g.name = x /\ Len(x) = 1
      /\ g.at = "object"
  BY DEF NodeOf, Call
<1>3. NodeOf(g) \in nodes
  <2>1. arg \in Nat /\ Len(prog.args) \in Nat
    BY HarnessAssumption DEF IInv, TypeOK
  <2>2. arg + 1 \in 1..(IF pc = "init" THEN arg ELSE Len(prog.args))
    BY <1>1, <2>1
  <2> QED BY <1>2, <2>2 DEF MatchInv, ArgumentsMade
<1> HIDE DEF g
<1>4. Len(stack') = 1 /\ stack'[1] = g
  BY <1>1
<1>5. NestInv'
  <2> SUFFICES ASSUME NEW k \in 1..1
               PROVE  /\ Len(stack'[k].name) = k
                      /\ \A l \in 1..1 : k < l =>
                          /\ Len(stack'[k].place) < Len(stack'[l].place)
                          /\ \A j \in 1..k : stack'[l].name[j] = stack'[k].name[j]
    BY <1>4 DEF NestInv
  <2>1. k = 1 /\ \A l \in 1..1 : ~ (k < l)
    OBVIOUS
  <2> QED BY <1>2, <1>4, <2>1
<1>6. DumpOK'
  <2> SUFFICES ASSUME NEW k \in 1..1 PROVE Seen(stack[k])' /\ Led(stack[k])'
    BY <1>4 DEF DumpOK
  <2>1. stack'[k] = g
    BY <1>4
  <2> QED BY <1>1, <1>2, <1>3, <2>1 DEF Seen, Led, NodeOf
<1>7. DiedOK'
  BY <1>1 DEF DiedOK
<1> QED BY <1>1, <1>5, <1>6, <1>7, DumpKeeps

\* The second walk stops, at its end or at a read through NULL.
LEMMA DumpStops ==
    ASSUME IInv, NamesInv, MatchInv, DumpDies \/ DumpEnds
    PROVE  MatchInv'
<1> USE DEF walk, graph
<1>1. /\ pc = "dump" /\ pc' # "init"
      /\ UNCHANGED <<prog, stack, boundary, leaf, nodes, slot, changed>>
  BY DEF DumpDies, DumpEnds
<1>2. NestInv'
  BY <1>1, NestTouched DEF MatchInv
<1>3. DumpOK'
  <2> SUFFICES ASSUME NEW k \in 1..Len(stack) PROVE Seen(stack[k])' /\ Led(stack[k])'
    BY <1>1 DEF DumpOK
  <2>1. Seen(stack[k]) /\ Led(stack[k])
    BY <1>1 DEF MatchInv, DumpOK
  <2> QED BY <1>1, <2>1, SeenStays
<1>4. DiedOK'
  <2>1. CASE DumpEnds
    BY <2>1 DEF DumpEnds, DiedOK
  <2>2. CASE DumpDies
    <3>1. HasField /\ Top.at # "object"
      BY <2>2 DEF DumpDies
    <3>2. Top' = Top
      BY <1>1 DEF Top
    <3>3. HasField' <=> HasField
      BY <1>1, <3>2 DEF HasField, Fields
    <3> QED BY <3>1, <3>2, <3>3 DEF DiedOK
  <2> QED BY <2>1, <2>2
<1> QED BY <1>1, <1>2, <1>3, <1>4, DumpKeeps

\* The end of a struct, in either walk.
LEMMA ReturnMatch ==
    ASSUME IInv, NamesInv, MatchInv, Return
    PROVE  MatchInv'
<1> USE DEF graph
<1>1. /\ stack # <<>> /\ Top.i > Len(Fields(Top.type))
      /\ stack' = SubSeq(stack, 1, Len(stack) - 1)
      /\ UNCHANGED <<prog, pc, arg, boundary, leaf, nodes, slot, changed>>
  BY DEF Return
<1>2. PICK n \in Nat : n = Len(stack) - 1 /\ Len(stack) = n + 1
  BY <1>1, Current
<1>3. Len(stack') = n /\ \A k \in 1..n : stack'[k] = stack[k] /\ k \in 1..Len(stack)
  BY <1>1, <1>2, FrontOf DEF IInv, TypeOK
<1>4. NestInv'
  BY <1>1, NestPopped DEF MatchInv
<1>5. CASE pc = "init"
  <2>1. BoundaryOK' /\ Used' = Used
    BY <1>1, SameGraph DEF MatchInv
  <2>2. FreshInv'
    BY <1>1, <1>3, <1>5, <2>1 DEF MatchInv, FreshInv
  <2>3. MadeInv'
    <3>1. \A t : Fields(t)' = Fields(t)
      BY <1>1, SameGraph
    <3> SUFFICES ASSUME NEW m \in nodes, NEW i \in DOMAIN Fields(m.type), ~ Awaited(m, i)'
                 PROVE  Bound(m, i)'
      BY <1>1, <1>5, <3>1 DEF MadeInv, Settled
    <3>2. ASSUME Awaited(m, i) PROVE FALSE
      <4>1. PICK k \in 1..Len(stack) :
              /\ stack[k].name = m.name /\ stack[k].place = m.place /\ stack[k].type = m.type
              /\ stack[k].i <= i
        BY <3>2 DEF Awaited
      <4>2. CASE k \in 1..n
        <5>1. stack'[k] = stack[k] /\ k \in 1..Len(stack')
          BY <1>3, <4>2
        <5> QED BY <4>1, <5>1 DEF Awaited
      <4>3. CASE k \notin 1..n
        <5>1. k = Len(stack)
          BY <1>2, <4>3
        <5>2. Top.type = m.type /\ Top.i <= i
          BY <4>1, <5>1 DEF Top
        <5>3. Top.i \in Nat /\ Fields(Top.type) \in Seq(Field)
          BY <1>1, Current DEF Frame
        <5>4. i \in 1..Len(Fields(Top.type)) /\ Len(Fields(Top.type)) \in Nat
          BY <5>2, <5>3
        <5> QED BY <1>1, <5>2, <5>3, <5>4
      <4> QED BY <4>2, <4>3
    <3>3. Bound(m, i)
      BY <3>2 DEF MatchInv, MadeInv, Settled
    <3> QED BY <1>1, <3>3, SameGraph
  <2>4. ArgumentsMade' /\ DumpOK' /\ DiedOK'
    BY <1>1, <1>5 DEF MatchInv, ArgumentsMade, DumpOK, DiedOK
  <2>5. ModesOK'
    BY <1>3, <1>5 DEF MatchInv, ModesOK
  <2> QED BY <1>4, <2>1, <2>2, <2>3, <2>4, <2>5 DEF MatchInv
<1>6. CASE pc # "init"
  <2>1. DumpOK'
    <3> SUFFICES ASSUME NEW k \in 1..n PROVE Seen(stack[k])' /\ Led(stack[k])'
      BY <1>3 DEF DumpOK
    <3>1. Seen(stack[k]) /\ Led(stack[k])
      BY <1>3, <1>6 DEF MatchInv, DumpOK
    <3> QED BY <1>1, <1>3, <3>1, SeenStays
  <2>2. pc # "died"
    <3>1. Top.i \in Nat /\ Len(Fields(Top.type)) \in Nat
      BY <1>1, Current DEF Frame
    <3>2. ~ (Top.i <= Len(Fields(Top.type)))
      BY <1>1, <3>1
    <3> QED BY <3>2 DEF MatchInv, DiedOK, HasField
  <2>3. DiedOK'
    BY <1>1, <2>2 DEF DiedOK
  <2> QED BY <1>1, <1>4, <1>6, <2>1, <2>3, DumpKeeps
<1> QED BY <1>5, <1>6

-----------------------------------------------------------------------------
\* What a field has got it keeps when a node becomes a boundary node.
LEMMA BoundaryKeeps ==
    ASSUME UNCHANGED <<prog, leaf, nodes, slot, changed>>, boundary \subseteq boundary'
    PROVE  /\ \A n, i : Bound(n, i) => Bound(n, i)'
           /\ \A t : Fields(t)' = Fields(t)
           /\ \A x : Above(x)' = Above(x)
           /\ Used' = Used
<1>1. \A t : Fields(t)' = Fields(t)
  BY DEF Fields
<1>2. \A x : (UnderBoundary(x) => UnderBoundary(x)') /\ (GivenUp(x) => GivenUp(x)')
  BY DEF UnderBoundary, GivenUp
<1>3. \A x : Points(x)' <=> Points(x)
  BY DEF Points
<1>4. \A n, i : Child(n, i)' = Child(n, i)
  BY <1>1 DEF Child
<1>5. \A x : Above(x)' = Above(x)
  BY <1>1 DEF Above, HopsTo
<1>6. ASSUME NEW n, NEW i, Bound(n, i)
      PROVE  Bound(n, i)'
  BY <1>1, <1>2, <1>3, <1>4, <1>5, <1>6 DEF Bound
<1>7. Used' = Used
  BY DEF Used
<1> QED BY <1>1, <1>5, <1>6, <1>7

\* The first walk meets a type it is expanding.
LEMMA StopMatch ==
    ASSUME IInv, NamesInv, MatchInv, StopAtBoundary
    PROVE  MatchInv'
<1> USE DEF graph
<1> DEFINE h == [stack[Len(stack)] EXCEPT !.mode = "null", !.depth = 0]
<1>1. /\ pc = "init" /\ HasField /\ stack # <<>> /\ Top.type \in visited
      /\ boundary' = boundary \union {Top.name}
      /\ stack' = [stack EXCEPT ![Len(stack)] = h]
      /\ UNCHANGED <<prog, pc, arg, leaf, nodes, slot, changed>>
  BY DEF StopAtBoundary, Walking, HasField
<1>m. /\ NestInv /\ FreshInv /\ BoundaryOK /\ MadeInv
      /\ ArgumentsMade /\ ModesOK
  BY DEF MatchInv
<1>2. PICK n \in Nat \ {0} : n = Len(stack) /\ n \in 1..Len(stack) /\ Top = stack[n]
  BY <1>1, Current DEF Top
<1>3. /\ h.name = stack[n].name /\ h.place = stack[n].place /\ h.type = stack[n].type
      /\ h.i = stack[n].i /\ h.mode = "null"
  <2>1. stack[n] \in Frame
    BY <1>1, <1>2, Current
  <2> QED BY <1>2, <2>1 DEF Frame
<1> HIDE DEF h
<1>4. /\ Len(stack') = n
      /\ \A k \in 1..n : /\ stack'[k].name = stack[k].name
                         /\ stack'[k].place = stack[k].place
                         /\ stack'[k].type = stack[k].type
                         /\ stack'[k].i = stack[k].i
                         /\ stack'[k].mode \in {"null", stack[k].mode}
  <2>1. stack \in Seq(Frame)
    BY DEF IInv, TypeOK
  <2>2. Len(stack') = n /\ \A k \in 1..n : stack'[k] = IF k = n THEN h ELSE stack[k]
    BY <1>1, <1>2, <2>1
  <2> QED BY <1>3, <2>2
<1>5. boundary \subseteq boundary'
  BY <1>1
<1>6. NestInv'
  BY <1>2, <1>4, <1>m, NestTouched
<1>7. FreshInv'
  <2>1. Used' = Used
    BY <1>1, <1>5, BoundaryKeeps
  <2> QED BY <1>1, <1>2, <1>4, <1>m, <2>1 DEF FreshInv
<1>9. BoundaryOK'
  <2> SUFFICES ASSUME NEW b \in boundary'
               PROVE  \E m \in nodes : m.name = b /\ m.type \in Above(b)
    <3>1. \A x : Above(x)' = Above(x)
      BY <1>1, <1>5, BoundaryKeeps
    <3> QED BY <1>1, <3>1 DEF BoundaryOK
  <2>1. CASE b \in boundary
    BY <1>m, <2>1 DEF BoundaryOK
  <2>2. CASE b = Top.name
    <3>1. PICK k \in 1..(n - 1) :
            /\ stack[k].type = Top.type
            /\ Under(stack[k].name, Top.name)
            /\ Fields(Top.type)[Top.name[Len(stack[k].name) + 1]].kind \in {"ptr", "box"}
      BY <1>1, <1>2, <1>m, VisitedIsExpanded
    <3>2. k \in 1..Len(stack)
      BY <1>2
    <3>3. NodeOf(stack[k]) \in nodes /\ NodeOf(Top) \in nodes
      BY <1>1, <1>2, <3>2, TopNode DEF NamesInv, CallsOK, OnNode
    <3>4. /\ NodeOf(stack[k]).name = stack[k].name /\ NodeOf(stack[k]).type = Top.type
          /\ NodeOf(Top).name = Top.name /\ NodeOf(Top).type = Top.type
      BY <3>1 DEF NodeOf
    <3>5. Top.type \in Above(Top.name)
      BY <3>1, <3>3, <3>4 DEF Above, HopsTo
    <3> QED BY <2>2, <3>3, <3>4, <3>5
  <2> QED BY <1>1, <2>1, <2>2
<1>10. MadeInv'
  <2>1. \A t : Fields(t)' = Fields(t)
    BY <1>1, <1>5, BoundaryKeeps
  <2> SUFFICES ASSUME NEW m \in nodes, NEW i \in DOMAIN Fields(m.type), ~ Awaited(m, i)'
               PROVE  Bound(m, i)'
    BY <1>1, <2>1 DEF MadeInv, Settled
  <2>2. ~ Awaited(m, i)
    BY <1>2, <1>4 DEF Awaited
  <2>3. Bound(m, i)
    BY <1>m, <2>2 DEF MadeInv, Settled
  <2> QED BY <1>1, <1>5, <2>3, BoundaryKeeps
<1>11. ArgumentsMade' /\ DumpOK' /\ DiedOK'
  BY <1>1, <1>m DEF ArgumentsMade, DumpOK, DiedOK
<1>12. ModesOK'
  BY <1>1, <1>2, <1>4, <1>m DEF ModesOK
<1> QED BY <1>6, <1>7, <1>9, <1>10, <1>11, <1>12 DEF MatchInv

\* The first walk comes to the next argument: all before has another first element.
LEMMA StartMatch ==
    ASSUME IInv, NamesInv, MatchInv, StartArgument
    PROVE  MatchInv'
<1> DEFINE x == <<arg + 1>>
           c == Struct(x, x, prog.args[arg + 1])
           g == Call(x, x, prog.args[arg + 1], "bind", {})
<1>1. /\ pc = "init" /\ stack = <<>> /\ arg < Len(prog.args) /\ arg' = arg + 1
      /\ stack' = <<g>> /\ nodes' = nodes \union {c}
      /\ UNCHANGED <<prog, pc, boundary, leaf, slot, changed>>
  BY DEF StartArgument, Made, Struct
<1>m. /\ FreshInv /\ BoundaryOK /\ MadeInv
      /\ ArgumentsMade /\ ModesOK
  BY DEF MatchInv
<1>2. /\ g.name = x /\ g.place = x /\ g.type = c.type /\ g.i = 1 /\ g.mode = "bind"
      /\ c.name = x /\ c.place = x /\ c.type = prog.args[arg + 1]
  BY DEF Call, Struct
<1>3. arg \in Nat /\ arg + 1 \in Nat /\ x \in Places /\ c.type \in Types
  BY <1>1, <1>2, Arguments DEF IInv, TypeOK
<1>4. Len(x) = 1 /\ x[1] = arg + 1 /\ x # <<>> /\ ~ (arg + 1 <= arg)
  BY <1>3
<1>c. c = [name |-> x, place |-> x, type |-> prog.args[arg + 1]]
  BY DEF Struct
<1> HIDE DEF x, c, g
<1>5. Len(stack') = 1 /\ stack'[1] = g /\ Len(stack) = 0
  BY <1>1
<1>6. ASSUME NEW y \in Places, y # <<>>, y[1] <= arg
      PROVE  y # x /\ ~ Under(x, y) /\ ~ Under(y, x)
  <2>1. y # x
    BY <1>4, <1>6
  <2>2. ~ Under(x, y)
    <3>1. 1 \in 1..Len(x)
      BY <1>4
    <3> QED BY <1>4, <1>6, <3>1 DEF Under
  <2>3. ~ Under(y, x)
    <3>1. Len(y) \in Nat /\ Len(y) # 0
      BY <1>6 DEF Places
    <3> QED BY <1>4, <3>1 DEF Under
  <2> QED BY <2>1, <2>2, <2>3
<1>7. \A m \in nodes : m.name # x /\ ~ Under(x, m.name) /\ ~ Under(m.name, x)
  <2> SUFFICES ASSUME NEW m \in nodes PROVE m.name # x /\ ~ Under(x, m.name) /\ ~ Under(m.name, x)
    OBVIOUS
  <2>1. m.name \in Places /\ m.name # <<>> /\ m.name[1] <= arg
    BY <1>1, <1>m, NodeFields DEF NamesInv, NodesOK, FreshInv
  <2> QED BY <1>6, <2>1
<1>8. \A s \in Used : s \in Places /\ s # x /\ ~ Under(x, s) /\ s[1] <= arg /\ s # <<>>
  <2> SUFFICES ASSUME NEW s \in Used PROVE s \in Places /\ s # x /\ ~ Under(x, s) /\ s[1] <= arg /\ s # <<>>
    OBVIOUS
  <2>1. s \in Places
    BY DEF Used, IInv, TypeOK
  <2>2. s # <<>> /\ s[1] <= arg
    BY <1>1, <1>m DEF FreshInv
  <2> QED BY <1>6, <2>1, <2>2
<1>9. ~ Under(x, x)
  BY <1>4 DEF Under
<1>10. Used' = Used \union {x}
  <2>1. {m.place : m \in nodes'} = {m.place : m \in nodes} \union {x}
    BY <1>1, <1>2
  <2> QED BY <1>1, <2>1 DEF Used
<1>11. NestInv'
  <2> SUFFICES ASSUME NEW k \in 1..1
               PROVE  /\ Len(stack'[k].name) = k
                      /\ \A l \in 1..1 : k < l =>
                          /\ Len(stack'[k].place) < Len(stack'[l].place)
                          /\ \A j \in 1..k : stack'[l].name[j] = stack'[k].name[j]
    BY <1>5 DEF NestInv
  <2>1. k = 1 /\ \A l \in 1..1 : ~ (k < l)
    OBVIOUS
  <2> QED BY <1>2, <1>4, <1>5, <2>1
<1>12. FreshInv'
  <2>1. \A m \in nodes' : m.name[1] <= arg + 1 /\ ~ Under(x, m.name)
    <3> SUFFICES ASSUME NEW m \in nodes' PROVE m.name[1] <= arg + 1 /\ ~ Under(x, m.name)
      OBVIOUS
    <3>1. CASE m = c
      BY <1>2, <1>3, <1>4, <1>9, <3>1
    <3>2. CASE m \in nodes
      <4>1. m.name \in Places /\ m.name # <<>> /\ m.name[1] <= arg
        BY <1>1, <1>m, <3>2, NodeFields DEF NamesInv, NodesOK, FreshInv
      <4>2. m.name[1] \in Nat
        BY <4>1 DEF Places
      <4> QED BY <1>3, <1>7, <3>2, <4>1, <4>2
    <3> QED BY <1>1, <3>1, <3>2
  <2>2. \A s \in Used' : s # <<>> /\ s[1] <= arg + 1 /\ ~ Under(x, s)
    <3> SUFFICES ASSUME NEW s \in Used' PROVE s # <<>> /\ s[1] <= arg + 1 /\ ~ Under(x, s)
      OBVIOUS
    <3>1. CASE s = x
      BY <1>3, <1>4, <1>9, <3>1
    <3>2. CASE s \in Used
      <4>1. s \in Places /\ s # <<>> /\ s[1] <= arg
        BY <1>8, <3>2
      <4>2. s[1] \in Nat
        BY <4>1 DEF Places
      <4> QED BY <1>3, <1>8, <3>2, <4>1, <4>2
    <3> QED BY <1>10, <3>1, <3>2
  <2>3. ASSUME NEW k \in 1..Len(stack')
        PROVE  /\ \A m \in nodes' : Clear(m.name, stack'[k].name, stack'[k].i)
               /\ \A s \in Used' : Clear(s, stack'[k].place, stack'[k].i)
    <3>1. stack'[k].name = x /\ stack'[k].place = x
      BY <1>2, <1>5
    <3> QED BY <2>1, <2>2, <3>1 DEF Clear
  <2> QED BY <1>1, <2>1, <2>2, <2>3 DEF FreshInv
<1>14. \A t : Fields(t)' = Fields(t)
  BY <1>1 DEF Fields
<1>15. ASSUME NEW m \in nodes
       PROVE  Above(m.name)' = Above(m.name)
  <2>1. \A d : HopsTo(d, m.name)' <=> HopsTo(d, m.name)
    BY <1>14 DEF HopsTo
  <2>2. ~ HopsTo(c, m.name)
    BY <1>2, <1>7 DEF HopsTo
  <2> QED BY <1>1, <2>1, <2>2 DEF Above
<1>16. BoundaryOK'
  <2> SUFFICES ASSUME NEW b \in boundary PROVE \E m \in nodes' : m.name = b /\ m.type \in Above(b)'
    BY <1>1 DEF BoundaryOK
  <2>1. PICK m \in nodes : m.name = b /\ m.type \in Above(b)
    BY <1>m DEF BoundaryOK
  <2> QED BY <1>1, <1>15, <2>1
<1>17. MadeInv'
  <2> SUFFICES ASSUME NEW m \in nodes', NEW i \in DOMAIN Fields(m.type), ~ Awaited(m, i)'
               PROVE  Bound(m, i)'
    BY <1>1, <1>14 DEF MadeInv, Settled
  <2>1. CASE m \in nodes
    <3>1. ~ Awaited(m, i)
      BY <1>5 DEF Awaited
    <3>2. Bound(m, i)
      BY <1>m, <2>1, <3>1 DEF MadeInv, Settled
    <3>3. \A y : (UnderBoundary(y)' <=> UnderBoundary(y)) /\ (GivenUp(y)' <=> GivenUp(y))
      BY <1>1 DEF UnderBoundary, GivenUp
    <3>4. \A y : Points(y)' <=> Points(y)
      BY <1>1 DEF Points
    <3>5. Child(m, i)' = Child(m, i)
      BY <1>14 DEF Child
    <3>6. Above(m.name)' = Above(m.name)
      BY <1>15, <2>1
    <3>7. nodes \subseteq nodes'
      BY <1>1
    <3> QED BY <1>1, <1>14, <3>2, <3>3, <3>4, <3>5, <3>6, <3>7 DEF Bound
  <2>2. CASE m = c
    <3>1. Fields(c.type) \in Seq(Field)
      BY <1>3, HarnessAssumption DEF IInv, Fields
    <3>2. i \in Nat /\ 1 <= i
      BY <2>2, <3>1
    <3>3. 1 \in 1..Len(stack') /\ stack'[1].name = m.name /\ stack'[1].place = m.place
          /\ stack'[1].type = m.type /\ stack'[1].i <= i
      BY <1>2, <1>5, <2>2, <3>2
    <3> QED BY <3>3 DEF Awaited
  <2> QED BY <1>1, <2>1, <2>2
<1>19. ArgumentsMade'
  <2> SUFFICES ASSUME NEW a \in 1..(arg + 1)
               PROVE  [name |-> <<a>>, place |-> <<a>>, type |-> prog.args[a]] \in nodes'
    BY <1>1, <1>m DEF ArgumentsMade
  <2>1. CASE a \in 1..arg
    BY <1>1, <1>m, <2>1 DEF ArgumentsMade
  <2>2. CASE a = arg + 1
    BY <1>1, <1>c, <2>2 DEF x
  <2> QED BY <1>3, <2>1, <2>2
<1>20. ModesOK' /\ DumpOK' /\ DiedOK'
  <2>1. \A k \in 1..Len(stack') : stack'[k].mode # "dump"
    BY <1>2, <1>5
  <2> QED BY <1>1, <2>1 DEF ModesOK, DumpOK, DiedOK
<1> QED BY <1>11, <1>12, <1>16, <1>17, <1>19, <1>20 DEF MatchInv

\* The call: all fields are settled, and a pointer the target sets is remembered.
LEMMA CallMatch ==
    ASSUME IInv, NamesInv, MatchInv, Target \/ TargetKeepsPointers
    PROVE  MatchInv'
<1> USE DEF walk, graph
<1>1. /\ pc = "init" /\ pc' = "dump" /\ stack = <<>> /\ arg = Len(prog.args)
      /\ UNCHANGED <<prog, stack, boundary, leaf, nodes>>
  BY DEF Target, TargetKeepsPointers
<1>m. BoundaryOK /\ MadeInv /\ ArgumentsMade
  BY DEF MatchInv
<1>2. \A x : Points(x) => Points(x)' \/ x \in changed'
  <2>1. CASE TargetKeepsPointers
    <3>1. slot' = slot
      BY <2>1 DEF TargetKeepsPointers
    <3> QED BY <3>1 DEF Points
  <2>2. CASE Target
    <3>1. PICK s \in Writable, v \in {"NULL", "elsewhere"} :
             slot' = With(slot, s, v) /\ changed' = {s}
      BY <2>2 DEF Target
    <3>2. DOMAIN slot' = DOMAIN slot \union {s}
          /\ \A x \in DOMAIN slot' : slot'[x] = IF x = s THEN v ELSE slot[x]
      BY <3>1 DEF With
    <3>3. ASSUME NEW x, Points(x), x # s
          PROVE  Points(x)'
      BY <3>2, <3>3 DEF Points
    <3> QED BY <3>1, <3>3
  <2> QED BY <2>1, <2>2
<1>3. changed = {}
  BY <1>1, <1>m DEF ArgumentsMade
<1>4. Len(stack) = 0
  BY <1>1
<1>5. NestInv' /\ FreshInv' /\ ModesOK' /\ DumpOK' /\ DiedOK'
  BY <1>1, <1>4 DEF NestInv, FreshInv, ModesOK, DumpOK, DiedOK
<1>6. /\ \A t : Fields(t)' = Fields(t)
      /\ \A x : (UnderBoundary(x)' <=> UnderBoundary(x)) /\ (GivenUp(x)' <=> GivenUp(x))
  BY <1>1 DEF Fields, UnderBoundary, GivenUp
<1>7. (\A n, i : Child(n, i)' = Child(n, i)) /\ (\A x : Above(x)' = Above(x))
  BY <1>1, <1>6 DEF Child, Above, HopsTo
<1>8. BoundaryOK'
  BY <1>1, <1>7, <1>m DEF BoundaryOK
<1>9. MadeInv'
  <2> SUFFICES ASSUME NEW n \in nodes, NEW i \in DOMAIN Fields(n.type) PROVE Bound(n, i)'
    BY <1>1, <1>6 DEF MadeInv
  <2>1. Settled(n, i)
    BY <1>4 DEF Settled, Awaited
  <2>2. Bound(n, i)
    BY <1>m, <2>1 DEF MadeInv
  <2> QED BY <1>1, <1>2, <1>3, <1>6, <1>7, <2>2 DEF Bound
<1>10. ArgumentsMade'
  BY <1>1, <1>m DEF ArgumentsMade
<1> QED BY <1>5, <1>8, <1>9, <1>10 DEF MatchInv

LEMMA StutterMatch ==
    ASSUME MatchInv, UNCHANGED vars
    PROVE  MatchInv'
<1> USE DEF walk, graph
<1>1. UNCHANGED <<prog, pc, arg, stack, boundary, leaf, nodes, slot, changed>>
  BY DEF vars
<1>2. BoundaryOK' /\ Used' = Used
  BY <1>1, SameGraph DEF MatchInv
<1>3. NestInv'
  BY <1>1, NestTouched DEF MatchInv
<1>4. FreshInv'
  BY <1>1, <1>2 DEF MatchInv, FreshInv
<1>5. MadeInv'
  <2>1. \A t : Fields(t)' = Fields(t)
    BY <1>1, SameGraph
  <2>2. \A n, i : Settled(n, i)' => Settled(n, i)
    BY <1>1 DEF Settled, Awaited
  <2>3. \A n \in nodes : \A i \in DOMAIN Fields(n.type) : Settled(n, i) => Bound(n, i)
    BY DEF MatchInv, MadeInv
  <2>4. \A n, i : Bound(n, i) => Bound(n, i)'
    BY <1>1, SameGraph
  <2> QED BY <1>1, <2>1, <2>2, <2>3, <2>4 DEF MadeInv
<1>6. ArgumentsMade' /\ ModesOK'
  BY <1>1 DEF MatchInv, ArgumentsMade, ModesOK
<1>7. DumpOK'
  BY <1>1 DEF MatchInv, DumpOK, Seen, Led, NodeOf, InBoundary
<1>8. DiedOK'
  BY <1>1 DEF MatchInv, DiedOK, HasField, Top, Fields
<1> QED BY <1>2, <1>3, <1>4, <1>5, <1>6, <1>7, <1>8 DEF MatchInv

\* Every step keeps what the first walk leaves for the second.
LEMMA NextMatch == LInv /\ NamesInv /\ MatchInv /\ [Next]_vars => MatchInv'
<1> SUFFICES ASSUME LInv, NamesInv, MatchInv, [Next]_vars PROVE MatchInv'
  OBVIOUS
<1> USE DEF walk, graph
<1>0. IInv
  BY DEF LInv
<1>1. CASE StartArgument
  BY <1>0, <1>1, StartMatch
<1>2. CASE \/ BindNothing \/ BindLeaf \/ BindObject \/ NullPointer
           \/ BindInPlace \/ BindVecElement \/ NullVec
  BY <1>2, BindMatch
<1>3. CASE StopAtBoundary
  BY <1>0, <1>3, StopMatch
<1>4. CASE Return
  BY <1>0, <1>4, ReturnMatch
<1>5. CASE Target \/ TargetKeepsPointers
  BY <1>0, <1>5, CallMatch
<1>6. CASE DumpArgument
  BY <1>0, <1>6, DumpStart
<1>7. CASE DumpNothing \/ DumpLeafHit \/ DumpLeafUnbound \/ DumpLeafAtRunTime \/ DumpSkips
  <2>1. /\ pc = "dump" /\ pc' = "dump" /\ stack # <<>> /\ stack' = Next1
        /\ UNCHANGED <<prog, boundary, leaf, nodes, slot, changed>>
    BY <1>7 DEF DumpNothing, DumpLeafHit, DumpLeafUnbound, DumpLeafAtRunTime, DumpSkips,
                Dumping, Shown, HasField, Step
  <2> QED BY <1>0, <2>1, DumpStep
<1>8. CASE DumpFollows \/ DumpInPlace
  <2>1. /\ HasField /\ stack # <<>> /\ pc = "dump" /\ pc' = "dump" /\ pc # "init"
        /\ Fld.kind \in {"ptr", "box", "val"}
        /\ UNCHANGED <<prog, boundary, leaf, nodes, slot, changed>>
    BY <1>0, <1>8, DumpCall
  <2>2. \E b \in SUBSET Types, a \in Values :
           /\ Push(Reached(b, a))
           /\ a = "object" \/ InBoundary(Name) \/ \E s \in changed : IsPrefix(s, Name)
    <3>1. CASE DumpFollows
      <4>1. PICK a \in Values : a \in Found /\ Push(Reached({Top.type}, a)) /\ Fld.kind \in {"ptr", "box"}
        BY <1>0, <3>1, FollowsCall
      <4>2. {Top.type} \in SUBSET Types
        BY <1>0, <2>1, Current DEF Frame
      <4>3. a = "object" \/ InBoundary(Name) \/ \E s \in changed : IsPrefix(s, Name)
        BY <1>0, <2>1, <4>1, FoundWhere
      <4> QED BY <4>1, <4>2, <4>3
    <3>2. CASE DumpInPlace
      <4>1. Top.at \in Values /\ Push(Reached({}, Top.at))
        BY <1>0, <3>2, InPlaceCall
      <4>2. {} \in SUBSET Types
        OBVIOUS
      <4>3. Top.at = "object" \/ InBoundary(Name) \/ \E s \in changed : IsPrefix(s, Name)
        BY <1>0, <2>1, TopSeen, LedOn
      <4> QED BY <4>1, <4>2, <4>3
    <3> QED BY <1>8, <3>1, <3>2
  <2>3. PICK b \in SUBSET Types, a \in Values :
           /\ Push(Reached(b, a))
           /\ a = "object" \/ InBoundary(Name) \/ \E s \in changed : IsPrefix(s, Name)
    BY <2>2
  <2> DEFINE g == Reached(b, a)
  <2>4. /\ g \in Frame /\ g.at = a /\ g.name = Name /\ g.place = Place /\ g.type = Fld.type
        /\ Push(g)
    BY <1>0, <2>1, <2>3, NewReached
  <2> HIDE DEF g
  <2>5. NodeOf(g) = Struct(Name, Place, Fld.type)
    BY <2>4 DEF NodeOf, Struct
  <2>6. Led(g)
    BY <2>3, <2>4 DEF Led
  <2>7. Struct(Name, Place, Fld.type) \in nodes \/ InBoundary(Name)
    BY <1>0, <2>1, DumpChild
  <2> QED BY <1>0, <2>1, <2>4, <2>5, <2>6, <2>7, DumpPush
<1>9. CASE DumpDies \/ DumpEnds
  BY <1>0, <1>9, DumpStops
<1>10. CASE UNCHANGED vars
  BY <1>10, StutterMatch
<1> QED BY <1>1, <1>2, <1>3, <1>4, <1>5, <1>6, <1>7, <1>8, <1>9, <1>10 DEF Next

-----------------------------------------------------------------------------
\* The second walk at a field, with the first walk's account of it.
LEMMA AgreeAtMatch ==
    ASSUME IInv, NamesInv, MatchInv
    PROVE  WalksAgree
<1>1. ASSUME pc = "dump", stack # <<>>
      PROVE  InHarness \/ InBoundary(Top.name)
  <2>1. Len(stack) \in 1..Len(stack) /\ Top = stack[Len(stack)]
    BY <1>1, Current DEF Top
  <2>2. OnNode(Len(stack)) \/ InBoundary(Top.name)
    BY <1>1, TopSeen
  <2> QED BY <2>1, <2>2 DEF InHarness, OnNode, NodeOf
<1>2. ASSUME Shown({"ptr", "box"}), Top.type \in visited
      PROVE  UnderBoundary(Top.name)
  BY <1>2, VisitedIsUnderBoundary DEF Shown
<1>3. ASSUME Shown({"ptr", "box"}), Top.name \in boundary
      PROVE  Top.type \in visited
  BY <1>3, BoundaryIsVisited DEF Shown, HasField, MatchInv
<1>4. ASSUME pc = "died"
      PROVE  InBoundary(Top.name) \/ \E s \in changed : IsPrefix(s, Top.name)
  <2>1. HasField /\ Top.at # "object" /\ stack # <<>>
    BY <1>4 DEF MatchInv, DiedOK, HasField
  <2> QED BY <1>4, <2>1, TopSeen DEF Led
<1> QED BY <1>1, <1>2, <1>3, <1>4 DEF WalksAgree

LEMMA LeavesAtMatch ==
    ASSUME IInv, NamesInv, MatchInv
    PROVE  LeavesHaveBuffers
<1> SUFFICES ASSUME Shown({"leaf"}), InHarness PROVE LeafName \in DOMAIN leaf
  BY DEF LeavesHaveBuffers
<1>0. stack # <<>> /\ HasField /\ Fld.kind = "leaf" /\ pc # "init"
  BY DEF Shown, HasField
<1>1. OnNode(Len(stack))
  BY DEF InHarness, OnNode, NodeOf, Top
<1> DEFINE n == NodeOf(Top)
<1>2. /\ n.type = Top.type /\ n.name = Top.name /\ Bound(n, Top.i)
  BY <1>0, <1>1, TopBound
<1>3. Fields(n.type)[Top.i] = Fld /\ Append(n.name, Top.i) = LeafName
  BY <1>0, <1>2 DEF Fld, LeafName, Name
<1> HIDE DEF n
<1> QED BY <1>0, <1>2, <1>3 DEF Bound

-----------------------------------------------------------------------------
\* All three accounts together.
WalksInv == LInv /\ NamesInv /\ MatchInv

LEMMA WalksInvHolds == Spec => []WalksInv
<1>1. Init => WalksInv
  BY InitInv, InitPointers, InitNames, InitMatch DEF WalksInv, LInv
<1>2. WalksInv /\ [Next]_vars => WalksInv'
  BY NextInv, NextPointers, NextNames, NextMatch DEF WalksInv, LInv
<1> QED BY <1>1, <1>2, PTL DEF Spec

(***************************************************************************)
(* print_nested_klee_exprs goes where initialize_inner_objects went: into  *)
(* structs the first walk made, under the names it gave them, or into what *)
(* lies inside a node where that walk stopped.  It skips a struct pointer  *)
(* only at or inside such a node, at such a node always, and KLEE ends a   *)
(* path in it only inside one, or below a pointer the target has set; for  *)
(* every program and depth, and whatever one pointer the target sets.      *)
(***************************************************************************)
THEOREM WalksMatchUp == Spec => []WalksAgree
<1>1. WalksInv => WalksAgree
  BY AgreeAtMatch DEF WalksInv, LInv
<1> QED BY <1>1, WalksInvHolds, PTL

(***************************************************************************)
(* take_leaf_buffer finds a buffer for every leaf field of every struct    *)
(* the first walk has made that the second walk comes to, boundary nodes   *)
(* included, under the name that walk gives it.  The labels it leaves out  *)
(* are those below a pointer a boundary node's nested structs have NULL.   *)
(***************************************************************************)
THEOREM LeavesBuffered == Spec => []LeavesHaveBuffers
<1>1. WalksInv => LeavesHaveBuffers
  BY LeavesAtMatch DEF WalksInv, LInv
<1> QED BY <1>1, WalksInvHolds, PTL
=============================================================================
