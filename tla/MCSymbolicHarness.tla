------------------------- MODULE MCSymbolicHarness -------------------------
\* Instances of SymbolicHarness for TLC.
EXTENDS SymbolicHarness

CONSTANTS A, B, C

F(k, t) == [kind |-> k, type |-> t]
Leaf == F("leaf", A)
Fn == F("fn", A)
Scalar == F("scalar", A)

UpTo(n, S) == UNION {[1..k -> S] : k \in 1..n}

\* B is held by value in A, never the other way round.
AFields == {Leaf, F("ptr", A), F("ptr", B), F("val", B)}
BFields == {Leaf, Scalar, F("ptr", A), F("ptr", B)}

Layout(a, b, c) == [t \in Types |-> CASE t = A -> a [] t = B -> b [] t = C -> c]
Raw(n, m) == {Layout(a, b, <<>>) : a \in UpTo(n, AFields), b \in UpTo(m, BFields)}

Program(f, args, rust, unused) == [fields |-> f, args |-> args, rust |-> rust, unused |-> unused]

\* Layouts of both sides, one argument; on the C side one field is never written.
Shapes ==
    {Program(Layout(<<x, F("ptr", A), y>>, b, <<>>), <<A>>, TRUE, {}) :
        x, y \in AFields, b \in UpTo(2, BFields)}
    \union {Program(f, <<A>>, FALSE, {<<t, 1>>}) : f \in Raw(2, 2), t \in {A, B}}

\* Two arguments.
TwoArguments ==
    {Program(Layout(<<Fn, x>>, b, <<>>), <<A, B>>, TRUE, {}) :
        x \in AFields, b \in UpTo(2, BFields)}

\* Vecs whose elements lead back only through a pointer.
VecFields == {Leaf, F("box", A), F("vec", B)}
VecShapes ==
    {Program(Layout(a, b, <<>>), <<A>>, TRUE, {}) :
        a \in UpTo(3, VecFields), b \in UpTo(2, {Leaf, F("box", A), F("box", B)})}

\* A boundary node with structs nested in it by value.
DeepShapes ==
    {Program(Layout(a, b, c), <<A>>, TRUE, {}) :
        a \in {<<F("ptr", A), F("val", B)>>, <<F("val", B), F("ptr", A)>>},
        b \in UpTo(2, {Leaf, F("val", C), F("vec", C)}),
        c \in {<<Leaf>>, <<F("ptr", A), Leaf>>, <<F("ptr", C), F("ptr", A)>>}}

MCPrograms == Shapes \union TwoArguments \union VecShapes \union DeepShapes

\* struct A { A *next; struct B { B *link; int v; } b; }
LinkInPlace ==
    {Program(Layout(<<F("ptr", A), F("val", B)>>, <<F("ptr", B), Scalar>>, <<>>), <<A>>, FALSE, {})}
=============================================================================
