--------------------------- MODULE SymbolicHarness ---------------------------
(***************************************************************************)
(* The main function SymbolizerPass builds around a target function: for   *)
(* each pointer argument it allocates an object and walks its fields,      *)
(* giving pointers something to point to; then the target runs; then a     *)
(* second walk reads the arguments back.  Nothing but the types, the       *)
(* shared set visited_structs and the names of fields ties the two walks   *)
(* together.                                                               *)
(*                                                                         *)
(* A field is a scalar, a leaf (pointer to anything but a struct), a       *)
(* function pointer (fn), a pointer to a struct (ptr), Option<Box<T>>,     *)
(* which is i8* to LLVM and a struct pointer by the struct map (box), a    *)
(* struct by value (val) or Vec<T> of structs (vec), laid out as           *)
(* { { i8*, i64 }, i64 }.                                                  *)
(*                                                                         *)
(* A name is what the pass calls an object: the argument and the indices   *)
(* of the fields passed ("arg_value_0.field_4" is <<1, 5>>).  A place is   *)
(* where the object is reached in memory; the two differ below a Vec.  The *)
(* ASSURE_* switches have their default values.                            *)
(***************************************************************************)
EXTENDS Naturals, Sequences, FiniteSets, SequencesExt

CONSTANTS
    Types,     \* struct types
    Programs,  \* [fields, args, rust, unused]: the fields of each type, the struct
               \* each argument points to, the side, the fields the target never writes
    NullDepth  \* null_boundary_pointers gives up in by-value structs nested deeper (4)

Kinds == {"scalar", "leaf", "fn", "ptr", "box", "val", "vec"}
Field == [kind : Kinds, type : Types]

ASSUME HarnessAssumption ==
    /\ IsFiniteSet(Types) /\ NullDepth \in Nat
    /\ \A p \in Programs :
        /\ p.fields \in [Types -> Seq(Field)]
        /\ p.args \in Seq(Types)
        /\ p.rust \in BOOLEAN
        /\ p.unused \subseteq Types \X Nat

VARIABLES
    prog,       \* the program under test
    pc,         \* "init", "dump", "done", or "died": a read through NULL
    arg,        \* arguments whose walk has begun
    stack,      \* the calls of the walk that is running, the current one last
    visited,    \* visited_structs
    boundary,   \* boundary_nodes
    leaf,       \* leaf_buffers: name |-> the place of the field the buffer is for
    worklist,   \* the queue leaf_buffers replaced; still filled
    nodes,      \* [name, place, type] of every struct in the harness
    slot,       \* place |-> what a pointer field holds; unconstrained if absent
    changed,    \* pointers the target has set
    reads       \* [path, src]: leaf fields printed from a buffer

walk == <<stack, visited>>
graph == <<leaf, worklist, nodes, slot>>
vars == <<prog, pc, arg, walk, boundary, graph, changed, reads>>

Places == Seq(Nat)
Values == {"object", "buffer", "NULL", "elsewhere"}
Frame == [name : Places, place : Places, type : Types, i : Nat \ {0},
          mode : {"bind", "null", "dump"}, by : SUBSET Types, depth : Nat, at : Values]

TypeOK ==
    /\ pc \in {"init", "dump", "done", "died"}
    /\ arg \in Nat
    /\ stack \in Seq(Frame)
    /\ visited \subseteq Types
    /\ boundary \subseteq Places
    /\ DOMAIN leaf \subseteq Places /\ \A n \in DOMAIN leaf : leaf[n] \in Places
    /\ worklist \in Seq(Places)
    /\ nodes \subseteq [name : Places, place : Places, type : Types]
    /\ DOMAIN slot \subseteq Places
    /\ \A s \in DOMAIN slot : slot[s] \in Values
    /\ changed \subseteq Places
    /\ reads \subseteq [path : Places, src : Places]

Init ==
    /\ prog \in Programs
    /\ pc = "init" /\ arg = 0
    /\ stack = <<>> /\ visited = {} /\ boundary = {}
    /\ leaf = <<>> /\ worklist = <<>> /\ nodes = {} /\ slot = <<>>
    /\ changed = {} /\ reads = {}

-----------------------------------------------------------------------------
\* Frames of the two walks.

Top == stack[Len(stack)]
Fields(t) == prog.fields[t]
HasField == stack # <<>> /\ Top.i <= Len(Fields(Top.type))
Fld == Fields(Top.type)[Top.i]
Name == Append(Top.name, Top.i)
Place == Append(Top.place, Top.i)

\* A call on the struct of type t; on return the types in by leave visited_structs.
\* The pointer followed to the struct holds at.
Call(name, place, t, mode, by) ==
    [name |-> name, place |-> place, type |-> t, i |-> 1, mode |-> mode, by |-> by,
     depth |-> 0, at |-> "object"]

Next1 == [stack EXCEPT ![Len(stack)].i = @ + 1]
Push(frame) == stack' = Append(Next1, frame)
Step == stack' = Next1 /\ UNCHANGED visited

Made(name, place, t) == nodes' = nodes \union {[name |-> name, place |-> place, type |-> t]}

With(f, x, y) == [z \in DOMAIN f \union {x} |-> IF z = x THEN y ELSE f[z]]

\* Fault: the type stays in visited_structs.
MutReturn ==
    /\ stack # <<>>
    /\ Top.i > Len(Fields(Top.type))
    /\ stack' = SubSeq(stack, 1, Len(stack) - 1)
    /\ UNCHANGED <<prog, pc, arg, visited, boundary, graph, changed, reads>>

\* The end of a struct: back to the call that came here, which erases its type.
Return ==
    /\ stack # <<>>
    /\ Top.i > Len(Fields(Top.type))
    /\ stack' = SubSeq(stack, 1, Len(stack) - 1)
    /\ visited' = visited \ Top.by
    /\ UNCHANGED <<prog, pc, arg, boundary, graph, changed, reads>>
-----------------------------------------------------------------------------
\* Before the call: initialize_inner_objects and null_boundary_pointers.

StartArgument ==
    /\ pc = "init" /\ stack = <<>> /\ arg < Len(prog.args)
    /\ arg' = arg + 1
    /\ LET t == prog.args[arg + 1]
       IN  /\ stack' = <<Call(<<arg + 1>>, <<arg + 1>>, t, "bind", {})>>
           /\ Made(<<arg + 1>>, <<arg + 1>>, t)
    /\ UNCHANGED <<prog, pc, visited, boundary, leaf, worklist, slot, changed, reads>>

Walking(kinds) == pc = "init" /\ HasField /\ Fld.kind \in kinds
Binding == Top.mode = "bind"

\* The structs between a Vec and its data pointer count as two levels.
Levels == IF Fld.kind = "vec" THEN 2 ELSE 1
TooDeep == Top.mode = "null" /\ Top.depth + Levels > NullDepth

BindNothing ==
    /\ Walking({"scalar", "fn"}) \/ (Walking({"val", "vec"}) /\ TooDeep)
    /\ Step
    /\ UNCHANGED <<prog, pc, arg, boundary, graph, changed, reads>>

\* A buffer for the leaf pointer called n at place s.
Record(n, s) ==
    /\ leaf' = With(leaf, n, s)
    /\ worklist' = Append(worklist, s)
    /\ slot' = With(slot, s, "buffer")

\* Fault: no buffers in the node the walk stops at.
MutBindLeaf ==
    /\ Walking({"leaf"})
    /\ IF Binding THEN Record(Name, Place)
       ELSE slot' = With(slot, Place, "NULL") /\ UNCHANGED <<leaf, worklist>>
    /\ Step
    /\ UNCHANGED <<prog, pc, arg, boundary, nodes, changed, reads>>

BindLeaf ==
    /\ Walking({"leaf"})
    /\ Record(Name, Place)
    /\ Step
    /\ UNCHANGED <<prog, pc, arg, boundary, nodes, changed, reads>>

\* The cast of a boxed object's type makes initialize_inner_pointer record it as a leaf.
RecordBox ==
    IF Fld.kind = "box"
    THEN leaf' = With(leaf, Name, Place) /\ worklist' = Append(worklist, Place)
    ELSE UNCHANGED <<leaf, worklist>>

\* Fault: the type is not put on the expansion stack.
MutBindObject ==
    /\ Walking({"ptr", "box"}) /\ Binding
    /\ Top.type \notin visited
    /\ Push(Call(Name, Place, Fld.type, "bind", {}))
    /\ slot' = With(slot, Place, "object")
    /\ Made(Name, Place, Fld.type)
    /\ RecordBox
    /\ UNCHANGED <<prog, pc, arg, visited, boundary, changed, reads>>

\* Fault: what is expanded is remembered by its name.
MutBindByName ==
    /\ Walking({"ptr", "box"}) /\ Binding
    /\ Top.type \notin visited
    /\ visited' = visited \union {Name}
    /\ Push(Call(Name, Place, Fld.type, "bind", {Name}))
    /\ slot' = With(slot, Place, "object")
    /\ Made(Name, Place, Fld.type)
    /\ RecordBox
    /\ UNCHANGED <<prog, pc, arg, boundary, changed, reads>>

\* A pointer to a struct: its object is made and walked before it is stored.
BindObject ==
    /\ Walking({"ptr", "box"}) /\ Binding
    /\ Top.type \notin visited
    /\ visited' = visited \union {Top.type}
    /\ Push(Call(Name, Place, Fld.type, "bind", {Top.type}))
    /\ slot' = With(slot, Place, "object")
    /\ Made(Name, Place, Fld.type)
    /\ RecordBox
    /\ UNCHANGED <<prog, pc, arg, boundary, changed, reads>>

\* Fault: the walk returns and leaves the rest of the node as it is.
MutStopAtBoundary ==
    /\ Walking({"ptr", "box"}) /\ Binding
    /\ Top.type \in visited
    /\ boundary' = boundary \union {Top.name}
    /\ stack' = SubSeq(stack, 1, Len(stack) - 1)
    /\ visited' = visited \ Top.by
    /\ UNCHANGED <<prog, pc, arg, graph, changed, reads>>

\* The type is being expanded already: the rest of the node goes to null_boundary_pointers.
StopAtBoundary ==
    /\ Walking({"ptr", "box"}) /\ Binding
    /\ Top.type \in visited
    /\ boundary' = boundary \union {Top.name}
    /\ stack' = [stack EXCEPT ![Len(stack)] = [@ EXCEPT !.mode = "null", !.depth = 0]]
    /\ UNCHANGED <<prog, pc, arg, visited, graph, changed, reads>>

NullPointer ==
    /\ Walking({"ptr", "box"}) /\ ~ Binding
    /\ slot' = With(slot, Place, "NULL")
    /\ Step
    /\ UNCHANGED <<prog, pc, arg, boundary, leaf, worklist, nodes, changed, reads>>

\* initialize_inner_struct, and the recursion of null_boundary_pointers.
BindInPlace ==
    /\ Walking({"val"}) /\ ~ TooDeep
    /\ Push([Call(Name, Place, Fld.type, Top.mode, {}) EXCEPT !.depth = Top.depth + 1])
    /\ Made(Name, Place, Fld.type)
    /\ UNCHANGED <<prog, pc, arg, visited, boundary, leaf, worklist, slot, changed, reads>>

\* From a Vec to its data pointer: the first field of its first field.
Data(path) == path \o <<1, 1>>

\* bind_vec_element: one element, named after the Vec.
BindVecElement ==
    /\ Walking({"vec"}) /\ Binding
    /\ Push(Call(Name, Data(Place), Fld.type, "bind", {}))
    /\ slot' = With(slot, Data(Place), "object")
    /\ Made(Name, Data(Place), Fld.type)
    /\ UNCHANGED <<prog, pc, arg, visited, boundary, leaf, worklist, changed, reads>>

\* The boundary walk knows nothing of elements: the data pointer is a leaf to it.
NullVec ==
    /\ Walking({"vec"}) /\ ~ Binding /\ ~ TooDeep
    /\ Record(Data(Name), Data(Place))
    /\ Step
    /\ UNCHANGED <<prog, pc, arg, boundary, nodes, changed, reads>>

-----------------------------------------------------------------------------
(***************************************************************************)
(* The call.  The target may set a struct pointer to NULL or elsewhere: to *)
(* another object of the harness, to its own, to one it has freed.  One at *)
(* most: what the second walk shows does not depend on what pointers hold, *)
(* only where the path ends does.                                          *)
(***************************************************************************)
Unused(t, i) == ~ prog.rust /\ <<t, i>> \in prog.unused

Writable ==
    {s \in DOMAIN slot : \E n \in nodes :
        /\ s = Append(n.place, Last(s))
        /\ Fields(n.type)[Last(s)].kind \in {"ptr", "box"} /\ ~ Unused(n.type, Last(s))}

Target ==
    /\ pc = "init" /\ stack = <<>> /\ arg = Len(prog.args)
    /\ \E s \in Writable, v \in {"NULL", "elsewhere"} :
        /\ slot[s] # v
        /\ slot' = With(slot, s, v)
        /\ changed' = {s}
    /\ pc' = "dump" /\ arg' = 0
    /\ UNCHANGED <<prog, walk, boundary, leaf, worklist, nodes, reads>>

TargetKeepsPointers ==
    /\ pc = "init" /\ stack = <<>> /\ arg = Len(prog.args)
    /\ pc' = "dump" /\ arg' = 0
    /\ UNCHANGED <<prog, walk, boundary, graph, changed, reads>>

-----------------------------------------------------------------------------
\* After the call: print_nested_klee_exprs.

\* Fault: the same argument again.
MutDumpArgument ==
    /\ pc = "dump" /\ stack = <<>> /\ arg < Len(prog.args)
    /\ stack' = <<Call(<<arg + 1>>, <<arg + 1>>, prog.args[arg + 1], "dump", {})>>
    /\ UNCHANGED <<prog, pc, arg, visited, boundary, graph, changed, reads>>

DumpArgument ==
    /\ pc = "dump" /\ stack = <<>> /\ arg < Len(prog.args)
    /\ arg' = arg + 1
    /\ stack' = <<Call(<<arg + 1>>, <<arg + 1>>, prog.args[arg + 1], "dump", {})>>
    /\ UNCHANGED <<prog, pc, visited, boundary, graph, changed, reads>>

DumpEnds ==
    /\ pc = "dump" /\ stack = <<>> /\ arg = Len(prog.args)
    /\ pc' = "done"
    /\ UNCHANGED <<prog, arg, walk, boundary, graph, changed, reads>>

Pruned == Unused(Top.type, Top.i)
LeafName == IF Fld.kind = "vec" THEN Data(Name) ELSE Name
UnderBoundary(path) == \E b \in boundary : IsPrefix(b, path)

\* The field is read from the struct itself: a scalar, a Vec's length, a pointer
\* that is followed, a leaf that has no buffer.
Loads ==
    /\ ~ Pruned
    /\ \/ Fld.kind \in {"scalar", "vec"}
       \/ Fld.kind \in {"ptr", "box"} /\ Top.type \notin visited
       \/ Fld.kind = "leaf" /\ LeafName \notin DOMAIN leaf /\ ~ UnderBoundary(Front(LeafName))

\* The code generator has come to a field of such a kind; at run time nothing is
\* read through NULL there.
Shown(kinds) == pc = "dump" /\ HasField /\ Fld.kind \in kinds /\ ~ Pruned
Survives == Loads => Top.at # "NULL"
Dumping(kinds) == Shown(kinds) /\ Survives

\* Nothing to follow: pruned by isFieldUnused, a scalar that is printed, a function pointer.
DumpNothing ==
    /\ pc = "dump" /\ HasField
    /\ Pruned \/ Dumping({"scalar", "fn"})
    /\ Step
    /\ UNCHANGED <<prog, pc, arg, boundary, graph, changed, reads>>

\* Fault: buffers come from the queue in the order they were made.
MutTakeLeafBuffer(n) == IF reads = {} /\ worklist # <<>> THEN worklist[1] ELSE leaf[n]

\* take_leaf_buffer.
TakeLeafBuffer(n) == leaf[n]

DumpLeafHit ==
    /\ Dumping({"leaf", "vec"})
    /\ LeafName \in DOMAIN leaf
    /\ reads' = reads \union {[path |-> LeafName, src |-> TakeLeafBuffer(LeafName)]}
    /\ Step
    /\ UNCHANGED <<prog, pc, arg, boundary, graph, changed>>

\* No buffer below a boundary node: the label is left out.
DumpLeafUnbound ==
    /\ Dumping({"leaf", "vec"})
    /\ LeafName \notin DOMAIN leaf /\ UnderBoundary(Front(LeafName))
    /\ Step
    /\ UNCHANGED <<prog, pc, arg, boundary, graph, changed, reads>>

\* No buffer elsewhere: the pointer is tested and read at run time.
DumpLeafAtRunTime ==
    /\ Dumping({"leaf", "vec"})
    /\ LeafName \notin DOMAIN leaf /\ ~ UnderBoundary(Front(LeafName))
    /\ Step
    /\ UNCHANGED <<prog, pc, arg, boundary, graph, changed, reads>>

\* The guard: a struct whose type is being walked already shows none of its struct pointers.
DumpSkips ==
    /\ Dumping({"ptr", "box"})
    /\ Top.type \in visited
    /\ Step
    /\ UNCHANGED <<prog, pc, arg, boundary, graph, changed, reads>>

Follow == Dumping({"ptr", "box"}) /\ Top.type \notin visited

\* What the pointer that is followed holds.
Found ==
    IF Top.at = "elsewhere" THEN {"NULL", "elsewhere"}
    ELSE {IF Place \in DOMAIN slot THEN slot[Place] ELSE "elsewhere"}

Reached(by, a) == [Call(Name, Place, Fld.type, "dump", by) EXCEPT !.at = a]

\* Fault: the guard is never set.
MutDumpFollows ==
    /\ Follow
    /\ \E a \in Found : Push(Reached({}, a))
    /\ UNCHANGED <<prog, pc, arg, visited, boundary, graph, changed, reads>>

DumpFollows ==
    /\ Follow
    /\ visited' = visited \union {Top.type}
    /\ \E a \in Found : Push(Reached({Top.type}, a))
    /\ UNCHANGED <<prog, pc, arg, boundary, graph, changed, reads>>

DumpInPlace ==
    /\ Dumping({"val"})
    /\ Push(Reached({}, Top.at))
    /\ UNCHANGED <<prog, pc, arg, visited, boundary, graph, changed, reads>>

\* Pointers are followed without a test: KLEE ends the path at the first read
\* through one that is NULL, and may at one that leads elsewhere.
DumpDies ==
    /\ pc = "dump" /\ HasField
    /\ Loads /\ Top.at # "object"
    /\ pc' = "died"
    /\ UNCHANGED <<prog, arg, walk, boundary, graph, changed, reads>>

-----------------------------------------------------------------------------
Next ==
    \/ StartArgument \/ BindNothing \/ BindLeaf \/ BindObject \/ StopAtBoundary
    \/ NullPointer \/ BindInPlace \/ BindVecElement \/ NullVec \/ Return
    \/ Target \/ TargetKeepsPointers
    \/ DumpArgument \/ DumpNothing \/ DumpLeafHit
    \/ DumpLeafUnbound \/ DumpLeafAtRunTime \/ DumpSkips
    \/ DumpFollows \/ DumpDies \/ DumpInPlace \/ DumpEnds

Spec == Init /\ [][Next]_vars /\ WF_vars(Next)

-----------------------------------------------------------------------------
(***************************************************************************)
(* However the types refer to each other, a chain of struct pointers is    *)
(* cut after one hop out of each type, in both walks, whatever Vecs lie on *)
(* the way: this much is visited_structs' doing.  The way into a Vec is    *)
(* not a hop: bind_vec_element never looks at visited_structs.             *)
(***************************************************************************)
Hops ==
    {k \in 2..Len(stack) :
        Fields(stack[k - 1].type)[Last(stack[k].name)].kind \in {"ptr", "box"}}
ChainsAreCut == Cardinality(Hops) <= Cardinality(Types)

(***************************************************************************)
(* visited_structs is empty between the arguments and between the walks: a *)
(* type left in it would turn the next argument's own object into a        *)
(* boundary node (the early return of initialize_inner_objects).           *)
(***************************************************************************)
WalksAreBalanced == visited = UNION {stack[k].by : k \in DOMAIN stack}

(***************************************************************************)
(* A field of node n has something to point to: a leaf a buffer, a struct  *)
(* pointer the object made for it, NULL in a boundary node and in what it  *)
(* holds by value, a Vec the element made for it, and there a raw buffer.  *)
(***************************************************************************)
GivenUp(name) == \E b \in boundary : IsPrefix(b, name) /\ Len(name) > Len(b) + NullDepth
NodeAt(place, t) == \E e \in nodes : e.place = place /\ e.type = t
HoldsStruct(n, s, t) == s \in DOMAIN slot /\ (NodeAt(s, t) \/ UnderBoundary(n.name))
Provided(n, i) ==
    LET kind == Fields(n.type)[i].kind
        t == Fields(n.type)[i].type
        there == Append(n.place, i)
    IN  /\ kind = "leaf" => there \in DOMAIN slot
        /\ kind \in {"ptr", "box"} => HoldsStruct(n, there, t)
        /\ kind = "vec" => \/ HoldsStruct(n, Data(there), t)
                          \/ GivenUp(Append(Append(n.name, i), 1))

(***************************************************************************)
(* When the target is called, every leaf, struct pointer and Vec of every  *)
(* struct the harness has made is bound, and outside the nodes where the   *)
(* walk stopped a struct pointer or a Vec leads to a struct of its type.   *)
(* Three things are left symbolic: function pointers, what is nested       *)
(* deeper in a boundary node than null_boundary_pointers goes, and the     *)
(* elements of a boundary node's Vec.                                      *)
(***************************************************************************)
NoLoosePointer ==
    pc # "init" => \A n \in nodes : \A i \in DOMAIN Fields(n.type) : Provided(n, i)

\* The second walk is at a struct the first one made, under the name it gave it.
InHarness == [name |-> Top.name, place |-> Top.place, type |-> Top.type] \in nodes
InBoundary(name) == \E b \in boundary : IsPrefix(b, name) /\ b # name

(***************************************************************************)
(* The second walk goes where the first one went: a struct it comes to is  *)
(* one the first walk made, or lies below one that a boundary node holds   *)
(* by value.  It skips a pointer only at or inside a node where the first  *)
(* one stopped, and at such a node it always does (visited_structs is      *)
(* tested in both, with the same effective pointee).  KLEE ends a path in  *)
(* it only below a pointer the target has set, or inside a boundary node,  *)
(* whose nested pointers are NULL while the guard looks at its own type    *)
(* only.                                                                   *)
(***************************************************************************)
WalksAgree ==
    /\ pc = "dump" /\ stack # <<>> => InHarness \/ InBoundary(Top.name)
    /\ Shown({"ptr", "box"}) =>
        /\ Top.type \in visited => UnderBoundary(Top.name)
        /\ Top.name \in boundary => Top.type \in visited
    /\ pc = "died" => InBoundary(Top.name) \/ \E s \in changed : IsPrefix(s, Top.name)

(***************************************************************************)
(* A path of the target ends in the second walk only below a pointer the   *)
(* target has set, never at one the harness made NULL ("The dump already   *)
(* skips struct pointers at this same boundary").                          *)
(***************************************************************************)
DiesOfTargetOnly == pc = "died" => \E s \in changed : IsPrefix(s, Top.name)

(***************************************************************************)
(* No label of a leaf field is lost that belongs to a struct the first     *)
(* walk made, boundary nodes included: the second walk finds a buffer      *)
(* under the name it gives the field (the two walks spell names with the   *)
(* same hops; ASSURE_BOUNDARY_LEAF).  Below a NULL pointer inside a        *)
(* boundary node there is no such struct, and the label is left out.       *)
(***************************************************************************)
LeavesHaveBuffers == Shown({"leaf"}) /\ InHarness => LeafName \in DOMAIN leaf

(***************************************************************************)
(* The walks keep LeafContract: what is printed for a field is never from  *)
(* another field's, or another argument's, buffer (assure_design.md 2.3c). *)
(* The data pointers of Vecs are the exception: an element goes by the     *)
(* name of its Vec, so its field_0.field_0 has the data pointer's name.    *)
(***************************************************************************)
OfVec(path) ==
    \E n \in nodes : \E i \in DOMAIN Fields(n.type) :
        Fields(n.type)[i].kind = "vec" /\ path = Data(Append(n.name, i))

Contract == INSTANCE LeafContract WITH
    called <- pc # "init",
    bound <- DOMAIN leaf,
    reads <- {r \in reads : ~ OfVec(r.path)}

KeepsLeafContract == Contract!Spec

(***************************************************************************)
(* Both walks come to their end, unless KLEE ends the path.                *)
(***************************************************************************)
HarnessEnds == <>(pc \in {"done", "died"})
=============================================================================
