--------------------------- MODULE MCMarshalling ---------------------------
(***************************************************************************)
(* Calls with up to three JavaScript objects: a class whose fields need    *)
(* padding and that refers to itself, an instance of a subclass, arrays of *)
(* objects, of integers and of numbers; shared objects and cycles.         *)
(***************************************************************************)
EXTENDS Marshalling

Member(t) == [type |-> t, method |-> FALSE]
MCClasses == {"Node"}
MCMembers ==
    [c \in MCClasses |->
        <<Member("i1"), Member("Node"), Member("double"), Member("Array<i32>"),
          [type |-> "i32", method |-> TRUE]>>]
MCArrays == {"Array<i32>", "Array<double>", "Array<Node>"}
MCElementOf ==
    [a \in MCArrays |-> CASE a = "Array<i32>" -> "i32"
                          [] a = "Array<double>" -> "double"
                          [] a = "Array<Node>" -> "Node"]

Null == [k |-> "null", v |-> 0]
Node(next, values) ==
    [ctor |-> "Node",
     cells |-> <<[k |-> "bool", v |-> 1], next, [k |-> "int", v |-> 7], values>>]
UnsetNode ==
    [ctor |-> "Node", cells |-> <<Unset("i1"), Undefined, Unset("double"), Undefined>>]
SubNode == [Node(Undefined, Undefined) EXCEPT !.ctor = "SubNode"]
ArrayObject(s) == [ctor |-> "Array", cells |-> s]
Whole(n) == [k |-> "int", v |-> n]

(* Object 3 is an array of integers or a node without references; objects  *)
(* 1 and 2 are nodes or arrays of nodes.                                   *)
Leaves == {ArrayObject(<<>>), ArrayObject(<<Whole(5), Whole(6)>>), ArrayObject(<<Unset("i32"), Whole(6)>>),
           UnsetNode, SubNode}
Nodes == {Node(next, values) : next \in {Undefined, Null, Ref(1), Ref(2), Ref(3)},
                               values \in {Undefined, Ref(3)}}
Lists == {ArrayObject(<<>>), ArrayObject(<<Undefined>>)}
         \cup {ArrayObject(<<Ref(a), Ref(b)>>) : a, b \in 1..3}

IsNode(g, o) == g[o].ctor \in {"Node", "SubNode"}
IsNumbers(g, o) == g[o].ctor = "Array" /\ \A i \in 1..Len(g[o].cells) : g[o].cells[i].k = "int"
IsInts(g, o) == g[o].ctor = "Array" /\ \A i \in 1..Len(g[o].cells) : g[o].cells[i].k # "ref"
IsList(g, o) == g[o].ctor = "Array" /\ \A i \in 1..Len(g[o].cells) : g[o].cells[i].k # "int"

(* What the TypeScript compiler accepts.                                   *)
WellTyped(g) ==
    \A o \in 1..3 :
        IF IsNode(g, o)
        THEN /\ g[o].cells[2].k = "ref" => IsNode(g, g[o].cells[2].v)
             /\ g[o].cells[4].k = "ref" => IsInts(g, g[o].cells[4].v)
        ELSE \A i \in 1..Len(g[o].cells) :
                g[o].cells[i].k = "ref" => IsNode(g, g[o].cells[i].v)

Graphs3 == {g \in {<<a, b, c>> : a \in Nodes, b \in Nodes \cup Lists, c \in Leaves} : WellTyped(g)}

Argument(t, value) == [type |-> t, value |-> value]
ArgumentLists(g) ==
    {<<Argument("Node", Ref(1)), Argument("i32", Whole(3))>>}
    \cup {<<Argument("Array<Node>", Ref(2)), Argument("Node", Ref(1))>> : x \in {y \in {2} : IsList(g, y)}}
    \cup {<<Argument("Array<double>", Ref(3)), Argument("Node", Undefined)>> : x \in {y \in {3} : IsNumbers(g, y)}}

(* What the arguments use the objects as: the third is an array of numbers *)
(* when it is passed as one, otherwise an array of integers.               *)
UsesOf(g, as) ==
    IF as[1].type = "Array<double>" THEN {<<3, "Array<double>">>}
    ELSE {u \in (1..3) \X Pointers :
            CASE u[2] = "Node" -> IsNode(g, u[1])
              [] u[2] = "Array<Node>" -> u[1] = 2 /\ IsList(g, 2)
              [] OTHER -> u = <<3, "Array<i32>">> /\ IsInts(g, 3)}

MCCalls ==
    UNION {{[graph |-> g, args |-> as, result |-> r, uses |-> UsesOf(g, as)] :
                as \in ArgumentLists(g), r \in {"Node", "Array<Node>", "i1", "void"}} :
           g \in Graphs3}

(* The hypotheses of the theorems about results and failures.              *)
ASSUME MCHypothesis == OneTypeEach /\ DeepEnough
=============================================================================
