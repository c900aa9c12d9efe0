--------------------------- MODULE ExpressionCode ---------------------------
(***************************************************************************)
(* The code generators of expressions: from a typed expression to the LLVM *)
(* instructions they append to the function.                               *)
(*                                                                         *)
(* An expression is a node [k, op, v, s]: its kind, its operator, name or  *)
(* type, the value of a literal, and its children.  A generator passes on  *)
(* g = [c, v]: the instructions so far and the Value object it returns,    *)
(* which is a register, or still the place to load it from (a variable,    *)
(* an element), or undefined.  A register is the number of the instruction *)
(* computing it; a label instruction begins a basic block.                 *)
(*                                                                         *)
(* One operator stands for those of its kind: "+" for the arithmetic, "|"  *)
(* for the bitwise and shift operators, "<" for the relational ones.       *)
(***************************************************************************)
EXTENDS Integers, Sequences

Node(k, op, s) == [k |-> k, op |-> op, v |-> 0, s |-> s]
Literal(t, v) == [Node("lit", t, <<>>) EXCEPT !.v = v]

NaN == -1000         \* every other number of the model is 0 or greater

\* The types of the variables of the function and the elements of its array.
VarType == [i |-> "int", n |-> "num", b |-> "bool", p |-> "maybe"]
ElementType == "num"

Comparisons == {"==", "!=", "<"}
Compound == {"+=", "**=", "|=", "%="}
Assignments == Compound \cup {"="}

\* isAssignment, and the operator a compound assignment applies.
Applied(op) == CASE op = "+=" -> "+" [] op = "|=" -> "|" [] op = "**=" -> "**" [] OTHER -> op

(***************************************************************************)
(* The type TypeScript gives an expression, after toSupportedType has made *)
(* literals and unions of literals their base type.                        *)
(***************************************************************************)
RECURSIVE Type(_)
Type(e) ==
  LET Of(i) == Type(e.s[i])
      Join(i, j) == IF Of(i) = Of(j) THEN Of(i) ELSE IF "undef" \in {Of(i), Of(j)} THEN "maybe" ELSE "num"
  IN  CASE e.k \in {"lit", "as"} -> e.op
        [] e.k = "var" -> VarType[e.op]
        [] e.k = "undef" -> "undef"
        [] e.k = "elem" -> ElementType
        [] e.k = "call" -> IF e.op = "f" THEN "int" ELSE "num"
        [] e.k = "pre" -> IF e.op = "!" THEN "bool" ELSE Of(1)
        [] e.k = "post" -> Of(1)
        [] e.k = "cond" -> Join(2, 3)
        [] e.op \in Comparisons -> "bool"
        [] Applied(e.op) = "|" -> "int"
        [] Applied(e.op) = "**" -> "num"
        [] e.op \in {",", "="} -> Of(2)
        [] OTHER -> Join(1, 2)

LlvmType(t) == CASE t = "bool" -> "i1" [] t = "int" -> "i32" [] t = "num" -> "double" [] OTHER -> "ptr"

\* The instructions c with one more; operands are registers.
Emit(c, op, ty, args, x) == Append(c, [op |-> op, ty |-> ty, args |-> args, x |-> x, v |-> 0, to |-> <<>>])
Constant(c, ty, v) == Append(c, [op |-> "const", ty |-> ty, args |-> <<>>, x |-> "", v |-> v, to |-> <<>>])
Label(c, name) == Append(c, [op |-> "label", ty |-> "", args |-> <<>>, x |-> "", v |-> name, to |-> <<>>])
CondBr(c, r, t, f) == Append(c, [op |-> "condbr", ty |-> "", args |-> <<r>>, x |-> "", v |-> 0, to |-> <<t, f>>])
Br(c, t) == Append(c, [op |-> "br", ty |-> "", args |-> <<>>, x |-> "", v |-> 0, to |-> <<t>>])
Phi(c, ty, r1, b1, r2, b2) ==
  Append(c, [op |-> "phi", ty |-> ty, args |-> <<r1, r2>>, x |-> "", v |-> 0, to |-> <<b1, b2>>])

Register(r, t) == [k |-> "reg", r |-> r, t |-> t, x |-> "", index |-> <<>>]

\* context.value: the instruction emitted last as a Primitive or object of type t.
Value(c, t) == [c |-> c, v |-> Register(Len(c), t)]

\* A generator that throws a diagnostic leaves this mark.
Throw(c) == Value(Emit(c, "throw", "", <<>>, ""), "undef")

\* context.value of what g computed, at type t: undefined has no Value object there.
ContextValue(g, t) == IF t = "undef" THEN Throw(g.c) ELSE [g EXCEPT !.v.t = t]

\* builder.getInsertBlock
InsertBlock(c) ==
  LET labels == {n \in DOMAIN c : c[n].op = "label"}
  IN  IF labels = {} THEN 0 ELSE c[CHOOSE n \in labels : \A m \in labels : m <= n].v

\* Value.generateIR: a variable is loaded, the getter of an element called, whenever it is asked for.
RECURSIVE GenerateIR(_)
GenerateIR(g) ==
  LET Get(i) == Value(Emit(i.c, "get", LlvmType(g.v.t), <<i.v.r>>, ""), g.v.t)
  IN  CASE g.v.k = "reg" -> g
        [] g.v.k = "var" -> Value(Emit(g.c, "load", LlvmType(g.v.t), <<>>, g.v.x), g.v.t)
        [] g.v.k = "elem" -> Get(GenerateIR([c |-> g.c, v |-> g.v.index]))
        [] OTHER -> Value(Constant(g.c, "ptr", 0), "undef")

\* Primitive.toInt32 of a value TypeScript says is of type t.
ToInt32(g, t) ==
  LET Convert(l, op) == Value(Emit(l.c, op, "i32", <<l.v.r>>, ""), "int")
  IN  CASE t = "int" -> GenerateIR(g)
        [] t \in {"bool", "num"} -> Convert(GenerateIR(g), IF t = "bool" THEN "zext" ELSE "toInt32d")
        [] t = "maybe" -> Value(Constant(g.c, "i32", 0), "int")
        [] OTHER -> Throw(g.c)

\* The instruction comparing register r with zero or the null pointer of its type.
NotZero(c, r, ty) ==
  LET Compare(z) == Emit(z, IF ty = "double" THEN "fcmpone" ELSE "icmpne", "i1", <<r, Len(z)>>, "")
  IN  Value(Compare(Constant(c, ty, 0)), "bool")

\* Primitive.toBoolean of a value TypeScript says is of type t.
ToBoolean(g, t) ==
  LET Test(l) == CASE t = "bool" -> l
                   [] t = "undef" -> Value(Constant(l.c, "i1", 0), "bool")
                   [] OTHER -> NotZero(l.c, l.v.r, LlvmType(t))
  IN  Test(GenerateIR(g))

\* Primitive.toNumber of a value of type t.
ToNumber(g, t) ==
  LET Convert(l) ==
        CASE t \in {"bool", "int"} ->
               Value(Emit(l.c, IF t = "bool" THEN "uitofp" ELSE "sitofp", "double", <<l.v.r>>, ""), "num")
          [] t = "num" -> l
          [] OTHER -> Value(Constant(l.c, "double", IF t = "undef" THEN NaN ELSE 0), "num")
  IN  Convert(GenerateIR(g))

(***************************************************************************)
(* castImplicit: undefined becomes the default of a type, a primitive may  *)
(* only widen, an object stays what it is.                                 *)
(***************************************************************************)
UndefinedAs(c, to) == Value(Constant(c, LlvmType(to), IF to = "num" THEN NaN ELSE 0), to)

PrimitiveCast(l, to) ==
  CASE l.v.t = to -> l
    [] to = "int" /\ l.v.t = "bool" -> ToInt32(l, "bool")
    [] to = "num" -> ToNumber(l, l.v.t)
    [] OTHER -> Throw(l.c)

ObjectCast(l, to) ==
  IF to \in {"maybe", "undef"} THEN [l EXCEPT !.v.t = to] ELSE Throw(l.c)

CastImplicit(g, to) ==
  LET Cast(l) == IF l.v.t = "maybe" THEN ObjectCast(l, to) ELSE PrimitiveCast(l, to)
  IN  IF g.v.k = "undef" \/ g.v.t = "undef" THEN UndefinedAs(g.c, to) ELSE Cast(GenerateIR(g))

\* unifyTypes: the type both operands are cast to, "" if there is none.
Unify(e) ==
  LET Widen(l, r) == CASE l = r -> l
                       [] l = "int" /\ r = "num" -> r
                       [] l = "maybe" /\ r = "undef" -> l
                       [] OTHER -> ""
      Either(l, r) == IF Widen(l, r) # "" THEN Widen(l, r) ELSE Widen(r, l)
  IN  Either(Type(e.s[1]), Type(e.s[2]))

\* context.assignValue and the generateAssignmentIR of its targets.
AssignValue(target, g) ==
  LET Set(at, l) == Emit(at.c, "set", "", <<at.v.r, l.v.r>>, "")
      Assigned(l) ==
        CASE target.k = "var" -> Emit(l.c, "store", "", <<l.v.r>>, target.x)
          [] target.k = "elem" -> Set(GenerateIR([c |-> l.c, v |-> target.index]), l)
          [] OTHER -> Throw(l.c).c
  IN  Assigned(GenerateIR(g))

\* The instruction adding 1 to the register r of type t; only numbers have one.
AddOne(c, r, t) ==
  LET Add(one) == Emit(one, IF t = "int" THEN "add" ELSE "fadd", LlvmType(t), <<r, Len(one)>>, "")
  IN  IF t \in {"int", "num"} THEN Value(Add(Constant(c, LlvmType(t), 1)), t) ELSE Throw(c)

RECURSIVE Generate(_, _)

\* toUnified
ToUnified(e, i, c) == CastImplicit(Generate(e.s[i], c), Unify(e))

\* Both operands as values of their unified type, and the registers they are in.
Operands(e, c) ==
  LET Both(l, r) == [c |-> r.c, l |-> l.v.r, r |-> r.v.r]
      Second(l) == Both(l, GenerateIR(ToUnified(e, 2, l.c)))
  IN  Second(GenerateIR(ToUnified(e, 1, c)))

\* a | b and the other bitwise operators: each operand converted where it stands.
Bitwise(e, c) ==
  LET Both(l, r) == Value(Emit(r.c, "or", "i32", <<l.v.r, r.v.r>>, ""), "int")
      Second(l) == Both(l, ToInt32(Generate(e.s[2], l.c), Type(e.s[2])))
  IN  Second(ToInt32(Generate(e.s[1], c), Type(e.s[1])))

\* a + b, a - b, a * b, a / b, a % b of two values of type t
Arithmetic(e, o, t) ==
  IF t \notin {"int", "num"} THEN Throw(o.c)
  ELSE Value(Emit(o.c, IF t = "int" THEN "add" ELSE "fadd", LlvmType(t), <<o.l, o.r>>, ""), Type(e))

\* a ** b: the operands are unified first and converted from the types they had before.
Power(e, o, t) ==
  LET Pow(base, exponent) == Value(Emit(exponent.c, "pow", "double", <<base.v.r, exponent.v.r>>, ""), "num")
      Exponent(base) == Pow(base, ToNumber([c |-> base.c, v |-> Register(o.r, "num")], Type(e.s[2])))
  IN  IF t \notin {"int", "num"} THEN Throw(o.c)
      ELSE Exponent(ToNumber([c |-> o.c, v |-> Register(o.l, "num")], Type(e.s[1])))

\* a === b, a !== b
Equality(e, o, t) ==
  LET op == IF t = "num" THEN (IF e.op = "==" THEN "fcmpoeq" ELSE "fcmpone")
                         ELSE (IF e.op = "==" THEN "icmpeq" ELSE "icmpne")
  IN  Value(Emit(o.c, op, "i1", <<o.l, o.r>>, ""), "bool")

\* a < b, a <= b, a > b, a >= b: booleans are compared as integers.
Relational(o, t) ==
  LET Compare(c, op, l, r) == Value(Emit(c, op, "i1", <<l, r>>, ""), "bool")
      Right(l) == Compare(Emit(l, "zext", "i32", <<o.r>>, ""), "icmpslt", Len(l), Len(l) + 1)
  IN  CASE t = "bool" -> Right(Emit(o.c, "zext", "i32", <<o.l>>, ""))
        [] t = "int" -> Compare(o.c, "icmpslt", o.l, o.r)
        [] t = "num" -> Compare(o.c, "fcmpolt", o.l, o.r)
        [] OTHER -> Throw(o.c)

\* The operators that unify their operands first, to type t.
Unified(e, o, t) ==
  CASE Applied(e.op) = "+" -> Arithmetic(e, o, t)
    [] Applied(e.op) = "**" -> Power(e, o, t)
    [] e.op \in {"==", "!="} -> Equality(e, o, t)
    [] OTHER -> Relational(o, t)

\* The blocks of a logical operator whose test ends the instructions c.
RhsBlock(c) == Len(c) + 1
EndBlock(c) == Len(c) + 1001

\* Where the right operand of a logical operator is generated, if the test decides to.
RhsOfAnd(test) == Label(CondBr(test.c, test.v.r, RhsBlock(test.c), EndBlock(test.c)), RhsBlock(test.c))
RhsOfOr(test) == Label(CondBr(test.c, test.v.r, EndBlock(test.c), RhsBlock(test.c)), RhsBlock(test.c))

\* Mutated form of LogicalEnd: the value of the right operand is used without a phi.
LogicalEndWithoutPhi(t, l, test, r) == [r EXCEPT !.c = Label(Br(r.c, EndBlock(test.c)), EndBlock(test.c))]

\* Mutated form of LogicalEnd: the block of the right operand is the one it began in.
LogicalEndStaleBlock(t, l, test, r) ==
  Value(Phi(Label(Br(r.c, EndBlock(test.c)), EndBlock(test.c)), LlvmType(t),
            l.v.r, InsertBlock(test.c), r.v.r, RhsBlock(test.c)), t)

(***************************************************************************)
(* The end of a logical operator: the block of the right operand is taken  *)
(* again once it has been generated, because the operand may have ended it.*)
(***************************************************************************)
LogicalEnd(t, l, test, r) ==
  Value(Phi(Label(Br(r.c, EndBlock(test.c)), EndBlock(test.c)), LlvmType(t),
            l.v.r, InsertBlock(test.c), r.v.r, InsertBlock(r.c)), t)

\* a && b
LogicalAnd(e, c) ==
  LET Right(l, test) == LogicalEnd(Type(e), l, test, GenerateIR(Generate(e.s[2], RhsOfAnd(test))))
      Test(l) == Right(l, ToBoolean(l, Type(e.s[1])))
  IN  Test(GenerateIR(Generate(e.s[1], c)))

\* a || b: both operands are unified, the test is for the type the left one had before.
LogicalOr(e, c) ==
  LET Right(l, test) == LogicalEnd(Type(e), l, test, GenerateIR(ToUnified(e, 2, RhsOfOr(test))))
      Test(l) == Right(l, ToBoolean(l, Type(e.s[1])))
  IN  Test(GenerateIR(ToUnified(e, 1, c)))

\* a, b
Comma(e, c) == ContextValue(GenerateIR(Generate(e.s[2], GenerateIR(Generate(e.s[1], c)).c)), Type(e))

\* c ? a : b: both alternatives are generated in front of the select.
Conditional(e, c, t) ==
  LET Select(test, a, b) == Value(Emit(b.c, "select", LlvmType(t), <<test.v.r, a.v.r, b.v.r>>, ""), t)
      Third(test, a) == Select(test, a, CastImplicit(Generate(e.s[3], a.c), t))
      Second(test) == Third(test, CastImplicit(Generate(e.s[2], test.c), t))
  IN  Second(ToBoolean(Generate(e.s[1], c), Type(e.s[1])))

\* The value of a binary expression, before it is assigned.
BinaryValue(e, c) ==
  CASE Applied(e.op) = "|" -> Bitwise(e, c)
    [] e.op = "&&" -> ContextValue(LogicalAnd(e, c), Type(e))
    [] e.op = "||" -> ContextValue(LogicalOr(e, c), Type(e))
    [] e.op = "," -> Comma(e, c)
    [] e.op = "=" -> CastImplicit(Generate(e.s[2], c), Type(e.s[1]))
    [] e.op = "%=" \/ Unify(e) = "" -> Throw(c)
    [] OTHER -> Unified(e, Operands(e, c), Unify(e))

\* The target of an assignment is generated after the value, a second time if it is compound.
Binary(e, c) ==
  LET Assigned(result, target) == [c |-> AssignValue(target.v, [result EXCEPT !.c = target.c]), v |-> result.v]
      Result(result) == IF e.op \notin Assignments THEN result ELSE Assigned(result, Generate(e.s[1], result.c))
  IN  Result(BinaryValue(e, c))

\* a plus 1 assigned to a, whose value is l; target is the Value object of a.
Increment(e, target, l) ==
  LET Assigned(updated) == [c |-> AssignValue(target, updated), v |-> updated.v]
  IN  Assigned(AddOne(l.c, l.v.r, Type(e.s[1])))

\* !a, ++a; --a, -a and ~a are like them.
Prefix(e, g) ==
  LET Not(test) == Value(Emit(test.c, "not", "i1", <<test.v.r>>, ""), "bool")
  IN  IF e.op = "!" THEN Not(ToBoolean(g, Type(e.s[1]))) ELSE Increment(e, g.v, GenerateIR(g))

\* Mutated form of Postfix: the value after the update.
PostfixUpdated(e, g) == Increment(e, g.v, GenerateIR(g))

\* a++, a--
Postfix(e, g) ==
  LET After(before) == [Increment(e, g.v, before) EXCEPT !.v = before.v]
  IN  After(GenerateIR(g))

\* a as bool, int or num; t is the type of a.
As(e, g, t) ==
  CASE e.op = "bool" -> ToBoolean(g, t)
    [] e.op = "int" -> ToInt32(g, t)
    [] e.op = "num" -> ToNumber(g, t)
    [] OTHER -> Throw(g.c)

\* a[i]: the index must be an int; it is generated here, its value taken when the element is.
ElementAccess(e, c) ==
  LET Element(index) ==
        [c |-> index.c, v |-> [k |-> "elem", r |-> 0, t |-> ElementType, x |-> "", index |-> index.v]]
  IN  IF Type(e.s[1]) # "int" THEN Throw(c) ELSE Element(Generate(e.s[1], c))

\* f() and g(a), whose parameter is a number.
CallExpression(e, c) ==
  LET WithArgument(a) == Value(Emit(a.c, "call", "double", <<a.v.r>>, "g"), "num")
  IN  IF e.op = "f" THEN Value(Emit(c, "call", "i32", <<>>, "f"), "int")
      ELSE WithArgument(GenerateIR(CastImplicit(Generate(e.s[1], c), "num")))

Generate(e, c) ==
  CASE e.k = "lit" -> Value(Constant(c, LlvmType(e.op), e.v), e.op)
    [] e.k = "var" -> [c |-> c, v |-> [k |-> "var", r |-> 0, t |-> VarType[e.op], x |-> e.op, index |-> <<>>]]
    [] e.k = "undef" -> [c |-> c, v |-> [k |-> "undef", r |-> 0, t |-> "undef", x |-> "", index |-> <<>>]]
    [] e.k = "elem" -> ElementAccess(e, c)
    [] e.k = "call" -> CallExpression(e, c)
    [] e.k = "pre" -> Prefix(e, Generate(e.s[1], c))
    [] e.k = "post" -> Postfix(e, Generate(e.s[1], c))
    [] e.k = "as" -> As(e, Generate(e.s[1], c), Type(e.s[1]))
    [] e.k = "cond" -> Conditional(e, c, Type(e))
    [] OTHER -> Binary(e, c)

\* How deep the left operands of e go: it tells apart the blocks made before any instruction.
RECURSIVE Depth(_)
Depth(e) == IF e.k \in {"bin", "pre"} THEN 1 + Depth(e.s[1]) ELSE 0

\* generateCondition: &&, || and ! of a condition become branches.
RECURSIVE GenerateCondition(_, _, _, _)
GenerateCondition(e, t, f, c) ==
  LET rhs == 2000 + 10 * Len(c) + Depth(e)
      Test(test) == CondBr(test.c, test.v.r, t, f)
  IN  CASE e.k = "bin" /\ e.op = "&&" ->
             GenerateCondition(e.s[2], t, f, Label(GenerateCondition(e.s[1], rhs, f, c), rhs))
        [] e.k = "bin" /\ e.op = "||" ->
             GenerateCondition(e.s[2], t, f, Label(GenerateCondition(e.s[1], t, rhs, c), rhs))
        [] e.k = "pre" /\ e.op = "!" -> GenerateCondition(e.s[1], f, t, c)
        [] OTHER -> Test(ToBoolean(Generate(e, c), Type(e)))

(***************************************************************************)
(* The statements around an expression: return, if, the declaration of the *)
(* variable n, and an array literal made the array of the function.        *)
(***************************************************************************)
Then == 9001
Else == 9002
End == 9003

Return(p) ==
  LET Ret(value) == Emit(value.c, "ret", "", <<value.v.r>>, "")
  IN  Ret(CastImplicit(Generate(p.s[1], <<>>), p.op))

If(p) ==
  LET then == Emit(Label(GenerateCondition(p.s[1], Then, Else, <<>>), Then), "mark", "", <<>>, "then")
      else == Emit(Label(Br(then, End), Else), "mark", "", <<>>, "else")
  IN  Label(Br(else, End), End)

VariableDeclaration(p) ==
  LET Store(value) == Emit(value.c, "store", "", <<value.v.r>>, "n")
  IN  Store(CastImplicit(Generate(p.s[1], <<>>), "num"))

ArrayLiteral(p) ==
  LET Fill(a, b) == Emit(b.c, "fill", "", <<a.v.r, b.v.r>>, "")
      Second(a) == Fill(a, GenerateIR(CastImplicit(Generate(p.s[2], a.c), ElementType)))
  IN  Second(GenerateIR(CastImplicit(Generate(p.s[1], <<>>), ElementType)))

Compile(p) ==
  CASE p.k = "return" -> Return(p)
    [] p.k = "if" -> If(p)
    [] p.k = "let" -> VariableDeclaration(p)
    [] OTHER -> ArrayLiteral(p)
=============================================================================
