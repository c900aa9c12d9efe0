---------------------------- MODULE MCExpressions ----------------------------
(***************************************************************************)
(* Statements around expressions two operators deep, every operator with   *)
(* operands of every type and with every effect, and conditions and        *)
(* logical operators three deep.                                           *)
(***************************************************************************)
EXTENDS Expressions

Var(x) == Node("var", x, <<>>)
Undef == Node("undef", "", <<>>)
Bin(op, l, r) == Node("bin", op, <<l, r>>)
Elem(index) == Node("elem", "", <<index>>)
Cond(c, a, b) == Node("cond", "", <<c, a, b>>)
F == Node("call", "f", <<>>)
G(e) == Node("call", "g", <<e>>)
Pre(op, e) == Node("pre", op, <<e>>)
Post(e) == Node("post", "++", <<e>>)
AsType(e, t) == Node("as", t, <<e>>)

i == Var("i")
n == Var("n")
b == Var("b")
p == Var("p")
Zero == Literal("int", 0)
One == Literal("int", 1)

Ints == {Zero, One, i, F, Post(i), Pre("++", i), Bin("=", i, F), Bin("+=", i, One), Bin("|=", i, One), AsType(n, "int"), Bin("=", i, AsType(n, "int"))}
Nums == {n, Literal("num", 2), G(i), G(n), Elem(i), Elem(Post(i)), Post(n), Pre("++", Elem(Post(i))), Bin("=", n, i), Bin("+=", n, i),
         Bin("**=", n, n), Bin("=", Elem(i), i), Bin("=", Elem(Zero), G(F)), Bin("+=", Elem(One), F), AsType(i, "num")}
Bools == {b, Pre("!", b), Pre("!", p), Bin("<", i, n), Bin("=", b, Bin("==", p, Undef)), Bin("!=", p, Undef), AsType(n, "bool")}
Maybes == {p, Bin("=", p, Undef)}

Arithmetics == {Bin(op, l, r) : op \in {"+", "<", "==", "!=", "|", ","}, l \in Ints \cup Nums, r \in Ints \cup Nums}
Powers == {Bin("**", l, r) : l \in {i, n, F}, r \in {One, n, i}}
Refused == {Bin("%=", i, One), Bin("+", b, b), Bin("==", i, b), Bin("==", n, p), Bin("+=", p, p), Elem(n), Pre("++", b)}
Same(S) == {Bin(op, l, r) : op \in {"&&", "||"}, l \in S, r \in S}
Mixed == {Bin(op, l, r) : op \in {"&&", "||"}, l \in Ints, r \in {n, G(i)}}
BoolOperators == {Bin(op, l, r) : op \in {"<", "==", "!=", "|", ","}, l \in Bools, r \in Bools}
MaybeOperators == {Bin(op, l, r) : op \in {"==", "!=", ","}, l \in Maybes, r \in Maybes \cup {Undef}}
Indexed == {Bin(op, Elem(l), r) : op \in {"=", "+=", "**="}, l \in {Zero, i, Post(i), Bin("=", i, One)}, r \in {One, F, Post(i), G(n)}}
Alternatives == {Cond(c, x, y) : c \in Bools \cup {i, n, p}, x \in {i, n, Zero, F, Post(i)}, y \in {i, One, Bin("=", i, F)}}

\* Logical operators in logical operators, on either side.
Small == {i, F, Post(i)}
Nested(L) == {Bin(op, l, r) : op \in {"&&", "||"}, l \in L, r \in Small} \cup {Bin(op, l, r) : op \in {"&&", "||"}, l \in Small, r \in L}
Logical == Nested({Bin(op, l, r) : op \in {"&&", "||"}, l \in Small, r \in Small})
Conditions == {Pre("!", e) : e \in Logical} \cup Logical \cup Bools \cup Nested({Pre("!", e) : e \in Same({i, F})})

Statement(k, op, s) == Node(k, op, s)
Return1(S) == {Statement("return", Type(e), <<e>>) : e \in S}

MCPrograms ==
  Return1(Arithmetics \cup Powers \cup Refused \cup Same(Ints) \cup Same(Nums) \cup Same(Bools) \cup Mixed)
  \cup Return1(BoolOperators \cup MaybeOperators \cup Indexed \cup Alternatives \cup Logical)
  \cup {Statement("return", t, <<e>>) : t \in {"bool", "int", "num", "maybe"}, e \in {i, n, b, p, Undef, F, Post(n)}}
  \cup {Statement("if", "", <<e>>) : e \in Conditions \cup Ints \cup Nums \cup Maybes}
  \cup {Statement("let", "", <<e>>) : e \in Ints \cup Nums \cup {b, Undef}}
  \cup {Statement("array", "", <<l, r>>) : l \in Ints \cup {b}, r \in Nums}

Start(x, y, z, o) ==
  [vars |-> [v \in {"i", "n", "b", "p"} |-> CASE v = "i" -> x [] v = "n" -> y [] v = "b" -> z [] OTHER -> o],
   array |-> [k \in 0..5 |-> k], calls |-> <<>>]

MCStarts == {Start(0, 2, 1, 0), Start(1, NaN, 0, 1)}
=============================================================================
