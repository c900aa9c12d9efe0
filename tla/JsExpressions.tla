---------------------------- MODULE JsExpressions ----------------------------
(***************************************************************************)
(* What ECMAScript says of the expressions of ExpressionCode: operands are *)
(* evaluated from left to right, the reference an assignment writes to     *)
(* before its value and once, one alternative of a conditional.            *)
(*                                                                         *)
(* An environment has the variables, the elements of the array and the     *)
(* calls made so far; evaluation yields a value and an environment.        *)
(***************************************************************************)
EXTENDS ExpressionCode, Bitwise

Truthy(x) == x \notin {0, NaN}
Bool(condition) == IF condition THEN 1 ELSE 0
Int32(x) == IF x = NaN THEN 0 ELSE x

Calculate(op, x, y) ==
  CASE op = "|" -> Int32(x) | Int32(y)
    [] op = "**" /\ y = 0 -> 1
    [] op \in {"+", "**"} /\ NaN \in {x, y} -> NaN
    [] op = "+" -> x + y
    [] op = "**" -> x ^ y
    [] op = "==" -> Bool(x = y /\ x # NaN)
    [] op = "!=" -> Bool(x # y \/ x = NaN)
    [] OTHER -> Bool(x < y /\ NaN \notin {x, y})

\* What a value of type t is where a number or an int is asked for.
JsConvert(x, t, to) ==
  CASE to = "num" /\ t = "undef" -> NaN
    [] to = "num" /\ t = "maybe" -> 0
    [] to = "int" /\ t \in {"undef", "maybe"} -> 0
    [] to = "int" -> Int32(x)
    [] to = "bool" -> Bool(Truthy(x))
    [] OTHER -> x

Put(env, target, at, x) ==
  IF target.k = "var" THEN [env EXCEPT !.vars[target.op] = x] ELSE [env EXCEPT !.array[at] = x]

Get(env, target, at) == IF target.k = "var" THEN env.vars[target.op] ELSE env.array[at]

RECURSIVE Eval(_, _)

\* The index of the element a reference denotes; a variable has none.
Reference(target, env) ==
  IF target.k = "var" THEN [v |-> 0, env |-> env] ELSE Eval(target.s[1], env)

EvalAssignment(e, env) ==
  LET at == Reference(e.s[1], env)
      before == Get(at.env, e.s[1], at.v)
      right == Eval(e.s[2], at.env)
      x == IF e.op = "=" THEN JsConvert(right.v, Type(e.s[2]), Type(e.s[1])) ELSE Calculate(Applied(e.op), before, right.v)
  IN  [v |-> x, env |-> Put(right.env, e.s[1], at.v, x)]

EvalBinary(e, env) ==
  LET left == Eval(e.s[1], env)
      right == Eval(e.s[2], left.env)
  IN  CASE e.op \in Assignments -> EvalAssignment(e, env)
        [] e.op = "&&" -> IF Truthy(left.v) THEN right ELSE left
        [] e.op = "||" -> IF Truthy(left.v) THEN left ELSE right
        [] e.op = "," -> right
        [] OTHER -> [v |-> Calculate(e.op, left.v, right.v), env |-> right.env]

\* ++a, a++
EvalUpdate(e, env) ==
  LET at == Reference(e.s[1], env)
      before == Get(at.env, e.s[1], at.v)
      after == Calculate("+", before, 1)
  IN  [v |-> IF e.k = "pre" THEN after ELSE before, env |-> Put(at.env, e.s[1], at.v, after)]

EvalCall(e, env) ==
  LET argument == Eval(e.s[1], env)
      x == JsConvert(argument.v, Type(e.s[1]), "num")
  IN  IF e.op = "f" THEN [v |-> 1, env |-> [env EXCEPT !.calls = Append(@, <<"f", 0>>)]]
      ELSE [v |-> x, env |-> [argument.env EXCEPT !.calls = Append(@, <<"g", x>>)]]

Eval(e, env) ==
  LET first == Eval(e.s[1], env)
  IN  CASE e.k = "lit" -> [v |-> e.v, env |-> env]
        [] e.k = "var" -> [v |-> env.vars[e.op], env |-> env]
        [] e.k = "undef" -> [v |-> 0, env |-> env]
        [] e.k = "elem" -> [v |-> first.env.array[first.v], env |-> first.env]
        [] e.k = "call" -> EvalCall(e, env)
        [] e.k = "pre" /\ e.op = "!" -> [v |-> Bool(~Truthy(first.v)), env |-> first.env]
        [] e.k \in {"pre", "post"} -> EvalUpdate(e, env)
        [] e.k = "as" -> [v |-> JsConvert(first.v, Type(e.s[1]), e.op), env |-> first.env]
        [] e.k = "cond" -> Eval(e.s[IF Truthy(first.v) THEN 2 ELSE 3], first.env)
        [] OTHER -> EvalBinary(e, env)

\* A statement: the value it returns, or which branch it takes, and what it leaves behind.
Run(p, env) ==
  LET first == Eval(p.s[1], env)
      second == Eval(p.s[2], first.env)
      n == JsConvert(first.v, Type(p.s[1]), "num")
  IN  CASE p.k = "return" -> [v |-> JsConvert(first.v, Type(p.s[1]), p.op), env |-> first.env]
        [] p.k = "if" -> [v |-> Bool(Truthy(first.v)), env |-> first.env]
        [] p.k = "let" -> [v |-> 0, env |-> [first.env EXCEPT !.vars["n"] = n]]
        [] OTHER -> [v |-> 0, env |-> [second.env EXCEPT
                       !.array = [@ EXCEPT ![0] = n, ![1] = JsConvert(second.v, Type(p.s[2]), "num")]]]
=============================================================================
