------------------------- MODULE MCFunctionFactory -------------------------
(***************************************************************************)
(* Files a-b, a_b and x; two entry functions, one of which another may be  *)
(* confused with, a function, a method or a constructor with parameters of *)
(* every mode, and a function of the runtime.                              *)
(***************************************************************************)
EXTENDS FunctionFactory

CONSTANTS main, other, helper, twin, pow, array

MCFunctions == {main, other, helper, twin, pow, array}

Decl(kind, path, class, name, async, parameters) ==
  [kind |-> kind, path |-> path, class |-> class, name |-> name, async |-> async,
   parameters |-> parameters, breaks |-> {}, body |-> <<>>]

CallOf(f, n) == [op |-> "call", to |-> f, args |-> n]
ReferenceTo(f) == [op |-> "reference", to |-> f]
NewArray == CallOf(array, 0)

X == <<"x">>

\* A legal number of arguments.
Legal(d, n) ==
  LET required == {i \in DOMAIN d.parameters : d.parameters[i] = "required"}
  IN  n >= Cardinality(required) /\ (n <= Len(d.parameters) \/ "variadic" \in ToSet(d.parameters))

Helpers ==
  {Decl(kind, X, IF kind = "function" THEN "" ELSE "C", "h", FALSE, parameters) :
     kind \in {"function", "method", "constructor"},
     parameters \in {<<"required", "initialized">>, <<"required", "optional">>, <<"required", "variadic">>}}
  \cup {[Decl("function", X, "", "h", FALSE, <<"required">>) EXCEPT !.breaks = {"UnsupportedGenericFunction"}]}

Twins == {Decl("function", <<"a", "-", "b">>, "", "h", FALSE, <<"required", "initialized">>),
          Decl("function", <<"a", "_", "b">>, "", "h", FALSE, <<"required", "initialized">>),
          Decl("method", X, "D", "other", TRUE, <<"required">>),
          Decl("method", X, "D", "m", TRUE, <<"required", "optional">>)}

Pow == Decl("runtime", <<>>, "Math", "pow", FALSE, <<"required", "optional">>)
NewOfArray == Decl("runtime", <<>>, "Array", "constructor", FALSE, <<"variadic">>)

Others == {Decl("function", X, "", "other", TRUE, <<"required">>)}

With(decls, bodies) == {[d EXCEPT !.body = b] : d \in decls, b \in bodies}

MainBodies ==
  {<<CallOf(helper, n)>> \o s : n \in 1 .. 2,
     s \in {<<>>, <<CallOf(helper, 1)>>, <<CallOf(other, 1)>>, <<NewArray>>, <<ReferenceTo(helper)>>, <<CallOf(main, 0)>>}}
  \cup {<<CallOf(other, 1), CallOf(twin, 1)>>, <<CallOf(twin, 2), CallOf(twin, 1)>>, <<ReferenceTo(other), CallOf(pow, 1), CallOf(pow, 2)>>}

MCPrograms ==
  {p \in [main : With({Decl("function", X, "", "main", TRUE, <<>>)}, MainBodies),
          other : With(Others, {<<>>, <<CallOf(twin, 1), CallOf(helper, 2)>>}),
          helper : With(Helpers, {<<>>, <<CallOf(helper, 1)>>, <<CallOf(twin, 1)>>, <<NewArray>>, <<CallOf(other, 1)>>}),
          twin : With(Twins, {<<>>, <<CallOf(helper, 1)>>, <<NewArray>>})] :
     \A d \in {p.main, p.other, p.helper, p.twin} : \A i \in DOMAIN d.body :
       LET use == d.body[i]
       IN  /\ use.to = helper => IF use.op = "call" THEN Legal(p.helper, use.args) ELSE p.helper.kind # "constructor"
           /\ use.to = twin => Legal(p.twin, use.args)}

MCSources ==
  {[f \in MCFunctions |-> CASE f = main -> p.main [] f = other -> p.other [] f = helper -> p.helper
                            [] f = twin -> p.twin [] f = pow -> Pow [] OTHER -> NewOfArray] : p \in MCPrograms}
=============================================================================
