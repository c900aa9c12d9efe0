--------------------------- MODULE MCCompilation ---------------------------
(***************************************************************************)
(* Two source files: main and the file it imports.  main holds an outer    *)
(* and a nested function or method, the import one function.               *)
(***************************************************************************)
EXTENDS Compilation

CONSTANTS outer, inner, imported

MCFunctions == {outer, inner, imported}
MCFileOf == [f \in MCFunctions |-> IF f = imported THEN 2 ELSE 1]
MCEnclosing == [f \in MCFunctions |-> IF f = inner THEN <<outer>> ELSE <<>>]

Shape(kind, statements, async) ==
  [kind |-> kind, statements |-> statements, body |-> TRUE, async |-> async, breaks |-> {}]

Directive == <<"use strict", "use speedyjs">>
Plain == Shape("FunctionDeclaration", <<"no directive", "use speedyjs">>, TRUE)
SpeedyJS == Shape("FunctionDeclaration", Directive, FALSE)
Entry == Shape("FunctionDeclaration", Directive, TRUE)
BadEntry == [Entry EXCEPT !.breaks = {"GenericEntryFunctionNotSuppoorted", "OverloadedEntryFunctionNotSupported"}]
Method == Shape("MethodDeclaration", Directive, TRUE)
Constructor == Shape("Constructor", Directive, FALSE)
Ambient == [Plain EXCEPT !.body = FALSE]

MCDeclarations ==
  {d \in [MCFunctions -> {Plain, SpeedyJS, Entry, BadEntry, Method, Constructor, Ambient}] :
     /\ d[outer] \in {Plain, SpeedyJS, Entry, Method, BadEntry}
     /\ d[inner] \in {Plain, SpeedyJS, Entry, Method, Constructor}
     /\ d[imported] \in {Plain, SpeedyJS, Entry, Ambient}}

MCOptionSets ==
  LET saved == [saveBc |-> TRUE, saveWast |-> TRUE, binaryenOpt |-> TRUE]
  IN  {saved, saved @@ [optimizationLevel |-> "0"], [emitLLVM |-> TRUE]}

Memory(alike) == [host |-> "memory", args |-> {1}, config |-> FALSE, alike |-> alike]
CommandLine(args, config) == [host |-> "cli", args |-> args, config |-> config, alike |-> {}]

MCRequests == {Memory({1}), Memory({1, 2}), CommandLine({1}, TRUE), CommandLine({}, TRUE), CommandLine({}, FALSE)}
=============================================================================
