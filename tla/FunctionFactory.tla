-------------------------- MODULE FunctionFactory --------------------------
(***************************************************************************)
(* Code generation of the functions of one source file.  The entry         *)
(* functions are defined one after the other in the context of the file;   *)
(* every function they call is created on its first call, under a mangled  *)
(* name by which later calls find it in the LLVM module, and defined at    *)
(* once in a child context, before the call itself is emitted.             *)
(* A body is the sequence of what it does to other functions: it calls     *)
(* them, or refers to them (as a callback).                                *)
(***************************************************************************)
EXTENDS Integers, Sequences, SequencesExt, FiniteSets

CONSTANTS Functions,   \* the functions, methods, constructors and runtime functions
          Programs,    \* functions from Functions to their declarations
          ArrayConstructor \* the runtime function that makes an array of arguments

\* What the bodies do.
Uses == UNION {ToSet(p[f].body) : p \in Programs, f \in Functions}

ASSUME ArrayConstructorAssumption ==
  ArrayConstructor \in Functions /\ \A p \in Programs :
    p[ArrayConstructor].kind = "runtime" /\ p[ArrayConstructor].parameters = <<"variadic">>

ASSUME ProgramsAssumption ==
  /\ \A p \in Programs : DOMAIN p = Functions /\ \A f \in Functions :
       p[f].body \in Seq(Uses) /\ p[f].parameters \in Seq({"required", "initialized", "optional", "variadic"})
  /\ \A u \in Uses : u.to \in Functions /\ (u.op = "call" => u.args \in Nat)

\* The language: a rest parameter is the last one, classes are not referred to but instantiated,
\* validateSpeedyJSFunction refuses entry functions with optional or rest parameters.
ASSUME DeclarationsAssumption ==
  \A p \in Programs, f \in Functions :
    /\ \A i \in DOMAIN p[f].parameters : p[f].parameters[i] = "variadic" => i = Len(p[f].parameters)
    /\ \A i \in DOMAIN p[f].body : p[f].body[i].op = "reference" =>
         p[p[f].body[i].to].kind # "constructor" /\ p[p[f].body[i].to].name # "constructor"
    /\ p[f].kind = "function" /\ p[f].async => ToSet(p[f].parameters) \subseteq {"required", "initialized"}
    /\ p[f].kind = "runtime" => p[f].body = <<>> /\ p[f].path = <<>>

\* Identifiers and files are apart from the symbols that names are put together with: the
\* separators of the manglers and the length of a name (a number).
ASSUME SymbolsAssumption ==
  \A p \in Programs, f \in Functions :
    /\ p[f].path \in Seq(ToSet(p[f].path)) /\ "$" \notin ToSet(p[f].path)
    /\ p[f].class \notin {"$", "length"} /\ p[f].name # "$"

VARIABLES source,         \* the program: the declarations
          module,         \* the LLVM functions: name, what it compiles, number of arguments
          defined,        \* the names of the functions that have a complete body
          stack,          \* the functions being defined, innermost last, each with its context
          scopeFunctions, \* Scope.functions of the root scope: defined entry functions
          requiresGc,     \* the flag of the context of the file
          calls,          \* the calls and references emitted
          gcReferenced,   \* completeSourceFile inserted speedyJsGc
          status          \* generating, completed or failed

vars == <<source, module, defined, stack, scopeFunctions, requiresGc, calls, gcReferenced, status>>

IsEntry(f) == source[f].kind = "function" /\ source[f].async

Entries == {f \in Functions : IsEntry(f)}

\* The modes of the parameters: required, initialized, optional or variadic.
Parameters(f) == source[f].parameters

(***************************************************************************)
(* Name manglers.  A name is a sequence of its parts.                      *)
(***************************************************************************)

\* getModulePrefix: "$$" is the replacement pattern of a single dollar.
ModulePrefix(path) ==
  FlattenSeq([i \in DOMAIN path |-> CASE path[i] = "_" -> <<"_", "_">>
                                      [] path[i] = "-" -> <<"_">>
                                      [] OTHER -> <<path[i]>>])

\* getMangledFunctionName: the parameters in front of the first optional one that is not set.
UsedParameters(f, passed) ==
  LET parameters == Parameters(f)
      unset == {i \in DOMAIN parameters : parameters[i] = "optional" /\ passed < i}
  IN  IF unset = {} THEN parameters ELSE SubSeq(parameters, 1, (CHOOSE i \in unset : \A j \in unset : i <= j) - 1)

TypeCodes(parameters) == [i \in DOMAIN parameters |-> IF parameters[i] = "variadic" THEN "P" ELSE "d"]

ObjectName(f) == IF source[f].class = "" THEN <<>> ELSE <<source[f].class, "$">>

\* Mutated form of DefaultName: without the file.
NameWithoutFile(f, name, parameters) == ObjectName(f) \o <<"length", name>> \o TypeCodes(parameters)

\* mangleFunctionName and mangleMethodName; encodeName puts the length in front of the name.
DefaultName(f, name, parameters) ==
  ModulePrefix(source[f].path) \o <<"$">> \o ObjectName(f) \o <<"length", name>> \o TypeCodes(parameters)

\* The runtime's functions are named after their class, without a file.
RuntimeName(f, parameters) == <<source[f].class, "_", source[f].name>> \o TypeCodes(parameters)

\* SpeedyJSFunctionFactory takes async functions for entry functions and leaves their names bare.
SpeedyJSName(f, parameters) ==
  IF source[f].async THEN <<source[f].name>> ELSE DefaultName(f, source[f].name, parameters)

\* Constructors are always named after all of their parameters.
ConstructorName(f) == DefaultName(f, "constructor", Parameters(f))

Mangle(f, passed) ==
  CASE source[f].kind = "runtime" -> RuntimeName(f, UsedParameters(f, passed))
    [] source[f].kind = "constructor" -> ConstructorName(f)
    [] OTHER -> SpeedyJSName(f, UsedParameters(f, passed))

EntryName(f) == <<"_", source[f].name>>

InModule(name) == \E r \in module : r.name = name

(***************************************************************************)
(* Declared and passed arguments.                                          *)
(***************************************************************************)

This(f) == IF source[f].kind = "method" THEN 1 ELSE 0

\* toLlvmArgumentTypes: a variadic parameter is a pointer and a length.
DeclaredArguments(f, passed) ==
  LET used == UsedParameters(f, passed)
  IN  This(f) + Len(used) + (IF "variadic" \in ToSet(used) THEN 1 ELSE 0)

\* FunctionDeclarationBuilder (constructors and entry functions) has one for every parameter.
BuilderArguments(f) == Len(Parameters(f))

\* Mutated form of CallArguments: the initializers are left to the callee.
CallArgumentsSetOnly(f, passed) ==
  LET missing == {i \in DOMAIN Parameters(f) : passed < i /\ Parameters(f)[i] # "variadic"}
  IN  This(f) + Len(Parameters(f)) - Cardinality(missing)
      + (IF "variadic" \in ToSet(Parameters(f)) THEN 1 ELSE 0)

\* getCallArguments: what is passed, then the initializers of the parameters that are not set.
CallArguments(f, passed) ==
  LET parameters == Parameters(f)
      Stops(i) == passed < i /\ parameters[i] = "optional"
      taken == {i \in DOMAIN parameters : \A j \in 1 .. i : ~Stops(j)}
  IN  This(f) + Cardinality(taken) + Cardinality({i \in taken : parameters[i] = "variadic"})

\* Mutated form of ArgumentsAllocate: a function may leave its optional parameters without a value.
ArgumentsAllocateUnset(f, passed) ==
  source[f].kind = "method" => DeclaredArguments(f, passed) - 1 = Len(Parameters(f))

\* allocateArguments stores an argument for every parameter, and two for a variadic one; the
\* assertion about the this object of a method does not count the second.
ArgumentsAllocate(f, passed) ==
  IF source[f].kind = "method" THEN DeclaredArguments(f, passed) - 1 = Len(Parameters(f))
  ELSE UsedParameters(f, passed) = Parameters(f)

(***************************************************************************)
(* Code generation.                                                        *)
(***************************************************************************)

Init ==
  /\ source \in Programs
  /\ module = {}
  /\ defined = {}
  /\ stack = <<>>
  /\ scopeFunctions = {}
  /\ requiresGc = FALSE
  /\ calls = {}
  /\ gcReferenced = FALSE
  /\ status = "generating"

Top == stack[Len(stack)]

Variadic(f) == "variadic" \in ToSet(Parameters(f))

\* A body under construction; allocateArguments makes an array of the variadic arguments.
Frame(name, f) == [name |-> name, of |-> f, code |-> source[f].body, requiresGc |-> Variadic(f)]

Declaration(name, f, arguments) == [name |-> name, of |-> f, arguments |-> arguments]

\* FunctionBuilder.define in the context of the file, under a name of its own.
GenerateEntryFunction(f) ==
  /\ status = "generating"
  /\ stack = <<>>
  /\ IsEntry(f) /\ f \notin scopeFunctions
  /\ module' = module \cup {Declaration(EntryName(f), f, BuilderArguments(f))}
  /\ stack' = <<Frame(EntryName(f), f)>>
  /\ UNCHANGED <<source, defined, scopeFunctions, requiresGc, calls, gcReferenced, status>>

\* The next thing the innermost body does is op.
Due(op) == status = "generating" /\ stack # <<>> /\ Top.code # <<>> /\ Head(Top.code).op = op

\* getConstructor and fromLiteral set the flag of the context of the body that allocates.
Allocating(f) == source[f].kind = "constructor" \/ (source[f].kind = "runtime" /\ source[f].name = "constructor")

\* The statement is done.
Advance(allocates) ==
  [stack EXCEPT ![Len(stack)].code = Tail(@), ![Len(stack)].requiresGc = @ \/ allocates]

Calling == Due("call") \/ Due("reference")

Callee == Head(Top.code).to

\* A function that is only referred to is created for all of its parameters.
Passed == IF Head(Top.code).op = "call" THEN Head(Top.code).args ELSE Len(Parameters(Callee))

\* getFunction: a function the scope knows is an entry function that is defined.
Target == IF Callee \in scopeFunctions THEN EntryName(Callee) ELSE Mangle(Callee, Passed)

\* A function with optional parameters has no type it can be referred to with.
Dereferenceable ==
  Head(Top.code).op = "reference" => "optional" \notin ToSet(Parameters(Callee))

Emitted == [from |-> Top.name, target |-> Target, to |-> Callee, op |-> Head(Top.code).op,
            arguments |-> CallArguments(Callee, Passed)]

\* invokeResolvedFunction of a function the module has.
Call ==
  /\ Calling
  /\ Dereferenceable
  /\ InModule(Target)
  /\ calls' = calls \cup {Emitted}
  /\ stack' = Advance(Allocating(Callee))
  /\ UNCHANGED <<source, module, defined, scopeFunctions, requiresGc, gcReferenced, status>>

\* FunctionFactory.createFunction declares a function of the runtime, which has no body here.
DeclareRuntimeFunction ==
  /\ Calling
  /\ Dereferenceable
  /\ ~InModule(Target)
  /\ source[Callee].kind = "runtime"
  /\ module' = module \cup {Declaration(Target, Callee, DeclaredArguments(Callee, Passed))}
  /\ UNCHANGED <<source, defined, stack, scopeFunctions, requiresGc, calls, gcReferenced, status>>

Creating ==
  /\ Calling
  /\ Dereferenceable
  /\ ~InModule(Target)
  /\ source[Callee].kind \in {"function", "method"}

Constructing ==
  /\ Calling
  /\ ~InModule(Target)
  /\ source[Callee].kind = "constructor"

\* createFunction: verified, declared so that recursive calls find it, and defined in a child
\* context; the call goes on when the body is complete.
DefineFunction ==
  /\ Creating
  /\ source[Callee].breaks = {}
  /\ ArgumentsAllocate(Callee, Passed)
  /\ module' = module \cup {Declaration(Target, Callee, DeclaredArguments(Callee, Passed))}
       \cup (IF Variadic(Callee) /\ ~InModule(Mangle(ArrayConstructor, 1))
             THEN {Declaration(Mangle(ArrayConstructor, 1), ArrayConstructor, 2)} ELSE {})
  /\ stack' = Append(stack, Frame(Target, Callee))
  /\ UNCHANGED <<source, defined, scopeFunctions, requiresGc, calls, gcReferenced, status>>

\* new C(..): the constructor allocates the object, initializes the fields and runs the body of
\* the class's constructor, in a child context of its own.
DefineConstructor ==
  /\ Constructing
  /\ source[Callee].breaks = {}
  /\ ~Variadic(Callee)
  /\ module' = module \cup {Declaration(Target, Callee, BuilderArguments(Callee))}
  /\ stack' = Append(stack, Frame(Target, Callee))
  /\ UNCHANGED <<source, defined, scopeFunctions, requiresGc, calls, gcReferenced, status>>

\* A declaration verifyIsSupportedSpeedyJSFunction refuses, an argument without a value, or a
\* reference to a function with optional parameters.
Reject ==
  /\ \/ Calling /\ ~Dereferenceable
     \/ Creating /\ (source[Callee].breaks # {} \/ ~ArgumentsAllocate(Callee, Passed))
     \/ Constructing /\ (source[Callee].breaks # {} \/ Variadic(Callee))
  /\ status' = "failed"
  /\ UNCHANGED <<source, module, defined, stack, scopeFunctions, requiresGc, calls, gcReferenced>>

Complete == status = "generating" /\ stack # <<>> /\ Top.code = <<>>

\* Mutated form of LeaveFunction: the name of the caller is taken.
LeaveFunctionOfCaller ==
  /\ Complete
  /\ Len(stack) > 1
  /\ defined' = defined \cup {stack[Len(stack) - 1].name}
  /\ stack' = Front(stack)
  /\ UNCHANGED <<source, module, scopeFunctions, requiresGc, calls, gcReferenced, status>>

\* The context of a child and its flag are dropped.
LeaveFunction ==
  /\ Complete
  /\ Len(stack) > 1
  /\ defined' = defined \cup {Top.name}
  /\ stack' = Front(stack)
  /\ UNCHANGED <<source, module, scopeFunctions, requiresGc, calls, gcReferenced, status>>

\* Mutated form of LeaveEntryFunction: every entry function has a context of its own.
LeaveEntryFunctionOwnContext ==
  /\ Complete
  /\ Len(stack) = 1
  /\ defined' = defined \cup {Top.name}
  /\ stack' = <<>>
  /\ scopeFunctions' = scopeFunctions \cup {Top.of}
  /\ requiresGc' = Top.requiresGc
  /\ UNCHANGED <<source, module, calls, gcReferenced, status>>

LeaveEntryFunction ==
  /\ Complete
  /\ Len(stack) = 1
  /\ defined' = defined \cup {Top.name}
  /\ stack' = <<>>
  /\ scopeFunctions' = scopeFunctions \cup {Top.of}
  /\ requiresGc' = (requiresGc \/ Top.requiresGc)
  /\ UNCHANGED <<source, module, calls, gcReferenced, status>>

\* Mutated form of CompleteSourceFile: after the first entry function.
CompleteSourceFileEarly ==
  /\ status = "generating"
  /\ stack = <<>> /\ scopeFunctions # {}
  /\ gcReferenced' = requiresGc
  /\ status' = "completed"
  /\ UNCHANGED <<source, module, defined, stack, scopeFunctions, requiresGc, calls>>

CompleteSourceFile ==
  /\ status = "generating"
  /\ stack = <<>> /\ scopeFunctions = Entries
  /\ gcReferenced' = requiresGc
  /\ status' = "completed"
  /\ UNCHANGED <<source, module, defined, stack, scopeFunctions, requiresGc, calls>>

Ended == status # "generating" /\ UNCHANGED vars

Step ==
  \/ \E f \in Functions : GenerateEntryFunction(f)
  \/ Call \/ DeclareRuntimeFunction \/ DefineFunction \/ DefineConstructor \/ Reject
  \/ LeaveFunction \/ LeaveEntryFunction \/ CompleteSourceFile

Next == Step \/ Ended

\* One synchronous computation.
Spec == Init /\ [][Next]_vars /\ WF_vars(Step)

(***************************************************************************)
(* Properties                                                              *)
(***************************************************************************)

\* A function is under construction at most once, and never again when it is complete, however
\* functions call each other recursively: it is found in the module (getOrCreateStaticOrInstanceFunction).
DefinedOnce ==
  /\ \A i, j \in DOMAIN stack : stack[i].name = stack[j].name => i = j
  /\ \A i \in DOMAIN stack : stack[i].name \notin defined
  /\ \A r, s \in module : r.name = s.name => r = s

\* When the file is complete every entry function and every function somebody calls has a body,
\* but for those of the runtime, which the linker adds (completeSourceFile).
AllDefined ==
  status = "completed" =>
    /\ \A f \in Entries : EntryName(f) \in defined
    /\ \A r \in module : r.name \in defined \/ source[r.of].kind = "runtime"

\* A declaration in the names below.  Nested functions, and static and instance methods, may have it
\* in common.
Identity(f) == <<source[f].path, source[f].class, source[f].kind = "runtime",
                 IF source[f].kind = "constructor" THEN "constructor" ELSE source[f].name>>

\* Async functions have names of their own, and the names of no two files are mangled alike.
NamesUnambiguous ==
  /\ \A f, g \in Functions : source[f].async /\ source[g].async /\ source[f].name = source[g].name => f = g
  /\ \A f, g \in Functions : ModulePrefix(source[f].path) = ModulePrefix(source[g].path) =>
       source[f].path = source[g].path
  /\ \A f, g \in Functions : Identity(f) = Identity(g) => f = g

\* A call runs the function it names, whichever functions share its name in other files and
\* classes, has its name with other arguments, or is compiled before it (getMangledFunctionName).
CallsReachTheirFunction ==
  NamesUnambiguous =>
    \A c \in calls : \A r \in module : r.name = c.target => r.of = c.to

\* The name of an async function does not tell which of its parameters are used.
Bare(f) == source[f].async /\ "optional" \in ToSet(Parameters(f))

\* A call passes as many arguments as the LLVM function has, also when the function was created by a
\* call with another number of them: getMangledFunctionName, toLlvmArgumentTypes and getCallArguments
\* agree.  They do not for constructors, which are declared with the parameters nobody sets, nor for
\* async methods, found with any number of arguments.
ArgumentsMatch ==
  \A c \in calls : \A r \in module :
    r.name = c.target /\ r.of = c.to /\ c.op = "call"
      /\ ~(source[c.to].kind = "constructor" /\ "optional" \in ToSet(Parameters(c.to))) /\ ~Bare(c.to) =>
        c.arguments = r.arguments

\* What the body of a function calls or refers to.
Used(f) == {source[f].body[i].to : i \in DOMAIN source[f].body}

\* The functions the entry functions call, directly or not: the least set that is closed.
Reachable ==
  {f \in Functions : \A S \in SUBSET Functions :
     Entries \subseteq S /\ (\A g \in S : Used(g) \subseteq S) => f \in S}

\* What the code generator does not support: declarations, parameters that are not set,
\* variadic methods and constructors, references to functions with optional parameters.
UnsupportedUse(use) ==
  LET callee == source[use.to]
      IsUnset(i) == callee.parameters[i] = "optional" /\ (use.op = "call" => use.args < i)
  IN  \/ use.op = "reference" /\ \E i \in DOMAIN callee.parameters : IsUnset(i)
      \/ callee.kind # "runtime" /\ callee.breaks # {}
      \/ callee.kind \in {"function", "method"} /\ \E i \in DOMAIN callee.parameters : IsUnset(i)
      \/ callee.kind \in {"method", "constructor"} /\ "variadic" \in ToSet(callee.parameters)

\* A file is refused if and only if something an entry function reaches is not supported: neither
\* the order of the entry functions nor what was compiled before decides.  It does for async methods
\* that are found by their bare name, and for an entry function inside of another function: it is
\* only refused (unsupportedNestedFunctionDeclaration) when it is called before it is defined.
RejectsTheUnsupported ==
  NamesUnambiguous /\ (\A f \in Functions : ~Bare(f)) /\ (\A f \in Entries : source[f].breaks = {})
    /\ status # "generating" =>
      (status = "failed" <=>
         \E f \in Reachable : \E i \in DOMAIN source[f].body : UnsupportedUse(source[f].body[i]))

Allocates(f) == \E i \in DOMAIN source[f].body : source[f].body[i].op = "call" /\ Allocating(source[f].body[i].to)

\* The collector is linked when an entry function of the file allocates itself, whichever entry
\* functions are compiled before and after it (completeSourceFile).
CollectorOfEntryFunctions ==
  status = "completed" => (gcReferenced <=> \E f \in Entries : Allocates(f))

\* The comment of rewriteEntryFunction says speedyJsGc is called "only if not disableHeapNukeOnExit
\* is set": the module has it (referenced, or with the runtime) if it has a constructor.
CollectorWhenAllocating ==
  status = "completed" /\ (\E r \in module : source[r.of].kind = "constructor") =>
    gcReferenced \/ \E r \in module : source[r.of].kind = "runtime"
=============================================================================
