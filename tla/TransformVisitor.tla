-------------------------- MODULE TransformVisitor --------------------------
(***************************************************************************)
(* SpeedyJSTransformVisitor walks every source file depth first, checks    *)
(* which functions may refer to which, hands the entry functions to the    *)
(* code generator and removes the other functions with the "use speedyjs"  *)
(* directive from the JavaScript output.                                   *)
(***************************************************************************)
EXTENDS Integers, Sequences, SequencesExt, Diagnostics

CONSTANTS Functions,      \* the functions, methods and constructors of a program
          Declarations,   \* the programs: functions from Functions to declarations
          FileOf,         \* the source file of a function
          Enclosing,      \* the functions a function is nested in, outermost first
          MaxReferences   \* bound: identifiers looked at in one program

ASSUME VisitorAssumption ==
  /\ Enclosing \in [Functions -> Seq(Functions)]
  /\ MaxReferences \in Nat

VARIABLES declaration,        \* what the functions are, chosen once
          file,               \* the source file being visited, or 0
          visiting,           \* the functions being visited, with the flag at their entry
          visited,            \* the functions of which the visit began
          inSpeedyJSFunction, \* the flag of the visitor
          references,         \* the identifiers visited: where they stand, what they name
          entryFunctions,     \* functions the code generator compiled
          removed             \* functions replaced by a not emitted statement

visitorVars == <<declaration, file, visiting, visited, inSpeedyJSFunction, references,
                 entryFunctions, removed>>

\* The directives in front of a body: "use speedyjs" counts as long as nothing else precedes it.
IsSpeedyJSFunction(f) ==
  LET statements == declaration[f].statements
  IN  /\ declaration[f].body
      /\ \E i \in DOMAIN statements :
           /\ statements[i] = "use speedyjs"
           /\ \A j \in 1 .. i : statements[j] # "no directive"

IsSpeedyJSEntryFunction(f) ==
  /\ IsSpeedyJSFunction(f)
  /\ declaration[f].kind = "FunctionDeclaration"
  /\ declaration[f].async

\* Mutated form of CanBeCalledFromJs: the async modifier alone makes a function callable.
CanBeCalledFromJsAnyFunction(f) == TRUE

CanBeCalledFromJs(f) ==
  \/ declaration[f].kind # "FunctionDeclaration"
  \/ ~IsSpeedyJSFunction(f)
  \/ IsSpeedyJSEntryFunction(f)

CanBeCalledFromSpeedyJs(f) == ~declaration[f].body \/ IsSpeedyJSFunction(f)

\* visitIdentifier: an imported name is the symbol of an alias, which is neither a
\* function nor a method, and is not looked at.
IdentifierError(f, inSpeedyJS) ==
  CASE FileOf[f] = file /\ inSpeedyJS /\ ~CanBeCalledFromSpeedyJs(f) ->
         "ReferenceToNonSpeedyJSFunctionFromSpeedyJS"
    [] FileOf[f] = file /\ ~inSpeedyJS /\ ~CanBeCalledFromJs(f) ->
         "ReferenceToNonEntrySpeedyJSFunctionFromJS"
    [] OTHER -> None

\* The rules an entry function is validated against, in the order of their checks.
Rules == <<"AnonymousEntryFunctionsUnsupported", "OptionalParametersNotSupportedForEntryFunction",
           "GenericEntryFunctionNotSuppoorted", "OverloadedEntryFunctionNotSupported",
           "UnsupportedEntryFunctionWithCallback">>

ValidationError(f) ==
  LET broken == SelectSeq(Rules, LAMBDA r : r \in declaration[f].breaks)
  IN  IF broken = <<>> THEN None ELSE Head(broken)

VisitorInit ==
  /\ declaration \in Declarations
  /\ file = 0
  /\ visiting = <<>>
  /\ visited = {}
  /\ inSpeedyJSFunction = FALSE
  /\ references = {}
  /\ entryFunctions = {}
  /\ removed = {}

Path == [i \in DOMAIN visiting |-> visiting[i].function]

\* An exception runs the finally blocks of all the functions being visited.
Unwind ==
  /\ inSpeedyJSFunction' = IF visiting = <<>> THEN inSpeedyJSFunction ELSE visiting[1].flag
  /\ visiting' = <<>>

\* The name of a function is an identifier visited with the flag of its own body.
NameError(f) ==
  IF declaration[f].kind = "Constructor" \/ Rules[1] \in declaration[f].breaks THEN None
  ELSE IdentifierError(f, inSpeedyJSFunction \/ IsSpeedyJSFunction(f))

\* visitFunctionLikeDeclaration up to the children; the first child is the name.
EnterFunction(f) ==
  /\ FileOf[f] = file
  /\ f \notin visited
  /\ Enclosing[f] = Path
  /\ NameError(f) = None
  /\ visited' = visited \cup {f}
  /\ visiting' = Append(visiting, [function |-> f, flag |-> inSpeedyJSFunction])
  /\ inSpeedyJSFunction' = (inSpeedyJSFunction \/ IsSpeedyJSFunction(f))
  /\ UNCHANGED <<declaration, file, references, entryFunctions, removed>>

\* An identifier names a function, or a method of a class, of an enclosing scope.
InScope(f) ==
  /\ declaration[f].kind # "Constructor"
  /\ IsPrefix(Enclosing[f], Path)

VisitIdentifier(f) ==
  /\ Cardinality(references) < MaxReferences
  /\ InScope(f)
  /\ IdentifierError(f, inSpeedyJSFunction) = None
  /\ references' = references \cup {[file |-> file, within |-> Path, to |-> f]}
  /\ UNCHANGED <<declaration, file, visiting, visited, inSpeedyJSFunction, entryFunctions, removed>>

\* All the functions nested in the one being left have been visited.
ChildrenVisited ==
  \A f \in Functions : FileOf[f] = file /\ Enclosing[f] = Path => f \in visited

Left == Last(visiting).function

\* Mutated form of LeaveFunction: without the finally block.
LeaveFunctionFlagKept ==
  /\ visiting # <<>>
  /\ ChildrenVisited
  /\ ~IsSpeedyJSEntryFunction(Left)
  /\ visiting' = Front(visiting)
  /\ removed' = IF IsSpeedyJSFunction(Left) /\ declaration[Left].kind = "FunctionDeclaration"
                THEN removed \cup {Left} ELSE removed
  /\ UNCHANGED <<declaration, file, visited, inSpeedyJSFunction, references, entryFunctions>>

\* A function that is no entry function: plain functions stay, methods and constructors
\* stay, a function with the directive is removed.
LeaveFunction ==
  /\ visiting # <<>>
  /\ ChildrenVisited
  /\ ~IsSpeedyJSEntryFunction(Left)
  /\ visiting' = Front(visiting)
  /\ inSpeedyJSFunction' = IF IsSpeedyJSFunction(Left) THEN Last(visiting).flag ELSE inSpeedyJSFunction
  /\ removed' = IF IsSpeedyJSFunction(Left) /\ declaration[Left].kind = "FunctionDeclaration"
                THEN removed \cup {Left} ELSE removed
  /\ UNCHANGED <<declaration, file, visited, references, entryFunctions>>

\* An entry function that passes the validation and compiles.
LeaveEntryFunction ==
  /\ visiting # <<>>
  /\ ChildrenVisited
  /\ IsSpeedyJSEntryFunction(Left)
  /\ ValidationError(Left) = None
  /\ visiting' = Front(visiting)
  /\ inSpeedyJSFunction' = Last(visiting).flag
  /\ entryFunctions' = entryFunctions \cup {Left}
  /\ UNCHANGED <<declaration, file, visited, references, removed>>

\* The errors the visitor reports in its state.
VisitorErrors ==
  {NameError(f) : f \in {g \in Functions \ visited : FileOf[g] = file /\ Enclosing[g] = Path}}
  \cup {IdentifierError(f, inSpeedyJSFunction) : f \in {g \in Functions : InScope(g)}}
  \cup (IF visiting # <<>> /\ ChildrenVisited /\ IsSpeedyJSEntryFunction(Left)
        THEN {ValidationError(Left)} ELSE {})

FileVisited == visiting = <<>> /\ ChildrenVisited

(***************************************************************************)
(* What the visit leaves in the JavaScript output.                         *)
(***************************************************************************)

\* An original function brings back what was removed inside of it; code inside of a replaced
\* or removed function is gone.
Survives(path, replaced, original) ==
  \A i \in DOMAIN path :
    path[i] \in (removed \cup replaced) \ original => \E j \in 1 .. i - 1 : path[j] \in original

\* The declaration of f is in the output.
Declared(f, replaced, original) ==
  /\ Survives(Enclosing[f], replaced, original)
  /\ f \in removed => ToSet(Enclosing[f]) \cap original # {}

InSpeedyJSMethod(path) ==
  \E i \in DOMAIN path : IsSpeedyJSFunction(path[i]) /\ declaration[path[i]].kind # "FunctionDeclaration"

(***************************************************************************)
(* Properties                                                              *)
(***************************************************************************)

\* The flag of the visitor says whether one of the functions it stands in has the directive,
\* through functions nested in any order and exceptions (visitFunctionLikeDeclaration, finally).
FlagAgrees ==
  inSpeedyJSFunction <=> \E i \in DOMAIN visiting : IsSpeedyJSFunction(visiting[i].function)
=============================================================================
