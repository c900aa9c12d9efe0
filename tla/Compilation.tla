---------------------------- MODULE Compilation ----------------------------
(***************************************************************************)
(* A compilation: the command line or the in-memory compiler starts it,    *)
(* Compiler.compile checks the program and lets TypeScript emit the source *)
(* files through the transform visitor and the pipeline of each file.      *)
(* TypeScript prints the JavaScript of a file at some moment after the     *)
(* file was transformed.                                                   *)
(***************************************************************************)
EXTENDS TransformVisitor, BuildPipeline

\* How the compiler is started: records host, args, config and alike, the files whose outputs the
\* in-memory compiler takes for those of its input, because their names end with its name.
CONSTANT Requests

VARIABLES request,    \* the call that started the compilation
          pending,    \* files not yet begun
          completing, \* the file completeSourceFile works on, or 0
          javaScript, \* per file: none, transformed, rewritten, and after it printed
          printed,    \* files whose JavaScript TypeScript printed
          error,      \* the error that ended the compilation
          status      \* how the compilation ended

vars == <<visitorVars, pipelineVars, request, pending, completing, javaScript, printed, error, status>>

hostVars == <<request, pending, completing, javaScript, printed, error, status>>

\* getCompilerOptions (cli.ts): commander always passes an array, the files of a config
\* file are never taken.
RootFileNames(r) == r.args

Init ==
  /\ VisitorInit
  /\ PipelineInit
  /\ request \in Requests
  /\ pending = {}
  /\ completing = 0
  /\ javaScript = [f \in Files |-> "none"]
  /\ printed = {}
  /\ error = OtherError
  /\ status = "starting"

End(outcome, e) ==
  /\ status' = outcome
  /\ error' = e

\* The command line is refused, or TypeScript finds errors before anything is emitted.
Refuse ==
  /\ status = "starting"
  /\ End("DiagnosticsPresent_OutputsSkipped", OtherError)
  /\ UNCHANGED <<visitorVars, pipelineVars, request, pending, completing, javaScript, printed>>

\* compile: the root files bring the files they import into the program.
Compile ==
  /\ status = "starting"
  /\ request.args # {} \/ request.config
  /\ status' = "emitting"
  /\ pending' = IF RootFileNames(request) = {} THEN {} ELSE Files
  /\ UNCHANGED <<visitorVars, pipelineVars, request, completing, javaScript, printed, error>>

Visiting == status = "emitting" /\ file # 0 /\ completing = 0

\* beginSourceFile: a new code generation context and a new rewriter for the file.
BeginSourceFile(f) ==
  /\ status = "emitting"
  /\ file = 0
  /\ f \in pending /\ \A g \in pending : f <= g
  /\ file' = f
  /\ pending' = pending \ {f}
  /\ rewriter' = [rewriter EXCEPT ![f] = [loader |-> FALSE, url |-> FALSE, metaData |-> FALSE]]
  /\ UNCHANGED <<declaration, visiting, visited, inSpeedyJSFunction, references, entryFunctions, removed,
                 compilerOptions, written, transforms, input, tempObjects, disk, extracted, outputs,
                 request, completing, javaScript, printed, error, status>>

Visit ==
  /\ Visiting
  /\ \/ \E f \in Functions : EnterFunction(f) \/ VisitIdentifier(f)
     \/ LeaveFunction
  /\ UNCHANGED <<pipelineVars, hostVars>>

\* generateEntryFunction: the function is compiled into the module, then it becomes an entry
\* function and is rewritten to load the module; with emitLLVM it stays as it is.
GenerateEntryFunction ==
  /\ Visiting
  /\ LeaveEntryFunction
  /\ rewriter' = [rewriter EXCEPT ![file].loader = ~compilerOptions.emitLLVM]
  /\ UNCHANGED <<compilerOptions, written, transforms, input, tempObjects, disk, extracted, outputs, hostVars>>

\* A rule of the visitor is broken, or an entry function does not compile: a diagnostic when
\* the error carries a node, an exception of the compiler otherwise.
FailVisit ==
  /\ Visiting
  /\ Unwind
  /\ \/ \E kind \in VisitorErrors \ {None} :
          End("DiagnosticsPresent_OutputsSkipped", Diagnostic(kind, file))
     \/ /\ visiting # <<>> /\ ChildrenVisited /\ IsSpeedyJSEntryFunction(Left)
        /\ \/ End("DiagnosticsPresent_OutputsSkipped", ToCodeGenerationDiagnostic(OtherError, file))
           \/ End("thrown", OtherError)
  /\ UNCHANGED <<declaration, file, visited, references, entryFunctions, removed, pipelineVars,
                 request, pending, completing, javaScript, printed>>

EntryFunctionsOf(f) == {g \in entryFunctions : FileOf[g] = f}

\* Mutated form of CompleteSourceFile: the source file is rewritten before the module is written.
CompleteSourceFileRewritesFirst ==
  /\ Visiting
  /\ FileVisited
  /\ file' = 0
  /\ javaScript' = [javaScript EXCEPT ![file] = IF EntryFunctionsOf(file) = {} THEN "transformed" ELSE "rewritten"]
  /\ completing' = IF EntryFunctionsOf(file) = {} THEN 0 ELSE file
  /\ UNCHANGED <<declaration, visiting, visited, inSpeedyJSFunction, references, entryFunctions, removed,
                 pipelineVars, request, pending, printed, error, status>>

\* completeSourceFile: nothing to write for a file without entry functions.
CompleteSourceFile ==
  /\ Visiting
  /\ FileVisited
  /\ \/ /\ EntryFunctionsOf(file) = {}
        /\ javaScript' = [javaScript EXCEPT ![file] = "transformed"]
        /\ file' = 0
        /\ UNCHANGED completing
     \/ /\ EntryFunctionsOf(file) # {}
        /\ completing' = file
        /\ UNCHANGED <<file, javaScript>>
  /\ UNCHANGED <<declaration, visiting, visited, inSpeedyJSFunction, references, entryFunctions, removed,
                 pipelineVars, request, pending, printed, error, status>>

\* compileSourceCode collects the outputs that end with the name of its input, and asserts
\* that there is one of each kind (bitcode is written past it).
InMemoryConflict(f, extension) ==
  /\ request.host = "memory"
  /\ f \in request.alike
  /\ \E o \in outputs : o.extension = extension /\ o.file \in request.alike

Build ==
  /\ status = "emitting"
  /\ completing # 0
  /\ \/ WriteModule(completing) \/ CleanDirectories \/ RemoveTempObject
     \/ /\ transforms # <<>> => ~InMemoryConflict(written, Writes(Head(transforms)))
        /\ Transform
  /\ UNCHANGED <<visitorVars, hostVars>>

\* A tool is missing or fails, a file cannot be written, or the in-memory compiler meets a
\* second output: nobody turns this into a diagnostic and the build directory stays.
FailBuild ==
  /\ status = "emitting"
  /\ written # 0
  /\ transforms # <<>>
  /\ End("thrown", OtherError)
  /\ UNCHANGED <<visitorVars, pipelineVars, request, pending, completing, javaScript, printed>>

\* rewriteSourceFile: the loader of the module is put in front of the statements.
RewriteSourceFile ==
  /\ status = "emitting"
  /\ ModuleWritten
  /\ compilerOptions.emitLLVM \/ rewriter[written].url
  /\ javaScript' = [javaScript EXCEPT ![written] = IF rewriter[written].loader THEN "rewritten" ELSE "transformed"]
  /\ file' = 0
  /\ completing' = 0
  /\ written' = 0
  /\ tempObjects' = <<>>
  /\ UNCHANGED <<declaration, visiting, visited, inSpeedyJSFunction, references, entryFunctions, removed,
                 compilerOptions, transforms, input, disk, extracted, rewriter, outputs,
                 request, pending, printed, error, status>>

\* TypeScript prints the JavaScript of a transformed file.
PrintFile(f) ==
  /\ status = "emitting"
  /\ javaScript[f] # "none"
  /\ f \notin printed
  /\ ~InMemoryConflict(f, "js")
  /\ printed' = printed \cup {f}
  /\ outputs' = outputs \cup {[file |-> f, extension |-> "js", done |-> {}]}
  /\ UNCHANGED <<visitorVars, compilerOptions, written, transforms, input, tempObjects, disk, extracted,
                 rewriter, request, pending, completing, javaScript, error, status>>

\* writeFile of the in-memory compiler asserts that the output is the first of its kind.
FailPrint ==
  /\ status = "emitting"
  /\ \E f \in Files \ printed : javaScript[f] # "none" /\ InMemoryConflict(f, "js")
  /\ End("thrown", OtherError)
  /\ UNCHANGED <<visitorVars, pipelineVars, request, pending, completing, javaScript, printed>>

\* program.emit returns; it reports emitSkipped when it did not print every file.
Finish ==
  /\ status = "emitting"
  /\ file = 0 /\ pending = {}
  /\ \/ End("DiagnosticsPresent_OutputsSkipped", OtherError)
     \/ printed = {f \in Files : javaScript[f] # "none"} /\ End("Success", OtherError)
  /\ UNCHANGED <<visitorVars, pipelineVars, request, pending, completing, javaScript, printed>>

Ended == status \notin {"starting", "emitting"} /\ UNCHANGED vars

Step ==
  \/ Refuse \/ Compile
  \/ \E f \in Files : BeginSourceFile(f) \/ PrintFile(f)
  \/ Visit \/ GenerateEntryFunction \/ FailVisit
  \/ CompleteSourceFile \/ Build \/ FailBuild \/ RewriteSourceFile \/ FailPrint \/ Finish

Next == Step \/ Ended

\* Everything runs in one thread, the compiler goes on until it is done.
Spec == Init /\ [][Next]_vars /\ WF_vars(Step)

(***************************************************************************)
(* Properties                                                              *)
(***************************************************************************)

Replaced == IF compilerOptions.emitLLVM THEN {} ELSE entryFunctions
Original == IF compilerOptions.emitLLVM THEN entryFunctions ELSE {}

\* The references that are part of the JavaScript output.
Emitted == {r \in references : Survives(r.within, Replaced, Original)}

\* A reference in the JavaScript output of a successful compilation names a function that is
\* still part of it (visitIdentifier): functions of the same file, outside of the methods with the
\* directive, which keep their body, and unless the entry functions keep theirs (emitLLVM).
EmittedReferencesResolve ==
  status = "Success" /\ ~compilerOptions.emitLLVM =>
    \A r \in Emitted : r.file = FileOf[r.to] /\ ~InSpeedyJSMethod(r.within) =>
      Declared(r.to, Replaced, Original)

\* JavaScript that loads a module is printed after the module was written, and its loader knows
\* the url and the static data of this very module (rewriteSourceFile, setWasmUrl, setWastMetaData).
LoaderReady ==
  \A f \in printed : javaScript[f] = "rewritten" =>
    /\ rewriter[f].url /\ rewriter[f].metaData
    /\ \E o \in outputs : o.file = f /\ o.extension = "wasm"

\* A compilation that succeeds has written the JavaScript of every file, the module of every
\* file with entry functions and nothing else, and leaves no temporary file (writeModule, remove).
SuccessIsComplete ==
  status = "Success" /\ RootFileNames(request) # {} =>
    /\ disk = {} /\ tempObjects = <<>>
    /\ \A f \in Files :
         /\ [file |-> f, extension |-> "js", done |-> {}] \in outputs
         /\ (\E o \in outputs : o.file = f /\ o.extension = IF compilerOptions.emitLLVM THEN "ll" ELSE "wasm")
              <=> EntryFunctionsOf(f) # {}
         /\ javaScript[f] = "rewritten" <=> EntryFunctionsOf(f) # {} /\ ~compilerOptions.emitLLVM

\* What is printed can be loaded, and a success left nothing out (emit, completeSourceFile).
OutputsComplete == LoaderReady /\ SuccessIsComplete
=============================================================================
