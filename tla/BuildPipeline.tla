--------------------------- MODULE BuildPipeline ---------------------------
(***************************************************************************)
(* PerFileCodeGenerator.writeModule: the module of one source file goes    *)
(* through a chain of external tools, over files of a temporary build      *)
(* directory, to a wasm file, and the build directory is deleted.  Tools   *)
(* are abstracted to the format they write and to what they did to the     *)
(* code; any of them may fail.                                             *)
(***************************************************************************)
EXTENDS Integers, Sequences, SequencesExt, FiniteSets, TLC

CONSTANTS Files,            \* the source files, 1 .. n in the order of their emit
          OptionSets,       \* the compiler options tried; an undefined one is not in the domain
          Archives          \* archives among the shared libraries of the runtime

ASSUME PipelineAssumption == Archives \in Nat /\ Files \subseteq Nat \ {0}

VARIABLES compilerOptions,  \* the options of the compilation
          written,          \* the file whose module is being written, or 0
          transforms,       \* the steps of the chain that are left
          input,            \* the file the next step reads: format and what was done to it
          tempObjects,      \* files and directories created, in order
          disk,             \* the indices of those that still exist
          extracted,        \* the subdirectories of archives that hold files
          rewriter,         \* per file, what its source file rewriter has been told
          outputs           \* the files written to the output directory

pipelineVars == <<compilerOptions, written, transforms, input, tempObjects, disk, extracted,
                  rewriter, outputs>>

Optimizes(o) == o.optimizationLevel # "0"

If(condition, step) == IF condition THEN <<step>> ELSE <<>>

\* Mutated form of CreateTransformationChain: the wast file is saved before binaryen optimizes.
ChainSavesWastEarly(o) ==
  <<"link runtime">> \o If(Optimizes(o), "optimize") \o <<"link libs", "link time optimize">>
  \o If(o.saveBc, "save bc") \o <<"llc", "s2wasm">> \o If(o.saveWast, "save wast")
  \o If(o.binaryenOpt /\ Optimizes(o), "binaryen") \o <<"wasm-as">>

CreateTransformationChain(o) ==
  <<"link runtime">> \o If(Optimizes(o), "optimize") \o <<"link libs", "link time optimize">>
  \o If(o.saveBc, "save bc") \o <<"llc", "s2wasm">>
  \o If(o.binaryenOpt /\ Optimizes(o), "binaryen") \o If(o.saveWast, "save wast") \o <<"wasm-as">>

\* The format each tool reads, and the one it writes.
Reads(step) ==
  CASE step \in {"link runtime", "optimize", "link libs", "link time optimize", "save bc", "llc"} -> "bc"
    [] step = "s2wasm" -> "s"
    [] step \in {"binaryen", "save wast", "wasm-as"} -> "wast"

Writes(step) ==
  CASE step = "llc" -> "s"
    [] step = "s2wasm" -> "wast"
    [] step = "wasm-as" -> "wasm"
    [] OTHER -> Reads(step)

\* The steps that change the code, and do more than translate it.
Changes == {"link runtime", "optimize", "link libs", "link time optimize", "binaryen"}

Result(step) ==
  [format |-> Writes(step),
   done |-> IF step \in Changes THEN input.done \cup {step} ELSE input.done]

\* What a step creates in the build directory: linking the shared libraries extracts every
\* archive into a directory of its own, a copy creates nothing.
Creates(step) ==
  CASE step = "link libs" -> [i \in 1 .. Archives |-> "archive"] \o <<"file">>
    [] step \in {"save bc", "save wast"} -> <<>>
    [] OTHER -> <<"file">>

\* initializeCompilerOptions: what the caller leaves undefined gets its default.
Defaults == [emitLLVM |-> FALSE, saveBc |-> FALSE, saveWast |-> FALSE, binaryenOpt |-> FALSE,
             optimizationLevel |-> "2"]

InitializeCompilerOptions(o) == o @@ Defaults

PipelineInit ==
  /\ compilerOptions \in {InitializeCompilerOptions(o) : o \in OptionSets}
  /\ written = 0
  /\ transforms = <<>>
  /\ input = [format |-> "none", done |-> {}]
  /\ tempObjects = <<>>
  /\ disk = {}
  /\ extracted = {}
  /\ rewriter = [f \in Files |-> [loader |-> FALSE, url |-> FALSE, metaData |-> FALSE]]
  /\ outputs = {}

\* writeModule up to the chain; with emitLLVM the printed module is all that is written.
WriteModule(f) ==
  /\ written = 0
  /\ written' = f
  /\ \/ /\ compilerOptions.emitLLVM
        /\ tempObjects' = <<"directory">>
        /\ outputs' = outputs \cup {[file |-> f, extension |-> "ll", done |-> {}]}
        /\ UNCHANGED <<transforms, input>>
     \/ /\ ~compilerOptions.emitLLVM
        /\ tempObjects' = <<"directory", "file">>
        /\ transforms' = CreateTransformationChain(compilerOptions)
        /\ input' = [format |-> "bc", done |-> {}]
        /\ UNCHANGED outputs
  /\ disk' = DOMAIN tempObjects'
  /\ UNCHANGED <<compilerOptions, extracted, rewriter>>

Saved(extension) == outputs \cup {[file |-> written, extension |-> extension, done |-> input.done]}

Transform ==
  /\ transforms # <<>>
  /\ LET step == Head(transforms)
     IN  /\ transforms' = Tail(transforms)
         /\ input' = Result(step)
         /\ tempObjects' = tempObjects \o Creates(step)
         /\ disk' = DOMAIN tempObjects'
         /\ extracted' = extracted \cup {i \in disk' : tempObjects'[i] = "archive"}
         /\ rewriter' = [rewriter EXCEPT ![written].metaData = @ \/ step = "s2wasm",
                                         ![written].url = @ \/ step = "wasm-as"]
         /\ outputs' = CASE step = "save bc" -> Saved("bc")
                         [] step = "save wast" -> Saved("wast")
                         [] step = "wasm-as" -> Saved("wasm")
                         [] OTHER -> outputs
  /\ UNCHANGED <<compilerOptions, written>>

\* Mutated form of RemoveTempObject: in the order of creation.
RemoveFirstTempObject ==
  /\ written # 0
  /\ transforms = <<>>
  /\ extracted = {}
  /\ disk # {}
  /\ disk' = disk \ {CHOOSE i \in disk : \A j \in disk : i <= j}
  /\ UNCHANGED <<compilerOptions, written, transforms, input, tempObjects, extracted, rewriter, outputs>>

\* BuildDirectory.remove: the extracted files first, then what was created, last first.
CleanDirectories ==
  /\ written # 0
  /\ transforms = <<>>
  /\ extracted # {}
  /\ extracted' = {}
  /\ UNCHANGED <<compilerOptions, written, transforms, input, tempObjects, disk, rewriter, outputs>>

RemoveTempObject ==
  /\ written # 0
  /\ transforms = <<>>
  /\ extracted = {}
  /\ disk # {}
  /\ disk' = disk \ {CHOOSE i \in disk : \A j \in disk : i >= j}
  /\ UNCHANGED <<compilerOptions, written, transforms, input, tempObjects, extracted, rewriter, outputs>>

ModuleWritten == written # 0 /\ transforms = <<>> /\ disk = {}

(***************************************************************************)
(* Properties                                                              *)
(***************************************************************************)

\* Every tool reads the format it was written for, whatever options compose the chain.
ToolsReadTheirFormat == transforms # <<>> => Reads(Head(transforms)) = input.format

\* Only empty directories are removed: the build directory after all that it contains, an
\* archive's directory after its files; otherwise removing them fails (build-directory.ts remove).
DirectoriesRemovedEmpty ==
  [][\A i \in disk \ disk' : /\ tempObjects[i] = "directory" => disk' = {}
                             /\ i \notin extracted]_pipelineVars

\* The saved files are what the options promise: --save-bc "includes the linked and optimized
\* code", --save-wast saves what is assembled to the wasm file beside it.
SavedFilesMatch ==
  \A w, s \in outputs :
    w.extension = "wasm" /\ s.file = w.file =>
      /\ s.extension = "bc" => s.done = w.done \ {"binaryen"} /\ {"link runtime", "link libs"} \subseteq s.done
      /\ s.extension = "wast" => s.done = w.done

\* The tools follow each other as the options promise (createTransformationChain).
ChainFits == ToolsReadTheirFormat /\ SavedFilesMatch
=============================================================================
