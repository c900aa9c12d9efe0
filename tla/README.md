# Speedy.js: a TLA+ verification

Speedy.js compiles annotated TypeScript functions to WebAssembly. The compiler
(`src/packages/compiler`) hooks into the TypeScript emitter: it generates LLVM IR
for every function marked `"use speedyjs"`, sends the module of a source file
through LLVM's and binaryen's tools, and replaces each *entry function* by code
that loads the WebAssembly module, converts arguments, calls the export and
converts the result. A runtime library in C++ (`src/packages/runtime`) provides
arrays, the garbage "collector" (it frees everything) and number conversions.

This directory models the parts whose correctness depends on order, state or
arithmetic, checks them with TLC on small instances and proves the central
invariants with TLAPS. All paths below are relative to `src/packages/`;
`per-file/` stands for `compiler/src/code-generation/per-file/` and
`code-generators/` for `compiler/src/code-generation/code-generators/`.

To repeat a run: `tlc -config MCLinker.cfg MCLinker`; to repeat a proof:
`tlapm LinkerProofs.tla`.

## 1. Inventory

### Compile time

| component | state | operations | interacts with | hard behaviour | correct when |
|---|---|---|---|---|---|
| Compiler, in-memory compiler, CLI (`compiler/src/compiler.ts`, `in-memory-compiler.ts`, `compiler/cli.ts`) | the program, diagnostics, exit status | `compile`, `emit` | TypeScript emitter, transform visitor, code generator | a diagnostic in the second of several files | outputs and exit status agree |
| Transform visitor (`transform/speedyjs-transform-visitor.ts`) | `inSpeedyJSFunction` | visit source file, identifier, function | code generator (`beginSourceFile`, `generateEntryFunction`, `completeSourceFile`) | nesting, exceptions through the saved flag | a reference is refused exactly when it crosses the border illegally |
| Code generation contexts (`default-code-generation-context.ts`) | scope, `requiresGc`, entry functions, shared generator table | `generate`, `createChildContext`, `enterChildScope` | every generator | what a child context shares with its parent | what a function body needs reaches `completeSourceFile` |
| Statements and scopes (`code-generators/*-statement-*`, `scope.ts`, `function-definition-builder.ts`) | scopes with labels, basic blocks, insertion point | one `generate` per statement | LLVM builder, expressions | nesting of loops, labels, branches and jumps; erased and released blocks | the blocks have the control flow of the source |
| Expressions (`code-generators/*-expression-*`) | none of their own | one `generate` per expression | values, function factory | evaluation order, short circuits, the assigned side generated twice | JavaScript's order of effects |
| Functions and names (`value/function-factory.ts`, `*-name-mangler.ts`) | functions of the LLVM module by mangled name | get or create, define | contexts, definitions | recursion, collisions | one function per name, defined once |
| Classes and layout (`value/class-reference.ts`, `speedy-js-class-reference.ts`) | type descriptors by class name | field offset, fields | type converters, marshalling | three computations of one layout | they agree |
| Rewriting and type serialisation (`per-file/*-rewriter.ts`) | loader identifier, serialised types | rewrite entry function, serialise types | loader | recursive types | ends, and each type is there once |
| Per-file pipeline (`per-file/per-file-code-generator.ts`, `build-directory.ts`, `external-tools/*`) | temporary directory, file of each step | a chain of tools | file system, processes | any step failing | no output of a failed file, no directory left |
| Linker front end (`external-tools/llvm-link.ts`, `llvm-nm.ts`) | chosen files, unresolved symbols | choose, link | candidates: source, runtime, shared libraries | order of candidates, cycles | the choice is closed |

### Run time

| component | state | operations | interacts with | hard behaviour | correct when |
|---|---|---|---|---|---|
| Module loader (`per-file/get-wasm-module-function.ts:340-520`) | memoised promise, `gc` | load, call, collect | host, entry functions | calls while loading, failures, exceptions | one load; every call answered in order |
| Linear memory (same file, `sbrk`, `growMemory`, layout) | break in memory, `totalMemory`, views | sbrk, grow | malloc, compiled code's stack | wrap-around, refused growth, unwound frames | what is granted exists and nothing else writes the break |
| Marshalling (same file, `:56-309`) | identity maps of a call | `jsToWasm`, `wasmToJs` | malloc, arrays, serialised types | sharing, cycles, stale views | graphs are copied with their identities |
| Runtime array (`runtime/lib/array.h`, `array-api.cc`) | begin, back, capacity | JavaScript's array operations | malloc | pointer arithmetic, reallocation, two builds | JavaScript's results, memory safety |
| Collector, numbers (`runtime/lib/memory.cc`, `conversion.cc`, `math.cc`) | none | `speedyJsGc`, `toInt32d` | malloc | rounds of a bounded buffer, boundary values | everything freed; ECMA-262's ToInt32 |

Nothing in the system runs in parallel: the compiler is synchronous, the run
time interleaves only at promises. The hard behaviours are therefore orders of
calls, failures between two steps, stale values and arithmetic at its limits.
`PROJECT.json` lists them one by one, with the line where each bites.

## 2. The plan and where it stands

In order, the behaviour that matters most to a user's program first:

1. **Linker** with `LinkClosure` as its abstract specification: done, proved.
2. **WasmMemory**: done, safety proved.
3. **ModuleLoader** with `EntryCalls`: done, proved.
4. **RuntimeArray** with `JsArray`: done, proved, the refinement included.
5. **ControlFlow**: done, proved.
6. **Compilation**, which composes **TransformVisitor**, **BuildPipeline** and
   **Diagnostics**: done, proved.
7. **FunctionFactory**: contexts, names, calls; done, proved.
8. **Expressions** with **ExpressionCode** and **JsExpressions**: done, checked.
9. **Marshalling** with the layout of classes and the serialised types: done; the
   safety of both directions proved.

Left out of it: the rounds of `speedyJsGc`, which run inside of dlmalloc, and
conversions beyond 32 bits (section 6).

## 3. The modules

Each definition's comment or name points to the code; `PROJECT.json` maps every
definition to its lines. Operators introduced as a "Mutated form" are not part
of a specification: each is a plausible slip in the operator that follows it,
kept to show that the property of the run notices it.

### Linker, LinkClosure, MCLinker, LinkerProofs

`getObjectFilesToLink` iterates over the candidates until a pass includes
nothing. One action is one iteration of a loop: `BeginPass` and `EndPass` are the
`while`, `SkipIncluded`, `Include` and `PassOver` the branches of the `for`,
`EndLoop` and `Exec` hand the choice to llvm-link, which refuses two strong
definitions. A symbol table gives each file a type code of llvm-nm for each
symbol; `Defined` is the set the parser builds, which has local symbols in it.
`LinkClosure` knows neither passes nor an unresolved set: files are chosen
because something refers to them, and handed over when the choice is closed.

### WasmMemory, MCWasmMemory, WasmMemoryProofs

The layout arithmetic of the loader (`StackBase`, `DynamicBase`, the word
`DYNAMIC_TOP_PTR` behind the static data), `sbrk` as four actions for its four
ways out, the loop of `growMemory` as steps of its own, the engine that grants or
refuses, and the frames of compiled code, which live below `StackTop`. 32-bit
wrap-around is `ToInt32`. malloc and compiled code are external: any increment,
any frame. `faults` is a history of failures, so that a property can say "until
a growth has failed".

### ModuleLoader, EntryCalls, MCModuleLoader, ModuleLoaderProofs

The memoised promise (`loaded`, `stage`), the handlers entry functions register,
and the steps of the handler that runs: arguments, call, result, collection. A
handler is not interleaved with others; calls, arriving bytes and collections by
the program are. Every host of `loadInstance` is a configuration, as are builds
without `speedyJsGc` and with `disableHeapNukeOnExit`. `EntryCalls` is the queue a
caller sees.

### RuntimeArray, JsArray, MCRuntimeArray, RuntimeArrayProofs

The array as begin, length and cells, with wasm32 addresses; the SAFE build and
the other. Operations follow `array.h`, the arguments left out are filled in as in
`array-api.cc`. Uninitialised memory holds `Junk`; an access outside of the elements
sets `corrupted`, and nothing is said of what follows. `JsArray` is the sequence
a JavaScript programmer sees; the refinement maps `elements` to the first `length`
cells. `Supported` states which calls a build supports.

### ControlFlow, MCControlFlow, ControlFlowProofs

The specification walks over every function body TypeScript accepts: which
statement comes next is a free choice, `frames` is the stack of `generate` calls
in progress, and each action is a part of a `generate` method between two of its
calls of `context.generate`. `scopes` are the label maps of `scope.ts`, `blocks` the
basic blocks with what they hold and where they branch, `insert` the builder's
insertion point. LLVM's `replaceAllUsesWith`, `eraseFromParent`, `release` and
`useEmpty` are modelled by their effect on `blocks`. A scope maps each pair of
a jump and a label to a block or to 0, the code's `undefined`. `live` is the language's own
reachability: TypeScript reports unreachable statements and `compile()` then
generates nothing. `looped` records scopes in which a loop ended; only the
properties and the restriction `Undisturbed` read it. The restriction (`~AnyBody`) leaves out
the jumps that may find the blocks of a loop that has ended: an unlabeled one behind another
loop of its scope, and a `continue a` in `a: b: while (c)` when an earlier loop left a
block for `a`. Without an earlier loop this `continue a` finds nothing: the step to `failed`.

### Compilation, TransformVisitor, BuildPipeline, Diagnostics, MCCompilation

One compilation, from the command line or in memory. `TransformVisitor` is the walk
over a source file: a function is entered and left (`visiting` is the stack of saved
flags, which `finally` restores also on an error), an identifier is checked, an entry
function is generated, a function with the directive is removed. A reference is the
path of functions it stands in and the function it names. `BuildPipeline` is what
happens to the module of a file: `createTransformationChain` composes the tools from the
options, each tool reads one format and writes another, or fails; copies are saved;
`tempObjects` are removed last first. The rewriter is what it was told: loader, url, static
data. `Compilation` adds the command line and TypeScript's emitter, which may print
the JavaScript of a transformed file at any moment, and the two kinds of failure: a
diagnostic and an error that is thrown. `Diagnostics` has the codes and how an error gets
its node.

### FunctionFactory, MCFunctionFactory, FunctionFactoryProofs

A body is what it does to other functions: calls and references. `stack` is the chain
of child contexts, each with its `requiresGc`; `module` the LLVM functions under their
mangled names. `Call` finds its target by name; `DefineFunction`, `DefineConstructor` and
`DeclareRuntimeFunction` create it, and the call goes on when the body is complete.
Names are sequences of parts, so that two files or parameter lists that mangle
alike collide in the model as they do in the code. Parameters are their modes
(required, initialized, optional, variadic), which decide how many arguments a call
passes and a declaration takes.

### Expressions, ExpressionCode, JsExpressions, MCExpressions

`ExpressionCode` translates the code generators: operators from expressions to
instructions in blocks, with the blocks of the logical operators and their phis, the
casts, the assigned side generated twice. `JsExpressions` evaluates the same trees by the
rules of ECMAScript. `Expressions` runs the code instruction by instruction; at the end
`Agrees` compares variables, elements, the calls in their order and the result. Code is
generated in `Init`. The operators "+", "|" and "<" stand for their kind.

### Marshalling, MCMarshalling, MarshallingProofs

One call of an entry function with the two directions of the loader. The types of the
arguments are serialised by the work list of the rewriter; `jsToWasm` is a stack of
frames, one per object under conversion, each allocating first and storing its fields
through the heap views it finds; `refs` is `objectReferences`. malloc is external: it returns
aligned blocks apart from each other, and may grow the memory, which detaches the
views of those that hold them (`views` against `buffer`), or fail. The compiled
function is external too: it changes one reference and returns any value of its type.
`wasmToJs` reads back. The field loop's offsets (`FieldOffset`), `computeObjectSize` and LLVM's
struct layout (`StructOffset`) are three definitions, as they are three computations.
`Fields` is `getFields`, the members that are no methods; `NthField` the index
`getFieldOffset` computes, among all members. A call says in `uses` which types its objects
are used at, which is what TypeScript's checker has accepted (`CallsAssumption`); an object
that is not an instance of such a type may have any members. `Reachable` is the least set
of objects that holds the arguments and is closed under references. A number or boolean
that was never set (`Unset`) is passed on as undefined: the integer views store 0 for it, the
view of doubles NaN, which the caller gets back.

## 4. The runs

| run | question | instance |
|---|---|---|
| `linker` | Does the link loop end, with a closed choice, whatever the order? | a source file and three libraries, three symbols; all type codes in one library |
| `memory` | Does what sbrk grants exist and cover the request, and does nothing else write the break? | 2^31 scaled to 64, pages of 4 |
| `loader` | One load, objects read before freed, every call answered in order? | three calls, every host and build |
| `array` | Are supported calls memory safe, with JavaScript's results, in both builds? | arrays of up to three elements |
| `array_slice` | Is every call of a safe build memory safe? No: slice from before the array | the same |
| `control_flow` | Do jumps go where the source says, are blocks well formed, does the function reach what the source reaches? | bodies of five statements, two labels |
| `control_flow_nested` | Also behind a nested loop? No: break jumps to the nested loop's end | the same |
| `compilation` | Do the flag, the chain of tools, the JavaScript, the saved files and the temporary files agree, whatever fails? | two files, a nested and an imported function of every kind |
| `functions` | Is every called function defined once, under a name of its own, with the arguments it takes? | two entry functions, two more of every kind, the runtime |
| `functions_collector` | Is the collector there when a module allocates? No: not when a called function does | the same |
| `expressions` | Is the code valid, and does it do what JavaScript does? | 6382 statements from two states |
| `marshalling` | Are graphs of objects copied with their identities, inside their blocks, whatever grows or fails? | three objects, all graphs |

**Bounds.** `linker`: three libraries allow a chain whose order forces a pass for
each of them, and a cycle; three symbols give one that two files define.
`memory`: the limit is reached by one doubling and slow growth, and the
increments include rounding up over the sign bit, zero and releases; two frames
allow an exception to unwind one and leave the pointer low for the next. `loader`: two calls
show sharing, the third one made after the first is answered. `array`: three
elements and a default capacity of two make every operation grow, move and wrap
around; the address space holds 64 elements, so an index is a multiple that
overflows. `control_flow`: at most five statements that contain others or stand in
a list, and any number of single statements as their bodies, which reaches a
loop in a loop in a labeled block, an `if` with two bodies in a loop, and a jump
out of each; two labels make two labels in front of one loop possible. The labels
are interchangeable, so the run uses their symmetry; it has no liveness property.
`compilation`: one nesting and one import give every side a reference may cross;
`MaxReferences` is the number of references, one at any place to any function; the
option sets contain every step of the chain. `functions`: recursion of one and of two
functions, a call back into an entry function, the same name with two numbers of
arguments, and in files whose prefixes are alike. `expressions`: two operators of any
kind meet in every operand position, logical operators three deep; two starting
states give both values to every condition and a NaN. `marshalling`: three objects
make every shape of sharing and cycle with a third party; `MaxGrowth` two growths hit any two
places, `StackLimit` five is more than an acyclic graph of three needs, so that only cycles
overflow.

**Fairness.** `Linker`: weak fairness of the loop, which runs synchronously.
`WasmMemory`: of the growth loop only; nobody is obliged to call sbrk.
`ModuleLoader`: of loading (the host settles its promise: a response or an error)
and of handlers (the engine runs reactions of settled promises); nobody is obliged
to call. `Compilation`, `FunctionFactory`, `Expressions` and `Marshalling` are each one synchronous
computation, so their specifications have weak fairness of the next step; their runs
check safety. `RuntimeArray` and `ControlFlow` state safety only.

**Deadlock** is checked except for Linker, which stops when it has linked. The other
computations that have ended repeat a step (`Stopped`, `Ended`), so that one that
cannot go on is noticed.

**What the code is known not to do.** Three disagreements are runs (`array_slice`,
`control_flow_nested`, `functions_collector`; `PROJECT.json` has the quotations). Others met while
modelling are preconditions of properties or part of the models:

- `llvm-link.ts:126` adds references without looking at what is linked, so files are
  included for symbols that are resolved (the class comment says otherwise); `llvm-nm.ts:69`
  counts local symbols as defined.
- `DYNAMIC_TOP_PTR` is not reserved: when `globalBase` plus the static data is a multiple of
  16, as with the documented default of 1024, the first frame overwrites the break.
- An entry function that ends in an exception skips the collection (`*-rewriter.ts:95`).
- `splice` without a count does not remove the rest in a build that is not safe.
- Imported names are alias symbols, which `visitIdentifier` never checks; with `emitLLVM` the
  visitor still removes functions; `cli.ts:88` never takes files of a configuration; a tool
  that fails leaves the build directory.
- Optional parameters that are not set and variadic methods are always refused; a
  constructor is declared with parameters nobody passes (`ArgumentsMatch` exempts it); async
  functions and methods keep their bare names and may collide (`NamesUnambiguous`), an async
  method with optional parameters is found by its bare name whatever a call passes (`Bare`); an
  entry function inside of a function is refused only if it is called before it is defined; an entry
  function called before its turn is compiled twice, under two names; the prefixes of
  `a--b` and `a_b` are alike.
- A loop sets the continue block of the label directly in front of it only
  (`while-statement-code-generator.ts:41`, `for` alike): in `a: b: while (c) { continue a; }`, which
  TypeScript accepts, the assertion of `continue-statement-code-generator.ts:21` fails, and after
  an earlier loop with the label `a` the jump goes there. `AssertionsHold` allows this failure
  and no other.
- Both alternatives of `?:` are evaluated; the index of an assigned element is evaluated after
  the value, twice by a compound assignment; `NaN != NaN` is false; `&&`, `||`, `**` and `=` with an int
  and a number may become invalid instructions; `%=` is refused. `KnownDivergence` and
  `ConfusedTypes` in `Expressions` name them.
- A cycle of objects overflows the stack; an array of objects throws when the memory grows
  while its elements are converted (`get-wasm-module-function.ts:269`); a conversion that fails
  leaves its blocks to the next collection. `FailuresExcused` lists these reasons.
  `objectReferences` is searched without a type: an array of int passed as an array of
  number as well shares one block; the instance passes an object at one type. Methods are counted by
  `getFieldOffset` (`class-reference.ts:107`), hence `MethodsLast`.

## 5. The proofs

- **LinkerProofs.** `LinkerInvariant`: `IInv` is type correctness, "every required
  symbol is unresolved or defined" (`Accounted`), "a quiet pass has ruled out the
  candidates before its position" (`RuledOut`) and "the loops are left after a quiet
  pass". The last two turn the end of the loop into closure, `LinkIsComplete`.
  `LinkerImplementsClosure` adds that each inclusion is a step of `LinkClosure`.
  Assumption: the tables are total functions into the type codes.
- **WasmMemoryProofs.** The invariant `IInv` for all sizes that are multiples of
  the page: the sum of the pages asked for equals the doublings until a growth fails,
  the break is in range, the heap is backed. From it `HeapBacked` and `GrantsCover`
  (rounding and 32-bit sums never grant less than was asked for); `BreakOutOfReach`
  shows that frames stay above the break when the globals are aligned so that the
  stack starts behind the word. Assumptions: `MemoryAssumption` (page and
  quantum divide 2^31, the initial memory is whole pages) and `StackFits`.
- **ModuleLoaderProofs.** `LoaderInvariant`, from it `LoadsOnce`,
  `ObjectsOutliveConversion`, `OnlyErrorsLeak`, and the refinement
  `LoaderImplementsEntryCalls`. The invariant needs that queued calls are distinct and
  that only the head runs.
- **RuntimeArrayProofs.** `ArrayInvariant`: the elements lie in the allocation and
  the allocation in the lower half of the address space. From it `MemorySafety`, for
  supported calls whose indices do not wrap around (`InReach`). The rest rests on one lemma
  for each operation that says what it does to the elements that show (`Shown`), whatever the
  cells behind them hold. `JunkNeverSeen` needs of them only that no element that shows is junk;
  it holds for unsupported calls of a safe build too. Its hypothesis `JunkApart` names the
  stand-in for uninitialised memory as a value nothing else has. `ArrayImplementsJavaScript`
  shows each operation to be the one of `JsArray`, with the arguments clamped by pointers in
  the code and by indices there (`PointerOrder`, `PointerClamps`): for supported calls
  (`~AnyCall`), in an address space in which no index wraps around in either direction (`NoWrap`)
  and with empty arguments among the arguments. `MCHypotheses` evaluates these for the run.
- **ControlFlowProofs.** `Invariant`, for bodies of any size and nesting: the frames
  nest like the statements of the source (`Nesting`), a scope in which no loop ended
  holds the blocks of the innermost loop in progress in it (`LoopBlocks`), the scope of any loop
  in progress holds blocks of some loop (`LoopsHaveBlocks`), a label in progress has its blocks in the scope of its statement and in no scope inside of it
  (`LabelBlocks`). The argument follows the stack: every action keeps the frames,
  pushes one or pops one, and each of the three preserves the parts. From it, for every
  body, `AssertionsAlwaysHold`: only a continue to a label in front of another label fails. For
  bodies in which no jump may find the blocks of an ended loop (`~AnyBody`),
  `JumpsGoToEnclosing`: no scope inside of the statement a
  jump refers to has the jump's key, so `getLabel` finds the statement's own block.
  `WellFormed` and `ReachabilityAgrees` take the invariant `Agree`, over the frames, blocks, insert
  block and liveness at once: the blocks a construct in progress has created are apart from
  everybody else's and end where the construct will go on (`Woven`, `Apart`), the insert block
  is the one block of the construct on top that is not terminated (`InsertEnds`,
  `EntryEnds`), loops repeat from their own head (`LoopRepeats`), and the source is live
  exactly when there is a path to the insert block (`PathKept`, `TopAgrees`). Paths are the least closed
  set of blocks, so that no induction over their length is needed. Without `~AnyBody` the theorem about
  jumps is false, as the run `control_flow_nested` shows.

- **CompilationProofs.** `VisitInv`: the flags that the nested calls of `visitFunction` keep are
  those of the functions around, a file is settled before the next one, a reference that stays
  has been checked; from it `FlagAlwaysAgrees` and `EmittedReferencesAlwaysResolve`. `PipeInv`: the
  steps of a chain are in the order of `Rank`, whatever the options, so each finds
  the format of the one before (`ChainAlwaysFits`), and a build directory exists before its
  files and goes after them (`DirectoriesAlwaysRemovedEmpty`). `FilesInv`: which files have their
  modules and what was printed (`OutputsAlwaysComplete`).
- **FunctionFactoryProofs.** `FunctionsDefined`, for any functions that call each other: a
  declared function is under construction, complete or the runtime's (`Accounted`), and
  the bottom of the stack is an entry function (`EntriesDefined`). `FunctionsDefinedOnce`: in a
  file in which the names of the entry functions and of the array constructor are apart
  from the others (`NamesApart`), a name enters the module before its frame enters the
  stack, so that a later call finds it (`Once`), and an entry function that has not had its
  turn has no name in the module (`EntriesInTurn`). `CallsAlwaysReachTheirFunction` and
  `ArgumentsAlwaysMatch` add that what is in the module has a name made from what it compiles
  (`NamedInv`) and that mangled names are injective: a sequence of parts is split at its
  separators, by induction over its length (taken from the least counterexample). `UnsupportedAlwaysRejected`:
  a complete function has compiled every use of its body (`UsesDone`, `Placed`), so what is
  compiled is closed under uses and covers everything the entry functions reach; an unsupported
  use is met, and nothing else is refused. `CollectorForEntryFunctions`: the flag of an
  entry function is what its body did so far (`FlagsKept`). Assumptions: programs are total, what
  bodies mention exists, and what TypeScript's grammar and checker guarantee
  (`DeclarationsAssumption`, `SymbolsAssumption`: a rest parameter is last, constructors are
  not referred to, a runtime function has no body, "$" is no identifier of the program). The
  properties leave out calls of functions with a bare name and entry functions inside of
  other functions (section 4).
- **MarshallingProofs.** `SerializedTypesClosed`: when the work list is empty, the arguments, the
  result and everything a serialised type mentions are serialised, for any classes
  and arrays, however recursive. The invariant: what is mentioned is serialised or on the
  list (`Serialised`).

  The layout lemmas follow the three recursive functions by induction over the index of a field
  (from the least counterexample): the loop's offsets are aligned, do not overlap, end
  below `computeObjectSize` and are LLVM's (`LayoutsAgree`, `ObjectLayout`, with `MethodsLast`).
  `ConversionInv` says of the memory that blocks are apart and as large as their types
  need, that what was written lies in them (`Layout`), and that the views show the
  buffer; of the conversion that the objects in objectReferences are complete in the memory
  (`ObjectsThere`), that a frame's object is there up to its next cell (`FrameOk`), that a frame
  waits for the object of the next one (`Chained`), that every block belongs to an object or a
  frame (`BlocksUsed`), and that nothing is converted that the arguments do not lead to
  (`Visited`). A push keeps it because a new block is apart from the others, a delivery
  because it writes to one field of one block. From it `StoresStayInside`
  (`InsideAllocations`) and `HeapAlwaysMirrors` (`HeapMirrorsArguments`): at the end, objectReferences
  is closed under references, so it covers `Reachable`, and it is injective.

  `ResultAlwaysMirrors` (`ResultMirrorsHeap`) takes `ResultInv`: every cell of an object in the memory
  holds a value of its declared type (`Typed`), which the compiled function's store keeps. So the
  memory is a graph (`Contents`), which the frames of `wasmToJs` walk; a cell that was read
  is a number, null or a pointer in returnedObjects, hence two frames of one object
  cannot both wait and a frame that closes is the only one of its object
  (`CompleteApart`). Its hypothesis `OneTypeEach`, that no object is used at two types, is needed:
  an `int[]` that is also passed as a `number[]` is laid out once, and read as
  what it is not by the other use.

  `FailuresAlwaysExcused` (`FailuresExcused`) says that a conversion fails for one of the
  reasons in `Justified` only: never for a type it does not know, never for sharing. Three of the
  reasons are read off the step that fails, with `Visited` and the declared types. The overflow is
  a pigeonhole argument: `FailureInv` adds that the object a frame waits for is the one in its next
  cell (`FramesCurrent`), so that each frame's object is reached from those below it
  (`Chained`); with more frames than objects two frames have one object, and every closed
  set that holds what this object refers to holds the object (`Repeats`). On the way back the
  frames are blocks, of which there are no more than objects (`NoMoreThanObjects`, from
  `OneBlockEach`). Hypotheses: `OneTypeEach`, and `DeepEnough`, that the engine's stack has room for
  every object at once; without the latter a long list without a cycle overflows it too, which is
  the code's limit and no disagreement. `MCHypothesis` evaluates both for the run.

  `CyclesNeverReachCode` is the other half, without a hypothesis: an object enters
  objectReferences when everything it refers to is in it already (`FinishOrdered`), so a graph with a
  cycle is never complete and its call fails before compiled code runs, or does not end. No
  run lists it; TLC's instance has cyclic calls.

**Only model-checked:** liveness (`Terminates`, `GrowthEnds`, `Answered`), which is
out of the prover's reach; all of `Expressions`, whose code generators and semantics are recursive over
the tree, so that nothing about every tree can be proved here.

## 6. What is not modelled

The rounds of the collector (`memory.cc`), which walk over dlmalloc's chunks: a
collection is one step. Numbers beyond 32 bits and `math.cc`: floating point. The type
checker's wrapper, which delegates. The webpack loader (one synchronous call). The
benchmark. The insides of LLVM, binaryen, malloc and the WebAssembly engine appear as
external choices. In `FunctionFactory` a function declared inside of a function that is compiled
twice is left out, as are LLVM attributes, types beyond the mode of a parameter and
anonymous functions' names.
