---------------------------- MODULE ModuleLoader ----------------------------
(***************************************************************************)
(* One compiled source file at run time: the loader __moduleLoader returns *)
(* (per-file/get-wasm-module-function.ts) and the entry functions the      *)
(* rewriter generates around it (...-source-file-rewriter.ts:59-120):      *)
(*                                                                         *)
(*   return loadWasmModule().then(function instanceLoaded(instance) {      *)
(*       var argumentObjects = new Map();                                  *)
(*       var result = toJSObject(instance.exports.fn(toWASM(...)));        *)
(*       loadWasmModule.gc();                                              *)
(*       return result; });                                                *)
(*                                                                         *)
(* JavaScript runs one job at a time: a handler is a sequence of steps no  *)
(* other handler interleaves with.  Calls are made, bytes arrive and the   *)
(* program collects the heap whenever no handler runs.                     *)
(***************************************************************************)
EXTENDS Naturals, Sequences

CONSTANTS Calls,          \* the calls of entry functions
          Configs         \* the builds and the hosts considered

(* host: "async" reads the file through a promise (fetch, fs.readFile),    *)
(* "shell" reads it at once or throws, "unknown" is refused.  gcExported:  *)
(* the module was linked with speedyJsGc.  nuke: disableHeapNukeOnExit is  *)
(* off.                                                                    *)
Config == [host : {"async", "shell", "unknown"}, gcExported : BOOLEAN, nuke : BOOLEAN]

ASSUME LoaderAssumption == Configs \subseteq Config

VARIABLES config,
          loaded,         \* the memoised promise: "absent" until loadInstance returned one
          stage,          \* what the pending promise waits for
          loads,          \* history: promises loadInstance has returned
          hasGc,          \* speedyJsGc is set
          call,           \* how far each call is
          handlers,       \* the handlers registered with then and not yet run to their end
          phase,          \* the running handler's next step
          heap,           \* the calls whose objects are still allocated
          allocated       \* history: the running handler has allocated objects

vars == <<config, loaded, stage, loads, hasGc, call, handlers, phase, heap, allocated>>

loadVars == <<loaded, stage, loads, hasGc>>

Init ==
    /\ config \in Configs
    /\ loaded = "absent" /\ stage = "none" /\ loads = 0
    /\ hasGc = FALSE
    /\ call = [c \in Calls |-> "new"]
    /\ handlers = <<>>
    /\ phase = "idle"
    /\ heap = {}
    /\ allocated = FALSE

Idle == phase = "idle"
-----------------------------------------------------------------------------
(* Calling an entry function: loadWasmModule().then(...)                   *)

(* Mutated form of Register: the newest handler runs first.                *)
RegisterInFront(c) ==
    /\ call' = [call EXCEPT ![c] = "waiting"]
    /\ handlers' = <<c>> \o handlers

Register(c) ==
    /\ call' = [call EXCEPT ![c] = "waiting"]
    /\ handlers' = Append(handlers, c)

(* The memoised promise is reused whether it is pending, resolved or       *)
(* rejected.                                                               *)
InvokeLoaded(c) ==
    /\ Idle
    /\ call[c] = "new"
    /\ loaded # "absent"
    /\ Register(c)
    /\ UNCHANGED <<config, loadVars, phase, heap, allocated>>

(* Mutated form of InvokeFirst: the promise is memoised only when the      *)
(* instance is there, so calls made before load once more.                 *)
InvokeUnmemoised(c) ==
    /\ Idle
    /\ call[c] = "new"
    /\ loaded \in {"absent", "pending"}
    /\ config.host # "unknown"
    /\ loaded' = "pending"
    /\ stage' = IF config.host = "shell" THEN "instance" ELSE "bytes"
    /\ loads' = loads + 1
    /\ Register(c)
    /\ UNCHANGED <<config, hasGc, phase, heap, allocated>>

InvokeFirst(c) ==
    /\ Idle
    /\ call[c] = "new"
    /\ loaded = "absent"
    /\ config.host # "unknown"
    /\ loaded' = "pending"
    /\ stage' = IF config.host = "shell" THEN "instance" ELSE "bytes"
    /\ loads' = loads + 1
    /\ Register(c)
    /\ UNCHANGED <<config, hasGc, phase, heap, allocated>>

(* loadInstance throws before it returns a promise, and so does the entry  *)
(* function: it is no longer async.  Nothing is memoised.                  *)
InvokeThrows(c) ==
    /\ Idle
    /\ call[c] = "new"
    /\ loaded = "absent"
    /\ config.host \in {"shell", "unknown"}
    /\ call' = [call EXCEPT ![c] = "thrown"]
    /\ UNCHANGED <<config, loadVars, handlers, phase, heap, allocated>>
-----------------------------------------------------------------------------
(* loadInstance                                                            *)

BytesArrive ==
    /\ Idle
    /\ stage = "bytes"
    /\ stage' = "instance"
    /\ UNCHANGED <<config, loaded, loads, hasGc, call, handlers, phase, heap, allocated>>

Instantiated ==
    /\ Idle
    /\ stage = "instance"
    /\ loaded' = "resolved" /\ stage' = "none"
    /\ hasGc' = config.gcExported
    /\ UNCHANGED <<config, loads, call, handlers, phase, heap, allocated>>

(* The response is not ok, the file cannot be read, or the engine refuses  *)
(* the module: the memoised promise stays rejected.                        *)
LoadFails ==
    /\ Idle
    /\ stage \in {"bytes", "instance"}
    /\ loaded' = "rejected" /\ stage' = "none"
    /\ UNCHANGED <<config, loads, hasGc, call, handlers, phase, heap, allocated>>
-----------------------------------------------------------------------------
(* The handlers of a settled promise run in the order they were registered *)

Current == Head(handlers)

Finish(answer) ==
    /\ call' = [call EXCEPT ![Current] = answer]
    /\ handlers' = Tail(handlers)
    /\ phase' = "idle"
    /\ allocated' = FALSE

StartHandler ==
    /\ Idle
    /\ loaded = "resolved"
    /\ handlers # <<>>
    /\ call' = [call EXCEPT ![Current] = "running"]
    /\ phase' = "arguments"
    /\ UNCHANGED <<config, loadVars, handlers, heap, allocated>>

(* Mutated form of RejectHandler: only the last handler learns that the    *)
(* module could not be loaded.                                             *)
RejectLastHandler ==
    /\ Idle
    /\ loaded = "rejected"
    /\ Len(handlers) = 1
    /\ Finish("error")
    /\ UNCHANGED <<config, loadVars, heap>>

RejectHandler ==
    /\ Idle
    /\ loaded = "rejected"
    /\ handlers # <<>>
    /\ Finish("error")
    /\ UNCHANGED <<config, loadVars, heap>>

Allocating ==
    \/ heap' = heap \cup {Current} /\ allocated' = TRUE
    \/ UNCHANGED <<heap, allocated>>

ConvertArguments ==
    /\ phase = "arguments"
    /\ Allocating
    /\ phase' = "execute"
    /\ UNCHANGED <<config, loadVars, call, handlers>>

(* Mutated form of Execute: the heap is collected before the result is     *)
(* converted to a JavaScript value.                                        *)
ExecuteAndCollect ==
    /\ phase = "execute"
    /\ heap' = {}
    /\ phase' = "result"
    /\ UNCHANGED <<config, loadVars, call, handlers, allocated>>

Execute ==
    /\ phase = "execute"
    /\ Allocating
    /\ phase' = "result"
    /\ UNCHANGED <<config, loadVars, call, handlers>>

ConvertResult ==
    /\ phase = "result"
    /\ phase' = "collect"
    /\ UNCHANGED <<config, loadVars, call, handlers, heap, allocated>>

(* A conversion throws, the code traps or an import throws.  What has been *)
(* allocated until then stays: the call of gc is skipped.                  *)
HandlerThrows ==
    /\ phase \in {"arguments", "execute", "result"}
    /\ heap' \in IF phase = "result" THEN {heap} ELSE {heap, heap \cup {Current}}
    /\ Finish("error")
    /\ UNCHANGED <<config, loadVars>>

Collected == IF hasGc THEN {} ELSE heap

(* Mutated form of Return: the handler that ran does not collect.          *)
ReturnUncollected ==
    /\ phase = "collect"
    /\ UNCHANGED heap
    /\ Finish("value")
    /\ UNCHANGED <<config, loadVars>>

Return ==
    /\ phase = "collect"
    /\ heap' = IF config.nuke THEN Collected ELSE heap
    /\ Finish("value")
    /\ UNCHANGED <<config, loadVars>>

(* The program calls the exposed speedyJsGc, before or after the module is *)
(* loaded.                                                                 *)
UserCollects ==
    /\ Idle
    /\ heap' = Collected
    /\ UNCHANGED <<config, loadVars, call, handlers, phase, allocated>>

Invoke == \E c \in Calls : InvokeLoaded(c) \/ InvokeFirst(c) \/ InvokeThrows(c)

Load == BytesArrive \/ Instantiated \/ LoadFails

Handle ==
    \/ StartHandler \/ RejectHandler
    \/ ConvertArguments \/ Execute \/ ConvertResult \/ HandlerThrows \/ Return

Next == Invoke \/ Load \/ Handle \/ UserCollects

Spec == Init /\ [][Next]_vars

(* The engine runs the reactions of a settled promise and finishes the     *)
(* handler it has started; the request for the module is answered.         *)
FairSpec == Spec /\ WF_vars(Handle) /\ WF_vars(Load)
-----------------------------------------------------------------------------
TypeOK ==
    /\ config \in Configs
    /\ loaded \in {"absent", "pending", "resolved", "rejected"}
    /\ stage \in {"none", "bytes", "instance"}
    /\ loads \in Nat
    /\ hasGc \in BOOLEAN
    /\ call \in [Calls -> {"new", "waiting", "running", "value", "error", "thrown"}]
    /\ handlers \in Seq(Calls)
    /\ phase \in {"idle", "arguments", "execute", "result", "collect"}
    /\ heap \subseteq Calls
    /\ allocated \in BOOLEAN

LoadState ==
    /\ loaded = "absent" => loads = 0
    /\ stage # "none" => loaded = "pending"
    /\ hasGc = (loaded = "resolved" /\ config.gcExported)
    /\ phase # "idle" => loaded = "resolved"

(* The calls in the queue are unanswered and queued once; the oldest is    *)
(* the one that runs.                                                      *)
QueueState ==
    /\ \A i, j \in DOMAIN handlers : handlers[i] = handlers[j] => i = j
    /\ \A i \in DOMAIN handlers :
          call[handlers[i]] = IF i = 1 /\ phase # "idle" THEN "running" ELSE "waiting"
    /\ phase # "idle" => handlers # <<>>
    /\ phase = "idle" => ~allocated

(* The module is fetched and instantiated at most once for a source file,  *)
(* however many calls are made before it is there.                         *)
LoadedOnce == loads <= 1

(* While a handler executes and converts its result, the objects it has    *)
(* allocated are there: nothing collects the heap in between.              *)
ReadBeforeFreed == phase # "idle" /\ allocated => Current \in heap

(* With heap nuking on, the objects left behind when no handler runs are   *)
(* those of calls that ended with an error since the last collection: a    *)
(* call that returns leaves nothing, and takes the leaks of others along.  *)
LeaksAreErrors ==
    config.nuke /\ config.gcExported =>
        \A c \in heap : call[c] = "error" \/ (phase # "idle" /\ c = Current)

IInv ==
    /\ TypeOK /\ LoadState /\ QueueState
    /\ LoadedOnce
    /\ ReadBeforeFreed
    /\ LeaksAreErrors

(* Every call whose handler is registered is answered.                     *)
Answered == \A c \in Calls : call[c] = "waiting" ~> call[c] \in {"value", "error"}

Promise == INSTANCE EntryCalls WITH
    queue <- handlers,
    outcome <- [c \in Calls |-> IF call[c] \in {"value", "error", "thrown"}
                                THEN call[c] ELSE "none"]

(* Calls are answered once, one at a time and in the order they were made. *)
ImplementsEntryCalls == Promise!AbsSpec
=============================================================================
