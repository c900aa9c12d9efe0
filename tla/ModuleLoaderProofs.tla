------------------------- MODULE ModuleLoaderProofs -------------------------
(***************************************************************************)
(* Proofs about ModuleLoader, for any number of calls and any mix of       *)
(* builds and hosts: one load, objects that outlive the conversion of the  *)
(* result, leaks of failed calls only, and the promise EntryCalls makes.   *)
(***************************************************************************)
EXTENDS ModuleLoader, TLAPS

(* A queue without its first element: the rest moves up by one.            *)
LEMMA TailFacts ==
    ASSUME NEW S, NEW q \in Seq(S), q # <<>>
    PROVE  /\ Tail(q) \in Seq(S)
           /\ Head(q) = q[1] /\ Head(q) \in S /\ 1 \in DOMAIN q
           /\ \A i \in DOMAIN Tail(q) : i + 1 \in DOMAIN q /\ Tail(q)[i] = q[i + 1]
OBVIOUS

(* A queue with one more element: the others stay where they are.          *)
LEMMA AppendFacts ==
    ASSUME NEW S, NEW q \in Seq(S), NEW e \in S
    PROVE  /\ Append(q, e) \in Seq(S)
           /\ \A i \in DOMAIN Append(q, e) :
                 IF i = Len(q) + 1 THEN Append(q, e)[i] = e
                 ELSE i \in DOMAIN q /\ Append(q, e)[i] = q[i]
           /\ Append(q, e) # <<>>
OBVIOUS

(* A call that is not in the queue can be registered.                      *)
LEMMA RegisterKeepsQueue ==
    ASSUME TypeOK, QueueState, NEW c \in Calls, call[c] = "new", Register(c),
           UNCHANGED <<phase, allocated>>, phase = "idle"
    PROVE  /\ handlers' \in Seq(Calls)
           /\ call' \in [Calls -> {"new", "waiting", "running", "value", "error", "thrown"}]
           /\ QueueState'
<1>1. handlers \in Seq(Calls)
  BY DEF TypeOK
<1>2. handlers' = Append(handlers, c)
  BY DEF Register
<1>3. handlers' \in Seq(Calls)
  BY <1>1, <1>2, AppendFacts
<1>4. \A i \in DOMAIN handlers' :
          IF i = Len(handlers) + 1 THEN handlers'[i] = c
          ELSE i \in DOMAIN handlers /\ handlers'[i] = handlers[i]
  BY <1>1, <1>2, AppendFacts
<1>5. call' \in [Calls -> {"new", "waiting", "running", "value", "error", "thrown"}]
  BY DEF TypeOK, Register
<1>6. \A i \in DOMAIN handlers : handlers[i] \in Calls /\ call[handlers[i]] = "waiting"
  BY <1>1 DEF QueueState
<1>7. \A i \in DOMAIN handlers : handlers[i] # c
  BY <1>6
<1>8. \A i, j \in DOMAIN handlers' : handlers'[i] = handlers'[j] => i = j
  BY <1>4, <1>7, Zenon DEF QueueState
<1>9. \A d \in Calls : call'[d] = IF d = c THEN "waiting" ELSE call[d]
  BY DEF TypeOK, Register
<1>10. \A i \in DOMAIN handlers' : call'[handlers'[i]] = "waiting"
  BY <1>4, <1>6, <1>9
<1>11. QED
  BY <1>3, <1>5, <1>8, <1>10 DEF QueueState

(* Answering the running call, or rejecting the oldest one.                *)
LEMMA FinishKeepsQueue ==
    ASSUME TypeOK, QueueState, handlers # <<>>,
           NEW answer \in {"value", "error"}, Finish(answer)
    PROVE  /\ handlers' \in Seq(Calls)
           /\ call' \in [Calls -> {"new", "waiting", "running", "value", "error", "thrown"}]
           /\ QueueState'
           /\ \A d \in Calls : call'[d] = IF d = Current THEN answer ELSE call[d]
           /\ Current \in Calls /\ call[Current] \in {"waiting", "running"}
<1>1. handlers \in Seq(Calls)
  BY DEF TypeOK
<1>2. handlers' = Tail(handlers) /\ phase' = "idle" /\ allocated' = FALSE
  BY DEF Finish
<1>3. /\ handlers' \in Seq(Calls)
      /\ Current = handlers[1] /\ Current \in Calls /\ 1 \in DOMAIN handlers
      /\ \A i \in DOMAIN handlers' : i + 1 \in DOMAIN handlers /\ handlers'[i] = handlers[i + 1]
  BY <1>1, <1>2, TailFacts DEF Current
<1>4. call' \in [Calls -> {"new", "waiting", "running", "value", "error", "thrown"}]
  BY <1>3 DEF TypeOK, Finish
<1>5. \A d \in Calls : call'[d] = IF d = Current THEN answer ELSE call[d]
  BY <1>3 DEF TypeOK, Finish
<1>6. \A i \in DOMAIN handlers' : i \in Nat \ {0}
  BY <1>3
<1>7. \A i, j \in DOMAIN handlers' : handlers'[i] = handlers'[j] => i = j
  <2> SUFFICES ASSUME NEW i \in DOMAIN handlers', NEW j \in DOMAIN handlers',
                      handlers'[i] = handlers'[j]
               PROVE  i = j
    OBVIOUS
  <2>1. i + 1 = j + 1
    BY <1>3 DEF QueueState
  <2>2. QED
    BY <1>6, <2>1
<1>8. \A i \in DOMAIN handlers' : call'[handlers'[i]] = "waiting"
  <2> SUFFICES ASSUME NEW i \in DOMAIN handlers' PROVE call'[handlers'[i]] = "waiting"
    OBVIOUS
  <2>1. i + 1 # 1 /\ i + 1 \in DOMAIN handlers /\ handlers'[i] = handlers[i + 1]
    BY <1>3, <1>6
  <2>2. handlers[i + 1] # Current
    BY <1>3, <2>1 DEF QueueState
  <2>3. call[handlers[i + 1]] = "waiting"
    BY <2>1 DEF QueueState
  <2>4. handlers'[i] \in Calls
    BY <1>3
  <2>5. QED
    BY <1>5, <2>1, <2>2, <2>3, <2>4
<1>9. call[Current] \in {"waiting", "running"}
  BY <1>3 DEF QueueState
<1>10. QED
  BY <1>2, <1>3, <1>4, <1>5, <1>7, <1>8, <1>9 DEF QueueState
-----------------------------------------------------------------------------
LEMMA ConfigType == ASSUME NEW k \in Configs PROVE k.gcExported \in BOOLEAN
BY LoaderAssumption DEF Config

LEMMA InitHolds == Init => IInv
<1> SUFFICES ASSUME Init PROVE IInv
  OBVIOUS
<1>1. <<>> \in Seq(Calls) /\ DOMAIN handlers = {}
  BY DEF Init
<1>2. TypeOK
  BY <1>1 DEF Init, TypeOK
<1>3. QueueState /\ LoadState
  BY <1>1 DEF Init, QueueState, LoadState
<1>4. QED
  BY <1>2, <1>3 DEF Init, IInv, LoadedOnce, ReadBeforeFreed, LeaksAreErrors

(* Invoking an entry function: the module is loaded by the first call only, *)
(* and a new call owns no object.                                           *)
LEMMA InvokeKeeps ==
    ASSUME IInv, NEW c \in Calls, InvokeLoaded(c) \/ InvokeFirst(c) \/ InvokeThrows(c)
    PROVE  IInv'
<1>1. CASE InvokeLoaded(c) \/ InvokeFirst(c)
  <2>1. /\ phase = "idle" /\ call[c] = "new" /\ Register(c)
        /\ UNCHANGED <<config, hasGc, phase, heap, allocated>>
    BY <1>1 DEF InvokeLoaded, InvokeFirst, Idle, loadVars
  <2>2. /\ handlers' \in Seq(Calls)
        /\ call' \in [Calls -> {"new", "waiting", "running", "value", "error", "thrown"}]
        /\ QueueState'
    BY <2>1, RegisterKeepsQueue DEF IInv
  <2>3. /\ loaded' \in {"absent", "pending", "resolved", "rejected"}
        /\ stage' \in {"none", "bytes", "instance"}
        /\ loads' \in Nat /\ loads' <= 1
        /\ LoadState'
    BY <1>1, <2>1 DEF IInv, TypeOK, LoadState, LoadedOnce, InvokeLoaded, InvokeFirst, loadVars
  <2>4. TypeOK'
    BY <2>1, <2>2, <2>3 DEF IInv, TypeOK
  <2>5. LeaksAreErrors'
    <3>1. \A d \in Calls : call'[d] = IF d = c THEN "waiting" ELSE call[d]
      BY <2>1 DEF IInv, TypeOK, Register
    <3>2. QED
      BY <2>1, <3>1 DEF IInv, TypeOK, LeaksAreErrors
  <2>6. QED
    BY <2>1, <2>2, <2>3, <2>4, <2>5 DEF IInv, LoadedOnce, ReadBeforeFreed
<1>2. CASE InvokeThrows(c)
  <2>1. /\ phase = "idle" /\ call[c] = "new" /\ call' = [call EXCEPT ![c] = "thrown"]
        /\ UNCHANGED <<config, loaded, stage, loads, hasGc, handlers, phase, heap, allocated>>
    BY <1>2 DEF InvokeThrows, Idle, loadVars
  <2>2. \A d \in Calls : call'[d] = IF d = c THEN "thrown" ELSE call[d]
    BY <2>1 DEF IInv, TypeOK
  <2>3. TypeOK'
    BY <2>1 DEF IInv, TypeOK
  <2>4. QueueState'
    <3>1. \A i \in DOMAIN handlers : handlers[i] \in Calls /\ call[handlers[i]] = "waiting"
      BY <2>1 DEF IInv, TypeOK, QueueState
    <3>2. \A i \in DOMAIN handlers : call'[handlers[i]] = "waiting"
      BY <2>1, <2>2, <3>1
    <3>3. QED
      BY <2>1, <3>2 DEF IInv, QueueState
  <2>5. LeaksAreErrors'
    BY <2>1, <2>2 DEF IInv, TypeOK, LeaksAreErrors
  <2>6. QED
    BY <2>1, <2>3, <2>4, <2>5 DEF IInv, LoadState, LoadedOnce, ReadBeforeFreed
<1>3. QED
  BY <1>1, <1>2

(* Loading the module touches no call and no object.                        *)
LEMMA LoadKeeps == IInv /\ Load => IInv'
<1> SUFFICES ASSUME IInv, Load PROVE IInv'
  OBVIOUS
<1>1. /\ phase = "idle" /\ stage # "none"
      /\ UNCHANGED <<config, loads, call, handlers, phase, heap, allocated>>
  BY DEF Load, BytesArrive, Instantiated, LoadFails, Idle
<1>2. loaded = "pending" /\ hasGc = FALSE
  BY <1>1 DEF IInv, LoadState, TypeOK
<1>3. config.gcExported \in BOOLEAN
  BY ConfigType DEF IInv, TypeOK
<1>4. /\ loaded' \in {"pending", "resolved", "rejected"} /\ stage' \in {"none", "bytes", "instance"}
      /\ hasGc' = (loaded' = "resolved" /\ config.gcExported)
      /\ stage' # "none" => loaded' = "pending"
  <2>1. CASE BytesArrive
    BY <1>2, <2>1 DEF BytesArrive
  <2>2. CASE Instantiated
    <3>1. hasGc' = config.gcExported /\ loaded' = "resolved" /\ stage' = "none"
      BY <2>2 DEF Instantiated
    <3>2. hasGc' = (loaded' = "resolved" /\ config.gcExported)
      BY <1>3, <3>1, Zenon
    <3>3. QED
      BY <3>1, <3>2
  <2>3. CASE LoadFails
    BY <1>2, <2>3 DEF LoadFails
  <2>4. QED
    BY <2>1, <2>2, <2>3 DEF Load
<1>5. hasGc' \in BOOLEAN
  BY <1>3, <1>4
<1>6. TypeOK'
  BY <1>1, <1>4, <1>5 DEF IInv, TypeOK
<1>7. LoadState'
  <2>1. loaded' = "absent" => loads' = 0
    BY <1>4
  <2>2. phase' # "idle" => loaded' = "resolved"
    BY <1>1
  <2>3. hasGc' = (loaded' = "resolved" /\ config'.gcExported)
    BY <1>1, <1>4, Zenon
  <2>4. QED
    BY <1>4, <2>1, <2>2, <2>3, Zenon DEF LoadState
<1>8. QED
  BY <1>1, <1>6, <1>7
     DEF IInv, QueueState, LoadedOnce, ReadBeforeFreed, LeaksAreErrors, Current

(* The steps inside a handler: it starts with nothing allocated, and what   *)
(* it allocates is its own.                                                 *)
LEMMA StartKeeps == IInv /\ StartHandler => IInv'
<1> SUFFICES ASSUME IInv, StartHandler PROVE IInv'
  OBVIOUS
<1>1. /\ phase = "idle" /\ phase' = "arguments" /\ handlers # <<>> /\ loaded = "resolved"
      /\ call' = [call EXCEPT ![Current] = "running"]
      /\ UNCHANGED <<config, loaded, stage, loads, hasGc, handlers, heap, allocated>>
  BY DEF StartHandler, Idle, loadVars
<1>2. Current = handlers[1] /\ 1 \in DOMAIN handlers /\ Current \in Calls
  BY <1>1, TailFacts DEF IInv, TypeOK, Current
<1>3. \A d \in Calls : call'[d] = IF d = Current THEN "running" ELSE call[d]
  BY <1>1 DEF IInv, TypeOK
<1>4. TypeOK'
  BY <1>1, <1>2 DEF IInv, TypeOK
<1>5. \A i \in DOMAIN handlers : handlers[i] \in Calls /\ call[handlers[i]] = "waiting"
  BY <1>1 DEF IInv, TypeOK, QueueState
<1>6. \A i \in DOMAIN handlers : call'[handlers[i]] = IF i = 1 THEN "running" ELSE "waiting"
  <2> SUFFICES ASSUME NEW i \in DOMAIN handlers
               PROVE  call'[handlers[i]] = IF i = 1 THEN "running" ELSE "waiting"
    OBVIOUS
  <2>1. i # 1 => handlers[i] # Current
    BY <1>2 DEF IInv, QueueState
  <2>2. QED
    BY <1>2, <1>3, <1>5, <2>1
<1>7. QueueState'
  BY <1>1, <1>6 DEF IInv, QueueState
<1>8. call[Current] = "waiting"
  BY <1>2, <1>5
<1>9. LeaksAreErrors'
  BY <1>1, <1>3, <1>8 DEF IInv, TypeOK, LeaksAreErrors, Current
<1>10. ~allocated'
  BY <1>1 DEF IInv, QueueState
<1>11. QED
  BY <1>1, <1>4, <1>7, <1>9, <1>10 DEF IInv, LoadState, LoadedOnce, ReadBeforeFreed

LEMMA ConvertKeeps == IInv /\ (ConvertArguments \/ Execute \/ ConvertResult) => IInv'
<1> SUFFICES ASSUME IInv, ConvertArguments \/ Execute \/ ConvertResult PROVE IInv'
  OBVIOUS
<1>1. /\ phase # "idle" /\ phase' \in {"execute", "result", "collect"}
      /\ UNCHANGED <<config, loaded, stage, loads, hasGc, call, handlers>>
  BY DEF ConvertArguments, Execute, ConvertResult, loadVars
<1>2. \/ heap' = heap \cup {Current} /\ allocated' = TRUE
      \/ UNCHANGED <<heap, allocated>>
  BY DEF ConvertArguments, Execute, ConvertResult, Allocating
<1>3. handlers # <<>> /\ Current \in Calls /\ Current' = Current
  BY <1>1, TailFacts DEF IInv, TypeOK, QueueState, Current
<1>4. TypeOK'
  BY <1>1, <1>2, <1>3 DEF IInv, TypeOK
<1>5. LoadState'
  BY <1>1 DEF IInv, LoadState
<1>6. QueueState'
  BY <1>1 DEF IInv, QueueState
<1>7. LeaksAreErrors'
  BY <1>1, <1>2, <1>3 DEF IInv, LeaksAreErrors
<1>8. ReadBeforeFreed'
  BY <1>1, <1>2, <1>3 DEF IInv, ReadBeforeFreed
<1>9. QED
  BY <1>1, <1>4, <1>5, <1>6, <1>7, <1>8 DEF IInv, LoadedOnce

(* A handler ends.  Whoever is answered leaves objects behind only if it    *)
(* failed, and a return after heap nuking leaves none at all.               *)
LEMMA FinishKeeps ==
    ASSUME IInv, handlers # <<>>, NEW answer \in {"value", "error"}, Finish(answer),
           UNCHANGED <<config, loaded, stage, loads, hasGc>>,
           heap' \subseteq Calls,
           config.nuke /\ config.gcExported =>
               \A c \in heap' : (c \in heap /\ c # Current) \/ (c = Current /\ answer = "error")
    PROVE  IInv'
<1>1. /\ handlers' \in Seq(Calls)
      /\ call' \in [Calls -> {"new", "waiting", "running", "value", "error", "thrown"}]
      /\ QueueState'
      /\ \A d \in Calls : call'[d] = IF d = Current THEN answer ELSE call[d]
  BY FinishKeepsQueue DEF IInv
<1>2. phase' = "idle" /\ allocated' = FALSE
  BY DEF Finish
<1>3. TypeOK'
  BY <1>1, <1>2 DEF IInv, TypeOK
<1>4. LoadState'
  BY <1>2 DEF IInv, LoadState
<1>5. LeaksAreErrors'
  <2> SUFFICES ASSUME config.nuke, config.gcExported, NEW c \in heap'
               PROVE  call'[c] = "error"
    BY DEF LeaksAreErrors
  <2>1. CASE c = Current
    BY <1>1, <2>1
  <2>2. CASE c # Current
    BY <1>1, <2>2 DEF IInv, LeaksAreErrors
  <2>3. QED
    BY <2>1, <2>2
<1>6. QED
  BY <1>1, <1>2, <1>3, <1>4, <1>5 DEF IInv, LoadedOnce, ReadBeforeFreed

LEMMA EndKeeps == IInv /\ (RejectHandler \/ HandlerThrows \/ Return) => IInv'
<1> SUFFICES ASSUME IInv, RejectHandler \/ HandlerThrows \/ Return PROVE IInv'
  OBVIOUS
<1>1. handlers # <<>>
  BY DEF IInv, QueueState, RejectHandler, HandlerThrows, Return
<1>2. Current \in Calls
  BY <1>1, TailFacts DEF IInv, TypeOK, Current
<1>3. heap \subseteq Calls
  BY DEF IInv, TypeOK
<1>4. CASE RejectHandler \/ HandlerThrows
  <2>1. Finish("error") /\ UNCHANGED <<config, loaded, stage, loads, hasGc>>
    BY <1>4 DEF RejectHandler, HandlerThrows, loadVars
  <2>2. heap' \subseteq heap \cup {Current}
    BY <1>4 DEF RejectHandler, HandlerThrows
  <2>3. QED
    BY <1>1, <1>2, <1>3, <2>1, <2>2, FinishKeeps
<1>5. CASE Return
  <2>1. /\ phase = "collect" /\ Finish("value") /\ UNCHANGED <<config, loaded, stage, loads, hasGc>>
        /\ heap' = IF config.nuke THEN Collected ELSE heap
    BY <1>5 DEF Return, loadVars
  <2>2. heap' \subseteq Calls
    BY <1>3, <2>1 DEF Collected
  <2>3. ASSUME config.nuke, config.gcExported PROVE heap' = {}
    BY <2>1, <2>3 DEF Collected, IInv, LoadState
  <2>4. QED
    BY <1>1, <2>1, <2>2, <2>3, FinishKeeps
<1>6. QED
  BY <1>4, <1>5

LEMMA UserCollectsKeeps == IInv /\ UserCollects => IInv'
<1> SUFFICES ASSUME IInv, UserCollects PROVE IInv'
  OBVIOUS
<1>1. /\ phase = "idle" /\ heap' \subseteq heap
      /\ UNCHANGED <<config, loaded, stage, loads, hasGc, call, handlers, phase, allocated>>
  BY DEF UserCollects, Collected, Idle, loadVars
<1>2. TypeOK' /\ LoadState' /\ QueueState'
  BY <1>1 DEF IInv, TypeOK, LoadState, QueueState
<1>3. LeaksAreErrors'
  BY <1>1 DEF IInv, LeaksAreErrors
<1>4. QED
  BY <1>1, <1>2, <1>3 DEF IInv, LoadedOnce, ReadBeforeFreed

LEMMA StutterKeeps == IInv /\ UNCHANGED vars => IInv'
BY DEF vars, IInv, TypeOK, LoadState, QueueState, LoadedOnce, ReadBeforeFreed,
       LeaksAreErrors, Current

LEMMA NextKeeps == IInv /\ [Next]_vars => IInv'
<1> SUFFICES ASSUME IInv, [Next]_vars PROVE IInv'
  OBVIOUS
<1>1. CASE Invoke
  BY <1>1, InvokeKeeps DEF Invoke
<1>2. CASE Load
  BY <1>2, LoadKeeps
<1>3. CASE Handle
  BY <1>3, StartKeeps, ConvertKeeps, EndKeeps DEF Handle
<1>4. CASE UserCollects
  BY <1>4, UserCollectsKeeps
<1>5. CASE UNCHANGED vars
  BY <1>5, StutterKeeps
<1>6. QED
  BY <1>1, <1>2, <1>3, <1>4, <1>5 DEF Next

(* The loader, the queue of handlers and the heap keep the inductive        *)
(* invariant for any number of calls, builds and hosts.                     *)
THEOREM LoaderInvariant == Spec => []IInv
BY InitHolds, NextKeeps, PTL DEF Spec

(* The module is fetched and instantiated at most once, however many calls  *)
(* are made before it is there.                                             *)
THEOREM LoadsOnce == Spec => []LoadedOnce
<1>1. IInv => LoadedOnce
  BY DEF IInv
<1>2. QED
  BY <1>1, LoaderInvariant, PTL

(* A call's objects are there until its result is converted.                *)
THEOREM ObjectsOutliveConversion == Spec => []ReadBeforeFreed
<1>1. IInv => ReadBeforeFreed
  BY DEF IInv
<1>2. QED
  BY <1>1, LoaderInvariant, PTL

(* With heap nuking on only calls that failed leave objects behind.         *)
THEOREM OnlyErrorsLeak == Spec => []LeaksAreErrors
<1>1. IInv => LeaksAreErrors
  BY DEF IInv
<1>2. QED
  BY <1>1, LoaderInvariant, PTL
-----------------------------------------------------------------------------
(* The refinement: what EntryCalls sees of a call is how it ended.          *)

Ended == {"value", "error", "thrown"}

Outcome == [c \in Calls |-> IF call[c] \in Ended THEN call[c] ELSE "none"]

LEMMA InitRefines == Init => Promise!AbsInit
BY DEF Init, Promise!AbsInit

(* A registered call was not in the queue and becomes its last element; a   *)
(* call that throws was not in it either.                                   *)
LEMMA InvokeRefines ==
    ASSUME IInv, NEW c \in Calls, InvokeLoaded(c) \/ InvokeFirst(c) \/ InvokeThrows(c)
    PROVE  Promise!Submit(c) \/ Promise!Refuse(c)
<1>1. call[c] = "new" /\ phase = "idle"
  BY DEF InvokeLoaded, InvokeFirst, InvokeThrows, Idle
<1>2. \A i \in DOMAIN handlers : handlers[i] # c
  BY <1>1 DEF IInv, QueueState
<1>3. Outcome[c] = "none" /\ ~Promise!InQueue(c)
  BY <1>1, <1>2 DEF Outcome, Ended, Promise!InQueue
<1>4. CASE InvokeLoaded(c) \/ InvokeFirst(c)
  <2>1. call' = [call EXCEPT ![c] = "waiting"] /\ handlers' = Append(handlers, c)
    BY <1>4 DEF InvokeLoaded, InvokeFirst, Register
  <2>2. \A d \in Calls : call'[d] = IF d = c THEN "waiting" ELSE call[d]
    BY <2>1 DEF IInv, TypeOK
  <2>3. Outcome' = Outcome
    BY <1>1, <2>2 DEF Outcome, Ended
  <2>4. QED
    BY <1>3, <2>1, <2>3 DEF Promise!Submit, Outcome, Ended
<1>5. CASE InvokeThrows(c)
  <2>1. call' = [call EXCEPT ![c] = "thrown"] /\ handlers' = handlers
    BY <1>5 DEF InvokeThrows
  <2>2. \A d \in Calls : call'[d] = IF d = c THEN "thrown" ELSE call[d]
    BY <2>1 DEF IInv, TypeOK
  <2>3. Outcome' = [Outcome EXCEPT ![c] = "thrown"]
    BY <1>1, <2>2 DEF Outcome, Ended
  <2>4. QED
    BY <1>3, <2>1, <2>3 DEF Promise!Refuse, Outcome, Ended
<1>6. QED
  BY <1>4, <1>5

(* The end of a handler answers the oldest call.                            *)
LEMMA EndRefines ==
    ASSUME IInv, RejectHandler \/ HandlerThrows \/ Return
    PROVE  Promise!Answer
<1>1. PICK answer \in {"value", "error"} : Finish(answer)
  BY DEF RejectHandler, HandlerThrows, Return
<1>2. handlers # <<>>
  BY DEF IInv, QueueState, RejectHandler, HandlerThrows, Return
<1>3. Current \in Calls /\ \A d \in Calls : call'[d] = IF d = Current THEN answer ELSE call[d]
  BY <1>1, <1>2, FinishKeepsQueue DEF IInv
<1>4. Outcome' = [Outcome EXCEPT ![Head(handlers)] = answer]
  BY <1>3 DEF Outcome, Ended, Current
<1>5. handlers' = Tail(handlers)
  BY <1>1 DEF Finish
<1>6. QED
  BY <1>2, <1>4, <1>5 DEF Promise!Answer, Outcome, Ended

(* Everything else changes neither the queue nor an outcome.                *)
LEMMA SilentRefines ==
    ASSUME IInv,
           \/ Load \/ StartHandler \/ ConvertArguments \/ Execute \/ ConvertResult
           \/ UserCollects \/ UNCHANGED vars
    PROVE  UNCHANGED <<handlers, Outcome>>
<1>1. CASE StartHandler
  <2>1. /\ call' = [call EXCEPT ![Current] = "running"] /\ handlers' = handlers
        /\ handlers # <<>> /\ phase = "idle"
    BY <1>1 DEF StartHandler, Idle
  <2>2. Current = handlers[1] /\ 1 \in DOMAIN handlers /\ Current \in Calls
    BY <2>1, TailFacts DEF IInv, TypeOK, Current
  <2>3. call[Current] = "waiting"
    BY <2>1, <2>2 DEF IInv, QueueState
  <2>4. \A d \in Calls : call'[d] = IF d = Current THEN "running" ELSE call[d]
    BY <2>1 DEF IInv, TypeOK
  <2>5. Outcome' = Outcome
    BY <2>3, <2>4 DEF Outcome, Ended
  <2>6. QED
    BY <2>1, <2>5
<1>2. CASE ~StartHandler
  BY <1>2 DEF Load, BytesArrive, Instantiated, LoadFails, ConvertArguments, Execute,
              ConvertResult, UserCollects, vars, Outcome
<1>3. QED
  BY <1>1, <1>2

LEMMA NextRefines == IInv /\ [Next]_vars => [Promise!AbsNext]_(Promise!absVars)
<1> SUFFICES ASSUME IInv, [Next]_vars
             PROVE  Promise!AbsNext \/ UNCHANGED Promise!absVars
  OBVIOUS
<1>1. CASE Invoke
  BY <1>1, InvokeRefines DEF Invoke, Promise!AbsNext
<1>2. CASE RejectHandler \/ HandlerThrows \/ Return
  BY <1>2, EndRefines DEF Promise!AbsNext
<1>3. CASE \/ Load \/ StartHandler \/ ConvertArguments \/ Execute \/ ConvertResult
           \/ UserCollects \/ UNCHANGED vars
  BY <1>3, SilentRefines DEF Promise!absVars, Outcome, Ended
<1>4. QED
  BY <1>1, <1>2, <1>3 DEF Next, Handle

(* Calls are answered once, one at a time and in the order they were made.  *)
THEOREM LoaderImplementsEntryCalls == Spec => ImplementsEntryCalls
BY LoaderInvariant, InitRefines, NextRefines, PTL
   DEF Spec, ImplementsEntryCalls, Promise!AbsSpec
=============================================================================
