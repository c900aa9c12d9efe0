----------------------------- MODULE EntryCalls -----------------------------
(***************************************************************************)
(* What a compiled source file promises the JavaScript code that calls its *)
(* entry functions: calls are answered one at a time, in the order they    *)
(* were made, each once, with a value or with an error; a call that throws *)
(* at once is never answered.  Loading the module, converting arguments    *)
(* and results and collecting the heap are not part of the promise;        *)
(* ModuleLoader.tla is shown to implement it.                              *)
(***************************************************************************)
EXTENDS Sequences

CONSTANT Calls            \* the calls of entry functions of one source file

VARIABLES queue,          \* the calls made and not yet answered, oldest first
          outcome         \* "none", or how the call ended

absVars == <<queue, outcome>>

InQueue(c) == \E i \in DOMAIN queue : queue[i] = c

AbsInit ==
    /\ queue = <<>>
    /\ outcome = [c \in Calls |-> "none"]

Submit(c) ==
    /\ outcome[c] = "none" /\ ~InQueue(c)
    /\ queue' = Append(queue, c)
    /\ UNCHANGED outcome

Refuse(c) ==
    /\ outcome[c] = "none" /\ ~InQueue(c)
    /\ outcome' = [outcome EXCEPT ![c] = "thrown"]
    /\ UNCHANGED queue

Answer ==
    /\ queue # <<>>
    /\ \E answer \in {"value", "error"} :
          outcome' = [outcome EXCEPT ![Head(queue)] = answer]
    /\ queue' = Tail(queue)

AbsNext == Answer \/ \E c \in Calls : Submit(c) \/ Refuse(c)

AbsSpec == AbsInit /\ [][AbsNext]_absVars
=============================================================================
