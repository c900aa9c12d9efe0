---------------------------- MODULE LinkClosure ----------------------------
(***************************************************************************)
(* What LLVMLink promises its caller: starting from nothing, files are     *)
(* added one at a time, each because it defines a symbol that the entry    *)
(* points or an already linked file refers to, and the set is handed to    *)
(* llvm-link only when every referenced symbol that some candidate defines *)
(* is defined by a linked file.  The order of the candidates, the passes   *)
(* over them and the bookkeeping of unresolved symbols are not part of the *)
(* promise; Linker.tla is shown to implement it.                           *)
(***************************************************************************)
CONSTANTS Files,          \* the candidate object files
          EntrySymbols    \* the externally visible entry functions

VARIABLES defines,        \* the symbols each file defines
          refers,         \* the symbols each file uses and does not define
          linked,         \* the files chosen so far
          handedOver      \* TRUE once the choice is final

absVars == <<defines, refers, linked, handedOver>>

Referenced == EntrySymbols \cup UNION {refers[f] : f \in linked}

Closed ==
    \A s \in Referenced :
        (\E f \in Files : s \in defines[f]) => \E f \in linked : s \in defines[f]

AbsInit == linked = {} /\ handedOver = FALSE

Choose(f) ==
    /\ ~handedOver
    /\ f \notin linked
    /\ defines[f] \cap Referenced # {}
    /\ linked' = linked \cup {f}
    /\ UNCHANGED <<defines, refers, handedOver>>

HandOver ==
    /\ ~handedOver
    /\ Closed
    /\ handedOver' = TRUE
    /\ UNCHANGED <<defines, refers, linked>>

AbsNext == HandOver \/ \E f \in Files : Choose(f)

AbsSpec == AbsInit /\ [][AbsNext]_absVars
=============================================================================
