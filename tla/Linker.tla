------------------------------- MODULE Linker -------------------------------
(***************************************************************************)
(* LLVMLink (external-tools/llvm-link.ts): which of the candidate object   *)
(* files are passed to llvm-link.  One step of the specification is one    *)
(* iteration of a loop of getObjectFilesToLink; the code is synchronous.   *)
(*                                                                         *)
(* The symbol tables are what llvm-nm prints and the parser of llvm-nm.ts  *)
(* keeps, one type code per file and symbol: "U" undefined, "T" a strong   *)
(* external definition (codes T and D), "W" a weak one, "t" a definition   *)
(* local to the file (t and d), "C" a common symbol, "-" not mentioned.    *)
(***************************************************************************)
EXTENDS Naturals, Sequences

CONSTANTS ObjectFiles,    \* LLVMLink.byteCodeFiles: the candidates, in the order they were added
          Symbols,        \* every symbol name
          EntrySymbols,   \* the entry functions passed to link()
          SymbolTables    \* the tables a run may start with

Codes == {"U", "T", "W", "t", "C", "-"}

Files == {ObjectFiles[i] : i \in 1 .. Len(ObjectFiles)}

ASSUME LinkerAssumption ==
    /\ ObjectFiles \in Seq(STRING)
    /\ EntrySymbols \subseteq Symbols
    /\ SymbolTables \subseteq [Files -> [Symbols -> Codes]]

VARIABLES table,          \* llvm-nm's output for every candidate
          pc,             \* "while" and "for": the two loops; "exec", "linked", "failed": llvm-link
          pos,            \* position of the for loop in ObjectFiles
          loopAgain,
          included,       \* includedObjectFiles
          unresolved      \* unresolvedSymbols

vars == <<table, pc, pos, loopAgain, included, unresolved>>

(* parseSymbolsFromObjectFile: common symbols are kept apart and never     *)
(* consulted by the linker.                                                *)
Undefined(f) == {s \in Symbols : table[f][s] = "U"}
Defined(f) == {s \in Symbols : table[f][s] \in {"W", "t", "T"}}

(* What another file can actually be linked against.                       *)
Exported(f) == {s \in Symbols : table[f][s] \in {"W", "T"}}

Init ==
    /\ table \in SymbolTables
    /\ pc = "while"
    /\ pos = 1
    /\ loopAgain = TRUE
    /\ included = {}
    /\ unresolved = EntrySymbols

(* while (loopAgain) { loopAgain = false; for (...)                        *)
BeginPass ==
    /\ pc = "while"
    /\ loopAgain
    /\ loopAgain' = FALSE
    /\ pos' = 1
    /\ pc' = "for"
    /\ UNCHANGED <<table, included, unresolved>>

Considering == pc = "for" /\ pos <= Len(ObjectFiles)

SkipIncluded ==
    /\ Considering
    /\ ObjectFiles[pos] \in included
    /\ pos' = pos + 1
    /\ UNCHANGED <<table, pc, loopAgain, included, unresolved>>

(* Mutated form of Include: the pass that includes a file is the last one. *)
IncludeWithoutAnotherPass ==
    /\ Considering
    /\ LET f == ObjectFiles[pos]
       IN  /\ f \notin included
           /\ unresolved \cap Defined(f) # {}
           /\ unresolved' = (unresolved \ Defined(f)) \cup Undefined(f)
           /\ included' = included \cup {f}
    /\ pos' = pos + 1
    /\ UNCHANGED <<table, pc, loopAgain>>

(* Mutated form of Include: the file is never recorded as included.        *)
IncludeUnrecorded ==
    /\ Considering
    /\ LET f == ObjectFiles[pos]
       IN  /\ unresolved \cap Defined(f) # {}
           /\ unresolved' = (unresolved \ Defined(f)) \cup Undefined(f)
    /\ loopAgain' = TRUE
    /\ pos' = pos + 1
    /\ UNCHANGED <<table, pc, included>>

(* Mutated form of Include: what the included file refers to is forgotten. *)
IncludeForgetting ==
    /\ Considering
    /\ LET f == ObjectFiles[pos]
       IN  /\ f \notin included
           /\ unresolved \cap Defined(f) # {}
           /\ unresolved' = unresolved \ Defined(f)
           /\ included' = included \cup {f}
    /\ loopAgain' = TRUE
    /\ pos' = pos + 1
    /\ UNCHANGED <<table, pc>>

(* considerObjectFile returns true: the definitions are removed first, the *)
(* references are added second, whether or not they are already resolved.  *)
Include ==
    /\ Considering
    /\ LET f == ObjectFiles[pos]
       IN  /\ f \notin included
           /\ unresolved \cap Defined(f) # {}
           /\ unresolved' = (unresolved \ Defined(f)) \cup Undefined(f)
           /\ included' = included \cup {f}
    /\ loopAgain' = TRUE
    /\ pos' = pos + 1
    /\ UNCHANGED <<table, pc>>

PassOver ==
    /\ Considering
    /\ ObjectFiles[pos] \notin included
    /\ unresolved \cap Defined(ObjectFiles[pos]) = {}
    /\ pos' = pos + 1
    /\ UNCHANGED <<table, pc, loopAgain, included, unresolved>>

EndPass ==
    /\ pc = "for"
    /\ pos > Len(ObjectFiles)
    /\ pc' = "while"
    /\ UNCHANGED <<table, pos, loopAgain, included, unresolved>>

(* Mutated form of EndLoop: the loop is left after any pass.               *)
EndLoopEarly ==
    /\ pc = "while"
    /\ included # {}
    /\ pc' = "exec"
    /\ UNCHANGED <<table, pos, loopAgain, included, unresolved>>

(* The fixed point is reached: the set goes to execLLVM("llvm-link").      *)
EndLoop ==
    /\ pc = "while"
    /\ ~loopAgain
    /\ pc' = "exec"
    /\ UNCHANGED <<table, pos, loopAgain, included, unresolved>>

(* llvm-link refuses two strong definitions of one symbol; execFileSync    *)
(* throws when the tool exits with an error.                               *)
Duplicated ==
    \E s \in Symbols : \E f, g \in included :
        f # g /\ table[f][s] = "T" /\ table[g][s] = "T"

Exec ==
    /\ pc = "exec"
    /\ pc' = IF Duplicated THEN "failed" ELSE "linked"
    /\ UNCHANGED <<table, pos, loopAgain, included, unresolved>>

Next ==
    \/ BeginPass
    \/ SkipIncluded
    \/ Include
    \/ PassOver
    \/ EndPass
    \/ EndLoop
    \/ Exec

(* The loops run to completion on one thread: weak fairness of Next.       *)
Spec == Init /\ [][Next]_vars

FairSpec == Spec /\ WF_vars(Next)
-----------------------------------------------------------------------------
TypeOK ==
    /\ table \in SymbolTables
    /\ pc \in {"while", "for", "exec", "linked", "failed"}
    /\ pos \in 1 .. Len(ObjectFiles) + 1
    /\ loopAgain \in BOOLEAN
    /\ included \subseteq Files
    /\ unresolved \subseteq Symbols

Required == EntrySymbols \cup UNION {Undefined(f) : f \in included}

Deciding == pc \in {"while", "for"}

(* When the choice is final, a symbol that an entry point or a linked file *)
(* needs and that some candidate defines is defined by a linked file: the  *)
(* loop of getObjectFilesToLink never stops one pass too early, whatever   *)
(* the order of the candidates and the cycles between them.                *)
LinkComplete ==
    ~Deciding =>
        \A s \in Required :
            (\E f \in Files : s \in Defined(f)) => \E f \in included : s \in Defined(f)

(* The worklist of considerObjectFile never forgets a reference: it is     *)
(* still listed as unresolved, or a linked file defines it.                *)
Accounted ==
    \A s \in Required : s \in unresolved \/ \E f \in included : s \in Defined(f)

(* A pass that has included nothing so far has ruled out every candidate   *)
(* before its position; when the loops are left, every candidate is ruled  *)
(* out.                                                                    *)
Bound == IF pc = "for" THEN pos - 1 ELSE Len(ObjectFiles)

RuledOut ==
    ~loopAgain =>
        \A i \in 1 .. Bound :
            ObjectFiles[i] \in included \/ unresolved \cap Defined(ObjectFiles[i]) = {}

LeftWhenQuiet == ~Deciding => ~loopAgain

IInv == TypeOK /\ Accounted /\ RuledOut /\ LeftWhenQuiet

(* getObjectFilesToLink returns: a pass that includes nothing is reached   *)
(* from every start.                                                       *)
Terminates == <>(pc \in {"linked", "failed"})

Closure == INSTANCE LinkClosure WITH
    defines <- [f \in Files |-> Defined(f)],
    refers <- [f \in Files |-> Undefined(f)],
    linked <- included, handedOver <- ~Deciding

(* getObjectFilesToLink implements the promise of LinkClosure.             *)
ImplementsClosure == Closure!AbsSpec
=============================================================================
