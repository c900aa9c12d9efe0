---------------------------- MODULE LinkerProofs ----------------------------
(***************************************************************************)
(* Proofs about Linker: its inductive invariant, completeness of the       *)
(* choice, and refinement of LinkClosure, for every list of candidates,    *)
(* every set of symbols and every family of symbol tables.                 *)
(***************************************************************************)
EXTENDS Linker, TLAPS

(* The symbol sets of a file are sets of symbols.                          *)
LEMMA SymbolSets ==
    ASSUME NEW f
    PROVE  Undefined(f) \subseteq Symbols /\ Defined(f) \subseteq Symbols
BY DEF Undefined, Defined

(* The candidate under consideration is one of the files.                  *)
LEMMA ConsideredIsFile ==
    ASSUME TypeOK, Considering
    PROVE  pos \in 1 .. Len(ObjectFiles) /\ ObjectFiles[pos] \in Files
<1>1. Len(ObjectFiles) \in Nat
  BY LinkerAssumption
<1>2. pos \in 1 .. Len(ObjectFiles)
  BY <1>1 DEF TypeOK, Considering
<1>3. QED
  BY <1>2 DEF Files

(* Including a file: it covers its own definitions, and what it refers to  *)
(* is on the worklist.                                                     *)
LEMMA IncludeAccounts ==
    ASSUME Accounted, Include, UNCHANGED table
    PROVE  Accounted'
<1> DEFINE f == ObjectFiles[pos]
<1>1. /\ unresolved' = (unresolved \ Defined(f)) \cup Undefined(f)
      /\ included' = included \cup {f}
  BY DEF Include
<1>2. \A g : Undefined(g)' = Undefined(g) /\ Defined(g)' = Defined(g)
  BY DEF Undefined, Defined
<1>3. SUFFICES ASSUME NEW s \in Required'
               PROVE  s \in unresolved' \/ \E g \in included' : s \in Defined(g)
  BY <1>2 DEF Accounted
<1>4. s \in Required \/ s \in Undefined(f)
  BY <1>1, <1>2, <1>3 DEF Required
<1>5. CASE s \in Undefined(f)
  BY <1>1, <1>5
<1>6. CASE s \in Required
  <2>1. s \in unresolved \/ \E g \in included : s \in Defined(g)
    BY <1>6 DEF Accounted
  <2>2. CASE s \in unresolved /\ s \notin Defined(f)
    BY <1>1, <2>2
  <2>3. CASE s \in Defined(f)
    BY <1>1, <2>3
  <2>4. CASE \E g \in included : s \in Defined(g)
    BY <1>1, <2>4
  <2>5. QED
    BY <2>1, <2>2, <2>3, <2>4
<1>7. QED
  BY <1>4, <1>5, <1>6

(* IInv holds initially.                                                   *)
LEMMA InitInv == Init => IInv
<1> SUFFICES ASSUME Init PROVE IInv
  OBVIOUS
<1>1. Len(ObjectFiles) \in Nat
  BY LinkerAssumption
<1>2. TypeOK
  BY <1>1, LinkerAssumption DEF Init, TypeOK
<1>3. Accounted
  BY DEF Init, Accounted, Required
<1>4. RuledOut /\ LeftWhenQuiet
  BY DEF Init, RuledOut, LeftWhenQuiet, Deciding
<1>5. QED
  BY <1>2, <1>3, <1>4 DEF IInv

(* Every step keeps the types.                                             *)
LEMMA NextType == TypeOK /\ [Next]_vars => TypeOK'
<1> SUFFICES ASSUME TypeOK, [Next]_vars PROVE TypeOK'
  OBVIOUS
<1>0. Len(ObjectFiles) \in Nat
  BY LinkerAssumption
<1>1. CASE BeginPass
  <2>1. 1 \in 1 .. Len(ObjectFiles) + 1
    BY <1>0
  <2>2. QED
    BY <1>1, <2>1, Zenon DEF TypeOK, BeginPass
<1>2. CASE SkipIncluded
  BY <1>0, <1>2, ConsideredIsFile DEF TypeOK, SkipIncluded
<1>3. CASE Include
  <2>1. Considering
    BY <1>3 DEF Include
  <2>2. included' \subseteq Files /\ unresolved' \subseteq Symbols
    BY <1>3, <2>1, ConsideredIsFile, SymbolSets DEF TypeOK, Include
  <2>3. QED
    BY <1>0, <1>3, <2>1, <2>2, ConsideredIsFile DEF TypeOK, Include
<1>4. CASE PassOver
  BY <1>0, <1>4, ConsideredIsFile DEF TypeOK, PassOver
<1>5. CASE EndPass
  BY <1>5 DEF TypeOK, EndPass
<1>6. CASE EndLoop
  BY <1>6 DEF TypeOK, EndLoop
<1>7. CASE Exec
  BY <1>7 DEF TypeOK, Exec
<1>8. CASE UNCHANGED vars
  BY <1>8 DEF TypeOK, vars
<1>9. QED
  BY <1>1, <1>2, <1>3, <1>4, <1>5, <1>6, <1>7, <1>8 DEF Next

(* Steps that leave the table, the choice and the worklist alone keep the  *)
(* worklist property.                                                      *)
LEMMA AccountedStutter ==
    ASSUME Accounted, UNCHANGED <<table, included, unresolved>>
    PROVE  Accounted'
BY DEF Accounted, Required, Undefined, Defined

(* Every step keeps IInv.                                                  *)
LEMMA NextInv == IInv /\ [Next]_vars => IInv'
<1> SUFFICES ASSUME IInv, [Next]_vars PROVE IInv'
  OBVIOUS
<1> USE DEF IInv
<1>0. Len(ObjectFiles) \in Nat /\ TypeOK'
  BY LinkerAssumption, NextType
<1>1. CASE BeginPass
  <2>1. Accounted'
    BY <1>1, AccountedStutter DEF BeginPass
  <2>2. RuledOut' /\ LeftWhenQuiet'
    BY <1>1 DEF BeginPass, RuledOut, Bound, LeftWhenQuiet, Deciding
  <2>3. QED
    BY <1>0, <2>1, <2>2
<1>2. CASE SkipIncluded
  <2>1. Accounted'
    BY <1>2, AccountedStutter DEF SkipIncluded
  <2>2. pos \in Nat /\ pc = "for" /\ pc' = "for" /\ pos' = pos + 1
    BY <1>0, <1>2 DEF SkipIncluded, Considering, TypeOK
  <2>3. RuledOut'
    <3>1. SUFFICES ASSUME ~loopAgain, NEW i \in 1 .. pos
                   PROVE  ObjectFiles[i] \in included
                            \/ unresolved \cap Defined(ObjectFiles[i]) = {}
      BY <1>2, <2>2 DEF SkipIncluded, RuledOut, Bound, Defined
    <3>2. CASE i = pos
      BY <1>2, <3>2 DEF SkipIncluded
    <3>3. CASE i # pos
      BY <2>2, <3>1, <3>3 DEF RuledOut, Bound
    <3>4. QED
      BY <3>2, <3>3
  <2>4. LeftWhenQuiet'
    BY <2>2 DEF LeftWhenQuiet, Deciding
  <2>5. QED
    BY <1>0, <2>1, <2>3, <2>4
<1>3. CASE Include
  <2>1. Accounted'
    BY <1>3, IncludeAccounts DEF Include
  <2>2. RuledOut' /\ LeftWhenQuiet'
    BY <1>3 DEF Include, Considering, RuledOut, LeftWhenQuiet, Deciding
  <2>3. QED
    BY <1>0, <2>1, <2>2
<1>4. CASE PassOver
  <2>1. Accounted'
    BY <1>4, AccountedStutter DEF PassOver
  <2>2. pos \in Nat /\ pc = "for" /\ pc' = "for" /\ pos' = pos + 1
    BY <1>0, <1>4 DEF PassOver, Considering, TypeOK
  <2>3. RuledOut'
    <3>1. SUFFICES ASSUME ~loopAgain, NEW i \in 1 .. pos
                   PROVE  ObjectFiles[i] \in included
                            \/ unresolved \cap Defined(ObjectFiles[i]) = {}
      BY <1>4, <2>2 DEF PassOver, RuledOut, Bound, Defined
    <3>2. CASE i = pos
      BY <1>4, <3>2 DEF PassOver
    <3>3. CASE i # pos
      BY <2>2, <3>1, <3>3 DEF RuledOut, Bound
    <3>4. QED
      BY <3>2, <3>3
  <2>4. LeftWhenQuiet'
    BY <2>2 DEF LeftWhenQuiet, Deciding
  <2>5. QED
    BY <1>0, <2>1, <2>3, <2>4
<1>5. CASE EndPass
  <2>1. Accounted'
    BY <1>5, AccountedStutter DEF EndPass
  <2>2. pos - 1 = Len(ObjectFiles)
    BY <1>0, <1>5 DEF EndPass, TypeOK
  <2>3. RuledOut' /\ LeftWhenQuiet'
    BY <1>5, <2>2 DEF EndPass, RuledOut, Bound, Defined, LeftWhenQuiet, Deciding
  <2>4. QED
    BY <1>0, <2>1, <2>3
<1>6. CASE EndLoop
  <2>1. Accounted'
    BY <1>6, AccountedStutter DEF EndLoop
  <2>2. RuledOut' /\ LeftWhenQuiet'
    BY <1>6 DEF EndLoop, RuledOut, Bound, Defined, LeftWhenQuiet, Deciding
  <2>3. QED
    BY <1>0, <2>1, <2>2
<1>7. CASE Exec
  <2>1. Accounted'
    BY <1>7, AccountedStutter DEF Exec
  <2>2. pc = "exec" /\ pc' \in {"linked", "failed"} /\ UNCHANGED <<table, loopAgain, included, unresolved>>
    BY <1>7 DEF Exec
  <2>3. RuledOut' /\ LeftWhenQuiet'
    BY <2>2 DEF RuledOut, Bound, Defined, LeftWhenQuiet, Deciding
  <2>4. QED
    BY <1>0, <2>1, <2>3
<1>8. CASE UNCHANGED vars
  <2>1. Accounted'
    BY <1>8, AccountedStutter DEF vars
  <2>2. RuledOut' /\ LeftWhenQuiet'
    BY <1>8 DEF vars, RuledOut, Bound, Defined, LeftWhenQuiet, Deciding
  <2>3. QED
    BY <1>0, <2>1, <2>2
<1>9. QED
  BY <1>1, <1>2, <1>3, <1>4, <1>5, <1>6, <1>7, <1>8 DEF Next

(* The types and the worklist invariant of getObjectFilesToLink hold in    *)
(* every reachable state.                                                  *)
THEOREM LinkerInvariant == Spec => []IInv
<1>1. QED
  BY InitInv, NextInv, PTL DEF Spec

(* A worklist in which no candidate is left to include is closed.          *)
LEMMA QuietIsClosed ==
    ASSUME IInv, pc # "for", ~loopAgain,
           NEW s \in Required, NEW f \in Files, s \in Defined(f)
    PROVE  \E g \in included : s \in Defined(g)
<1>1. PICK i \in 1 .. Len(ObjectFiles) : ObjectFiles[i] = f
  BY DEF Files
<1>2. f \in included \/ unresolved \cap Defined(f) = {}
  BY <1>1 DEF IInv, RuledOut, Bound
<1>3. s \in unresolved \/ \E g \in included : s \in Defined(g)
  BY DEF IInv, Accounted
<1>4. QED
  BY <1>2, <1>3

LEMMA InvComplete == IInv => LinkComplete
<1> SUFFICES ASSUME IInv, ~Deciding, NEW s \in Required,
                    NEW f \in Files, s \in Defined(f)
             PROVE  \E g \in included : s \in Defined(g)
  BY DEF LinkComplete
<1>1. pc # "for" /\ ~loopAgain
  BY DEF IInv, LeftWhenQuiet, Deciding
<1>2. QED
  BY <1>1, QuietIsClosed

(* When llvm-link is called, every referenced symbol that some candidate   *)
(* defines is defined by a chosen file: for any number of candidates in    *)
(* any order, with any cycles of references.                               *)
THEOREM LinkIsComplete == Spec => []LinkComplete
<1>1. QED
  BY LinkerInvariant, InvComplete, PTL

(* The abstract operators of LinkClosure, read through the refinement      *)
(* mapping.                                                                *)
LEMMA ClosureTables ==
    \A f \in Files : [g \in Files |-> Defined(g)][f] = Defined(f)
                     /\ [g \in Files |-> Undefined(g)][f] = Undefined(f)
OBVIOUS

(* Including a candidate is a choice the abstract specification allows: a  *)
(* symbol on the worklist is one an entry point or a linked file refers to *)
(* (Listed).                                                               *)
Listed == unresolved \subseteq Required

LEMMA ListedInit == Init => Listed
BY DEF Init, Listed, Required

LEMMA ListedNext == Listed /\ [Next]_vars => Listed'
<1> SUFFICES ASSUME Listed, [Next]_vars PROVE Listed'
  OBVIOUS
<1>1. CASE Include
  <2> DEFINE f == ObjectFiles[pos]
  <2>1. /\ unresolved' = (unresolved \ Defined(f)) \cup Undefined(f)
        /\ included' = included \cup {f}
        /\ table' = table
    BY <1>1 DEF Include
  <2>2. \A g : Undefined(g)' = Undefined(g)
    BY <2>1 DEF Undefined
  <2>3. Required' = Required \cup Undefined(f)
    BY <2>1, <2>2 DEF Required
  <2>4. QED
    BY <2>1, <2>3 DEF Listed
<1>2. CASE UNCHANGED <<table, included, unresolved>>
  BY <1>2 DEF Listed, Required, Undefined
<1>3. QED
  BY <1>1, <1>2 DEF Next, BeginPass, SkipIncluded, PassOver, EndPass, EndLoop, Exec, vars

LEMMA InitRefines == Init => Closure!AbsInit
<1> SUFFICES ASSUME Init PROVE included = {} /\ (~Deciding) = FALSE
  BY DEF Closure!AbsInit
<1>1. Deciding
  BY DEF Init, Deciding
<1>2. QED
  BY <1>1 DEF Init

(* Include is the abstract choice of the candidate, EndLoop the hand-over, *)
(* and every other step changes nothing the abstract specification sees.   *)
LEMMA NextRefines ==
    IInv /\ Listed /\ [Next]_vars => [Closure!AbsNext]_(Closure!absVars)
<1> SUFFICES ASSUME IInv, Listed, [Next]_vars
             PROVE  [Closure!AbsNext]_(Closure!absVars)
  OBVIOUS
<1>1. CASE Include
  <2> DEFINE f == ObjectFiles[pos]
  <2>1. /\ f \notin included
        /\ unresolved \cap Defined(f) # {}
        /\ included' = included \cup {f}
        /\ table' = table /\ pc' = pc /\ pc = "for"
    BY <1>1 DEF Include, Considering
  <2>2. f \in Files
    BY <1>1, ConsideredIsFile DEF Include, IInv
  <2>3. [g \in Files |-> Defined(g)]' = [g \in Files |-> Defined(g)]
        /\ [g \in Files |-> Undefined(g)]' = [g \in Files |-> Undefined(g)]
    BY <2>1 DEF Defined, Undefined
  <2>4. PICK s \in unresolved : s \in Defined(f)
    BY <2>1
  <2>5. s \in Closure!Referenced
    <3>1. s \in EntrySymbols \/ \E g \in included : s \in Undefined(g)
      BY <2>4 DEF Listed, Required
    <3>2. \A g \in included : [h \in Files |-> Undefined(h)][g] = Undefined(g)
      BY DEF IInv, TypeOK
    <3>3. QED
      BY <3>1, <3>2 DEF Closure!Referenced
  <2>6. [g \in Files |-> Defined(g)][f] \cap Closure!Referenced # {}
    BY <2>2, <2>4, <2>5
  <2>7. (~Deciding) = FALSE /\ (~Deciding)' = (~Deciding)
    BY <2>1 DEF Deciding
  <2>8. Closure!Choose(f)
    BY <2>1, <2>3, <2>6, <2>7 DEF Closure!Choose
  <2>9. QED
    BY <2>2, <2>8 DEF Closure!AbsNext
<1>2. CASE EndLoop
  <2>1. pc = "while" /\ ~loopAgain /\ pc' = "exec" /\ UNCHANGED <<table, included>>
    BY <1>2 DEF EndLoop
  <2>2. Closure!Closed
    <3>1. \A g \in included : [h \in Files |-> Undefined(h)][g] = Undefined(g)
      BY DEF IInv, TypeOK
    <3>2. Closure!Referenced = Required
      BY <3>1 DEF Closure!Referenced, Required
    <3>3. SUFFICES ASSUME NEW s \in Required, NEW f \in Files, s \in Defined(f)
                   PROVE  \E g \in included : s \in [h \in Files |-> Defined(h)][g]
      BY <3>2, ClosureTables DEF Closure!Closed
    <3>4. PICK g \in included : s \in Defined(g)
      BY <2>1, <3>3, QuietIsClosed
    <3>5. g \in Files
      BY DEF IInv, TypeOK
    <3>6. QED
      BY <3>4, <3>5, ClosureTables
  <2>3. (~Deciding) = FALSE /\ (~Deciding)' = TRUE
    BY <2>1 DEF Deciding
  <2>4. [g \in Files |-> Defined(g)]' = [g \in Files |-> Defined(g)]
        /\ [g \in Files |-> Undefined(g)]' = [g \in Files |-> Undefined(g)]
    BY <2>1 DEF Defined, Undefined
  <2>5. Closure!HandOver
    BY <2>1, <2>2, <2>3, <2>4 DEF Closure!HandOver
  <2>6. QED
    BY <2>5 DEF Closure!AbsNext
<1>3. CASE UNCHANGED <<table, included>> /\ Deciding' = Deciding
  <2>1. [g \in Files |-> Defined(g)]' = [g \in Files |-> Defined(g)]
        /\ [g \in Files |-> Undefined(g)]' = [g \in Files |-> Undefined(g)]
    BY <1>3 DEF Defined, Undefined
  <2>2. QED
    BY <1>3, <2>1 DEF Closure!absVars
<1>4. ASSUME [Next]_vars, ~Include, ~EndLoop
      PROVE  UNCHANGED <<table, included>> /\ Deciding' = Deciding
  <2>1. UNCHANGED <<table, included>>
    BY <1>4 DEF Next, BeginPass, SkipIncluded, PassOver, EndPass, Exec, vars
  <2>2. Deciding' = Deciding
    BY <1>4 DEF Next, BeginPass, SkipIncluded, PassOver, EndPass, Exec, vars,
                Considering, Deciding
  <2>3. QED
    BY <2>1, <2>2
<1>5. QED
  BY <1>1, <1>2, <1>3, <1>4

(* getObjectFilesToLink implements the choice of LinkClosure, for any      *)
(* candidates, symbols and tables.                                         *)
THEOREM LinkerImplementsClosure == Spec => ImplementsClosure
<1>1. Spec => []Listed
  BY ListedInit, ListedNext, PTL DEF Spec
<1>2. QED
  BY <1>1, LinkerInvariant, InitRefines, NextRefines, PTL
     DEF Spec, ImplementsClosure, Closure!AbsSpec
=============================================================================
