----------------------- MODULE FunctionFactoryProofs -----------------------
(***************************************************************************)
(* For any programs: a function the code of a file calls has one body, the *)
(* call names this function and passes what it takes; a file is refused    *)
(* exactly when it reaches what is not supported, and has the collector    *)
(* exactly when an entry function allocates.                               *)
(***************************************************************************)
EXTENDS FunctionFactory, SequenceTheorems, FiniteSetTheorems, WellFoundedInduction, TLAPS

Names == {r.name : r \in module}
Frames(S) == [name : S, of : Functions, code : Seq(Uses), requiresGc : BOOLEAN]

(* The shape of the state.                                                 *)
Shape ==
    /\ source \in Programs
    /\ \E S : stack \in Seq(Frames(S))
    /\ \A r \in module : r.of \in Functions
    /\ scopeFunctions \subseteq Entries

(* A function in the module is under construction, complete, or in the     *)
(* runtime's library.                                                      *)
Accounted ==
    \A r \in module :
        \/ r.name \in defined
        \/ source[r.of].kind = "runtime"
        \/ \E i \in 1..Len(stack) : stack[i].name = r.name

(* The entry functions are at the bottom of the stack, then in the scope.  *)
EntriesDefined ==
    /\ \A f \in scopeFunctions : EntryName(f) \in defined
    /\ stack # <<>> => stack[1].name = EntryName(stack[1].of) /\ IsEntry(stack[1].of)
    /\ status = "completed" => stack = <<>> /\ scopeFunctions = Entries

(* What is under construction or complete is in the module.                *)
Declared ==
    /\ defined \subseteq Names
    /\ \A i \in 1..Len(stack) : stack[i].name \in Names

Inv == Shape /\ Accounted /\ EntriesDefined /\ Declared

-----------------------------------------------------------------------------
(* Sequences.                                                              *)

LEMMA Larger ==
    ASSUME NEW S, NEW T, NEW s \in Seq(S), S \subseteq T
    PROVE  s \in Seq(T)
OBVIOUS

LEMMA FrontProperties ==
    ASSUME NEW S, NEW s \in Seq(S), s # <<>>
    PROVE  /\ Front(s) \in Seq(S)
           /\ Len(s) \in Nat /\ Len(s) > 0
           /\ Len(Front(s)) = Len(s) - 1
           /\ \A i \in 1..(Len(s) - 1) : Front(s)[i] = s[i]
<1>1. Len(s) \in Nat /\ Len(s) > 0
    BY EmptySeq
<1>2. PICK n \in Nat : n = Len(s) - 1
    BY <1>1
<1>3. \A i \in 1..n : s[i] \in S
    BY <1>1, <1>2
<1>4. /\ SubSeq(s, 1, n) \in Seq(S)
      /\ Len(SubSeq(s, 1, n)) = IF 1 <= n THEN n - 1 + 1 ELSE 0
      /\ \A i \in 1..(n - 1 + 1) : SubSeq(s, 1, n)[i] = s[1 + i - 1]
    BY <1>3, SubSeqProperties
<1>5. Front(s) = SubSeq(s, 1, n)
    BY <1>2 DEF Front
<1> QED
    BY <1>1, <1>2, <1>4, <1>5

LEMMA PushProperties ==
    ASSUME NEW S, NEW s \in Seq(S), NEW x \in S
    PROVE  /\ Append(s, x) \in Seq(S)
           /\ Len(s) \in Nat /\ Len(Append(s, x)) = Len(s) + 1
           /\ Append(s, x)[Len(s) + 1] = x
           /\ \A i \in 1..Len(s) : Append(s, x)[i] = s[i]
BY AppendProperties

(* Names depend on the program only.                                       *)
LEMMA NamesStay ==
    ASSUME source' = source
    PROVE  /\ \A f : EntryName(f)' = EntryName(f)
           /\ \A f : IsEntry(f)' = IsEntry(f)
           /\ Entries' = Entries
<1>1. \A f : EntryName(f)' = EntryName(f)
    BY DEF EntryName
<1>2. \A f : IsEntry(f)' = IsEntry(f)
    BY DEF IsEntry
<1>3. Entries' = Entries
    BY DEF Entries, IsEntry
<1> QED
    BY <1>1, <1>2, <1>3

-----------------------------------------------------------------------------
(* The top of the stack.                                                   *)

LEMMA TopProperties ==
    ASSUME Shape, stack # <<>>
    PROVE  /\ Len(stack) \in Nat /\ Len(stack) > 0
           /\ Top.of \in Functions /\ Top.code \in Seq(Uses)
<1>1. PICK S : stack \in Seq(Frames(S))
    BY DEF Shape
<1>2. Len(stack) \in Nat /\ Len(stack) > 0
    BY <1>1, EmptySeq
<1>3. Top \in Frames(S)
    BY <1>1, <1>2 DEF Top
<1> QED
    BY <1>2, <1>3 DEF Frames

LEMMA CalleeProperties ==
    ASSUME Shape, Calling
    PROVE  /\ Callee \in Functions
           /\ stack # <<>> /\ Tail(Top.code) \in Seq(Uses)
<1>1. stack # <<>> /\ Top.code # <<>>
    BY DEF Calling, Due
<1>2. Top.code \in Seq(Uses)
    BY <1>1, TopProperties
<1>3. Head(Top.code) \in Uses /\ Tail(Top.code) \in Seq(Uses)
    BY <1>1, <1>2, HeadTailProperties
<1> QED
    BY <1>1, <1>3, ProgramsAssumption DEF Callee

(* A function starts: it is declared and its frame is pushed.              *)
LEMMA PushPreserves ==
    ASSUME Inv, NEW name, NEW f \in Functions, NEW n, NEW more,
           module' = module \cup {Declaration(name, f, n)} \cup more,
           \A r \in more : r.of \in Functions /\ source[r.of].kind = "runtime",
           stack' = Append(stack, Frame(name, f)),
           stack = <<>> => name = EntryName(f) /\ IsEntry(f),
           status # "completed",
           UNCHANGED <<source, defined, scopeFunctions, status>>
    PROVE  Inv'
<1>1. PICK S : stack \in Seq(Frames(S))
    BY DEF Inv, Shape
<1> DEFINE T == S \cup {name}
           x == Frame(name, f)
<1>2. source[f].body \in Seq(Uses)
    BY ProgramsAssumption DEF Inv, Shape
<1>3. Variadic(f) \in BOOLEAN
    BY DEF Variadic
<1>4. x \in Frames(T) /\ x.name = name /\ x.of = f
    BY <1>2, <1>3 DEF Frame, Frames
<1>5. Frames(S) \subseteq Frames(T)
    BY DEF Frames
<1>6. stack \in Seq(Frames(T))
    BY <1>1, <1>5, Larger
<1>7. /\ stack' \in Seq(Frames(T))
      /\ Len(stack) \in Nat /\ Len(stack') = Len(stack) + 1
      /\ stack'[Len(stack) + 1].name = name /\ stack'[Len(stack) + 1].of = f
      /\ \A i \in 1..Len(stack) : stack'[i] = stack[i]
  <2>1. PICK y \in Frames(T) : y = x
      BY <1>4
  <2>2. stack' = Append(stack, y)
      BY <2>1
  <2> HIDE DEF x
  <2> QED
      BY <1>4, <1>6, <2>1, <2>2, PushProperties
<1>8. Shape'
  <2>1. \A r \in module' : r.of \in Functions
      BY DEF Inv, Shape, Declaration
  <2> QED
      BY <1>7, <2>1, NamesStay DEF Inv, Shape
<1>9. Accounted'
  <2> SUFFICES ASSUME NEW r \in module'
               PROVE  \/ r.name \in defined' \/ source'[r.of].kind = "runtime"
                      \/ \E i \in 1..Len(stack') : stack'[i].name = r.name
      BY DEF Accounted
  <2>1. CASE r \in module
      BY <1>7, <2>1 DEF Inv, Accounted
  <2>2. CASE r = Declaration(name, f, n)
    <3>1. r.name = name
        BY <2>2 DEF Declaration
    <3>2. Len(stack) + 1 \in 1..Len(stack')
        BY <1>7
    <3> QED
        BY <1>7, <3>1, <3>2
  <2>3. CASE r \in more
      BY <2>3
  <2> QED
      BY <2>1, <2>2, <2>3
<1>10. EntriesDefined'
  <2>1. stack = <<>> => stack'[1].name = EntryName(stack'[1].of) /\ IsEntry(stack'[1].of)
    <3> SUFFICES ASSUME stack = <<>>
                 PROVE  stack'[1].name = EntryName(stack'[1].of) /\ IsEntry(stack'[1].of)
        OBVIOUS
    <3>1. Len(stack) = 0
        BY EmptySeq
    <3> QED
        BY <1>7, <3>1
  <2>2. stack # <<>> => stack'[1] = stack[1]
      BY <1>1, <1>7, EmptySeq
  <2>3. stack'[1].name = EntryName(stack'[1].of) /\ IsEntry(stack'[1].of)
      BY <2>1, <2>2 DEF Inv, EntriesDefined
  <2>4. stack'[1].name = EntryName(stack[1].of)' /\ IsEntry(stack[1].of)'
      BY <2>3 DEF EntryName, IsEntry
  <2>5. \A g \in scopeFunctions' : EntryName(g)' \in defined'
      BY NamesStay DEF Inv, EntriesDefined
  <2> QED
      BY <2>4, <2>5 DEF EntriesDefined
<1>11. Declared'
  <2>1. Names \subseteq Names' /\ name \in Names'
    <3>1. module \subseteq module' /\ Declaration(name, f, n) \in module'
        OBVIOUS
    <3>2. Declaration(name, f, n).name = name
        BY DEF Declaration
    <3>3. Names \subseteq Names'
        BY <3>1 DEF Names
    <3>4. Declaration(name, f, n).name \in Names'
        BY <3>1 DEF Names
    <3> QED
        BY <3>2, <3>3, <3>4
  <2>2. \A i \in 1..Len(stack') : stack'[i].name \in Names'
    <3> SUFFICES ASSUME NEW i \in 1..Len(stack') PROVE stack'[i].name \in Names'
        OBVIOUS
    <3>1. CASE i \in 1..Len(stack)
        BY <1>7, <2>1, <3>1 DEF Inv, Declared
    <3>2. CASE i = Len(stack) + 1
        BY <1>7, <2>1, <3>2
    <3> QED
        BY <1>7, <3>1, <3>2
  <2> QED
      BY <2>1, <2>2 DEF Inv, Declared
<1> QED
    BY <1>8, <1>9, <1>10, <1>11 DEF Inv

(* A statement is done: the names and functions on the stack stay.          *)
LEMMA AdvancePreserves ==
    ASSUME Inv, Calling, NEW allocates \in BOOLEAN,
           stack' = Advance(allocates),
           UNCHANGED <<source, module, defined, scopeFunctions, status>>
    PROVE  Inv'
<1>1. PICK S : stack \in Seq(Frames(S))
    BY DEF Inv, Shape
<1>2. Len(stack) \in Nat /\ Len(stack) > 0 /\ stack # <<>> /\ Tail(Top.code) \in Seq(Uses)
    BY CalleeProperties, TopProperties DEF Inv
<1>3. Top \in Frames(S) /\ Top = stack[Len(stack)]
    BY <1>1, <1>2 DEF Top
<1>4. PICK y : y = [Top EXCEPT !.code = Tail(@), !.requiresGc = @ \/ allocates]
    OBVIOUS
<1>5. (Top.requiresGc \/ allocates) \in BOOLEAN
    OBVIOUS
<1>6. PICK b \in BOOLEAN : b = (Top.requiresGc \/ allocates)
    BY <1>5
<1>7. y = [Top EXCEPT !.code = Tail(Top.code), !.requiresGc = b]
    BY <1>4, <1>6
<1>8. y \in Frames(S) /\ y.name = Top.name /\ y.of = Top.of
    BY <1>2, <1>3, <1>7 DEF Frames
<1>9. PICK n \in 1..Len(stack) : n = Len(stack)
    BY <1>2
<1>10. stack' = [stack EXCEPT ![n] = y]
    BY <1>3, <1>4, <1>9 DEF Advance
<1>11. /\ stack' \in Seq(Frames(S)) /\ Len(stack') = Len(stack)
       /\ \A i \in 1..Len(stack) : stack'[i] = IF i = n THEN y ELSE stack[i]
    BY <1>1, <1>8, <1>10, ExceptSeq
<1>12. \A i \in 1..Len(stack) : stack'[i].name = stack[i].name /\ stack'[i].of = stack[i].of
    BY <1>3, <1>8, <1>9, <1>11
<1>13. Shape'
    BY <1>11, NamesStay DEF Inv, Shape
<1>14. Accounted'
    BY <1>11, <1>12 DEF Inv, Accounted
<1>15. EntriesDefined'
  <2>1. stack'[1].name = EntryName(stack'[1].of) /\ IsEntry(stack'[1].of)
      BY <1>2, <1>12 DEF Inv, EntriesDefined
  <2>2. stack'[1].name = EntryName(stack[1].of)' /\ IsEntry(stack[1].of)'
      BY <2>1 DEF EntryName, IsEntry
  <2>3. \A g \in scopeFunctions' : EntryName(g)' \in defined'
      BY NamesStay DEF Inv, EntriesDefined
  <2>4. status # "completed"
      BY DEF Calling, Due
  <2> QED
      BY <2>2, <2>3, <2>4 DEF EntriesDefined
<1>16. Declared'
    BY <1>11, <1>12 DEF Inv, Declared, Names
<1> QED
    BY <1>13, <1>14, <1>15, <1>16 DEF Inv

(* A runtime function is declared.                                          *)
LEMMA DeclarePreserves ==
    ASSUME Inv, DeclareRuntimeFunction
    PROVE  Inv'
<1>1. Callee \in Functions /\ source[Callee].kind = "runtime"
    BY CalleeProperties DEF Inv, DeclareRuntimeFunction
<1>2. UNCHANGED <<source, defined, stack, scopeFunctions, status>> /\ status # "completed"
    BY DEF DeclareRuntimeFunction, Calling, Due
<1>3. PICK r : module' = module \cup {r} /\ r.of = Callee
  <2>1. PICK r : r = Declaration(Target, Callee, DeclaredArguments(Callee, Passed))
      OBVIOUS
  <2>2. r.of = Callee
      BY <2>1 DEF Declaration
  <2>3. module' = module \cup {r}
      BY <2>1 DEF DeclareRuntimeFunction
  <2> QED
      BY <2>2, <2>3
<1>4. Shape'
    BY <1>1, <1>2, <1>3, NamesStay DEF Inv, Shape
<1>5. Accounted'
    BY <1>1, <1>2, <1>3 DEF Inv, Accounted
<1>6. EntriesDefined'
    BY <1>2 DEF Inv, EntriesDefined, EntryName, IsEntry
<1>7. Names \subseteq Names'
    BY <1>3 DEF Names
<1>8. Declared'
    BY <1>2, <1>7 DEF Inv, Declared
<1> QED
    BY <1>4, <1>5, <1>6, <1>8 DEF Inv

(* The function at the top is complete.                                     *)
LEMMA TopNamed ==
    ASSUME Inv, stack # <<>>
    PROVE  /\ Top.name \in Names
           /\ Top = stack[Len(stack)]
<1>1. Len(stack) \in 1..Len(stack)
    BY TopProperties DEF Inv
<1> QED
    BY <1>1 DEF Inv, Declared, Top

LEMMA LeaveFunctionPreserves ==
    ASSUME Inv, LeaveFunction
    PROVE  Inv'
<1>1. /\ UNCHANGED <<source, module, scopeFunctions, status>> /\ status # "completed"
      /\ stack # <<>> /\ Len(stack) > 1
      /\ defined' = defined \cup {Top.name} /\ stack' = Front(stack)
    BY DEF LeaveFunction, Complete
<1>2. PICK S : stack \in Seq(Frames(S))
    BY DEF Inv, Shape
<1>3. PICK s \in Seq(Frames(S)) : s = stack
    BY <1>2
<1>4. /\ stack' \in Seq(Frames(S))
      /\ Len(stack) \in Nat /\ Len(stack') = Len(stack) - 1
      /\ \A i \in 1..(Len(stack) - 1) : stack'[i] = stack[i]
    BY <1>1, <1>3, FrontProperties
<1>5. Top = stack[Len(stack)] /\ Top.name \in Names
    BY <1>1, TopNamed
<1>6. Shape'
    BY <1>1, <1>4, NamesStay DEF Inv, Shape
<1>7. Accounted'
  <2> SUFFICES ASSUME NEW r \in module,
                      r.name \notin defined', source[r.of].kind # "runtime"
               PROVE  \E i \in 1..Len(stack') : stack'[i].name = r.name
      BY <1>1 DEF Accounted
  <2>1. PICK i \in 1..Len(stack) : stack[i].name = r.name
      BY <1>1 DEF Inv, Accounted
  <2>2. i # Len(stack)
      BY <1>1, <1>5, <2>1
  <2> QED
      BY <1>4, <2>1, <2>2
<1>8. EntriesDefined'
  <2>1. stack'[1] = stack[1]
      BY <1>1, <1>4
  <2>2. stack'[1].name = EntryName(stack[1].of)' /\ IsEntry(stack[1].of)'
    <3>1. stack'[1].name = EntryName(stack'[1].of) /\ IsEntry(stack'[1].of)
        BY <1>1, <2>1 DEF Inv, EntriesDefined
    <3> QED
        BY <1>1, <3>1 DEF EntryName, IsEntry
  <2>3. \A g \in scopeFunctions' : EntryName(g)' \in defined'
      BY <1>1, NamesStay DEF Inv, EntriesDefined
  <2> QED
      BY <1>1, <2>2, <2>3 DEF EntriesDefined
<1>9. Declared'
    BY <1>1, <1>4, <1>5 DEF Inv, Declared, Names
<1> QED
    BY <1>6, <1>7, <1>8, <1>9 DEF Inv

LEMMA LeaveEntryFunctionPreserves ==
    ASSUME Inv, LeaveEntryFunction
    PROVE  Inv'
<1>1. /\ UNCHANGED <<source, module, status>> /\ status # "completed"
      /\ stack # <<>> /\ Len(stack) = 1
      /\ defined' = defined \cup {Top.name} /\ stack' = <<>>
      /\ scopeFunctions' = scopeFunctions \cup {Top.of}
    BY DEF LeaveEntryFunction, Complete
<1>2. Top = stack[1] /\ Top.name \in Names
    BY <1>1, TopNamed
<1>3. Top.name = EntryName(Top.of) /\ IsEntry(Top.of)
    BY <1>1, <1>2 DEF Inv, EntriesDefined
<1>4. Top.of \in Entries
    BY <1>1, <1>3, TopProperties DEF Inv, Entries
<1>5. Shape'
  <2>1. stack' \in Seq(Frames({}))
      BY <1>1
  <2> QED
      BY <1>1, <1>4, <2>1, NamesStay DEF Inv, Shape
<1>6. Accounted'
  <2> SUFFICES ASSUME NEW r \in module,
                      r.name \notin defined', source[r.of].kind # "runtime"
               PROVE  FALSE
      BY <1>1 DEF Accounted
  <2>1. PICK i \in 1..Len(stack) : stack[i].name = r.name
      BY <1>1 DEF Inv, Accounted
  <2> QED
      BY <1>1, <1>2, <2>1
<1>7. EntriesDefined'
  <2>1. \A g \in scopeFunctions' : EntryName(g)' \in defined'
      BY <1>1, <1>3, NamesStay DEF Inv, EntriesDefined
  <2> QED
      BY <1>1, <2>1 DEF EntriesDefined
<1>8. Declared'
    BY <1>1, <1>2 DEF Inv, Declared, Names
<1> QED
    BY <1>5, <1>6, <1>7, <1>8 DEF Inv

-----------------------------------------------------------------------------
(* The invariant is inductive.                                             *)

LEMMA InitInv == Init => Inv
<1> SUFFICES ASSUME Init PROVE Inv
    OBVIOUS
<1>1. /\ source \in Programs /\ module = {} /\ defined = {} /\ stack = <<>>
      /\ scopeFunctions = {} /\ status = "generating"
    BY DEF Init
<1>2. stack \in Seq(Frames({})) /\ Len(stack) = 0
    BY <1>1
<1> QED
    BY <1>1, <1>2 DEF Inv, Shape, Accounted, EntriesDefined, Declared

LEMMA NextInv == Inv /\ [Next]_vars => Inv'
<1> SUFFICES ASSUME Inv, [Next]_vars PROVE Inv'
    OBVIOUS
<1>1. ASSUME NEW f \in Functions, GenerateEntryFunction(f) PROVE Inv'
  <2>1. /\ module' = module \cup {Declaration(EntryName(f), f, BuilderArguments(f))} \cup {}
        /\ stack = <<>> /\ IsEntry(f) /\ status # "completed"
        /\ UNCHANGED <<source, defined, scopeFunctions, status>>
      BY <1>1 DEF GenerateEntryFunction
  <2>2. stack' = Append(stack, Frame(EntryName(f), f))
      BY <1>1 DEF GenerateEntryFunction
  <2>3. PICK name : name = EntryName(f)
      OBVIOUS
  <2>4. PICK n, more : n = BuilderArguments(f) /\ more = {}
      OBVIOUS
  <2>5. module' = module \cup {Declaration(name, f, n)} \cup more /\ stack' = Append(stack, Frame(name, f))
      BY <2>1, <2>2, <2>3, <2>4
  <2>6. \A r \in more : r.of \in Functions /\ source[r.of].kind = "runtime"
      BY <2>4
  <2>7. stack = <<>> => name = EntryName(f) /\ IsEntry(f)
      BY <2>1, <2>3
  <2> QED
      BY <2>1, <2>5, <2>6, <2>7, PushPreserves
<1>2. CASE Call
  <2>1. Allocating(Callee) \in BOOLEAN
      BY DEF Allocating
  <2>2. PICK b \in BOOLEAN : b = Allocating(Callee)
      BY <2>1
  <2> QED
      BY <1>2, <2>2, AdvancePreserves DEF Call
<1>3. CASE DeclareRuntimeFunction
    BY <1>3, DeclarePreserves
<1>4. CASE DefineFunction
  <2>1. Calling /\ status # "completed" /\ UNCHANGED <<source, defined, scopeFunctions, status>>
      BY <1>4 DEF DefineFunction, Creating, Calling, Due
  <2>2. PICK f \in Functions : f = Callee
      BY <2>1, CalleeProperties DEF Inv
  <2>3. stack # <<>>
      BY <2>1, CalleeProperties DEF Inv
  <2>4. PICK name, n : name = Target /\ n = DeclaredArguments(Callee, Passed)
      OBVIOUS
  <2>5. PICK more :
          /\ more \subseteq {Declaration(Mangle(ArrayConstructor, 1), ArrayConstructor, 2)}
          /\ module' = module \cup {Declaration(name, f, n)} \cup more
      BY <1>4, <2>2, <2>4 DEF DefineFunction
  <2>6. source \in Programs
      BY DEF Inv, Shape
  <2>7. \A r \in more : r.of = ArrayConstructor
      BY <2>5 DEF Declaration
  <2>8. \A r \in more : r.of \in Functions /\ source[r.of].kind = "runtime"
      BY <2>6, <2>7, ArrayConstructorAssumption
  <2>9. stack' = Append(stack, Frame(name, f))
      BY <1>4, <2>2, <2>4 DEF DefineFunction
  <2> QED
      BY <2>1, <2>3, <2>5, <2>8, <2>9, PushPreserves
<1>5. CASE DefineConstructor
  <2>1. Calling /\ status # "completed" /\ UNCHANGED <<source, defined, scopeFunctions, status>>
      BY <1>5 DEF DefineConstructor, Constructing, Calling, Due
  <2>2. PICK f \in Functions : f = Callee
      BY <2>1, CalleeProperties DEF Inv
  <2>3. stack # <<>>
      BY <2>1, CalleeProperties DEF Inv
  <2>4. PICK name, n, more : name = Target /\ n = BuilderArguments(Callee) /\ more = {}
      OBVIOUS
  <2>5. /\ module' = module \cup {Declaration(name, f, n)} \cup more
        /\ stack' = Append(stack, Frame(name, f))
      BY <1>5, <2>2, <2>4 DEF DefineConstructor
  <2>6. \A r \in more : r.of \in Functions /\ source[r.of].kind = "runtime"
      BY <2>4
  <2> QED
      BY <2>1, <2>3, <2>5, <2>6, PushPreserves
<1>6. CASE Reject
  <2>1. UNCHANGED <<source, module, defined, stack, scopeFunctions>> /\ status' = "failed"
      BY <1>6 DEF Reject
  <2> QED
      BY <2>1 DEF Inv, Shape, Accounted, EntriesDefined, Declared, Names, Entries, EntryName, IsEntry
<1>7. CASE LeaveFunction
    BY <1>7, LeaveFunctionPreserves
<1>8. CASE LeaveEntryFunction
    BY <1>8, LeaveEntryFunctionPreserves
<1>9. CASE CompleteSourceFile
  <2>1. /\ UNCHANGED <<source, module, defined, stack, scopeFunctions>>
        /\ stack = <<>> /\ scopeFunctions = Entries
      BY <1>9 DEF CompleteSourceFile
  <2> QED
      BY <2>1 DEF Inv, Shape, Accounted, EntriesDefined, Declared, Names, Entries, EntryName, IsEntry
<1>10. CASE UNCHANGED vars
    BY <1>10 DEF vars, Inv, Shape, Accounted, EntriesDefined, Declared, Names, Entries, EntryName, IsEntry
<1> QED
    BY <1>1, <1>2, <1>3, <1>4, <1>5, <1>6, <1>7, <1>8, <1>9, <1>10 DEF Next, Step, Ended

(* When generation completes a file, every entry function and every         *)
(* function that was declared on the way has a body, or the runtime has it:  *)
(* AllDefined of any file, with any functions that call each other.          *)
THEOREM FunctionsDefined == Spec => []AllDefined
<1>1. Inv => AllDefined
  <2> SUFFICES ASSUME Inv, status = "completed"
               PROVE  /\ \A f \in Entries : EntryName(f) \in defined
                      /\ \A r \in module : r.name \in defined \/ source[r.of].kind = "runtime"
      BY DEF AllDefined
  <2>1. stack = <<>> /\ scopeFunctions = Entries
      BY DEF Inv, EntriesDefined
  <2>2. 1..Len(stack) = {}
      BY <2>1
  <2> QED
      BY <2>1, <2>2 DEF Inv, EntriesDefined, Accounted
<1> QED
    BY <1>1, InitInv, NextInv, PTL DEF Spec

-----------------------------------------------------------------------------
(* Functions are defined once, in files where the names of the entry        *)
(* functions differ from each other and from the mangled names, and no      *)
(* function of the file is named like the constructor of arrays.            *)
NamesApart ==
    /\ \A f, g \in Entries : EntryName(f) = EntryName(g) => f = g
    /\ \A f \in Entries, g \in Functions, n \in Nat : EntryName(f) # Mangle(g, n)
    /\ \A g \in Functions, n \in Nat :
         source[g].kind # "runtime" => Mangle(g, n) # Mangle(ArrayConstructor, 1)

(* Names identify functions; what is under construction is not complete.    *)
Once ==
    /\ \A i, j \in 1..Len(stack) : stack[i].name = stack[j].name => i = j
    /\ \A i \in 1..Len(stack) : stack[i].name \notin defined
    /\ \A r, s \in module : r.name = s.name => r = s

(* An entry function has a name in the module when its turn has come.       *)
EntriesInTurn ==
    \A f \in Entries \ scopeFunctions :
        EntryName(f) \in Names => stack # <<>> /\ stack[1].of = f

OnceInv == Inv /\ (NamesApart => Once /\ EntriesInTurn)

LEMMA ApartStays ==
    ASSUME source' = source
    PROVE  NamesApart' = NamesApart
BY DEF NamesApart, Entries, IsEntry, EntryName, Mangle, RuntimeName, ConstructorName, SpeedyJSName,
       DefaultName, ObjectName, UsedParameters, Parameters

(* A function that is created has a mangled name.                           *)
LEMMA CreatedName ==
    ASSUME Inv, Calling, ~InModule(Target)
    PROVE  /\ Passed \in Nat
           /\ Target = Mangle(Callee, Passed)
           /\ Target \notin Names
<1>1. Target \notin Names
    BY DEF InModule, Names
<1>2. Callee \in Functions
    BY CalleeProperties DEF Inv
<1>3. Callee \notin scopeFunctions
  <2> SUFFICES ASSUME Callee \in scopeFunctions PROVE FALSE
      OBVIOUS
  <2>1. Target = EntryName(Callee)
      BY DEF Target
  <2> QED
      BY <1>1, <2>1 DEF Inv, EntriesDefined, Declared
<1>4. Passed \in Nat
  <2>1. stack # <<>> /\ Top.code # <<>> /\ Top.code \in Seq(Uses)
      BY CalleeProperties, TopProperties DEF Inv, Calling, Due
  <2>2. Head(Top.code) \in Uses
      BY <2>1, HeadTailProperties
  <2>3. Head(Top.code).op = "call" => Head(Top.code).args \in Nat
      BY <2>2, ProgramsAssumption
  <2>4. Len(Parameters(Callee)) \in Nat
      BY <1>2, ProgramsAssumption DEF Inv, Shape, Parameters
  <2> QED
      BY <2>3, <2>4 DEF Passed
<1> QED
    BY <1>1, <1>3, <1>4 DEF Target

(* A function starts under a name the module does not have.                 *)
LEMMA PushOnce ==
    ASSUME Inv, Once, NEW name, NEW f \in Functions, NEW n, NEW d, NEW more \in SUBSET {d},
           module' = module \cup {Declaration(name, f, n)} \cup more,
           stack' = Append(stack, Frame(name, f)),
           defined' = defined,
           name \notin Names, more # {} => d.name # name /\ d.name \notin Names
    PROVE  /\ Once'
           /\ Names' \subseteq Names \cup {name} \cup {r.name : r \in more}
           /\ Len(stack) \in Nat /\ Len(stack') = Len(stack) + 1
           /\ \A i \in 1..Len(stack) : stack'[i] = stack[i]
           /\ stack'[Len(stack) + 1].of = f
<1>1. PICK S : stack \in Seq(Frames(S))
    BY DEF Inv, Shape
<1>2. PICK x : x = Frame(name, f)
    OBVIOUS
<1>3. x.name = name /\ x.of = f
    BY <1>2 DEF Frame
<1>4. stack \in Seq(Frames(S) \cup {x})
    BY <1>1, Larger
<1>5. /\ Len(stack) \in Nat /\ Len(stack') = Len(stack) + 1
      /\ stack'[Len(stack) + 1] = x
      /\ \A i \in 1..Len(stack) : stack'[i] = stack[i]
    BY <1>2, <1>4, PushProperties
<1>6. PICK e : e = Declaration(name, f, n)
    OBVIOUS
<1>7. e.name = name /\ module' = module \cup {e} \cup more
    BY <1>6 DEF Declaration
<1>8. Names' \subseteq Names \cup {name} \cup {r.name : r \in more}
    BY <1>7 DEF Names
<1>9. \A i \in 1..Len(stack) : stack'[i].name \in Names /\ stack'[i].name \notin defined
    BY <1>5 DEF Inv, Declared, Once
<1>10. name \notin defined
    BY DEF Inv, Declared
<1>11. \A i, j \in 1..Len(stack') : stack'[i].name = stack'[j].name => i = j
  <2> SUFFICES ASSUME NEW i \in 1..Len(stack'), NEW j \in 1..Len(stack'), stack'[i].name = stack'[j].name
               PROVE  i = j
      OBVIOUS
  <2>1. CASE i \in 1..Len(stack) /\ j \in 1..Len(stack)
      BY <1>5, <2>1 DEF Once
  <2>2. CASE i = Len(stack) + 1 /\ j \in 1..Len(stack)
      BY <1>3, <1>5, <1>9, <2>2
  <2>3. CASE j = Len(stack) + 1 /\ i \in 1..Len(stack)
      BY <1>3, <1>5, <1>9, <2>3
  <2> QED
      BY <1>5, <2>1, <2>2, <2>3
<1>12. \A i \in 1..Len(stack') : stack'[i].name \notin defined'
    BY <1>3, <1>5, <1>9, <1>10
<1>13. \A r, s \in module' : r.name = s.name => r = s
  <2>1. \A r \in module : r.name \in Names
      BY DEF Names
  <2> QED
      BY <1>7, <2>1 DEF Once
<1> QED
    BY <1>3, <1>5, <1>8, <1>11, <1>12, <1>13 DEF Once

LEMMA OnceInit == Init => OnceInv
<1> SUFFICES ASSUME Init PROVE Once /\ EntriesInTurn
    BY InitInv DEF OnceInv
<1>1. module = {} /\ stack = <<>>
    BY DEF Init
<1>2. 1..Len(stack) = {} /\ Names = {}
    BY <1>1 DEF Names
<1> QED
    BY <1>1, <1>2 DEF Once, EntriesInTurn

LEMMA OnceNext == OnceInv /\ [Next]_vars => OnceInv'
<1> SUFFICES ASSUME Inv, NamesApart, Once, EntriesInTurn, [Next]_vars, Inv', source' = source
             PROVE  Once' /\ EntriesInTurn'
  <2>1. [Next]_vars => source' = source
      BY DEF Next, Step, Ended, vars, GenerateEntryFunction, Call, DeclareRuntimeFunction, DefineFunction,
         DefineConstructor, Reject, LeaveFunction, LeaveEntryFunction, CompleteSourceFile
  <2> QED
      BY <2>1, NextInv, ApartStays DEF OnceInv
<1>a. Entries' = Entries /\ \A f : EntryName(f)' = EntryName(f)
    BY NamesStay
<1>1. ASSUME NEW f \in Functions, GenerateEntryFunction(f) PROVE Once' /\ EntriesInTurn'
  <2>1. /\ module' = module \cup {Declaration(EntryName(f), f, BuilderArguments(f))}
        /\ stack' = Append(stack, Frame(EntryName(f), f))
        /\ stack = <<>> /\ f \in Entries \ scopeFunctions
        /\ defined' = defined /\ scopeFunctions' = scopeFunctions
      BY <1>1 DEF GenerateEntryFunction, Entries
  <2>2. PICK name, n, d : name = EntryName(f) /\ n = BuilderArguments(f) /\ d = name
      OBVIOUS
  <2>3. name \notin Names
      BY <2>1, <2>2 DEF EntriesInTurn
  <2>4. PICK more \in SUBSET {d} : more = {}
      OBVIOUS
  <2>5. /\ module' = module \cup {Declaration(name, f, n)} \cup more
        /\ stack' = Append(stack, Frame(name, f))
        /\ defined' = defined
      BY <2>1, <2>2, <2>4
  <2>6. /\ Once' /\ Names' \subseteq Names \cup {name} \cup {r.name : r \in more}
        /\ Len(stack) \in Nat /\ Len(stack') = Len(stack) + 1
        /\ stack'[Len(stack) + 1].of = f
      BY <2>3, <2>4, <2>5, PushOnce
  <2>7. Len(stack) = 0 /\ stack' # <<>> /\ stack'[1].of = f
      BY <2>1, <2>6
  <2>8. ASSUME NEW g \in Entries \ scopeFunctions, EntryName(g) \in Names' PROVE g = f
      BY <2>1, <2>2, <2>4, <2>6, <2>8 DEF EntriesInTurn, NamesApart
  <2> QED
      BY <1>a, <2>1, <2>6, <2>7, <2>8 DEF EntriesInTurn
<1>2. ASSUME NEW f \in Functions, NEW n, NEW d, NEW more \in SUBSET {d}, NEW arguments \in Nat,
             stack # <<>>, Mangle(f, arguments) \notin Names,
             module' = module \cup {Declaration(Mangle(f, arguments), f, n)} \cup more,
             stack' = Append(stack, Frame(Mangle(f, arguments), f)),
             defined' = defined, scopeFunctions' = scopeFunctions,
             source[f].kind # "runtime", d.name = Mangle(ArrayConstructor, 1),
             more # {} => d.name \notin Names
      PROVE  Once' /\ EntriesInTurn'
  <2>1. PICK name : name = Mangle(f, arguments)
      OBVIOUS
  <2>2. d.name # name
      BY <1>2, <2>1 DEF NamesApart
  <2>3. /\ name \notin Names
        /\ module' = module \cup {Declaration(name, f, n)} \cup more
        /\ stack' = Append(stack, Frame(name, f))
      BY <1>2, <2>1
  <2>4. /\ Once' /\ Names' \subseteq Names \cup {name} \cup {r.name : r \in more}
        /\ Len(stack) \in Nat /\ Len(stack') = Len(stack) + 1
        /\ \A i \in 1..Len(stack) : stack'[i] = stack[i]
      BY <1>2, <2>2, <2>3, PushOnce
  <2>5. Len(stack) > 0 /\ stack' # <<>> /\ stack'[1] = stack[1]
      BY <1>2, <2>4, TopProperties DEF Inv
  <2>6. \A g \in Entries : EntryName(g) # name /\ EntryName(g) # d.name
      BY <1>2, <2>1, ArrayConstructorAssumption DEF NamesApart
  <2>7. ASSUME NEW g \in Entries, EntryName(g) \in Names' PROVE EntryName(g) \in Names
      BY <1>2, <2>4, <2>6, <2>7
  <2>8. \A g \in Entries \ scopeFunctions : EntryName(g) \in Names' => stack' # <<>> /\ stack'[1].of = g
      BY <2>5, <2>7 DEF EntriesInTurn
  <2> QED
      BY <1>a, <1>2, <2>4, <2>8 DEF EntriesInTurn
<1>3. CASE Call
  <2>1. PICK S : stack \in Seq(Frames(S))
      BY DEF Inv, Shape
  <2>2. Len(stack) \in Nat /\ Len(stack) > 0 /\ stack # <<>>
      BY <1>3, CalleeProperties, TopProperties DEF Inv, Call
  <2>3. PICK m \in 1..Len(stack) : m = Len(stack)
      BY <2>2
  <2>4. PICK y : /\ y = [stack[m] EXCEPT !.code = Tail(@), !.requiresGc = @ \/ Allocating(Callee)]
                 /\ stack' = [stack EXCEPT ![m] = y]
      BY <1>3, <2>3 DEF Call, Advance
  <2>5. stack[m] \in Frames(S)
      BY <2>1, <2>3
  <2>6. y.name = stack[m].name /\ y.of = stack[m].of
      BY <2>4, <2>5 DEF Frames
  <2>7. stack \in Seq(Frames(S) \cup {y})
      BY <2>1, Larger
  <2>8. /\ Len(stack') = Len(stack)
        /\ \A i \in 1..Len(stack) : stack'[i] = IF i = m THEN y ELSE stack[i]
      BY <2>4, <2>7, ExceptSeq
  <2>9. \A i \in 1..Len(stack) : stack'[i].name = stack[i].name /\ stack'[i].of = stack[i].of
      BY <2>6, <2>8
  <2>10. stack' # <<>>
      BY <2>2, <2>8
  <2>11. UNCHANGED <<module, defined, scopeFunctions>>
      BY <1>3 DEF Call
  <2>12. Names' = Names
      BY <2>11 DEF Names
  <2>13. Once'
      BY <2>8, <2>9, <2>11 DEF Once
  <2> QED
      BY <1>a, <2>2, <2>9, <2>10, <2>11, <2>12, <2>13 DEF EntriesInTurn
<1>4. CASE DeclareRuntimeFunction
  <2>1. /\ Calling /\ ~InModule(Target) /\ UNCHANGED <<stack, defined, scopeFunctions>>
        /\ Callee \in Functions
      BY <1>4, CalleeProperties DEF Inv, DeclareRuntimeFunction
  <2>2. PICK r : r = Declaration(Target, Callee, DeclaredArguments(Callee, Passed))
      OBVIOUS
  <2>3. r.name = Target
      BY <2>2 DEF Declaration
  <2>4. module' = module \cup {r}
      BY <1>4, <2>2 DEF DeclareRuntimeFunction
  <2>5. Passed \in Nat /\ Target = Mangle(Callee, Passed) /\ Target \notin Names
      BY <2>1, CreatedName
  <2>6. Names' = Names \cup {Target}
      BY <2>3, <2>4 DEF Names
  <2>7. \A g \in Entries : EntryName(g) # Target
      BY <2>1, <2>5 DEF NamesApart
  <2>8. \A s \in module : s.name # Target
      BY <2>5 DEF Names
  <2>9. Once'
      BY <2>1, <2>3, <2>4, <2>8 DEF Once
  <2> QED
      BY <1>a, <2>1, <2>6, <2>7, <2>9 DEF EntriesInTurn
<1>5. CASE DefineFunction
  <2>1. /\ Calling /\ ~InModule(Target) /\ source[Callee].kind # "runtime"
        /\ defined' = defined /\ scopeFunctions' = scopeFunctions
        /\ Callee \in Functions /\ stack # <<>>
      BY <1>5, CalleeProperties DEF Inv, DefineFunction, Creating
  <2>2. Passed \in Nat /\ Target = Mangle(Callee, Passed) /\ Target \notin Names
      BY <2>1, CreatedName
  <2>3. PICK f, arguments, n, d :
          /\ f \in Functions /\ arguments \in Nat
          /\ f = Callee /\ arguments = Passed /\ n = DeclaredArguments(Callee, Passed)
          /\ d = Declaration(Mangle(ArrayConstructor, 1), ArrayConstructor, 2)
      BY <2>1, <2>2
  <2>4. d.name = Mangle(ArrayConstructor, 1)
      BY <2>3 DEF Declaration
  <2>5. PICK more \in SUBSET {d} :
          /\ module' = module \cup {Declaration(Target, f, n)} \cup more
          /\ more # {} => ~InModule(Mangle(ArrayConstructor, 1))
      BY <1>5, <2>3 DEF DefineFunction
  <2>6. more # {} => d.name \notin Names
      BY <2>4, <2>5 DEF InModule, Names
  <2>7. stack' = Append(stack, Frame(Target, f))
      BY <1>5, <2>3 DEF DefineFunction
  <2>8. Target = Mangle(f, arguments)
      BY <2>2, <2>3
  <2>9. Mangle(f, arguments) \notin Names /\ source[f].kind # "runtime"
      BY <2>1, <2>2, <2>3
  <2>10. /\ module' = module \cup {Declaration(Mangle(f, arguments), f, n)} \cup more
         /\ stack' = Append(stack, Frame(Mangle(f, arguments), f))
      BY <2>5, <2>7, <2>8
  <2>11. f \in Functions /\ arguments \in Nat
      BY <2>3
  <2> QED
      BY <1>2, <2>1, <2>4, <2>6, <2>9, <2>10, <2>11
<1>6. CASE DefineConstructor
  <2>1. /\ Calling /\ ~InModule(Target) /\ source[Callee].kind # "runtime"
        /\ defined' = defined /\ scopeFunctions' = scopeFunctions
        /\ Callee \in Functions /\ stack # <<>>
      BY <1>6, CalleeProperties DEF Inv, DefineConstructor, Constructing
  <2>2. Passed \in Nat /\ Target = Mangle(Callee, Passed) /\ Target \notin Names
      BY <2>1, CreatedName
  <2>3. PICK f, arguments, n, d, more :
          /\ f \in Functions /\ arguments \in Nat
          /\ f = Callee /\ arguments = Passed /\ n = BuilderArguments(Callee) /\ more = {}
          /\ d = Declaration(Mangle(ArrayConstructor, 1), ArrayConstructor, 2)
      BY <2>1, <2>2
  <2>4. d.name = Mangle(ArrayConstructor, 1)
      BY <2>3 DEF Declaration
  <2>5. Mangle(f, arguments) \notin Names /\ source[f].kind # "runtime" /\ Target = Mangle(f, arguments)
      BY <2>1, <2>2, <2>3
  <2>6. /\ module' = module \cup {Declaration(Target, f, n)} \cup more
        /\ stack' = Append(stack, Frame(Target, f))
      BY <1>6, <2>3 DEF DefineConstructor
  <2>7. /\ module' = module \cup {Declaration(Mangle(f, arguments), f, n)} \cup more
        /\ stack' = Append(stack, Frame(Mangle(f, arguments), f))
      BY <2>5, <2>6
  <2>8. f \in Functions /\ arguments \in Nat /\ more \in SUBSET {d} /\ (more # {} => d.name \notin Names)
      BY <2>3
  <2> QED
      BY <1>2, <2>1, <2>4, <2>5, <2>7, <2>8
<1>7. CASE LeaveFunction
  <2>1. /\ UNCHANGED <<module, scopeFunctions>>
        /\ stack # <<>> /\ Len(stack) > 1
        /\ defined' = defined \cup {Top.name} /\ stack' = Front(stack)
      BY <1>7 DEF LeaveFunction, Complete
  <2>2. PICK S : stack \in Seq(Frames(S))
      BY DEF Inv, Shape
  <2>3. PICK s \in Seq(Frames(S)) : s = stack
      BY <2>2
  <2>4. /\ Len(stack) \in Nat /\ Len(stack') = Len(stack) - 1
        /\ \A i \in 1..(Len(stack) - 1) : stack'[i] = stack[i]
      BY <2>1, <2>3, FrontProperties
  <2>5. Top = stack[Len(stack)]
      BY DEF Top
  <2>6. \A i, j \in 1..Len(stack') : stack'[i].name = stack'[j].name => i = j
      BY <2>4 DEF Once
  <2>7. \A i \in 1..Len(stack') : stack'[i].name \notin defined'
    <3> SUFFICES ASSUME NEW i \in 1..Len(stack') PROVE stack'[i].name \notin defined'
        OBVIOUS
    <3>1. i \in 1..Len(stack) /\ Len(stack) \in 1..Len(stack) /\ i # Len(stack) /\ stack'[i] = stack[i]
        BY <2>1, <2>4
    <3> QED
        BY <2>1, <2>5, <3>1 DEF Once
  <2>8. Once'
      BY <2>1, <2>6, <2>7 DEF Once
  <2>9. Names' = Names
      BY <2>1 DEF Names
  <2>10. stack' # <<>> /\ stack'[1] = stack[1]
      BY <2>1, <2>4
  <2> QED
      BY <1>a, <2>1, <2>8, <2>9, <2>10 DEF EntriesInTurn
<1>8. CASE LeaveEntryFunction
  <2>1. /\ UNCHANGED module
        /\ stack # <<>> /\ Len(stack) = 1 /\ stack' = <<>>
        /\ scopeFunctions' = scopeFunctions \cup {Top.of}
      BY <1>8 DEF LeaveEntryFunction, Complete
  <2>2. 1..Len(stack') = {} /\ Top = stack[1]
      BY <2>1 DEF Top
  <2>3. Once'
      BY <2>1, <2>2 DEF Once
  <2>4. Names' = Names
      BY <2>1 DEF Names
  <2> QED
      BY <1>a, <2>1, <2>2, <2>3, <2>4 DEF EntriesInTurn
<1>9. CASE Reject \/ CompleteSourceFile \/ UNCHANGED vars
  <2>1. UNCHANGED <<module, defined, stack, scopeFunctions>>
      BY <1>9 DEF Reject, CompleteSourceFile, vars
  <2> QED
      BY <1>a, <2>1 DEF Once, EntriesInTurn, Names
<1> QED
    BY <1>1, <1>3, <1>4, <1>5, <1>6, <1>7, <1>8, <1>9 DEF Next, Step, Ended

-----------------------------------------------------------------------------
(* Induction without an operator parameter: a set of numbers has a least    *)
(* one.                                                                     *)
LEMMA LeastNatural ==
    ASSUME NEW T \in SUBSET Nat, T # {}
    PROVE  \E x \in T : \A y \in T : x <= y
<1> DEFINE F == {1..n : n \in T}
           R == StrictSubsetOrdering(Nat)
<1>1. IsWellFoundedOn(R, FiniteSubsetsOf(Nat))
    BY FS_StrictSubsetOrderingWellFounded
<1>2. F \subseteq FiniteSubsetsOf(Nat) /\ F # {}
  <2>1. \A n \in T : IsFiniteSet(1..n)
      BY FS_Interval
  <2>2. \A n \in T : 1..n \in SUBSET Nat
      OBVIOUS
  <2> QED
      BY <2>1, <2>2 DEF FiniteSubsetsOf
<1>3. PICK I \in F : \A J \in F : <<J, I>> \notin R
  <2> HIDE DEF F, R
  <2> QED
      BY <1>1, <1>2, WFMin
<1>4. PICK x \in T : I = 1..x
    BY <1>3
<1>5. SUFFICES ASSUME NEW y \in T, y < x PROVE FALSE
    OBVIOUS
<1>6. 1..y \subseteq 1..x /\ 1..y # 1..x
  <2>1. x \in 1..x /\ x \notin 1..y
      BY <1>5
  <2> QED
      BY <1>5, <2>1
<1>7. <<1..y, 1..x>> \in R
    BY <1>6 DEF StrictSubsetOrdering
<1>8. 1..y \in F
    OBVIOUS
<1> HIDE DEF F, R
<1> QED
    BY <1>3, <1>4, <1>7, <1>8

(* The recursive function FlattenSeq chooses, which has a value for every   *)
(* input.                                                                   *)
IsFlat(seqs, n, g) == g = [i \in 1..n |-> IF i = 1 THEN seqs[i] ELSE g[i-1] \o seqs[i]]

LEMMA FlatExists ==
    ASSUME NEW seqs, NEW n \in Nat
    PROVE  \E g : IsFlat(seqs, n, g)
<1> DEFINE T == {m \in Nat : ~ \E g : IsFlat(seqs, m, g)}
<1> SUFFICES T = {}
    OBVIOUS
<1> SUFFICES ASSUME T # {} PROVE FALSE
    OBVIOUS
<1>1. PICK m \in T : \A k \in T : m <= k
  <2>1. T \in SUBSET Nat
      OBVIOUS
  <2> HIDE DEF T
  <2> QED
      BY <2>1, LeastNatural
<1>2. CASE m = 0
  <2>1. IsFlat(seqs, 0, <<>>)
      BY DEF IsFlat
  <2> QED
      BY <1>2, <2>1
<1>3. CASE m > 0
  <2>1. m - 1 \in Nat /\ m - 1 \notin T
      BY <1>1, <1>3
  <2>2. PICK g : IsFlat(seqs, m - 1, g)
      BY <2>1
  <2> DEFINE h == [i \in 1..m |-> IF i = m THEN (IF m = 1 THEN seqs[m] ELSE g[m - 1] \o seqs[m]) ELSE g[i]]
  <2>3. \A i \in 1..m : h[i] = IF i = 1 THEN seqs[i] ELSE h[i-1] \o seqs[i]
    <3> SUFFICES ASSUME NEW i \in 1..m PROVE h[i] = IF i = 1 THEN seqs[i] ELSE h[i-1] \o seqs[i]
        OBVIOUS
    <3>1. \A j \in 1..(m-1) : h[j] = g[j]
        OBVIOUS
    <3>2. CASE i = m
        BY <1>3, <3>1, <3>2
    <3>3. CASE i # m
      <4>1. i \in 1..(m-1)
          BY <3>3
      <4>2. g[i] = IF i = 1 THEN seqs[i] ELSE g[i-1] \o seqs[i]
          BY <2>2, <4>1 DEF IsFlat
      <4>3. i # 1 => i - 1 \in 1..(m-1)
          BY <4>1
      <4> HIDE DEF h
      <4> QED
          BY <3>1, <4>1, <4>2, <4>3
    <3> QED
        BY <3>2, <3>3
  <2>4. IsFlat(seqs, m, h)
      BY <2>3 DEF IsFlat
  <2> QED
      BY <2>4
<1> QED
    BY <1>2, <1>3

(* What FlattenSeq is, and that it is a sequence.                           *)
LEMMA Flattened ==
    ASSUME NEW seqs, NEW n \in Nat, Len(seqs) = n, n > 0
    PROVE  \E g : IsFlat(seqs, n, g) /\ FlattenSeq(seqs) = g[n]
<1>1. PICK g : g = CHOOSE f : IsFlat(seqs, n, f)
    OBVIOUS
<1>2. IsFlat(seqs, n, g)
    BY <1>1, FlatExists
<1>3. FlattenSeq(seqs) = g[n]
    BY <1>1 DEF FlattenSeq, IsFlat
<1> QED
    BY <1>2, <1>3

LEMMA FlattenSeqType ==
    ASSUME NEW S, NEW n \in Nat, NEW seqs \in [1..n -> Seq(S)]
    PROVE  FlattenSeq(seqs) \in Seq(S)
<1>1. Len(seqs) = n
    OBVIOUS
<1>2. CASE n = 0
    BY <1>2 DEF FlattenSeq
<1>3. CASE n > 0
  <2>1. PICK g : IsFlat(seqs, n, g) /\ FlattenSeq(seqs) = g[n]
      BY <1>1, <1>3, Flattened
  <2> DEFINE T == {i \in 1..n : g[i] \notin Seq(S)}
  <2> SUFFICES T = {}
      BY <1>3, <2>1
  <2> SUFFICES ASSUME T # {} PROVE FALSE
      OBVIOUS
  <2>2. PICK i \in T : \A j \in T : i <= j
    <3>1. T \in SUBSET Nat
        OBVIOUS
    <3> HIDE DEF T
    <3> QED
        BY <3>1, LeastNatural
  <2>3. i \in 1..n /\ g[i] \notin Seq(S) /\ g[i] = IF i = 1 THEN seqs[i] ELSE g[i-1] \o seqs[i]
      BY <2>1, <2>2 DEF IsFlat
  <2>4. i # 1 => i - 1 \in 1..n /\ g[i-1] \in Seq(S)
      BY <2>2
  <2>5. i # 1 => g[i - 1] \o seqs[i] \in Seq(S)
      BY <2>3, <2>4, ConcatProperties
  <2> QED
      BY <2>3, <2>5
<1> QED
    BY <1>2, <1>3

-----------------------------------------------------------------------------
(* The parameters of a function; those that are used end before the first   *)
(* optional one that is not set.                                            *)
Modes == {"required", "initialized", "optional", "variadic"}

LEMMA UsedPrefix ==
    ASSUME source \in Programs, NEW f \in Functions, NEW n \in Nat
    PROVE  \E k \in 0..Len(Parameters(f)) :
             /\ Parameters(f) \in Seq(Modes)
             /\ UsedParameters(f, n) \in Seq(Modes)
             /\ Len(UsedParameters(f, n)) = k
             /\ \A i \in 1..k : /\ UsedParameters(f, n)[i] = Parameters(f)[i]
                                /\ ~(Parameters(f)[i] = "optional" /\ n < i)
             /\ k < Len(Parameters(f)) => Parameters(f)[k + 1] = "optional" /\ n < k + 1
<1>1. Parameters(f) \in Seq(Modes)
    BY ProgramsAssumption DEF Parameters, Modes
<1>2. PICK p \in Seq(Modes) : p = Parameters(f)
    BY <1>1
<1>3. PICK unset : unset = {i \in DOMAIN p : p[i] = "optional" /\ n < i}
    OBVIOUS
<1>4. UsedParameters(f, n) = IF unset = {} THEN p
                             ELSE SubSeq(p, 1, (CHOOSE i \in unset : \A j \in unset : i <= j) - 1)
    BY <1>2, <1>3 DEF UsedParameters
<1>5. Len(p) \in Nat /\ DOMAIN p = 1..Len(p)
    OBVIOUS
<1>6. CASE unset = {}
  <2>1. UsedParameters(f, n) = p
      BY <1>4, <1>6
  <2>2. \A i \in 1..Len(p) : ~(p[i] = "optional" /\ n < i)
      BY <1>3, <1>5, <1>6
  <2>3. PICK k \in Nat : k = Len(p)
      BY <1>5
  <2>4. /\ k \in 0..Len(p) /\ Len(p) = k /\ ~(k < Len(p))
        /\ \A i \in 1..k : p[i] = p[i] /\ ~(p[i] = "optional" /\ n < i)
      BY <2>2, <2>3
  <2> QED
      BY <1>2, <2>1, <2>4
<1>7. CASE unset # {}
  <2>1. unset \in SUBSET Nat
      BY <1>3, <1>5
  <2>2. \E i \in unset : \A j \in unset : i <= j
      BY <1>7, <2>1, LeastNatural
  <2>3. PICK m : m = CHOOSE i \in unset : \A j \in unset : i <= j
      OBVIOUS
  <2>4. m \in unset /\ \A j \in unset : m <= j
      BY <2>2, <2>3
  <2>5. m \in 1..Len(p) /\ p[m] = "optional" /\ n < m
      BY <1>3, <1>5, <2>4
  <2>6. PICK k \in Nat : k = m - 1
      BY <2>5
  <2>7. UsedParameters(f, n) = SubSeq(p, 1, k)
      BY <1>4, <1>7, <2>3, <2>6
  <2>8. k \in 0..Len(p) /\ \A i \in 1..k : i \in 1..Len(p) /\ i # m /\ ~(m <= i)
    <3>1. m \in Nat /\ m >= 1 /\ m <= Len(p) /\ Len(p) \in Nat /\ k = m - 1
        BY <1>5, <2>5, <2>6
    <3> QED
        BY <3>1
  <2>9. \A i \in 1..k : p[i] \in Modes
      BY <2>8
  <2>10. /\ SubSeq(p, 1, k) \in Seq(Modes)
         /\ Len(SubSeq(p, 1, k)) = IF 1 <= k THEN k - 1 + 1 ELSE 0
         /\ \A i \in 1..(k - 1 + 1) : SubSeq(p, 1, k)[i] = p[1 + i - 1]
      BY <2>9, SubSeqProperties
  <2>11. Len(SubSeq(p, 1, k)) = k /\ \A i \in 1..k : SubSeq(p, 1, k)[i] = p[i]
      BY <2>10
  <2>12. \A i \in 1..k : i \notin unset
      BY <2>4, <2>8
  <2>13. \A i \in 1..k : ~(p[i] = "optional" /\ n < i)
      BY <1>3, <1>5, <2>8, <2>12
  <2>14. k + 1 = m
      BY <2>5, <2>6
  <2> QED
      BY <1>2, <2>5, <2>7, <2>8, <2>10, <2>11, <2>13, <2>14
<1> QED
    BY <1>6, <1>7

(* Sequences of one and two, prefixes and concatenations.                   *)
LEMMA ShortSequences == \A S : \A x, y \in S : <<x>> \in Seq(S) /\ <<x, y>> \in Seq(S)
<1> SUFFICES ASSUME NEW S, NEW x \in S, NEW y \in S PROVE <<x>> \in Seq(S) /\ <<x, y>> \in Seq(S)
    OBVIOUS
<1>1. <<x>> \in [1..1 -> S] /\ <<x, y>> \in [1..2 -> S]
    OBVIOUS
<1> QED
    BY <1>1, SeqDef

LEMMA PrefixType ==
    ASSUME source \in Programs, NEW f \in Functions
    PROVE  ModulePrefix(source[f].path) \in Seq(ToSet(source[f].path) \cup {"_"})
<1>1. PICK path : path = source[f].path
    OBVIOUS
<1>2. path \in Seq(ToSet(path))
    BY <1>1, SymbolsAssumption
<1> DEFINE S == ToSet(path) \cup {"_"}
           seqs == [i \in DOMAIN path |-> CASE path[i] = "_" -> <<"_", "_">>
                                            [] path[i] = "-" -> <<"_">>
                                            [] OTHER -> <<path[i]>>]
<1>3. PICK n \in Nat : n = Len(path) /\ DOMAIN path = 1..n
    BY <1>2
<1>4. \A i \in 1..n : seqs[i] \in Seq(S)
  <2> SUFFICES ASSUME NEW i \in 1..n PROVE seqs[i] \in Seq(S)
      OBVIOUS
  <2>1. path[i] \in S
    <3>1. PICK T : T = ToSet(path)
        OBVIOUS
    <3>2. path \in Seq(T) /\ i \in 1..Len(path)
        BY <1>2, <1>3, <3>1
    <3>3. path[i] \in T
        BY <3>2, ElementOfSeq
    <3> QED
        BY <3>1, <3>3
  <2>2. "_" \in S
      OBVIOUS
  <2>3. seqs[i] = CASE path[i] = "_" -> <<"_", "_">>
                    [] path[i] = "-" -> <<"_">>
                    [] OTHER -> <<path[i]>>
      BY <1>3
  <2> HIDE DEF S, seqs
  <2>4. <<"_", "_">> \in Seq(S) /\ <<"_">> \in Seq(S) /\ <<path[i]>> \in Seq(S)
      BY <2>1, <2>2, ShortSequences
  <2> QED
      BY <2>3, <2>4
<1>5. seqs \in [1..n -> Seq(S)]
    BY <1>3, <1>4
<1>6. FlattenSeq(seqs) \in Seq(S)
  <2> HIDE DEF seqs, S
  <2> QED
      BY <1>5, FlattenSeqType
<1>7. FlattenSeq(seqs) = ModulePrefix(path)
    BY DEF ModulePrefix
<1> QED
    BY <1>1, <1>6, <1>7

LEMMA ConcatParts ==
    ASSUME NEW U, NEW s \in Seq(U), NEW r \in Seq(U), NEW n, n = s \o r
    PROVE  /\ n \in Seq(U)
           /\ Len(s) \in Nat /\ Len(r) \in Nat /\ Len(n) = Len(s) + Len(r)
           /\ \A i \in 1..Len(s) : n[i] = s[i]
           /\ \A i \in 1..Len(r) : n[Len(s) + i] = r[i]
<1>1. /\ s \o r \in Seq(U) /\ Len(s \o r) = Len(s) + Len(r) /\ Len(s) \in Nat /\ Len(r) \in Nat
      /\ \A i \in 1..(Len(s) + Len(r)) : (s \o r)[i] = IF i <= Len(s) THEN s[i] ELSE r[i - Len(s)]
    BY ConcatProperties
<1> QED
    BY <1>1

(* The parts of a mangled name.  A name of the default mangler has its      *)
(* first separator behind the file.                                         *)
NameOf(f) == IF source[f].kind = "constructor" THEN "constructor" ELSE source[f].name

NameParts(N, prefix, class, name, k) ==
    /\ Len(prefix) \in Nat
    /\ \E S : prefix \in Seq(S) /\ "$" \notin S
    /\ \A i \in 1..Len(prefix) : N[i] = prefix[i]
    /\ N[Len(prefix) + 1] = "$"
    /\ class = "" => N[Len(prefix) + 2] = "length" /\ N[Len(prefix) + 3] = name /\ Len(N) = Len(prefix) + 3 + k
    /\ class # "" => N[Len(prefix) + 2] = class /\ N[Len(prefix) + 5] = name /\ Len(N) = Len(prefix) + 5 + k

LEMMA DefaultNameParts ==
    ASSUME source \in Programs, NEW f \in Functions, NEW name, NEW T, NEW q \in Seq(T)
    PROVE  NameParts(DefaultName(f, name, q), ModulePrefix(source[f].path), source[f].class, name, Len(q))
<1>0. PICK prefix : prefix = ModulePrefix(source[f].path)
    OBVIOUS
<1>1. PICK S : S = ToSet(source[f].path) \cup {"_"}
    OBVIOUS
<1>2. prefix \in Seq(S) /\ "$" \notin S
    BY <1>0, <1>1, PrefixType, SymbolsAssumption
<1>3. PICK class : class = source[f].class
    OBVIOUS
<1> DEFINE U == S \cup {"$", "length", name, class, "P", "d"}
<1>4. PICK o, codes : o = ObjectName(f) /\ codes = TypeCodes(q)
    OBVIOUS
<1>5. o = IF class = "" THEN <<>> ELSE <<class, "$">>
    BY <1>3, <1>4 DEF ObjectName
<1>6. codes \in Seq(U) /\ Len(codes) = Len(q)
  <2>1. PICK k \in Nat : k = Len(q) /\ DOMAIN q = 1..k
      OBVIOUS
  <2>2. codes \in [1..k -> U]
      BY <1>4, <2>1 DEF TypeCodes
  <2> HIDE DEF U
  <2> QED
      BY <2>1, <2>2, SeqDef
<1>7. /\ <<"$">> \in Seq(U) /\ <<"length", name>> \in Seq(U) /\ <<class, "$">> \in Seq(U) /\ <<>> \in Seq(U)
      /\ prefix \in Seq(U)
  <2>1. "$" \in U /\ "length" \in U /\ name \in U /\ class \in U /\ S \subseteq U
      OBVIOUS
  <2> HIDE DEF U
  <2>2. prefix \in Seq(U)
      BY <1>2, <2>1, Larger
  <2> QED
      BY <2>1, <2>2, ShortSequences, EmptySeq
<1> HIDE DEF U
<1>8. o \in Seq(U) /\ Len(o) = (IF class = "" THEN 0 ELSE 2)
    BY <1>5, <1>7
<1>9. PICK a \in Nat, t \in Nat : a = Len(prefix) /\ t = Len(q)
    BY <1>2
<1>10. PICK s, n1 : s = <<"$">> /\ n1 = prefix \o s
    OBVIOUS
<1>11. s \in Seq(U) /\ Len(s) = 1 /\ s[1] = "$" /\ prefix \in Seq(U)
    BY <1>7, <1>10
<1>12. PICK n2 : n2 = n1 \o o
    OBVIOUS
<1>13. PICK n3, w : w = <<"length", name>> /\ n3 = n2 \o w
    OBVIOUS
<1>14. w \in Seq(U) /\ Len(w) = 2 /\ w[1] = "length" /\ w[2] = name
    BY <1>7, <1>13
<1>15. PICK n4 : n4 = n3 \o codes
    OBVIOUS
<1>16. /\ n1 \in Seq(U) /\ Len(n1) = a + 1
       /\ \A i \in 1..a : n1[i] = prefix[i]
       /\ n1[a + 1] = s[1]
    BY <1>9, <1>10, <1>11, ConcatParts
<1>17. PICK b \in Nat : b = Len(o)
  <2>1. o \in Seq(U)
      BY <1>8
  <2> QED
      BY <2>1
<1>18. /\ n2 \in Seq(U) /\ Len(n2) = a + 1 + b
       /\ \A i \in 1..(a + 1) : n2[i] = n1[i]
       /\ \A i \in 1..b : n2[a + 1 + i] = o[i]
  <2>1. o \in Seq(U)
      BY <1>8
  <2>2. Len(n1) = a + 1
      BY <1>16
  <2>4. n1 \in Seq(U)
      BY <1>16
  <2>3. /\ n2 \in Seq(U) /\ Len(n2) = Len(n1) + Len(o)
        /\ \A i \in 1..Len(n1) : n2[i] = n1[i]
        /\ \A i \in 1..Len(o) : n2[Len(n1) + i] = o[i]
      BY <1>12, <2>1, <2>4, ConcatParts
  <2> QED
      BY <1>17, <2>2, <2>3
<1>19. /\ n3 \in Seq(U) /\ Len(n3) = a + 1 + b + 2
       /\ \A i \in 1..(a + 1 + b) : n3[i] = n2[i]
       /\ \A i \in 1..2 : n3[a + 1 + b + i] = w[i]
  <2>1. w \in Seq(U) /\ Len(w) = 2
      BY <1>14
  <2> QED
      BY <1>13, <1>18, <2>1, ConcatParts
<1>20. /\ Len(n4) = a + 1 + b + 2 + t
       /\ \A i \in 1..(a + 1 + b + 2) : n4[i] = n3[i]
  <2>1. Len(codes) = t
      BY <1>6, <1>9
  <2>2. Len(n3) = a + 1 + b + 2
      BY <1>19
  <2>4. n3 \in Seq(U)
      BY <1>19
  <2>5. codes \in Seq(U)
      BY <1>6
  <2>3. /\ Len(n4) = Len(n3) + Len(codes)
        /\ \A i \in 1..Len(n3) : n4[i] = n3[i]
      BY <1>15, <2>4, <2>5, ConcatParts
  <2> QED
      BY <2>1, <2>2, <2>3
<1>21. n4 = DefaultName(f, name, q)
    BY <1>0, <1>4, <1>10, <1>12, <1>13, <1>15 DEF DefaultName
<1>22. (\A i \in 1..a : n4[i] = prefix[i]) /\ n4[a + 1] = s[1]
  <2>1. \A i \in 1..(a + 1) : n4[i] = n3[i]
      BY <1>20
  <2>2. \A i \in 1..(a + 1) : n3[i] = n2[i]
      BY <1>19
  <2>3. \A i \in 1..(a + 1) : n4[i] = n1[i]
      BY <1>18, <2>1, <2>2
  <2> QED
      BY <1>16, <2>3
<1>23. b = 0 => n4[a + 2] = w[1] /\ n4[a + 3] = w[2] /\ Len(n4) = a + 3 + t
  <2> SUFFICES ASSUME b = 0 PROVE n4[a + 2] = w[1] /\ n4[a + 3] = w[2] /\ Len(n4) = a + 3 + t
      OBVIOUS
  <2>1. n4[a + 1 + b + 1] = n3[a + 1 + b + 1] /\ n4[a + 1 + b + 2] = n3[a + 1 + b + 2]
      BY <1>20
  <2>2. n3[a + 1 + b + 1] = w[1] /\ n3[a + 1 + b + 2] = w[2]
      BY <1>19
  <2> QED
      BY <1>20, <2>1, <2>2
<1>24. b = 2 => n4[a + 2] = o[1] /\ n4[a + 5] = w[2] /\ Len(n4) = a + 5 + t
  <2> SUFFICES ASSUME b = 2 PROVE n4[a + 2] = o[1] /\ n4[a + 5] = w[2] /\ Len(n4) = a + 5 + t
      OBVIOUS
  <2>1. n4[a + 1 + b + 2] = n3[a + 1 + b + 2] /\ n4[a + 1 + 1] = n3[a + 1 + 1]
      BY <1>20
  <2>2. n3[a + 1 + b + 2] = w[2]
      BY <1>19
  <2>3. n3[a + 1 + 1] = n2[a + 1 + 1]
      BY <1>19
  <2>4. n2[a + 1 + 1] = o[1]
      BY <1>18
  <2> QED
      BY <1>20, <2>1, <2>2, <2>3, <2>4
<1>25. class = "" => b = 0
    BY <1>5, <1>17
<1>26. class # "" => b = 2 /\ o[1] = class
    BY <1>5, <1>17
<1> QED
  <2>1. NameParts(n4, prefix, class, name, t)
      BY <1>2, <1>9, <1>11, <1>14, <1>22, <1>23, <1>24, <1>25, <1>26 DEF NameParts
  <2> QED
      BY <1>0, <1>3, <1>9, <1>21, <2>1

-----------------------------------------------------------------------------
(* Names of the default mangler are alike only if everything is.            *)
LEMMA DefaultNameInjective ==
    ASSUME source \in Programs, NEW f \in Functions, NEW g \in Functions, NEW name, NEW other,
           NEW T, NEW q \in Seq(T), NEW r \in Seq(T),
           DefaultName(f, name, q) = DefaultName(g, other, r)
    PROVE  /\ ModulePrefix(source[f].path) = ModulePrefix(source[g].path)
           /\ source[f].class = source[g].class
           /\ name = other
           /\ Len(q) = Len(r)
<1>1. PICK N : N = DefaultName(f, name, q) /\ N = DefaultName(g, other, r)
    OBVIOUS
<1>2. PICK p1, p2, c1, c2 :
        /\ p1 = ModulePrefix(source[f].path) /\ p2 = ModulePrefix(source[g].path)
        /\ c1 = source[f].class /\ c2 = source[g].class
    OBVIOUS
<1>3. NameParts(N, p1, c1, name, Len(q))
    BY <1>1, <1>2, DefaultNameParts
<1>4. NameParts(N, p2, c2, other, Len(r))
    BY <1>1, <1>2, DefaultNameParts
<1>5. PICK a \in Nat, b \in Nat : a = Len(p1) /\ b = Len(p2)
    BY <1>3, <1>4 DEF NameParts
<1>6. \A i \in 1..a : N[i] # "$"
  <2>1. PICK S : p1 \in Seq(S) /\ "$" \notin S
      BY <1>3 DEF NameParts
  <2>2. \A i \in 1..a : p1[i] \in S
      BY <1>5, <2>1
  <2> QED
      BY <1>3, <1>5, <2>1, <2>2 DEF NameParts
<1>7. \A i \in 1..b : N[i] # "$"
  <2>1. PICK S : p2 \in Seq(S) /\ "$" \notin S
      BY <1>4 DEF NameParts
  <2>2. \A i \in 1..b : p2[i] \in S
      BY <1>5, <2>1
  <2> QED
      BY <1>4, <1>5, <2>1, <2>2 DEF NameParts
<1>8. a + 1 \notin 1..b /\ b + 1 \notin 1..a
    BY <1>3, <1>4, <1>5, <1>6, <1>7 DEF NameParts
<1>9. a = b
    BY <1>8
<1>10. p1 = p2
  <2>1. PICK S, R : p1 \in Seq(S) /\ p2 \in Seq(R)
      BY <1>3, <1>4 DEF NameParts
  <2>2. p1 \in Seq(S \cup R) /\ p2 \in Seq(S \cup R)
      BY <2>1, Larger
  <2>3. Len(p1) = Len(p2)
      BY <1>5, <1>9
  <2>4. \A i \in 1..Len(p1) : p1[i] = p2[i]
      BY <1>3, <1>4, <2>3 DEF NameParts
  <2> QED
      BY <2>2, <2>3, <2>4, SeqEqual
<1>11. c1 # "length" /\ c2 # "length"
    BY <1>2, SymbolsAssumption
<1>12. c1 = c2
  <2>1. CASE c1 = "" /\ c2 # ""
    <3>1. N[Len(p1) + 2] = "length" /\ N[Len(p1) + 2] = c2
        BY <1>3, <1>4, <1>10, <2>1 DEF NameParts
    <3> QED
        BY <1>11, <3>1
  <2>2. CASE c1 # "" /\ c2 = ""
    <3>1. N[Len(p1) + 2] = "length" /\ N[Len(p1) + 2] = c1
        BY <1>3, <1>4, <1>10, <2>2 DEF NameParts
    <3> QED
        BY <1>11, <3>1
  <2>3. CASE c1 # "" /\ c2 # ""
      BY <1>3, <1>4, <1>10, <2>3 DEF NameParts
  <2> QED
      BY <2>1, <2>2, <2>3
<1>13. name = other
    BY <1>3, <1>4, <1>10, <1>12 DEF NameParts
<1>14. Len(q) = Len(r)
  <2>1. PICK k \in Nat, l \in Nat : k = Len(q) /\ l = Len(r)
      OBVIOUS
  <2>2. Len(p2) = a
      BY <1>5, <1>9
  <2>3. CASE c1 = ""
    <3>1. Len(N) = a + 3 + k
        BY <1>3, <1>5, <2>1, <2>3 DEF NameParts
    <3>2. Len(N) = a + 3 + l
        BY <1>4, <1>12, <2>1, <2>2, <2>3 DEF NameParts
    <3> QED
        BY <2>1, <3>1, <3>2
  <2>4. CASE c1 # ""
    <3>1. Len(N) = a + 5 + k
        BY <1>3, <1>5, <2>1, <2>4 DEF NameParts
    <3>2. Len(N) = a + 5 + l
        BY <1>4, <1>12, <2>1, <2>2, <2>4 DEF NameParts
    <3> QED
        BY <2>1, <3>1, <3>2
  <2> QED
      BY <2>3, <2>4
<1> QED
    BY <1>2, <1>10, <1>12, <1>13, <1>14

(* The names of the runtime have no separator of the default mangler.       *)
LEMMA RuntimeNameParts ==
    ASSUME source \in Programs, NEW f \in Functions, NEW T, NEW q \in Seq(T)
    PROVE  LET N == RuntimeName(f, q)
           IN  /\ Len(N) = 3 + Len(q)
               /\ N[1] = source[f].class /\ N[3] = source[f].name
               /\ \A i \in 1..Len(N) : N[i] # "$"
<1>1. PICK class, name : class = source[f].class /\ name = source[f].name
    OBVIOUS
<1>2. class # "$" /\ name # "$"
    BY <1>1, SymbolsAssumption
<1> DEFINE U == {class, "_", name, "P", "d"}
<1>3. PICK codes, w : codes = TypeCodes(q) /\ w = <<class, "_", name>>
    OBVIOUS
<1>4. codes \in Seq(U) /\ Len(codes) = Len(q)
  <2>1. PICK k \in Nat : k = Len(q) /\ DOMAIN q = 1..k
      OBVIOUS
  <2>2. codes \in [1..k -> U]
      BY <1>3, <2>1 DEF TypeCodes
  <2> HIDE DEF U
  <2> QED
      BY <2>1, <2>2, SeqDef
<1>5. w \in Seq(U) /\ Len(w) = 3 /\ w[1] = class /\ w[3] = name
  <2>1. w \in [1..3 -> U]
    <3>1. class \in U /\ "_" \in U /\ name \in U
        OBVIOUS
    <3> HIDE DEF U
    <3>2. PICK x \in U, y \in U, z \in U : x = class /\ y = "_" /\ z = name
        BY <3>1
    <3>3. <<x, y, z>> \in [1..3 -> U]
        OBVIOUS
    <3> QED
        BY <1>3, <3>2, <3>3
  <2> HIDE DEF U
  <2> QED
      BY <1>3, <2>1, SeqDef
<1>6. "$" \notin U
    BY <1>2
<1> HIDE DEF U
<1>7. PICK N : N = w \o codes
    OBVIOUS
<1>8. w \in Seq(U) /\ codes \in Seq(U)
    BY <1>4, <1>5
<1>9. N \in Seq(U) /\ Len(N) = Len(w) + Len(codes) /\ \A i \in 1..Len(w) : N[i] = w[i]
    BY <1>7, <1>8, ConcatParts
<1>10. \A i \in 1..Len(N) : N[i] \in U
    BY <1>9
<1>11. Len(N) = 3 + Len(q) /\ N[1] = w[1] /\ N[3] = w[3]
    BY <1>4, <1>5, <1>9
<1>12. N = RuntimeName(f, q)
    BY <1>1, <1>3, <1>7 DEF RuntimeName
<1> QED
    BY <1>1, <1>5, <1>6, <1>10, <1>11, <1>12

(* A name of the default mangler has a separator.                           *)
LEMMA DefaultNameSeparator ==
    ASSUME source \in Programs, NEW f \in Functions, NEW name, NEW T, NEW q \in Seq(T)
    PROVE  LET N == DefaultName(f, name, q)
           IN  Len(N) \in Nat /\ Len(N) >= 3 /\ \E i \in 1..Len(N) : N[i] = "$"
<1>1. PICK p, N : p = ModulePrefix(source[f].path) /\ N = DefaultName(f, name, q)
    OBVIOUS
<1>2. /\ Len(p) \in Nat /\ N[Len(p) + 1] = "$"
      /\ Len(N) = Len(p) + 3 + Len(q) \/ Len(N) = Len(p) + 5 + Len(q)
  <2>1. PICK class : class = source[f].class
      OBVIOUS
  <2>2. NameParts(N, p, class, name, Len(q))
      BY <1>1, <2>1, DefaultNameParts
  <2> QED
      BY <2>2 DEF NameParts
<1>3. Len(q) \in Nat
    OBVIOUS
<1>4. Len(N) \in Nat /\ Len(N) >= 3 /\ Len(p) + 1 \in 1..Len(N)
  <2>1. PICK a \in Nat, b \in Nat : a = Len(p) /\ b = Len(q)
      BY <1>2, <1>3
  <2>2. Len(N) = a + 3 + b \/ Len(N) = a + 5 + b
      BY <1>2, <2>1
  <2> QED
      BY <2>1, <2>2
<1> QED
    BY <1>1, <1>2, <1>4

-----------------------------------------------------------------------------
(* The parameters a mangled name speaks of.                                 *)
NamedParameters(f, n) == IF source[f].kind = "constructor" THEN Parameters(f) ELSE UsedParameters(f, n)

(* SpeedyJSName leaves the names of async functions bare.                   *)
IsBare(f) == source[f].kind \notin {"runtime", "constructor"} /\ source[f].async

LEMMA NamedParametersType ==
    ASSUME source \in Programs, NEW f \in Functions, NEW n \in Nat
    PROVE  NamedParameters(f, n) \in Seq(Modes)
BY UsedPrefix DEF NamedParameters

(* Mangle is one of the three manglers.                                     *)
LEMMA MangleForms ==
    ASSUME source \in Programs, NEW f \in Functions, NEW n \in Nat
    PROVE  Mangle(f, n) = IF source[f].kind = "runtime" THEN RuntimeName(f, NamedParameters(f, n))
                          ELSE IF IsBare(f) THEN <<source[f].name>>
                          ELSE DefaultName(f, NameOf(f), NamedParameters(f, n))
<1>1. CASE source[f].kind = "runtime"
    BY <1>1 DEF Mangle, NamedParameters
<1>2. CASE source[f].kind = "constructor"
    BY <1>2 DEF Mangle, NamedParameters, IsBare, NameOf, ConstructorName
<1>3. CASE source[f].kind \notin {"runtime", "constructor"}
    BY <1>3 DEF Mangle, NamedParameters, IsBare, NameOf, SpeedyJSName
<1> QED
    BY <1>1, <1>2, <1>3

(* The three kinds of names are apart, and entry functions have a fourth.   *)
Separated(N) == Len(N) \in Nat /\ Len(N) >= 3 /\ \E i \in 1..Len(N) : N[i] = "$"
Plain(N) == Len(N) \in Nat /\ Len(N) >= 3 /\ \A i \in 1..Len(N) : N[i] # "$"

LEMMA MangleKinds ==
    ASSUME source \in Programs, NEW f \in Functions, NEW n \in Nat
    PROVE  /\ source[f].kind = "runtime" => Plain(Mangle(f, n))
           /\ IsBare(f) => Len(Mangle(f, n)) = 1
           /\ source[f].kind # "runtime" /\ ~IsBare(f) => Separated(Mangle(f, n))
<1>1. PICK q \in Seq(Modes) : q = NamedParameters(f, n)
    BY NamedParametersType
<1>2. Len(q) \in Nat
    OBVIOUS
<1>3. ASSUME source[f].kind = "runtime" PROVE Plain(Mangle(f, n))
  <2>1. Mangle(f, n) = RuntimeName(f, q)
      BY <1>1, <1>3, MangleForms
  <2>2. Len(RuntimeName(f, q)) = 3 + Len(q) /\ \A i \in 1..Len(RuntimeName(f, q)) : RuntimeName(f, q)[i] # "$"
      BY RuntimeNameParts
  <2> QED
      BY <1>2, <2>1, <2>2 DEF Plain
<1>4. ASSUME IsBare(f) PROVE Len(Mangle(f, n)) = 1
  <2>1. Mangle(f, n) = <<source[f].name>>
      BY <1>4, MangleForms DEF IsBare
  <2> QED
      BY <2>1
<1>5. ASSUME source[f].kind # "runtime", ~IsBare(f) PROVE Separated(Mangle(f, n))
  <2>1. Mangle(f, n) = DefaultName(f, NameOf(f), q)
      BY <1>1, <1>5, MangleForms
  <2> QED
      BY <2>1, DefaultNameSeparator DEF Separated
<1> QED
    BY <1>3, <1>4, <1>5

(* No mangled name has two parts.                                           *)
LEMMA EntryNameMangle ==
    ASSUME source \in Programs, NEW f \in Functions, NEW g \in Functions, NEW n \in Nat
    PROVE  EntryName(f) # Mangle(g, n)
<1>1. PICK e, N : e = EntryName(f) /\ N = Mangle(g, n)
    OBVIOUS
<1>2. Len(e) = 2
    BY <1>1 DEF EntryName
<1>3. Len(N) = 1 \/ (Len(N) \in Nat /\ Len(N) >= 3)
    BY <1>1, MangleKinds DEF Separated, Plain
<1>4. Len(N) # 2
  <2>1. CASE Len(N) = 1
      BY <2>1
  <2>2. CASE Len(N) \in Nat /\ Len(N) >= 3
    <3>1. PICK x \in Nat : x = Len(N) /\ x >= 3
        BY <2>2
    <3>2. x # 2
        BY <3>1
    <3> QED
        BY <3>1, <3>2
  <2> QED
      BY <1>3, <2>1, <2>2
<1> QED
    BY <1>1, <1>2, <1>4

LEMMA EntryNameInjective ==
    ASSUME NEW f, NEW g, EntryName(f) = EntryName(g)
    PROVE  source[f].name = source[g].name
<1>1. EntryName(f)[2] = source[f].name /\ EntryName(g)[2] = source[g].name
    BY DEF EntryName
<1> QED
    BY <1>1

(* A mangled name belongs to one function.                                  *)
LEMMA MangleInjective ==
    ASSUME source \in Programs, NamesUnambiguous, NEW f \in Functions, NEW g \in Functions,
           NEW n \in Nat, NEW m \in Nat, Mangle(f, n) = Mangle(g, m)
    PROVE  f = g
<1>1. PICK N : N = Mangle(f, n) /\ N = Mangle(g, m)
    OBVIOUS
<1>2. PICK q \in Seq(Modes), r \in Seq(Modes) : q = NamedParameters(f, n) /\ r = NamedParameters(g, m)
    BY NamedParametersType
<1>3. ~(Plain(N) /\ Separated(N))
    BY DEF Plain, Separated
<1>4. Len(N) = 1 => ~Plain(N) /\ ~Separated(N)
    BY DEF Plain, Separated
<1>5. /\ source[f].kind = "runtime" => Plain(N)
      /\ IsBare(f) => Len(N) = 1
      /\ source[f].kind # "runtime" /\ ~IsBare(f) => Separated(N)
    BY <1>1, MangleKinds
<1>6. /\ source[g].kind = "runtime" => Plain(N)
      /\ IsBare(g) => Len(N) = 1
      /\ source[g].kind # "runtime" /\ ~IsBare(g) => Separated(N)
    BY <1>1, MangleKinds
<1>7. \A x : IsBare(x) => source[x].kind # "runtime"
    BY DEF IsBare
<1>8. /\ source[f].kind = "runtime" <=> source[g].kind = "runtime"
      /\ IsBare(f) <=> IsBare(g)
    BY <1>3, <1>4, <1>5, <1>6, <1>7
<1>9. CASE source[f].kind = "runtime"
  <2>1. N = RuntimeName(f, q) /\ N = RuntimeName(g, r)
      BY <1>1, <1>2, <1>8, <1>9, MangleForms
  <2>2. N[1] = source[f].class /\ N[3] = source[f].name
      BY <2>1, RuntimeNameParts
  <2>3. N[1] = source[g].class /\ N[3] = source[g].name
      BY <2>1, RuntimeNameParts
  <2>4. source[f].path = <<>> /\ source[g].path = <<>>
      BY <1>8, <1>9, DeclarationsAssumption
  <2>5. Identity(f) = Identity(g)
      BY <1>8, <1>9, <2>2, <2>3, <2>4 DEF Identity
  <2> QED
      BY <2>5 DEF NamesUnambiguous
<1>10. CASE IsBare(f)
  <2>1. N = <<source[f].name>> /\ N = <<source[g].name>>
      BY <1>1, <1>7, <1>8, <1>10, MangleForms
  <2>2. source[f].name = source[g].name
      BY <2>1
  <2>3. source[f].async /\ source[g].async
      BY <1>8, <1>10 DEF IsBare
  <2> QED
      BY <2>2, <2>3 DEF NamesUnambiguous
<1>11. CASE source[f].kind # "runtime" /\ ~IsBare(f)
  <2>1. N = DefaultName(f, NameOf(f), q) /\ N = DefaultName(g, NameOf(g), r)
      BY <1>1, <1>2, <1>8, <1>11, MangleForms
  <2>2. PICK a, b : a = NameOf(f) /\ b = NameOf(g)
      OBVIOUS
  <2>3. DefaultName(f, a, q) = DefaultName(g, b, r)
      BY <2>1, <2>2
  <2>4. /\ ModulePrefix(source[f].path) = ModulePrefix(source[g].path)
        /\ source[f].class = source[g].class
        /\ a = b
      BY <2>3, DefaultNameInjective
  <2>5. source[f].path = source[g].path
      BY <2>4 DEF NamesUnambiguous
  <2>6. (source[f].kind = "runtime") = (source[g].kind = "runtime")
      BY <1>8
  <2>7. Identity(f) = Identity(g)
      BY <2>2, <2>4, <2>5, <2>6 DEF Identity, NameOf
  <2> QED
      BY <2>7 DEF NamesUnambiguous
<1> QED
    BY <1>9, <1>10, <1>11

(* A mangled name tells how many parameters are used.                       *)
LEMMA MangleParameters ==
    ASSUME source \in Programs, NEW f \in Functions, ~Bare(f), NEW n \in Nat, NEW m \in Nat,
           Mangle(f, n) = Mangle(f, m)
    PROVE  NamedParameters(f, n) = NamedParameters(f, m)
<1>1. PICK q \in Seq(Modes), r \in Seq(Modes) : q = NamedParameters(f, n) /\ r = NamedParameters(f, m)
    BY NamedParametersType
<1>2. CASE source[f].kind = "constructor"
    BY <1>2 DEF NamedParameters
<1>3. CASE source[f].kind # "constructor"
  <2>1. q = UsedParameters(f, n) /\ r = UsedParameters(f, m)
      BY <1>1, <1>3 DEF NamedParameters
  <2>2. PICK p : p = Parameters(f)
      OBVIOUS
  <2>3. PICK k \in 0..Len(p) :
          /\ Len(q) = k /\ \A i \in 1..k : q[i] = p[i]
          /\ k < Len(p) => p[k + 1] = "optional"
          /\ p \in Seq(Modes)
      BY <2>1, <2>2, UsedPrefix
  <2>4. PICK l \in 0..Len(p) :
          /\ Len(r) = l /\ \A i \in 1..l : r[i] = p[i]
          /\ l < Len(p) => p[l + 1] = "optional"
          /\ p \in Seq(Modes)
      BY <2>1, <2>2, UsedPrefix
  <2>5. Len(q) = Len(r)
    <3>1. CASE source[f].kind = "runtime"
      <4>1. RuntimeName(f, q) = RuntimeName(f, r)
          BY <1>1, <3>1, MangleForms
      <4>2. Len(RuntimeName(f, q)) = 3 + Len(q) /\ Len(RuntimeName(f, r)) = 3 + Len(r)
          BY RuntimeNameParts
      <4>3. 3 + Len(q) = 3 + Len(r) /\ Len(q) \in Nat /\ Len(r) \in Nat
          BY <4>1, <4>2
      <4> QED
          BY <4>3
    <3>2. CASE IsBare(f)
      <4>1. "optional" \notin ToSet(p)
          BY <2>2, <3>2 DEF Bare, IsBare
      <4>2. PICK z \in Nat : z = Len(p) /\ DOMAIN p = 1..z
          BY <2>3
      <4>3. \A i \in 1..z : p[i] # "optional"
          BY <4>1, <4>2 DEF ToSet
      <4>4. k \in 0..z /\ l \in 0..z
          BY <4>2
      <4>5. (k < z => k + 1 \in 1..z) /\ (l < z => l + 1 \in 1..z)
          BY <4>4
      <4>6. ~(k < z) /\ ~(l < z)
          BY <2>3, <2>4, <4>2, <4>3, <4>5
      <4>7. k = l
          BY <4>4, <4>6
      <4> QED
          BY <2>3, <2>4, <4>7
    <3>3. CASE source[f].kind # "runtime" /\ ~IsBare(f)
      <4>1. PICK a : a = NameOf(f)
          OBVIOUS
      <4>2. DefaultName(f, a, q) = DefaultName(f, a, r)
          BY <1>1, <3>3, <4>1, MangleForms
      <4> QED
          BY <4>2, DefaultNameInjective
    <3> QED
        BY <3>1, <3>2, <3>3
  <2>6. \A i \in 1..Len(q) : q[i] = r[i]
      BY <2>3, <2>4, <2>5
  <2>7. q = r
      BY <2>5, <2>6, SeqEqual
  <2> QED
      BY <1>1, <2>7
<1> QED
    BY <1>2, <1>3

-----------------------------------------------------------------------------
(* What a call passes is what the function of the same name takes.          *)
LEMMA ModesOf ==
    ASSUME NEW p \in Seq(Modes), NEW x
    PROVE  x \in ToSet(p) <=> \E i \in 1..Len(p) : p[i] = x
<1>1. DOMAIN p = 1..Len(p)
    OBVIOUS
<1> QED
    BY <1>1 DEF ToSet

(* getCallArguments passes what toLlvmArgumentTypes declares, for any       *)
(* number of arguments.                                                     *)
LEMMA ArgumentCount ==
    ASSUME source \in Programs, NEW f \in Functions, NEW n \in Nat
    PROVE  CallArguments(f, n) = DeclaredArguments(f, n)
<1>1. PICK p \in Seq(Modes), q \in Seq(Modes) : p = Parameters(f) /\ q = UsedParameters(f, n)
    BY UsedPrefix
<1>2. PICK k \in 0..Len(p) :
        /\ Len(q) = k
        /\ \A i \in 1..k : q[i] = p[i] /\ ~(p[i] = "optional" /\ n < i)
        /\ k < Len(p) => p[k + 1] = "optional" /\ n < k + 1
    BY <1>1, UsedPrefix
<1>3. PICK z \in Nat : z = Len(p) /\ DOMAIN p = 1..z /\ k \in 0..z
    BY <1>1
<1>4. PICK taken : taken = {i \in 1..z : \A j \in 1..i : ~(n < j /\ p[j] = "optional")}
    OBVIOUS
<1>5. CallArguments(f, n) = This(f) + Cardinality(taken) + Cardinality({i \in taken : p[i] = "variadic"})
    BY <1>1, <1>3, <1>4 DEF CallArguments
<1>6. taken = 1..k
  <2>1. \A i \in 1..k : i \in 1..z /\ \A j \in 1..i : j \in 1..k
      BY <1>3
  <2>2. 1..k \subseteq taken
      BY <1>2, <1>4, <2>1
  <2>3. ASSUME NEW i \in taken, i \notin 1..k PROVE FALSE
    <3>1. i \in 1..z /\ k < z /\ k + 1 \in 1..i
        BY <1>3, <1>4, <2>3
    <3>2. p[k + 1] = "optional" /\ n < k + 1
        BY <1>2, <1>3, <3>1
    <3> QED
        BY <1>4, <2>3, <3>1, <3>2
  <2> QED
      BY <2>2, <2>3
<1>7. Cardinality(taken) = k
  <2>1. k \in Nat /\ 1 \in Int /\ k \in Int /\ (1 > k => k = 0)
      BY <1>3
  <2>2. Cardinality(1..k) = IF 1 > k THEN 0 ELSE k - 1 + 1
      BY <2>1, FS_Interval
  <2> QED
      BY <1>6, <2>1, <2>2
<1>8. Cardinality({i \in taken : p[i] = "variadic"}) = (IF "variadic" \in ToSet(q) THEN 1 ELSE 0)
  <2>1. \A i \in 1..z : p[i] = "variadic" => i = z
      BY <1>1, <1>3, DeclarationsAssumption DEF Parameters
  <2>2. "variadic" \in ToSet(q) <=> \E i \in 1..k : p[i] = "variadic"
      BY <1>2, ModesOf
  <2>3. CASE "variadic" \in ToSet(q)
    <3>1. PICK i \in 1..k : p[i] = "variadic"
        BY <2>2, <2>3
    <3>2. \A j \in 1..k : j \in 1..z
        BY <1>3
    <3>3. {j \in taken : p[j] = "variadic"} = {i}
        BY <1>6, <2>1, <3>1, <3>2
    <3> QED
        BY <2>3, <3>3, FS_Singleton
  <2>4. CASE "variadic" \notin ToSet(q)
    <3>1. {j \in taken : p[j] = "variadic"} = {}
        BY <1>6, <2>2, <2>4
    <3> QED
        BY <2>4, <3>1, FS_EmptySet
  <2> QED
      BY <2>3, <2>4
<1>9. DeclaredArguments(f, n) = This(f) + k + (IF "variadic" \in ToSet(q) THEN 1 ELSE 0)
    BY <1>1, <1>2 DEF DeclaredArguments
<1> QED
    BY <1>5, <1>7, <1>8, <1>9

(* Without optional parameters nothing is left out.                         *)
LEMMA AllParametersUsed ==
    ASSUME source \in Programs, NEW f \in Functions, NEW n \in Nat, "optional" \notin ToSet(Parameters(f))
    PROVE  UsedParameters(f, n) = Parameters(f)
<1>1. PICK p \in Seq(Modes), q \in Seq(Modes) : p = Parameters(f) /\ q = UsedParameters(f, n)
    BY UsedPrefix
<1>2. PICK k \in 0..Len(p) :
        /\ Len(q) = k
        /\ \A i \in 1..k : q[i] = p[i] /\ ~(p[i] = "optional" /\ n < i)
        /\ k < Len(p) => p[k + 1] = "optional" /\ n < k + 1
    BY <1>1, UsedPrefix
<1>3. \A i \in 1..Len(p) : p[i] # "optional"
    BY <1>1, ModesOf
<1>4. k < Len(p) => k + 1 \in 1..Len(p)
    OBVIOUS
<1>5. ~(k < Len(p))
    BY <1>2, <1>3, <1>4
<1>6. k = Len(p)
    BY <1>5
<1> QED
    BY <1>1, <1>2, <1>6, SeqEqual

(* FunctionDeclarationBuilder agrees for functions without optional and     *)
(* rest parameters.                                                         *)
LEMMA BuilderCount ==
    ASSUME source \in Programs, NEW f \in Functions, NEW n \in Nat, source[f].kind # "method",
           "optional" \notin ToSet(Parameters(f)), ~Variadic(f)
    PROVE  CallArguments(f, n) = BuilderArguments(f)
<1>1. UsedParameters(f, n) = Parameters(f)
    BY AllParametersUsed
<1>2. Parameters(f) \in Seq(Modes)
    BY UsedPrefix
<1>3. This(f) = 0
    BY DEF This
<1>4. DeclaredArguments(f, n) = 0 + Len(Parameters(f)) + 0
    BY <1>1, <1>3 DEF DeclaredArguments, Variadic
<1>5. Len(Parameters(f)) \in Nat
    BY <1>2
<1> QED
    BY <1>4, <1>5, ArgumentCount DEF BuilderArguments

(* validateSpeedyJSFunction leaves entry functions such parameters only.    *)
LEMMA EntryParameters ==
    ASSUME source \in Programs, NEW f \in Functions, IsEntry(f)
    PROVE  "optional" \notin ToSet(Parameters(f)) /\ ~Variadic(f) /\ source[f].kind = "function"
BY DeclarationsAssumption DEF IsEntry, Parameters, Variadic

-----------------------------------------------------------------------------
(* What calls and functions are named after.                                *)
Called(c) ==
    /\ c.to \in Functions
    /\ \E n \in Nat :
         /\ \/ c.target = Mangle(c.to, n)
            \/ IsEntry(c.to) /\ c.target = EntryName(c.to)
         /\ c.arguments = CallArguments(c.to, n)

Accepted(f, n) ==
    \/ source[f].kind = "runtime"
    \/ source[f].kind \in {"function", "method"} /\ source[f].breaks = {} /\ ArgumentsAllocate(f, n)
    \/ source[f].kind = "constructor" /\ source[f].breaks = {} /\ ~Variadic(f)

Compiled(r) ==
    /\ r.of \in Functions
    /\ \/ IsEntry(r.of) /\ r.name = EntryName(r.of) /\ r.arguments = BuilderArguments(r.of)
       \/ \E n \in Nat :
            /\ r.name = Mangle(r.of, n) /\ Accepted(r.of, n)
            /\ r.arguments = IF source[r.of].kind = "constructor" THEN BuilderArguments(r.of)
                             ELSE DeclaredArguments(r.of, n)

NamedAfter ==
    /\ \A c \in calls : Called(c)
    /\ \A r \in module : Compiled(r)

(* It is the program that decides what things are named after.              *)
LEMMA NamedAfterStays ==
    ASSUME source' = source
    PROVE  /\ \A c : Called(c)' <=> Called(c)
           /\ \A r : Compiled(r)' <=> Compiled(r)
<1>1. \A f : EntryName(f)' = EntryName(f) /\ IsEntry(f)' = IsEntry(f)
    BY NamesStay
<1>2. \A f, n : Mangle(f, n)' = Mangle(f, n)
    BY DEF Mangle, RuntimeName, ConstructorName, SpeedyJSName, DefaultName, ObjectName, UsedParameters, Parameters
<1>3. \A f, n : CallArguments(f, n)' = CallArguments(f, n) /\ DeclaredArguments(f, n)' = DeclaredArguments(f, n)
    BY DEF CallArguments, DeclaredArguments, This, Parameters, UsedParameters
<1>4. \A f, n : Accepted(f, n)' <=> Accepted(f, n)
    BY DEF Accepted, ArgumentsAllocate, DeclaredArguments, This, Parameters, UsedParameters, Variadic
<1>5. \A f : BuilderArguments(f)' = BuilderArguments(f)
    BY DEF BuilderArguments, Parameters
<1> QED
    BY <1>1, <1>2, <1>3, <1>4, <1>5 DEF Called, Compiled

(* The number of arguments of a call.                                       *)
LEMMA PassedType ==
    ASSUME Inv, Calling
    PROVE  Passed \in Nat
<1>1. Callee \in Functions
    BY CalleeProperties DEF Inv
<1>2. stack # <<>> /\ Top.code # <<>> /\ Top.code \in Seq(Uses)
    BY CalleeProperties, TopProperties DEF Inv, Calling, Due
<1>3. Head(Top.code) \in Uses
    BY <1>2, HeadTailProperties
<1>4. Head(Top.code).op = "call" => Head(Top.code).args \in Nat
    BY <1>3, ProgramsAssumption
<1>5. Len(Parameters(Callee)) \in Nat
    BY <1>1, ProgramsAssumption DEF Inv, Shape, Parameters
<1> QED
    BY <1>4, <1>5 DEF Passed

(* Every step names what it emits and creates after the function.           *)
LEMMA NamedAfterNext ==
    ASSUME Inv, NamedAfter, [Next]_vars
    PROVE  NamedAfter'
<1>0. source' = source /\ source \in Programs
  <2>1. source' = source
      BY DEF Next, Step, Ended, vars, GenerateEntryFunction, Call, DeclareRuntimeFunction, DefineFunction,
         DefineConstructor, Reject, LeaveFunction, LeaveEntryFunction, CompleteSourceFile
  <2> QED
      BY <2>1 DEF Inv, Shape
<1>s. /\ \A c : Called(c)' <=> Called(c)
      /\ \A r : Compiled(r)' <=> Compiled(r)
    BY <1>0, NamedAfterStays
<1>u. ASSUME calls' = calls, NEW S, module' = module \cup S, \A r \in S : Compiled(r)
      PROVE  NamedAfter'
    BY <1>s, <1>u DEF NamedAfter
<1>1. ASSUME NEW f \in Functions, GenerateEntryFunction(f) PROVE NamedAfter'
  <2>1. PICK r : r = Declaration(EntryName(f), f, BuilderArguments(f))
      OBVIOUS
  <2>2. r.name = EntryName(f) /\ r.of = f /\ r.arguments = BuilderArguments(f)
      BY <2>1 DEF Declaration
  <2>3. Compiled(r)
      BY <1>1, <2>2 DEF Compiled, GenerateEntryFunction
  <2>4. calls' = calls /\ module' = module \cup {r}
      BY <1>1, <2>1 DEF GenerateEntryFunction
  <2> QED
    <3>1. PICK S : S = {r}
        OBVIOUS
    <3>2. module' = module \cup S /\ \A x \in S : Compiled(x)
        BY <2>3, <2>4, <3>1
    <3> QED
        BY <1>u, <2>4, <3>2
<1>2. CASE Call
  <2>1. Calling /\ module' = module /\ calls' = calls \cup {Emitted}
      BY <1>2 DEF Call
  <2>2. Callee \in Functions /\ Passed \in Nat
      BY <2>1, CalleeProperties, PassedType DEF Inv
  <2>3. PICK c : c = Emitted
      OBVIOUS
  <2>4. c.to = Callee /\ c.target = Target /\ c.arguments = CallArguments(Callee, Passed)
      BY <2>3 DEF Emitted
  <2>5. Target = Mangle(Callee, Passed) \/ (IsEntry(Callee) /\ Target = EntryName(Callee))
      BY DEF Target, Inv, Shape, Entries
  <2>6. Called(c)
      BY <2>2, <2>4, <2>5 DEF Called
  <2> QED
      BY <1>s, <2>1, <2>3, <2>6 DEF NamedAfter
<1>3. CASE DeclareRuntimeFunction
  <2>1. Calling /\ ~InModule(Target) /\ source[Callee].kind = "runtime" /\ calls' = calls
      BY <1>3 DEF DeclareRuntimeFunction
  <2>2. Callee \in Functions /\ Passed \in Nat /\ Target = Mangle(Callee, Passed)
      BY <2>1, CalleeProperties, CreatedName DEF Inv
  <2>3. PICK r : r = Declaration(Target, Callee, DeclaredArguments(Callee, Passed))
      OBVIOUS
  <2>4. r.name = Target /\ r.of = Callee /\ r.arguments = DeclaredArguments(Callee, Passed)
      BY <2>3 DEF Declaration
  <2>5. Compiled(r)
      BY <2>1, <2>2, <2>4 DEF Compiled, Accepted
  <2>6. module' = module \cup {r}
      BY <1>3, <2>3 DEF DeclareRuntimeFunction
  <2>7. PICK S : S = {r}
      OBVIOUS
  <2>8. module' = module \cup S /\ \A x \in S : Compiled(x)
      BY <2>5, <2>6, <2>7
  <2> QED
      BY <1>u, <2>1, <2>8
<1>4. CASE DefineFunction
  <2>1. /\ Calling /\ ~InModule(Target) /\ source[Callee].kind \in {"function", "method"} /\ calls' = calls
        /\ source[Callee].breaks = {} /\ ArgumentsAllocate(Callee, Passed)
      BY <1>4 DEF DefineFunction, Creating
  <2>2. Callee \in Functions /\ Passed \in Nat /\ Target = Mangle(Callee, Passed)
      BY <2>1, CalleeProperties, CreatedName DEF Inv
  <2>3. PICK r, d : /\ r = Declaration(Target, Callee, DeclaredArguments(Callee, Passed))
                    /\ d = Declaration(Mangle(ArrayConstructor, 1), ArrayConstructor, 2)
      OBVIOUS
  <2>4. /\ r.name = Target /\ r.of = Callee /\ r.arguments = DeclaredArguments(Callee, Passed)
        /\ d.name = Mangle(ArrayConstructor, 1) /\ d.of = ArrayConstructor /\ d.arguments = 2
      BY <2>3 DEF Declaration
  <2>5. Compiled(r)
      BY <2>1, <2>2, <2>4 DEF Compiled, Accepted
  <2>6. Compiled(d)
    <3>1. ArrayConstructor \in Functions /\ source[ArrayConstructor].kind = "runtime" /\ Parameters(ArrayConstructor) = <<"variadic">>
        BY <1>0, ArrayConstructorAssumption DEF Parameters
    <3>2. "optional" \notin ToSet(Parameters(ArrayConstructor)) /\ "variadic" \in ToSet(Parameters(ArrayConstructor))
        BY <3>1 DEF ToSet
    <3>3. UsedParameters(ArrayConstructor, 1) = <<"variadic">>
        BY <1>0, <3>1, <3>2, AllParametersUsed
    <3>4. This(ArrayConstructor) = 0
        BY <3>1 DEF This
    <3>5. DeclaredArguments(ArrayConstructor, 1) = 0 + Len(<<"variadic">>) + 1
        BY <3>1, <3>2, <3>3, <3>4 DEF DeclaredArguments
    <3>6. DeclaredArguments(ArrayConstructor, 1) = 2
        BY <3>5
    <3> QED
        BY <2>4, <3>1, <3>6 DEF Compiled, Accepted
  <2>7. PICK S \in SUBSET {r, d} : module' = module \cup S
    <3>1. PICK more \in SUBSET {d} : module' = module \cup {r} \cup more
        BY <1>4, <2>3 DEF DefineFunction
    <3>2. module' = module \cup ({r} \cup more) /\ {r} \cup more \in SUBSET {r, d}
        BY <3>1
    <3> QED
        BY <3>2
  <2> QED
      BY <1>u, <2>1, <2>5, <2>6, <2>7
<1>5. CASE DefineConstructor
  <2>1. /\ Calling /\ ~InModule(Target) /\ source[Callee].kind = "constructor" /\ calls' = calls
        /\ source[Callee].breaks = {} /\ ~Variadic(Callee)
      BY <1>5 DEF DefineConstructor, Constructing
  <2>2. Callee \in Functions /\ Passed \in Nat /\ Target = Mangle(Callee, Passed)
      BY <2>1, CalleeProperties, CreatedName DEF Inv
  <2>3. PICK r : r = Declaration(Target, Callee, BuilderArguments(Callee))
      OBVIOUS
  <2>4. r.name = Target /\ r.of = Callee /\ r.arguments = BuilderArguments(Callee)
      BY <2>3 DEF Declaration
  <2>5. Compiled(r)
      BY <2>1, <2>2, <2>4 DEF Compiled, Accepted
  <2>6. module' = module \cup {r}
      BY <1>5, <2>3 DEF DefineConstructor
  <2>7. PICK S : S = {r}
      OBVIOUS
  <2>8. module' = module \cup S /\ \A x \in S : Compiled(x)
      BY <2>5, <2>6, <2>7
  <2> QED
      BY <1>u, <2>1, <2>8
<1>6. CASE LeaveFunction \/ LeaveEntryFunction \/ Reject \/ CompleteSourceFile \/ Ended \/ UNCHANGED vars
  <2>1. calls' = calls /\ module' = module
      BY <1>6 DEF LeaveFunction, LeaveEntryFunction, Reject, CompleteSourceFile, Ended, vars
  <2> QED
      BY <1>s, <2>1 DEF NamedAfter
<1> QED
    BY <1>1, <1>2, <1>3, <1>4, <1>5, <1>6 DEF Next, Step

(* The inductive invariant behind CallsReachTheirFunction and               *)
(* ArgumentsMatch.                                                          *)
NamedInv == Inv /\ NamedAfter

LEMMA NamedInit == Init => NamedInv
<1> SUFFICES ASSUME Init PROVE NamedInv
    OBVIOUS
<1>1. calls = {} /\ module = {}
    BY DEF Init
<1> QED
    BY <1>1, InitInv DEF NamedInv, NamedAfter

LEMMA NamedNext == NamedInv /\ [Next]_vars => NamedInv'
BY NextInv, NamedAfterNext DEF NamedInv

(* What has the name of a function in the module compiles this function.    *)
LEMMA NamedAlike ==
    ASSUME NamedInv, NamesUnambiguous, NEW r \in module, NEW f \in Functions, NEW n \in Nat,
           r.name = Mangle(f, n) \/ (IsEntry(f) /\ r.name = EntryName(f))
    PROVE  r.of = f
<1>1. source \in Programs /\ Compiled(r)
    BY DEF NamedInv, NamedAfter, Inv, Shape
<1>2. PICK m \in Nat : /\ r.of \in Functions
                       /\ r.name = Mangle(r.of, m) \/ (IsEntry(r.of) /\ r.name = EntryName(r.of))
    BY <1>1 DEF Compiled
<1>3. CASE r.name = Mangle(f, n) /\ r.name = Mangle(r.of, m)
    BY <1>1, <1>2, <1>3, MangleInjective
<1>4. CASE r.name = Mangle(f, n) /\ r.name = EntryName(r.of)
    BY <1>1, <1>2, <1>4, EntryNameMangle
<1>5. CASE r.name = EntryName(f) /\ r.name = Mangle(r.of, m)
    BY <1>1, <1>2, <1>5, EntryNameMangle
<1>6. CASE IsEntry(f) /\ r.name = EntryName(f) /\ IsEntry(r.of) /\ r.name = EntryName(r.of)
  <2>1. source[f].name = source[r.of].name
      BY <1>6, EntryNameInjective
  <2> QED
      BY <1>2, <1>6, <2>1 DEF NamesUnambiguous, IsEntry
<1> QED
    BY <1>2, <1>3, <1>4, <1>5, <1>6

(* CallsReachTheirFunction, for any programs: the function found under the  *)
(* name of a call (getMangledFunctionName) is the one that is called.       *)
THEOREM CallsAlwaysReachTheirFunction == Spec => []CallsReachTheirFunction
<1>1. NamedInv => CallsReachTheirFunction
  <2> SUFFICES ASSUME NamedInv, NamesUnambiguous, NEW c \in calls, NEW r \in module, r.name = c.target
               PROVE  r.of = c.to
      BY DEF CallsReachTheirFunction
  <2>1. Called(c)
      BY DEF NamedInv, NamedAfter
  <2> QED
      BY <2>1, NamedAlike DEF Called
<1> QED
    BY <1>1, NamedInit, NamedNext, PTL DEF Spec

(* ArgumentsMatch, for any programs: getCallArguments passes as many        *)
(* arguments as the function of that name was declared with, by whichever   *)
(* call it was created.                                                     *)
THEOREM ArgumentsAlwaysMatch == Spec => []ArgumentsMatch
<1>1. NamedInv => ArgumentsMatch
  <2> SUFFICES ASSUME NamedInv, NEW c \in calls, NEW r \in module, r.name = c.target, r.of = c.to,
                      ~(source[c.to].kind = "constructor" /\ "optional" \in ToSet(Parameters(c.to))), ~Bare(c.to)
               PROVE  c.arguments = r.arguments
      BY DEF ArgumentsMatch
  <2>1. source \in Programs /\ Called(c) /\ Compiled(r)
      BY DEF NamedInv, NamedAfter, Inv, Shape
  <2>2. PICK f \in Functions : f = c.to /\ f = r.of
      BY <2>1 DEF Called
  <2>3. PICK n \in Nat : /\ r.name = Mangle(f, n) \/ (IsEntry(f) /\ r.name = EntryName(f))
                         /\ c.arguments = CallArguments(f, n)
      BY <2>1, <2>2 DEF Called
  <2>4. CASE IsEntry(f) /\ r.name = EntryName(f)
    <3>1. \A m \in Nat : r.name # Mangle(f, m)
        BY <2>1, <2>4, EntryNameMangle
    <3>2. r.arguments = BuilderArguments(f)
        BY <2>1, <2>2, <3>1 DEF Compiled
    <3>3. "optional" \notin ToSet(Parameters(f)) /\ ~Variadic(f) /\ source[f].kind # "method"
        BY <2>1, <2>4, EntryParameters
    <3> QED
        BY <2>1, <2>3, <3>2, <3>3, BuilderCount
  <2>5. CASE r.name = Mangle(f, n)
    <3>1. PICK m \in Nat :
            /\ r.name = Mangle(f, m) /\ Accepted(f, m)
            /\ r.arguments = IF source[f].kind = "constructor" THEN BuilderArguments(f) ELSE DeclaredArguments(f, m)
        BY <2>1, <2>2, <2>5, EntryNameMangle DEF Compiled
    <3>2. CASE source[f].kind = "constructor"
      <4>1. ~Variadic(f) /\ "optional" \notin ToSet(Parameters(f)) /\ source[f].kind # "method"
          BY <2>2, <3>1, <3>2 DEF Accepted
      <4> QED
          BY <2>1, <2>3, <3>1, <3>2, <4>1, BuilderCount
    <3>3. CASE source[f].kind # "constructor"
      <4>1. NamedParameters(f, n) = NamedParameters(f, m)
          BY <2>1, <2>2, <2>5, <3>1, MangleParameters
      <4>2. UsedParameters(f, n) = UsedParameters(f, m)
          BY <3>3, <4>1 DEF NamedParameters
      <4>3. DeclaredArguments(f, n) = DeclaredArguments(f, m)
          BY <4>2 DEF DeclaredArguments
      <4> QED
          BY <2>1, <2>3, <3>1, <3>3, <4>3, ArgumentCount
    <3> QED
        BY <3>2, <3>3
  <2> QED
      BY <2>3, <2>4, <2>5
<1> QED
    BY <1>1, NamedInit, NamedNext, PTL DEF Spec

-----------------------------------------------------------------------------
(* Two entry functions of a file have two names.                            *)
EntriesNamed == \A f, g \in Entries : source[f].name = source[g].name => f = g

(* The names of the entry functions, of the functions and of the runtime's  *)
(* functions are apart by their form.                                       *)
LEMMA NamesFallApart ==
    ASSUME source \in Programs, EntriesNamed
    PROVE  NamesApart
<1>1. ASSUME NEW f \in Entries, NEW g \in Entries, EntryName(f) = EntryName(g) PROVE f = g
    BY <1>1, EntryNameInjective DEF EntriesNamed
<1>2. ASSUME NEW f \in Entries, NEW g \in Functions, NEW n \in Nat PROVE EntryName(f) # Mangle(g, n)
  <2>1. f \in Functions
      BY DEF Entries
  <2> QED
      BY <2>1, EntryNameMangle
<1>3. ASSUME NEW g \in Functions, NEW n \in Nat, source[g].kind # "runtime"
      PROVE  Mangle(g, n) # Mangle(ArrayConstructor, 1)
  <2>1. PICK N, A : N = Mangle(g, n) /\ A = Mangle(ArrayConstructor, 1)
      OBVIOUS
  <2>2. Plain(A)
      BY <2>1, ArrayConstructorAssumption, MangleKinds
  <2>3. Len(N) = 1 \/ Separated(N)
      BY <1>3, <2>1, MangleKinds
  <2>4. N # A
    <3>1. Separated(N) => N # A
        BY <2>2 DEF Plain, Separated
    <3>2. PICK k \in Nat : k = Len(A) /\ k >= 3
        BY <2>2 DEF Plain
    <3>3. k # 1
        BY <3>2
    <3>4. Len(N) = 1 => N # A
        BY <3>2, <3>3
    <3> QED
        BY <2>3, <3>1, <3>4
  <2> QED
      BY <2>1, <2>4
<1> QED
    BY <1>1, <1>2, <1>3 DEF NamesApart

(* A function is never under construction twice, and never again when it is *)
(* complete, whatever the functions of the file call: DefinedOnce, for any  *)
(* file whose entry functions have names of their own                       *)
(* (getOrCreateStaticOrInstanceFunction).                                   *)
THEOREM FunctionsDefinedOnce == Spec => [](EntriesNamed => DefinedOnce)
<1>1. OnceInv => (EntriesNamed => DefinedOnce)
  <2> SUFFICES ASSUME OnceInv, EntriesNamed PROVE DefinedOnce
      OBVIOUS
  <2>1. Once
      BY NamesFallApart DEF OnceInv, Inv, Shape
  <2>2. PICK S : stack \in Seq(Frames(S))
      BY DEF OnceInv, Inv, Shape
  <2>3. DOMAIN stack = 1..Len(stack)
      BY <2>2
  <2> QED
      BY <2>1, <2>3 DEF Once, DefinedOnce
<1> QED
    BY <1>1, OnceInit, OnceNext, PTL DEF Spec

-----------------------------------------------------------------------------
(* The functions under construction and where they are in their bodies.     *)
InStack == {stack[i] : i \in 1..Len(stack)}
Body(f) == source[f].body
Consumed(fr) == Len(Body(fr.of)) - Len(fr.code)

InBody(fr) ==
    /\ fr.of \in Functions /\ fr.code \in Seq(Uses)
    /\ Consumed(fr) \in Nat
    /\ \A j \in 1..Len(fr.code) : fr.code[j] = Body(fr.of)[Consumed(fr) + j]

Placed == \A fr \in InStack : InBody(fr)

LEMMA BodyType ==
    ASSUME source \in Programs, NEW f \in Functions
    PROVE  /\ Body(f) \in Seq(Uses) /\ Len(Body(f)) \in Nat
           /\ DOMAIN Body(f) = 1..Len(Body(f))
<1>1. Body(f) \in Seq(Uses)
    BY ProgramsAssumption DEF Body
<1> QED
    BY <1>1

(* A function starts with its body.                                         *)
LEMMA Started ==
    ASSUME source \in Programs, NEW f \in Functions, NEW name, NEW fr, fr = Frame(name, f)
    PROVE  /\ fr.of = f /\ fr.name = name /\ fr.requiresGc = Variadic(f)
           /\ Consumed(fr) = 0 /\ InBody(fr)
<1>1. fr.of = f /\ fr.name = name /\ fr.requiresGc = Variadic(f) /\ fr.code = Body(f)
    BY DEF Frame, Body
<1>2. PICK b \in Seq(Uses) : b = Body(f)
    BY BodyType
<1>3. PICK z \in Nat : z = Len(b)
    BY <1>2
<1>4. Consumed(fr) = z - z
    BY <1>1, <1>2, <1>3 DEF Consumed
<1>5. Consumed(fr) = 0
    BY <1>4
<1>6. \A j \in 1..z : 0 + j = j
    OBVIOUS
<1> QED
    BY <1>1, <1>2, <1>3, <1>5, <1>6 DEF InBody

(* A statement is done.                                                     *)
LEMMA Advanced ==
    ASSUME source \in Programs, NEW fr, InBody(fr), fr.code # <<>>,
           NEW y, y.of = fr.of, y.code = Tail(fr.code)
    PROVE  /\ InBody(y)
           /\ Consumed(y) = Consumed(fr) + 1
           /\ Consumed(y) \in 1..Len(Body(fr.of))
           /\ Head(fr.code) = Body(fr.of)[Consumed(y)]
<1>1. PICK c \in Seq(Uses), b \in Seq(Uses) : c = fr.code /\ b = Body(fr.of) /\ c # <<>>
    BY BodyType DEF InBody
<1>2. /\ Tail(c) \in Seq(Uses) /\ Head(c) = c[1] /\ Len(Tail(c)) = Len(c) - 1
      /\ \A j \in 1..(Len(c) - 1) : Tail(c)[j] = c[j + 1]
    BY <1>1, HeadTailProperties
<1>3. PICK n \in Nat, z \in Nat, m \in Nat : n = Len(c) /\ z = Len(b) /\ m = Consumed(fr)
    BY <1>1 DEF InBody
<1>4. n > 0
    BY <1>1, <1>3, EmptySeq
<1>5. m = z - n
    BY <1>1, <1>3 DEF Consumed
<1>6. Consumed(y) = z - (n - 1)
    BY <1>1, <1>2, <1>3 DEF Consumed
<1>7. Consumed(y) = m + 1 /\ m + 1 \in 1..z
    BY <1>4, <1>5, <1>6
<1>8. \A j \in 1..n : c[j] = b[m + j]
    BY <1>1, <1>3 DEF InBody
<1>9. \A j \in 1..(n - 1) : j + 1 \in 1..n /\ m + (j + 1) = (m + 1) + j
    OBVIOUS
<1>10. \A j \in 1..(n - 1) : Tail(c)[j] = b[(m + 1) + j]
    BY <1>2, <1>3, <1>8, <1>9
<1>11. InBody(y)
  <2>1. y.of \in Functions /\ y.code \in Seq(Uses) /\ Len(y.code) = n - 1 /\ y.code = Tail(c)
      BY <1>1, <1>2, <1>3 DEF InBody
  <2>2. Consumed(y) \in Nat
      BY <1>7
  <2>3. Body(y.of) = b
      BY <1>1
  <2> QED
      BY <1>7, <1>10, <2>1, <2>2, <2>3 DEF InBody
<1>12. 1 \in 1..n
    BY <1>4
<1>13. Head(c) = b[m + 1]
    BY <1>2, <1>8, <1>12
<1> QED
    BY <1>1, <1>3, <1>7, <1>11, <1>13

(* A body is complete.                                                      *)
LEMMA Finished ==
    ASSUME source \in Programs, NEW fr, InBody(fr), fr.code = <<>>
    PROVE  Consumed(fr) = Len(Body(fr.of))
<1>1. Len(Body(fr.of)) \in Nat
    BY BodyType DEF InBody
<1>2. Len(fr.code) = 0
    OBVIOUS
<1> QED
    BY <1>1, <1>2 DEF Consumed

-----------------------------------------------------------------------------
(* How the stack changes.                                                   *)
LEMMA StackPushed ==
    ASSUME Shape, NEW x, stack' = Append(stack, x)
    PROVE  InStack' \subseteq InStack \cup {x}
<1>1. PICK S : stack \in Seq(Frames(S))
    BY DEF Shape
<1>2. PICK T : T = Frames(S) \cup {x}
    OBVIOUS
<1>3. stack \in Seq(T) /\ x \in T
    BY <1>1, <1>2, Larger
<1>4. PICK n \in Nat : /\ n = Len(stack) /\ Len(stack') = n + 1
                       /\ stack'[n + 1] = x /\ \A i \in 1..n : stack'[i] = stack[i]
    BY <1>3, PushProperties
<1>5. \A i \in 1..(n + 1) : i = n + 1 \/ i \in 1..n
    OBVIOUS
<1> QED
    BY <1>4, <1>5 DEF InStack

LEMMA StackAdvanced ==
    ASSUME Shape, Calling, NEW allocates \in BOOLEAN, stack' = Advance(allocates)
    PROVE  \E y : /\ InStack' \subseteq InStack \cup {y}
                  /\ y.name = Top.name /\ y.of = Top.of /\ y.code = Tail(Top.code)
                  /\ y.requiresGc = (Top.requiresGc \/ allocates)
                  /\ Top \in InStack
<1>1. PICK S : stack \in Seq(Frames(S))
    BY DEF Shape
<1>2. Len(stack) \in Nat /\ Len(stack) > 0 /\ stack # <<>> /\ Tail(Top.code) \in Seq(Uses)
    BY CalleeProperties, TopProperties
<1>3. PICK n \in 1..Len(stack) : n = Len(stack)
    BY <1>2
<1>4. Top \in Frames(S) /\ Top = stack[n]
    BY <1>1, <1>3 DEF Top
<1>5. PICK b \in BOOLEAN : b = (Top.requiresGc \/ allocates)
  <2>1. (Top.requiresGc \/ allocates) \in BOOLEAN
      OBVIOUS
  <2> QED
      BY <2>1
<1>6. PICK y : y = [Top EXCEPT !.code = Tail(Top.code), !.requiresGc = b]
    OBVIOUS
<1>7. /\ y \in Frames(S) /\ y.name = Top.name /\ y.of = Top.of /\ y.code = Tail(Top.code)
      /\ y.requiresGc = b
    BY <1>2, <1>4, <1>6 DEF Frames
<1>8. y = [Top EXCEPT !.code = Tail(@), !.requiresGc = @ \/ allocates]
    BY <1>5, <1>6
<1>9. stack' = [stack EXCEPT ![n] = y]
    BY <1>3, <1>4, <1>8 DEF Advance
<1>10. /\ Len(stack') = Len(stack)
       /\ \A i \in 1..Len(stack) : stack'[i] = IF i = n THEN y ELSE stack[i]
    BY <1>1, <1>7, <1>9, ExceptSeq
<1>11. InStack' \subseteq InStack \cup {y} /\ Top \in InStack
    BY <1>3, <1>4, <1>10 DEF InStack
<1> QED
    BY <1>5, <1>7, <1>11

LEMMA StackPopped ==
    ASSUME Shape, stack # <<>>, stack' = Front(stack) \/ stack' = <<>>
    PROVE  InStack' \subseteq InStack /\ Top \in InStack
<1>1. PICK S : stack \in Seq(Frames(S))
    BY DEF Shape
<1>2. PICK n \in Nat : n = Len(stack) /\ n > 0
    BY TopProperties
<1>3. CASE stack' = Front(stack)
  <2>1. Len(stack') = n - 1 /\ \A i \in 1..(n - 1) : stack'[i] = stack[i]
      BY <1>1, <1>2, <1>3, FrontProperties
  <2>2. \A i \in 1..(n - 1) : i \in 1..n
      OBVIOUS
  <2> QED
      BY <1>2, <2>1, <2>2 DEF InStack, Top
<1>4. CASE stack' = <<>>
  <2>1. Len(stack') = 0 /\ 1..0 = {}
      BY <1>4
  <2> QED
      BY <1>2, <2>1 DEF InStack, Top
<1> QED
    BY <1>3, <1>4

LEMMA TopInStack ==
    ASSUME Shape, stack # <<>>
    PROVE  Top \in InStack
<1>1. PICK n \in Nat : n = Len(stack) /\ n > 0
    BY TopProperties
<1>2. n \in 1..Len(stack)
    BY <1>1
<1> QED
    BY <1>1, <1>2 DEF InStack, Top

-----------------------------------------------------------------------------
(* What was used is supported and in the module.                            *)
Done(u) == ~UnsupportedUse(u) /\ \E r \in module : r.of = u.to
BodyDone(f) == \A j \in 1..Len(Body(f)) : Done(Body(f)[j])
FrameDone(fr) ==
    /\ fr.of \in Reachable
    /\ \E r \in module : r.name = fr.name /\ r.of = fr.of
    /\ \A j \in 1..Consumed(fr) : Done(Body(fr.of)[j])

Supported == NamesUnambiguous /\ (\A f \in Functions : ~Bare(f)) /\ (\A f \in Entries : source[f].breaks = {})

UsesDone ==
    /\ \A fr \in InStack : FrameDone(fr)
    /\ \A r \in module : r.name \in defined => BodyDone(r.of)
    /\ status \in {"generating", "failed", "completed"}
    /\ status = "failed" => \E f \in Reachable : \E j \in 1..Len(Body(f)) : UnsupportedUse(Body(f)[j])

(* The flags of the contexts.                                               *)
AllocatesBy(f, n) == \E j \in 1..n : Body(f)[j].op = "call" /\ Allocating(Body(f)[j].to)
Flagged(fr) == fr.requiresGc <=> Variadic(fr.of) \/ AllocatesBy(fr.of, Consumed(fr))
FlagsKept ==
    /\ \A fr \in InStack : Flagged(fr)
    /\ requiresGc <=> \E f \in scopeFunctions : Allocates(f)
    /\ status = "completed" => (gcReferenced <=> requiresGc)

(* The program stays, and with it all that depends on it only.              *)
LEMMA SourceStays ==
    ASSUME Inv, [Next]_vars
    PROVE  source' = source /\ source \in Programs
<1>1. source' = source
    BY DEF Next, Step, Ended, vars, GenerateEntryFunction, Call, DeclareRuntimeFunction, DefineFunction,
       DefineConstructor, Reject, LeaveFunction, LeaveEntryFunction, CompleteSourceFile
<1> QED
    BY <1>1 DEF Inv, Shape

LEMMA BodiesStay ==
    ASSUME source' = source
    PROVE  /\ \A f : Body(f)' = Body(f) /\ Variadic(f)' = Variadic(f) /\ Allocates(f)' = Allocates(f)
           /\ \A fr : (InBody(fr)' <=> InBody(fr)) /\ Consumed(fr)' = Consumed(fr)
           /\ \A f, n : AllocatesBy(f, n)' = AllocatesBy(f, n)
BY DEF Body, Variadic, Parameters, Allocates, Allocating, InBody, Consumed, AllocatesBy

(* How a step changes what is under construction.                           *)
LEMMA StackSteps ==
    ASSUME Inv, Placed, [Next]_vars
    PROVE  \/ InStack' \subseteq InStack
           \/ \E f \in Entries : GenerateEntryFunction(f) /\ InStack' \subseteq InStack \cup {Frame(EntryName(f), f)}
           \/ /\ DefineFunction \/ DefineConstructor
              /\ Calling /\ Callee \in Functions
              /\ InStack' \subseteq InStack \cup {Frame(Target, Callee)}
           \/ \E y : /\ Call
                     /\ InStack' \subseteq InStack \cup {y}
                     /\ Top \in InStack /\ Top.code # <<>>
                     /\ y.name = Top.name /\ y.of = Top.of /\ y.code = Tail(Top.code)
                     /\ y.requiresGc = (Top.requiresGc \/ Allocating(Callee))
<1>1. ASSUME NEW f \in Functions, GenerateEntryFunction(f)
      PROVE  f \in Entries /\ InStack' \subseteq InStack \cup {Frame(EntryName(f), f)}
  <2>1. IsEntry(f) /\ stack = <<>> /\ stack' = <<Frame(EntryName(f), f)>>
      BY <1>1 DEF GenerateEntryFunction
  <2>2. stack' = Append(stack, Frame(EntryName(f), f))
      BY <2>1
  <2>3. f \in Entries
      BY <2>1 DEF Entries
  <2> QED
      BY <2>2, <2>3, StackPushed DEF Inv
<1>2. ASSUME DefineFunction \/ DefineConstructor
      PROVE  Calling /\ Callee \in Functions /\ InStack' \subseteq InStack \cup {Frame(Target, Callee)}
  <2>1. Calling /\ stack' = Append(stack, Frame(Target, Callee))
      BY <1>2 DEF DefineFunction, DefineConstructor, Creating, Constructing
  <2> QED
      BY <2>1, StackPushed, CalleeProperties DEF Inv
<1>3. ASSUME Call
      PROVE  \E y : /\ InStack' \subseteq InStack \cup {y}
                    /\ Top \in InStack /\ Top.code # <<>>
                    /\ y.name = Top.name /\ y.of = Top.of /\ y.code = Tail(Top.code)
                    /\ y.requiresGc = (Top.requiresGc \/ Allocating(Callee))
  <2>1. Calling /\ stack' = Advance(Allocating(Callee))
      BY <1>3 DEF Call
  <2>2. Allocating(Callee) \in BOOLEAN
      BY DEF Allocating
  <2>3. PICK a \in BOOLEAN : a = Allocating(Callee)
      BY <2>2
  <2>4. stack' = Advance(a)
      BY <2>1, <2>3
  <2>5. Top.code # <<>>
      BY <2>1 DEF Calling, Due
  <2> QED
      BY <2>1, <2>3, <2>4, <2>5, StackAdvanced DEF Inv
<1>4. ASSUME LeaveFunction \/ LeaveEntryFunction PROVE InStack' \subseteq InStack
  <2>1. stack # <<>> /\ (stack' = Front(stack) \/ stack' = <<>>)
      BY <1>4 DEF LeaveFunction, LeaveEntryFunction, Complete
  <2> QED
      BY <2>1, StackPopped DEF Inv
<1>5. ASSUME DeclareRuntimeFunction \/ Reject \/ CompleteSourceFile \/ Ended \/ UNCHANGED vars
      PROVE  InStack' \subseteq InStack
  <2>1. stack' = stack
      BY <1>5 DEF DeclareRuntimeFunction, Reject, CompleteSourceFile, Ended, vars
  <2> QED
      BY <2>1 DEF InStack
<1> QED
    BY <1>1, <1>2, <1>3, <1>4, <1>5 DEF Next, Step

(* What is left of a body is its end.                                       *)
LEMMA PlacedNext ==
    ASSUME Inv, Placed, [Next]_vars
    PROVE  Placed'
<1>1. source' = source /\ source \in Programs
    BY SourceStays
<1>2. \A fr : InBody(fr)' <=> InBody(fr)
    BY <1>1, BodiesStay
<1>3. CASE InStack' \subseteq InStack
    BY <1>2, <1>3 DEF Placed
<1>4. ASSUME NEW name, NEW f \in Functions, InStack' \subseteq InStack \cup {Frame(name, f)}
      PROVE  Placed'
  <2>1. PICK fr : fr = Frame(name, f)
      OBVIOUS
  <2>2. InBody(fr)
      BY <1>1, <2>1, Started
  <2> QED
      BY <1>2, <1>4, <2>1, <2>2 DEF Placed
<1>5. ASSUME NEW y, InStack' \subseteq InStack \cup {y}, Top \in InStack, Top.code # <<>>,
             y.of = Top.of, y.code = Tail(Top.code)
      PROVE  Placed'
  <2>1. PICK fr : fr = Top
      OBVIOUS
  <2>2. InBody(fr)
      BY <1>5, <2>1 DEF Placed
  <2>3. InBody(y)
      BY <1>1, <1>5, <2>1, <2>2, Advanced
  <2> QED
      BY <1>2, <1>5, <2>3 DEF Placed
<1>6. Entries \subseteq Functions
    BY DEF Entries
<1> QED
    BY <1>3, <1>4, <1>5, <1>6, StackSteps

-----------------------------------------------------------------------------
(* The flags of the contexts.                                               *)
LEMMA AllocatesBySteps ==
    ASSUME source \in Programs, NEW f \in Functions
    PROVE  /\ ~AllocatesBy(f, 0)
           /\ \A n \in Nat : AllocatesBy(f, n + 1) <=>
                \/ AllocatesBy(f, n)
                \/ Body(f)[n + 1].op = "call" /\ Allocating(Body(f)[n + 1].to)
           /\ AllocatesBy(f, Len(Body(f))) <=> Allocates(f)
<1>1. ~AllocatesBy(f, 0)
  <2>1. 1..0 = {}
      OBVIOUS
  <2> QED
      BY <2>1 DEF AllocatesBy
<1>2. ASSUME NEW n \in Nat
      PROVE  AllocatesBy(f, n + 1) <=>
                \/ AllocatesBy(f, n)
                \/ Body(f)[n + 1].op = "call" /\ Allocating(Body(f)[n + 1].to)
  <2>1. 1..(n + 1) = 1..n \cup {n + 1}
      OBVIOUS
  <2>2. PICK m : m = n + 1 /\ 1..m = 1..n \cup {m}
      BY <2>1
  <2> QED
      BY <2>2 DEF AllocatesBy
<1>3. AllocatesBy(f, Len(Body(f))) <=> Allocates(f)
  <2>1. DOMAIN source[f].body = 1..Len(Body(f)) /\ source[f].body = Body(f)
      BY BodyType DEF Body
  <2> QED
      BY <2>1 DEF AllocatesBy, Allocates
<1> QED
    BY <1>1, <1>2, <1>3

(* What a statement adds to the flag.                                       *)
LEMMA CallFlagged ==
    ASSUME source \in Programs, Calling, Top.of \in Functions, InBody(Top), Flagged(Top),
           NEW y, y.of = Top.of, y.code = Tail(Top.code),
           y.requiresGc = (Top.requiresGc \/ Allocating(Callee))
    PROVE  Flagged(y)
<1>1. PICK fr : fr = Top
    OBVIOUS
<1>2. PICK f \in Functions : f = fr.of
    BY <1>1
<1>3. fr.code # <<>>
    BY <1>1 DEF Calling, Due
<1>4. PICK n \in Nat : n = Consumed(fr)
    BY <1>1 DEF InBody
<1>5. Consumed(y) = n + 1 /\ n + 1 \in 1..Len(Body(f)) /\ Head(fr.code) = Body(f)[n + 1]
    BY <1>1, <1>2, <1>3, <1>4, Advanced
<1>6. PICK u : u = Body(f)[n + 1] /\ Callee = u.to /\ Head(Top.code) = u
    BY <1>1, <1>5 DEF Callee
<1>7. AllocatesBy(f, n + 1) <=> AllocatesBy(f, n) \/ (u.op = "call" /\ Allocating(u.to))
    BY <1>6, AllocatesBySteps
<1>8. Allocating(u.to) => u.op = "call"
  <2>1. u.op = "call" \/ u.op = "reference"
      BY <1>6 DEF Calling, Due
  <2>2. ASSUME u.op = "reference" PROVE ~Allocating(u.to)
    <3>1. n + 1 \in DOMAIN source[f].body /\ source[f].body[n + 1] = u
        BY <1>5, <1>6, BodyType DEF Body
    <3>2. PICK k : k = n + 1
        OBVIOUS
    <3>3. source[u.to].kind # "constructor" /\ source[u.to].name # "constructor"
        BY <2>2, <3>1, <3>2, DeclarationsAssumption
    <3> QED
        BY <3>3 DEF Allocating
  <2> QED
      BY <2>1, <2>2
<1>9. y.requiresGc <=> Top.requiresGc \/ Allocating(u.to)
    BY <1>6
<1>10. Top.requiresGc <=> Variadic(f) \/ AllocatesBy(f, n)
    BY <1>1, <1>2, <1>4 DEF Flagged
<1>11. y.requiresGc <=> Variadic(f) \/ AllocatesBy(f, n + 1)
    BY <1>7, <1>8, <1>9, <1>10
<1> QED
    BY <1>1, <1>2, <1>5, <1>11 DEF Flagged

(* The flag of a context is that of the statements that are done.           *)
LEMMA FlagsNext ==
    ASSUME Inv, Placed, FlagsKept, [Next]_vars
    PROVE  FlagsKept'
<1>1. source' = source /\ source \in Programs
    BY SourceStays
<1>2. /\ \A fr : Flagged(fr)' <=> Flagged(fr)
      /\ \A f : Allocates(f)' = Allocates(f)
  <2>1. \A fr : Flagged(fr)' <=> Flagged(fr)
    <3>1. \A f : Variadic(f)' = Variadic(f)
        BY <1>1, BodiesStay
    <3>2. \A fr : Consumed(fr)' = Consumed(fr)
        BY <1>1, BodiesStay
    <3>3. \A f, n : AllocatesBy(f, n)' = AllocatesBy(f, n)
        BY <1>1, BodiesStay
    <3> QED
        BY <3>1, <3>2, <3>3 DEF Flagged
  <2> QED
      BY <1>1, <2>1, BodiesStay
<1>3. \A fr \in InStack' : Flagged(fr)'
  <2>1. CASE InStack' \subseteq InStack
      BY <1>2, <2>1 DEF FlagsKept
  <2>2. ASSUME NEW name, NEW f \in Functions, InStack' \subseteq InStack \cup {Frame(name, f)}
        PROVE  \A fr \in InStack' : Flagged(fr)'
    <3>1. PICK fr : fr = Frame(name, f)
        OBVIOUS
    <3>2. fr.of = f /\ fr.requiresGc = Variadic(f) /\ Consumed(fr) = 0
        BY <1>1, <3>1, Started
    <3>3. Flagged(fr)
        BY <1>1, <3>2, AllocatesBySteps DEF Flagged
    <3> QED
        BY <1>2, <2>2, <3>1, <3>3 DEF FlagsKept
  <2>3. ASSUME NEW y, InStack' \subseteq InStack \cup {y}, Call, Top \in InStack,
               y.of = Top.of, y.code = Tail(Top.code), y.requiresGc = (Top.requiresGc \/ Allocating(Callee))
        PROVE  \A fr \in InStack' : Flagged(fr)'
    <3>1. Calling
        BY <2>3 DEF Call
    <3>2. InBody(Top) /\ Flagged(Top)
        BY <2>3 DEF Placed, FlagsKept
    <3>3. Top.of \in Functions
        BY <3>2 DEF InBody
    <3>4. Flagged(y)
        BY <1>1, <2>3, <3>1, <3>2, <3>3, CallFlagged
    <3> QED
        BY <1>2, <2>3, <3>4 DEF FlagsKept
  <2>4. Entries \subseteq Functions
      BY DEF Entries
  <2> QED
      BY <2>1, <2>2, <2>3, <2>4, StackSteps
<1>4. CASE LeaveEntryFunction
  <2>1. /\ Complete /\ Len(stack) = 1 /\ scopeFunctions' = scopeFunctions \cup {Top.of}
        /\ requiresGc' = (requiresGc \/ Top.requiresGc) /\ status' = status
      BY <1>4 DEF LeaveEntryFunction
  <2>2. Top.code = <<>> /\ stack # <<>> /\ status = "generating"
      BY <2>1 DEF Complete
  <2>3. Top \in InStack
      BY <2>2, TopInStack DEF Inv
  <2>4. PICK fr : fr = Top /\ InBody(fr) /\ Flagged(fr)
      BY <2>3 DEF Placed, FlagsKept
  <2>5. PICK f \in Functions : f = fr.of
      BY <2>4 DEF InBody
  <2>6. IsEntry(f)
      BY <2>1, <2>2, <2>4, <2>5 DEF Inv, EntriesDefined, Top
  <2>7. ~Variadic(f)
      BY <1>1, <2>6, EntryParameters
  <2>8. Consumed(fr) = Len(Body(f))
      BY <1>1, <2>2, <2>4, <2>5, Finished
  <2>9. fr.requiresGc <=> Allocates(f)
      BY <1>1, <2>4, <2>5, <2>7, <2>8, AllocatesBySteps DEF Flagged
  <2>10. requiresGc' <=> \E g \in scopeFunctions' : Allocates(g)
      BY <2>1, <2>4, <2>5, <2>9 DEF FlagsKept
  <2> QED
      BY <1>2, <1>3, <2>1, <2>2, <2>10 DEF FlagsKept
<1>5. CASE CompleteSourceFile
  <2>1. gcReferenced' = requiresGc /\ requiresGc' = requiresGc /\ scopeFunctions' = scopeFunctions
      BY <1>5 DEF CompleteSourceFile
  <2> QED
      BY <1>2, <1>3, <2>1 DEF FlagsKept
<1>6. CASE ~LeaveEntryFunction /\ ~CompleteSourceFile
  <2>1. requiresGc' = requiresGc /\ scopeFunctions' = scopeFunctions
      BY <1>6 DEF Next, Step, Ended, vars, GenerateEntryFunction, Call, DeclareRuntimeFunction, DefineFunction,
         DefineConstructor, Reject, LeaveFunction
  <2>2. status' = "completed" => status = "completed" /\ gcReferenced' = gcReferenced
      BY <1>6 DEF Next, Step, Ended, vars, GenerateEntryFunction, Call, DeclareRuntimeFunction, DefineFunction,
         DefineConstructor, Reject, LeaveFunction
  <2> QED
      BY <1>2, <1>3, <2>1, <2>2 DEF FlagsKept
<1> QED
    BY <1>4, <1>5, <1>6

(* The inductive invariant behind CollectorOfEntryFunctions.                *)
FlagInv == Inv /\ Placed /\ FlagsKept

(* CollectorOfEntryFunctions, for any programs: completeSourceFile links    *)
(* the collector exactly when an entry function of the file allocates       *)
(* itself, in whatever order they are compiled.                             *)
THEOREM CollectorForEntryFunctions == Spec => []CollectorOfEntryFunctions
<1>1. Init => FlagInv
  <2> SUFFICES ASSUME Init PROVE FlagInv
      OBVIOUS
  <2>1. InStack = {}
      BY DEF Init, InStack
  <2>2. ~requiresGc /\ scopeFunctions = {} /\ status # "completed"
      BY DEF Init
  <2> QED
      BY <2>1, <2>2, InitInv DEF FlagInv, Placed, FlagsKept
<1>2. FlagInv /\ [Next]_vars => FlagInv'
    BY NextInv, PlacedNext, FlagsNext DEF FlagInv
<1>3. FlagInv => CollectorOfEntryFunctions
    BY DEF FlagInv, FlagsKept, CollectorOfEntryFunctions, Inv, EntriesDefined
<1> QED
    BY <1>1, <1>2, <1>3, PTL DEF Spec

-----------------------------------------------------------------------------
(* A call leaves an optional parameter without a value.                     *)
UnsetOptional(f, n) == \E i \in 1..Len(Parameters(f)) : Parameters(f)[i] = "optional" /\ n < i

(* The parameters that are used are all of them, or end before the first    *)
(* optional one that is not set.                                            *)
LEMMA UsedOrUnset ==
    ASSUME source \in Programs, NEW f \in Functions, NEW n \in Nat
    PROVE  /\ ~UnsetOptional(f, n) => UsedParameters(f, n) = Parameters(f)
           /\ UnsetOptional(f, n) =>
                /\ Len(UsedParameters(f, n)) < Len(Parameters(f))
                /\ "variadic" \notin ToSet(UsedParameters(f, n))
<1>1. PICK p \in Seq(Modes), q \in Seq(Modes) : p = Parameters(f) /\ q = UsedParameters(f, n)
    BY UsedPrefix
<1>2. PICK k \in 0..Len(p) :
        /\ Len(q) = k
        /\ \A i \in 1..k : q[i] = p[i] /\ ~(p[i] = "optional" /\ n < i)
        /\ k < Len(p) => p[k + 1] = "optional" /\ n < k + 1
    BY <1>1, UsedPrefix
<1>3. PICK z \in Nat : z = Len(p) /\ DOMAIN p = 1..z /\ k \in 0..z
    BY <1>1
<1>4. k < z => k + 1 \in 1..z
    BY <1>3
<1>5. UnsetOptional(f, n) <=> \E i \in 1..z : p[i] = "optional" /\ n < i
    BY <1>1, <1>3 DEF UnsetOptional
<1>6. CASE k < z
  <2>1. UnsetOptional(f, n)
      BY <1>2, <1>3, <1>4, <1>5, <1>6
  <2>2. \A i \in 1..z : p[i] = "variadic" => i = z
      BY <1>1, <1>3, DeclarationsAssumption DEF Parameters
  <2>3. \A i \in 1..k : i \in 1..z /\ i # z
      BY <1>3, <1>6
  <2>4. \A i \in 1..k : q[i] # "variadic"
      BY <1>2, <2>2, <2>3
  <2>5. "variadic" \notin ToSet(q)
      BY <1>2, <2>4, ModesOf
  <2> QED
      BY <1>1, <1>2, <1>3, <1>6, <2>1, <2>5
<1>7. CASE k = z
  <2>1. ~UnsetOptional(f, n)
      BY <1>2, <1>5, <1>7
  <2>2. q = p
      BY <1>2, <1>3, <1>7, SeqEqual
  <2> QED
      BY <1>1, <2>1, <2>2
<1> QED
    BY <1>3, <1>6, <1>7

(* What allocateArguments demands.                                          *)
LEMMA AllocateMeans ==
    ASSUME source \in Programs, NEW f \in Functions, NEW n \in Nat
    PROVE  ArgumentsAllocate(f, n) <=> ~UnsetOptional(f, n) /\ (source[f].kind = "method" => ~Variadic(f))
<1>1. PICK p \in Seq(Modes), q \in Seq(Modes) : p = Parameters(f) /\ q = UsedParameters(f, n)
    BY UsedPrefix
<1>2. PICK z \in Nat, k \in Nat : z = Len(p) /\ k = Len(q)
    BY <1>1
<1>3. /\ ~UnsetOptional(f, n) => q = p
      /\ UnsetOptional(f, n) => k < z /\ "variadic" \notin ToSet(q)
    BY <1>1, <1>2, UsedOrUnset
<1>4. CASE source[f].kind = "method"
  <2>1. This(f) = 1
      BY <1>4 DEF This
  <2>2. DeclaredArguments(f, n) = 1 + k + (IF "variadic" \in ToSet(q) THEN 1 ELSE 0)
      BY <1>1, <1>2, <2>1 DEF DeclaredArguments
  <2>3. ArgumentsAllocate(f, n) <=> k + (IF "variadic" \in ToSet(q) THEN 1 ELSE 0) = z
    <3>1. CASE "variadic" \in ToSet(q)
      <4>1. DeclaredArguments(f, n) - 1 = k + 1
          BY <2>2, <3>1
      <4> QED
          BY <1>1, <1>2, <1>4, <3>1, <4>1 DEF ArgumentsAllocate
    <3>2. CASE "variadic" \notin ToSet(q)
      <4>1. DeclaredArguments(f, n) - 1 = k + 0
          BY <2>2, <3>2
      <4> QED
          BY <1>1, <1>2, <1>4, <3>2, <4>1 DEF ArgumentsAllocate
    <3> QED
        BY <3>1, <3>2
  <2>4. CASE UnsetOptional(f, n)
      BY <1>3, <2>3, <2>4
  <2>5. CASE ~UnsetOptional(f, n)
    <3>1. k = z /\ ("variadic" \in ToSet(q) <=> Variadic(f))
        BY <1>1, <1>2, <1>3, <2>5 DEF Variadic
    <3> QED
        BY <1>4, <2>3, <2>5, <3>1
  <2> QED
      BY <2>4, <2>5
<1>5. CASE source[f].kind # "method"
  <2>1. ArgumentsAllocate(f, n) <=> q = p
      BY <1>1, <1>5 DEF ArgumentsAllocate
  <2>2. q = p => k = z
      BY <1>2
  <2> QED
      BY <1>2, <1>3, <1>5, <2>1, <2>2
<1> QED
    BY <1>4, <1>5

(* What the code generator refuses, in terms of the callee.                 *)
LEMMA UnsupportedMeans ==
    ASSUME source \in Programs, NEW u \in Uses, u.op \in {"call", "reference"},
           NEW f \in Functions, f = u.to,
           NEW n \in Nat, u.op = "call" => n = u.args,
           u.op = "reference" => n = Len(Parameters(f))
    PROVE  UnsupportedUse(u) <=>
             \/ u.op = "reference" /\ "optional" \in ToSet(Parameters(f))
             \/ source[f].kind # "runtime" /\ source[f].breaks # {}
             \/ source[f].kind \in {"function", "method"} /\ UnsetOptional(f, n)
             \/ source[f].kind \in {"method", "constructor"} /\ Variadic(f)
<1>1. PICK p \in Seq(Modes) : p = Parameters(f) /\ p = source[f].parameters
    BY UsedPrefix DEF Parameters
<1>2. PICK z \in Nat : z = Len(p) /\ DOMAIN p = 1..z
    BY <1>1
<1>3. "optional" \in ToSet(p) <=> \E i \in 1..z : p[i] = "optional"
    BY <1>2, ModesOf
<1>4. CASE u.op = "call"
  <2>1. UnsetOptional(f, n) <=> \E i \in 1..z : p[i] = "optional" /\ u.args < i
      BY <1>1, <1>2, <1>4 DEF UnsetOptional
  <2> QED
      BY <1>1, <1>2, <1>4, <2>1 DEF UnsupportedUse, Variadic
<1>5. CASE u.op = "reference"
  <2>1. ~UnsetOptional(f, n)
    <3>1. n = z
        BY <1>1, <1>2, <1>5
    <3>2. \A i \in 1..z : ~(n < i)
        BY <3>1
    <3> QED
        BY <1>1, <1>2, <3>2 DEF UnsetOptional
  <2>2. (\E i \in DOMAIN source[f].parameters : source[f].parameters[i] = "optional") <=> "optional" \in ToSet(p)
      BY <1>1, <1>2, <1>3
  <2> QED
      BY <1>1, <1>5, <2>1, <2>2 DEF UnsupportedUse, Variadic
<1> QED
    BY <1>4, <1>5

-----------------------------------------------------------------------------
(* Reachable is closed, and the least such set.                             *)
LEMMA ReachableClosed ==
    ASSUME source \in Programs
    PROVE  /\ Entries \subseteq Reachable
           /\ \A f \in Reachable : f \in Functions /\ \A j \in 1..Len(Body(f)) : Body(f)[j].to \in Reachable
<1>1. Entries \subseteq Functions
    BY DEF Entries
<1>2. Entries \subseteq Reachable
    BY <1>1 DEF Reachable
<1>3. ASSUME NEW f \in Reachable PROVE f \in Functions /\ \A j \in 1..Len(Body(f)) : Body(f)[j].to \in Reachable
  <2>1. f \in Functions /\ \A S \in SUBSET Functions :
          Entries \subseteq S /\ (\A g \in S : Used(g) \subseteq S) => f \in S
      BY <1>3 DEF Reachable
  <2>2. SUFFICES ASSUME NEW j \in 1..Len(Body(f)) PROVE Body(f)[j].to \in Reachable
      BY <2>1
  <2>3. PICK b \in Seq(Uses) : b = Body(f) /\ b = source[f].body
      BY <2>1, BodyType DEF Body
  <2>4. j \in DOMAIN b /\ b[j] \in Uses
      BY <2>2, <2>3
  <2>5. b[j].to \in Used(f) /\ b[j].to \in Functions
      BY <2>3, <2>4, ProgramsAssumption DEF Used
  <2>6. ASSUME NEW S \in SUBSET Functions, Entries \subseteq S, \A g \in S : Used(g) \subseteq S
        PROVE  b[j].to \in S
      BY <2>1, <2>5, <2>6
  <2> QED
      BY <2>3, <2>5, <2>6 DEF Reachable
<1> QED
    BY <1>2, <1>3

LEMMA ReachableLeast ==
    ASSUME source \in Programs, NEW S \in SUBSET Functions, Entries \subseteq S,
           \A f \in S : \A j \in 1..Len(Body(f)) : Body(f)[j].to \in S
    PROVE  Reachable \subseteq S
<1>1. ASSUME NEW f \in S PROVE Used(f) \subseteq S
  <2>1. f \in Functions
      OBVIOUS
  <2>2. DOMAIN source[f].body = 1..Len(Body(f)) /\ source[f].body = Body(f)
      BY <2>1, BodyType DEF Body
  <2> QED
      BY <2>2 DEF Used
<1> QED
    BY <1>1 DEF Reachable

(* A use is done when the function it names is in the module.               *)
LEMMA DueUse ==
    ASSUME NamedInv, Placed, Calling
    PROVE  \E u \in Uses, f \in Functions, j \in Nat :
             /\ u = Head(Top.code) /\ f = Callee /\ f = u.to /\ u.op \in {"call", "reference"}
             /\ Top \in InStack /\ Top.of \in Functions
             /\ j \in 1..Len(Body(Top.of)) /\ u = Body(Top.of)[j]
             /\ \A y : y.of = Top.of /\ y.code = Tail(Top.code) => Consumed(y) = j /\ Consumed(Top) = j - 1
             /\ Passed \in Nat /\ (u.op = "call" => Passed = u.args)
             /\ (u.op = "reference" => Passed = Len(Parameters(f)))
             /\ Dereferenceable <=> ~(u.op = "reference" /\ "optional" \in ToSet(Parameters(f)))
<1>1. stack # <<>> /\ Top.code # <<>> /\ Head(Top.code).op \in {"call", "reference"} /\ Callee \in Functions
    BY CalleeProperties DEF NamedInv, Inv, Calling, Due
<1>2. Top \in InStack /\ InBody(Top) /\ source \in Programs
    BY <1>1, TopInStack DEF NamedInv, Inv, Shape, Placed
<1>3. PICK fr : fr = Top /\ InBody(fr) /\ fr.code # <<>>
    BY <1>1, <1>2
<1>4. PICK c \in Seq(Uses) : c = fr.code /\ c # <<>>
    BY <1>3 DEF InBody
<1>5. Head(c) \in Uses /\ Tail(c) \in Seq(Uses)
    BY <1>4, HeadTailProperties
<1>6. PICK m \in Nat : m = Consumed(fr)
    BY <1>3 DEF InBody
<1>7. \A y : y.of = fr.of /\ y.code = Tail(fr.code) =>
        Consumed(y) = m + 1 /\ m + 1 \in 1..Len(Body(fr.of)) /\ Head(fr.code) = Body(fr.of)[m + 1]
    BY <1>2, <1>3, <1>6, Advanced
<1>8. m + 1 \in 1..Len(Body(fr.of)) /\ Head(fr.code) = Body(fr.of)[m + 1]
  <2>1. PICK y : y = [fr EXCEPT !.code = Tail(fr.code)]
      OBVIOUS
  <2>2. PICK z : z = [of |-> fr.of, code |-> Tail(fr.code)]
      OBVIOUS
  <2>3. z.of = fr.of /\ z.code = Tail(fr.code)
      BY <2>2
  <2> QED
      BY <1>7, <2>3
<1>9. PICK j \in Nat : j = m + 1 /\ m = j - 1
    OBVIOUS
<1>10. PICK u \in Uses : u = Head(fr.code) /\ u = Head(Top.code)
    BY <1>3, <1>4, <1>5
<1>11. PICK f \in Functions : f = Callee /\ f = u.to
    BY <1>1, <1>10 DEF Callee
<1>12. Passed \in Nat
    BY PassedType DEF NamedInv
<1>13. /\ u.op = "call" => Passed = u.args
       /\ u.op = "reference" => Passed = Len(Parameters(f))
    BY <1>10, <1>11 DEF Passed
<1>14. Dereferenceable <=> ~(u.op = "reference" /\ "optional" \in ToSet(Parameters(f)))
    BY <1>10, <1>11 DEF Dereferenceable
<1>15. j \in 1..Len(Body(Top.of)) /\ u = Body(Top.of)[j] /\ Top.of \in Functions
    BY <1>3, <1>8, <1>9, <1>10 DEF InBody
<1>16. \A y : y.of = Top.of /\ y.code = Tail(Top.code) => Consumed(y) = j /\ Consumed(Top) = j - 1
    BY <1>3, <1>6, <1>7, <1>9
<1> QED
    BY <1>1, <1>2, <1>10, <1>11, <1>12, <1>13, <1>14, <1>15, <1>16

(* A function that is found in the module was accepted, for the same        *)
(* parameters.                                                              *)
LEMMA FoundUse ==
    ASSUME NamedInv, Placed, Supported, Calling, Dereferenceable, NEW r \in module, r.name = Target
    PROVE  r.of = Callee /\ ~UnsupportedUse(Head(Top.code))
<1>1. PICK u \in Uses, f \in Functions, j \in Nat :
             /\ u = Head(Top.code) /\ f = Callee /\ f = u.to /\ u.op \in {"call", "reference"}
             /\ Passed \in Nat /\ (u.op = "call" => Passed = u.args)
             /\ (u.op = "reference" => Passed = Len(Parameters(f)))
             /\ Dereferenceable <=> ~(u.op = "reference" /\ "optional" \in ToSet(Parameters(f)))
    BY DueUse
<1>2. PICK n \in Nat : n = Passed
    BY <1>1
<1>3. source \in Programs /\ Compiled(r) /\ ~Bare(f) /\ NamesUnambiguous
    BY DEF NamedInv, NamedAfter, Inv, Shape, Supported
<1>4. r.name = Mangle(f, n) \/ (IsEntry(f) /\ r.name = EntryName(f))
    BY <1>1, <1>2 DEF Target, NamedInv, Inv, Shape, Entries
<1>5. r.of = f
    BY <1>3, <1>4, NamedAlike
<1>6. SUFFICES ASSUME ~(u.op = "reference" /\ "optional" \in ToSet(Parameters(f)))
               PROVE  /\ ~(source[f].kind # "runtime" /\ source[f].breaks # {})
                      /\ ~(source[f].kind \in {"function", "method"} /\ UnsetOptional(f, n))
                      /\ ~(source[f].kind \in {"method", "constructor"} /\ Variadic(f))
  <2>1. UnsupportedUse(u) <=>
             \/ u.op = "reference" /\ "optional" \in ToSet(Parameters(f))
             \/ source[f].kind # "runtime" /\ source[f].breaks # {}
             \/ source[f].kind \in {"function", "method"} /\ UnsetOptional(f, n)
             \/ source[f].kind \in {"method", "constructor"} /\ Variadic(f)
      BY <1>1, <1>2, <1>3, UnsupportedMeans
  <2> QED
      BY <1>1, <1>5, <1>6, <2>1
<1>7. CASE IsEntry(f) /\ r.name = EntryName(f)
  <2>1. source[f].breaks = {}
      BY <1>7 DEF Supported, Entries
  <2>2. "optional" \notin ToSet(Parameters(f)) /\ ~Variadic(f) /\ source[f].kind = "function"
      BY <1>3, <1>7, EntryParameters
  <2>3. ~UnsetOptional(f, n)
    <3>1. Parameters(f) \in Seq(Modes)
        BY <1>3, UsedPrefix
    <3>2. \A i \in 1..Len(Parameters(f)) : Parameters(f)[i] # "optional"
        BY <2>2, <3>1, ModesOf
    <3> QED
        BY <3>2 DEF UnsetOptional
  <2> QED
      BY <2>1, <2>2, <2>3
<1>8. CASE r.name = Mangle(f, n)
  <2>1. PICK m \in Nat : r.name = Mangle(f, m) /\ Accepted(f, m)
      BY <1>3, <1>5, <1>8, EntryNameMangle DEF Compiled
  <2>2. CASE source[f].kind \in {"function", "method"}
    <3>1. source[f].breaks = {} /\ ArgumentsAllocate(f, m)
        BY <2>1, <2>2 DEF Accepted
    <3>2. ~UnsetOptional(f, m) /\ (source[f].kind = "method" => ~Variadic(f))
        BY <1>3, <3>1, AllocateMeans
    <3>3. NamedParameters(f, n) = NamedParameters(f, m)
        BY <1>3, <1>8, <2>1, MangleParameters
    <3>4. UsedParameters(f, n) = Parameters(f)
        BY <1>3, <2>2, <3>2, <3>3, UsedOrUnset DEF NamedParameters
    <3>5. ~UnsetOptional(f, n)
      <4>1. PICK p \in Seq(Modes) : p = Parameters(f)
          BY <1>3, UsedPrefix
      <4>2. PICK z \in Nat : z = Len(p)
          BY <4>1
      <4>3. UnsetOptional(f, n) => z < z
          BY <1>3, <3>4, <4>1, <4>2, UsedOrUnset
      <4> QED
          BY <4>3
    <3> QED
        BY <2>2, <3>1, <3>2, <3>5
  <2>3. CASE source[f].kind \notin {"function", "method"}
      BY <2>1, <2>3 DEF Accepted
  <2> QED
      BY <2>2, <2>3
<1> QED
    BY <1>4, <1>7, <1>8

(* What is refused is not supported.                                        *)
LEMMA RejectedUse ==
    ASSUME NamedInv, Placed, Reject
    PROVE  UnsupportedUse(Head(Top.code))
<1>1. Calling
    BY DEF Reject, Creating, Constructing
<1>2. PICK u \in Uses, f \in Functions, j \in Nat :
             /\ u = Head(Top.code) /\ f = Callee /\ f = u.to /\ u.op \in {"call", "reference"}
             /\ Passed \in Nat /\ (u.op = "call" => Passed = u.args)
             /\ (u.op = "reference" => Passed = Len(Parameters(f)))
             /\ Dereferenceable <=> ~(u.op = "reference" /\ "optional" \in ToSet(Parameters(f)))
    BY <1>1, DueUse
<1>3. PICK n \in Nat : n = Passed
    BY <1>2
<1>4. source \in Programs
    BY DEF NamedInv, Inv, Shape
<1>5. UnsupportedUse(u) <=>
             \/ u.op = "reference" /\ "optional" \in ToSet(Parameters(f))
             \/ source[f].kind # "runtime" /\ source[f].breaks # {}
             \/ source[f].kind \in {"function", "method"} /\ UnsetOptional(f, n)
             \/ source[f].kind \in {"method", "constructor"} /\ Variadic(f)
    BY <1>2, <1>3, <1>4, UnsupportedMeans
<1>6. ArgumentsAllocate(f, n) <=> ~UnsetOptional(f, n) /\ (source[f].kind = "method" => ~Variadic(f))
    BY <1>4, AllocateMeans
<1> QED
    BY <1>2, <1>3, <1>5, <1>6 DEF Reject, Creating, Constructing

-----------------------------------------------------------------------------
(* What is done stays done while the module grows.                          *)
LEMMA UsesStay ==
    ASSUME source' = source, module \subseteq module'
    PROVE  /\ \A u : UnsupportedUse(u)' = UnsupportedUse(u)
           /\ \A u : Done(u) => Done(u)'
           /\ \A f : BodyDone(f) => BodyDone(f)'
           /\ \A fr : FrameDone(fr) => FrameDone(fr)'
           /\ Supported' = Supported /\ Reachable' = Reachable
<1>1. \A u : UnsupportedUse(u)' = UnsupportedUse(u)
    BY DEF UnsupportedUse
<1>2. \A u : Done(u) => Done(u)'
    BY <1>1 DEF Done
<1>3. \A f : Body(f)' = Body(f)
    BY BodiesStay
<1>4. \A fr : Consumed(fr)' = Consumed(fr)
    BY BodiesStay
<1>5. \A f : BodyDone(f) => BodyDone(f)'
    BY <1>2, <1>3 DEF BodyDone
<1>6. Entries' = Entries
    BY NamesStay
<1>7. \A f : Used(f)' = Used(f)
    BY DEF Used
<1>8. Reachable' = Reachable
    BY <1>6, <1>7 DEF Reachable
<1>9. \A fr : FrameDone(fr) => FrameDone(fr)'
    BY <1>2, <1>3, <1>4, <1>8 DEF FrameDone
<1>10. Supported' = Supported
  <2>1. NamesUnambiguous' = NamesUnambiguous
      BY DEF NamesUnambiguous, Identity
  <2>2. \A f : Bare(f)' = Bare(f)
      BY DEF Bare, Parameters
  <2> QED
      BY <1>6, <2>1, <2>2 DEF Supported
<1> QED
    BY <1>1, <1>2, <1>5, <1>8, <1>9, <1>10

(* What a step has to keep.                                                 *)
LEMMA UsesKept ==
    ASSUME Supported, UsesDone, source' = source, module \subseteq module',
           \A fr \in InStack' : fr \in InStack \/ FrameDone(fr)',
           \A r \in module' : r.name \in defined' =>
              (r \in module /\ r.name \in defined) \/ BodyDone(r.of)',
           status' = status \/ status' = "completed"
    PROVE  UsesDone'
<1>1. /\ \A f : BodyDone(f) => BodyDone(f)'
      /\ \A fr : FrameDone(fr) => FrameDone(fr)'
      /\ \A u : UnsupportedUse(u)' = UnsupportedUse(u)
      /\ Reachable' = Reachable
    BY UsesStay
<1>2. \A f : Body(f)' = Body(f)
    BY BodiesStay
<1>3. \A fr \in InStack' : FrameDone(fr)'
    BY <1>1 DEF UsesDone
<1>4. \A r \in module' : r.name \in defined' => BodyDone(r.of)'
    BY <1>1 DEF UsesDone
<1>5. status' \in {"generating", "failed", "completed"}
    BY DEF UsesDone
<1>6. status' = "failed" => \E f \in Reachable' : \E j \in 1..Len(Body(f)') : UnsupportedUse(Body(f)[j])'
  <2>1. SUFFICES ASSUME status' = "failed"
                 PROVE  \E f \in Reachable' : \E j \in 1..Len(Body(f)') : UnsupportedUse(Body(f)[j])'
      OBVIOUS
  <2>2. PICK f \in Reachable : \E j \in 1..Len(Body(f)) : UnsupportedUse(Body(f)[j])
      BY <2>1 DEF UsesDone
  <2> QED
      BY <1>1, <1>2, <2>2 DEF UnsupportedUse
<1> QED
    BY <1>3, <1>4, <1>5, <1>6 DEF UsesDone

-----------------------------------------------------------------------------
(* A name that is defined is that of one function.                          *)
LEMMA DefinedName ==
    ASSUME NamedInv, Supported, UsesDone, NEW name, name \in defined, NEW f \in Functions, NEW n \in Nat,
           name = Mangle(f, n) \/ (IsEntry(f) /\ name = EntryName(f))
    PROVE  BodyDone(f)
<1>1. PICK r \in module : r.name = name
    BY DEF NamedInv, Inv, Declared, Names
<1>2. r.of = f
    BY <1>1, NamedAlike DEF Supported
<1> QED
    BY <1>1, <1>2 DEF UsesDone

(* A function of the runtime has no body.                                   *)
LEMMA RuntimeDone ==
    ASSUME source \in Programs, NEW f \in Functions, source[f].kind = "runtime"
    PROVE  BodyDone(f)
<1>1. Body(f) = <<>>
    BY DeclarationsAssumption DEF Body
<1>2. Len(Body(f)) = 0 /\ 1..0 = {}
    BY <1>1
<1> QED
    BY <1>2 DEF BodyDone

(* A function starts.                                                       *)
Starts(name, f, r) ==
    /\ f \in Reachable /\ r.name = name /\ r.of = f
    /\ module \subseteq module' /\ r \in module'
    /\ \A x \in module' : x \in module \/ x = r \/ (source[x.of].kind = "runtime" /\ x.of \in Functions)
    /\ name \in defined => BodyDone(f)
    /\ InStack' \subseteq InStack \cup {Frame(name, f)}

LEMMA StartDone ==
    ASSUME NamedInv, Supported, UsesDone, source' = source, defined' = defined,
           status' = status, NEW name, NEW f, NEW r, Starts(name, f, r)
    PROVE  UsesDone'
<1>0. /\ f \in Reachable /\ r.name = name /\ r.of = f
      /\ module \subseteq module' /\ r \in module'
      /\ \A x \in module' : x \in module \/ x = r \/ (source[x.of].kind = "runtime" /\ x.of \in Functions)
      /\ name \in defined => BodyDone(f)
      /\ InStack' \subseteq InStack \cup {Frame(name, f)}
    BY DEF Starts
<1>1. source \in Programs /\ f \in Functions
    BY <1>0, ReachableClosed DEF NamedInv, Inv, Shape
<1>2. PICK fr : fr = Frame(name, f)
    OBVIOUS
<1>3. fr.of = f /\ fr.name = name /\ Consumed(fr) = 0
    BY <1>1, <1>2, Started
<1>4. Reachable' = Reachable /\ \A g : BodyDone(g) => BodyDone(g)'
    BY <1>0, UsesStay
<1>5. Consumed(fr)' = 0
    BY <1>3, BodiesStay
<1>6. FrameDone(fr)'
  <2>1. 1..0 = {}
      OBVIOUS
  <2> QED
      BY <1>0, <1>3, <1>4, <1>5, <2>1 DEF FrameDone
<1>7. \A x \in InStack' : x \in InStack \/ FrameDone(x)'
    BY <1>0, <1>2, <1>6
<1>8. ASSUME NEW x \in module', x.name \in defined'
      PROVE  (x \in module /\ x.name \in defined) \/ BodyDone(x.of)'
  <2>1. CASE x \in module
      BY <1>8, <2>1
  <2>2. CASE x = r
      BY <1>0, <1>4, <1>8, <2>2
  <2>3. CASE source[x.of].kind = "runtime" /\ x.of \in Functions
      BY <1>1, <1>4, <2>3, RuntimeDone
  <2> QED
      BY <1>0, <2>1, <2>2, <2>3
<1> QED
    BY <1>0, <1>7, <1>8, UsesKept

(* Every step leaves the uses behind it done.                               *)
LEMMA UsesDoneNext ==
    ASSUME NamedInv, Placed, Supported, UsesDone, [Next]_vars
    PROVE  UsesDone'
<1>1. source' = source /\ source \in Programs
    BY SourceStays DEF NamedInv
<1>2. ASSUME NEW f \in Functions, GenerateEntryFunction(f) PROVE UsesDone'
  <2>1. PICK r : r = Declaration(EntryName(f), f, BuilderArguments(f))
      OBVIOUS
  <2>2. r.name = EntryName(f) /\ r.of = f
      BY <2>1 DEF Declaration
  <2>3. /\ IsEntry(f) /\ module' = module \cup {r} /\ defined' = defined /\ status' = status
        /\ stack = <<>> /\ stack' = <<Frame(EntryName(f), f)>>
      BY <1>2, <2>1 DEF GenerateEntryFunction
  <2>4. f \in Reachable
      BY <1>1, <2>3, ReachableClosed DEF Entries
  <2>5. stack' = Append(stack, Frame(EntryName(f), f))
      BY <2>3
  <2>6. InStack' \subseteq InStack \cup {Frame(EntryName(f), f)}
      BY <2>5, StackPushed DEF NamedInv, Inv
  <2>7. EntryName(f) \in defined => BodyDone(f)
    <3>1. 0 \in Nat
        OBVIOUS
    <3> QED
        BY <2>3, <3>1, DefinedName
  <2>8. PICK name : name = EntryName(f)
      OBVIOUS
  <2>9. /\ module \subseteq module' /\ r \in module' /\ \A x \in module' : x \in module \/ x = r
        /\ name \in defined => BodyDone(f)
        /\ r.name = name /\ InStack' \subseteq InStack \cup {Frame(name, f)}
      BY <2>2, <2>3, <2>6, <2>7, <2>8
  <2>10. Starts(name, f, r)
      BY <2>2, <2>4, <2>9 DEF Starts
  <2> QED
      BY <1>1, <2>3, <2>10, StartDone
<1>3. CASE Call
  <2>1. /\ Calling /\ Dereferenceable /\ InModule(Target) /\ module' = module /\ defined' = defined
        /\ status' = status /\ stack' = Advance(Allocating(Callee))
      BY <1>3 DEF Call
  <2>2. PICK r \in module : r.name = Target
      BY <2>1 DEF InModule
  <2>3. r.of = Callee /\ ~UnsupportedUse(Head(Top.code))
      BY <2>1, <2>2, FoundUse
  <2>4. PICK u \in Uses, f \in Functions, j \in Nat :
             /\ u = Head(Top.code) /\ f = Callee /\ f = u.to
             /\ Top \in InStack /\ Top.of \in Functions
             /\ j \in 1..Len(Body(Top.of)) /\ u = Body(Top.of)[j]
             /\ \A y : y.of = Top.of /\ y.code = Tail(Top.code) => Consumed(y) = j /\ Consumed(Top) = j - 1
      BY <2>1, DueUse
  <2>5. Done(u)
      BY <2>2, <2>3, <2>4 DEF Done
  <2>6. PICK y : /\ InStack' \subseteq InStack \cup {y}
                 /\ y.name = Top.name /\ y.of = Top.of /\ y.code = Tail(Top.code)
    <3>1. Allocating(Callee) \in BOOLEAN
        BY DEF Allocating
    <3>2. PICK a \in BOOLEAN : a = Allocating(Callee)
        BY <3>1
    <3> QED
        BY <2>1, <3>2, StackAdvanced DEF NamedInv, Inv
  <2>7. PICK fr : fr = Top /\ FrameDone(fr)
      BY <2>4 DEF UsesDone
  <2>8. FrameDone(y)
    <3>1. Consumed(y) = j /\ Consumed(fr) = j - 1
        BY <2>4, <2>6, <2>7
    <3>2. \A i \in 1..j : i = j \/ i \in 1..(j - 1)
        OBVIOUS
    <3>3. \A i \in 1..(j - 1) : Done(Body(fr.of)[i])
        BY <2>7, <3>1 DEF FrameDone
    <3>4. \A i \in 1..j : Done(Body(y.of)[i])
        BY <2>4, <2>5, <2>6, <2>7, <3>2, <3>3
    <3> QED
        BY <2>6, <2>7, <3>1, <3>4 DEF FrameDone
  <2>9. FrameDone(y)'
      BY <1>1, <2>1, <2>8, UsesStay
  <2> QED
      BY <1>1, <2>1, <2>6, <2>9, UsesKept
<1>4. CASE DefineFunction \/ DefineConstructor
  <2>1. Calling /\ ~InModule(Target) /\ defined' = defined /\ status' = status /\ stack' = Append(stack, Frame(Target, Callee))
      BY <1>4 DEF DefineFunction, DefineConstructor, Creating, Constructing
  <2>2. PICK r, d : /\ r.name = Target /\ r.of = Callee /\ d.of = ArrayConstructor
                    /\ module' = module \cup {r} \/ module' = module \cup {r, d}
    <3>1. CASE DefineFunction
      <4>1. PICK r, d : /\ r = Declaration(Target, Callee, DeclaredArguments(Callee, Passed))
                        /\ d = Declaration(Mangle(ArrayConstructor, 1), ArrayConstructor, 2)
          OBVIOUS
      <4>2. r.name = Target /\ r.of = Callee /\ d.of = ArrayConstructor
          BY <4>1 DEF Declaration
      <4>3. \/ module' = module \cup {r} \cup {}
            \/ module' = module \cup {r} \cup {d}
          BY <3>1, <4>1 DEF DefineFunction
      <4>4. module' = module \cup {r} \/ module' = module \cup {r, d}
          BY <4>3
      <4> QED
          BY <4>2, <4>4
    <3>2. CASE DefineConstructor
      <4>1. PICK r, d : /\ r = Declaration(Target, Callee, BuilderArguments(Callee))
                        /\ d = Declaration(Target, ArrayConstructor, 2)
          OBVIOUS
      <4>2. r.name = Target /\ r.of = Callee /\ d.of = ArrayConstructor
          BY <4>1 DEF Declaration
      <4> QED
          BY <3>2, <4>1, <4>2 DEF DefineConstructor
    <3> QED
        BY <1>4, <3>1, <3>2
  <2>3. InStack' \subseteq InStack \cup {Frame(Target, Callee)}
      BY <2>1, StackPushed DEF NamedInv, Inv
  <2>4. Callee \in Reachable
    <3>1. PICK u \in Uses, f \in Functions, j \in Nat :
             /\ u = Head(Top.code) /\ f = Callee /\ f = u.to /\ Top \in InStack
             /\ j \in 1..Len(Body(Top.of)) /\ u = Body(Top.of)[j]
        BY <2>1, DueUse
    <3>2. Top.of \in Reachable
        BY <3>1 DEF UsesDone, FrameDone
    <3> QED
        BY <1>1, <3>1, <3>2, ReachableClosed
  <2>5. Target \notin defined
      BY <2>1 DEF NamedInv, Inv, Declared, Names, InModule
  <2>6. ArrayConstructor \in Functions /\ source[ArrayConstructor].kind = "runtime"
      BY <1>1, ArrayConstructorAssumption
  <2>7. \A x \in module' : x \in module \/ x = r \/ (source[x.of].kind = "runtime" /\ x.of \in Functions)
      BY <2>2, <2>6
  <2>8. r \in module' /\ module \subseteq module'
      BY <2>2
  <2>9. PICK name : name = Target
      OBVIOUS
  <2>f. PICK f \in Reachable : f = Callee
      BY <2>4
  <2>10. /\ name \notin defined /\ r.name = name /\ r.of = f
         /\ InStack' \subseteq InStack \cup {Frame(name, f)}
      BY <2>2, <2>3, <2>5, <2>9, <2>f
  <2>11. Starts(name, f, r)
      BY <2>7, <2>8, <2>10 DEF Starts
  <2> QED
      BY <1>1, <2>1, <2>11, StartDone
<1>5. CASE DeclareRuntimeFunction
  <2>1. Calling /\ defined' = defined /\ status' = status /\ stack' = stack /\ source[Callee].kind = "runtime"
      BY <1>5 DEF DeclareRuntimeFunction
  <2>2. PICK r : r.of = Callee /\ module' = module \cup {r}
    <3>1. PICK r : r = Declaration(Target, Callee, DeclaredArguments(Callee, Passed))
        OBVIOUS
    <3>2. r.of = Callee
        BY <3>1 DEF Declaration
    <3> QED
        BY <1>5, <3>1, <3>2 DEF DeclareRuntimeFunction
  <2>3. BodyDone(Callee)
      BY <1>1, <2>1, CalleeProperties, RuntimeDone DEF NamedInv, Inv
  <2>4. PICK f : f = Callee
      OBVIOUS
  <2>5. BodyDone(f)'
      BY <1>1, <2>2, <2>3, <2>4, UsesStay
  <2>6. \A x \in module' : x \in module \/ BodyDone(x.of)'
      BY <2>2, <2>4, <2>5
  <2>7. InStack' = InStack
      BY <2>1 DEF InStack
  <2> QED
      BY <1>1, <2>1, <2>2, <2>6, <2>7, UsesKept
<1>6. CASE LeaveFunction \/ LeaveEntryFunction
  <2>1. /\ Complete /\ defined' = defined \cup {Top.name} /\ module' = module /\ status' = status
        /\ stack' = Front(stack) \/ stack' = <<>>
      BY <1>6 DEF LeaveFunction, LeaveEntryFunction
  <2>2. stack # <<>> /\ Top.code = <<>>
      BY <2>1 DEF Complete
  <2>3. InStack' \subseteq InStack /\ Top \in InStack
      BY <2>1, <2>2, StackPopped DEF NamedInv, Inv
  <2>4. PICK fr : fr = Top /\ FrameDone(fr) /\ InBody(fr)
      BY <2>3 DEF UsesDone, Placed
  <2>5. PICK f \in Functions : f = fr.of
      BY <2>4 DEF InBody
  <2>6. BodyDone(f)
      BY <1>1, <2>2, <2>4, <2>5, Finished DEF FrameDone, BodyDone
  <2>7. PICK r \in module : r.name = fr.name /\ r.of = f
      BY <2>4, <2>5 DEF FrameDone
  <2>8. ASSUME NEW x \in module, x.name = fr.name PROVE x.of = f
    <3>1. Compiled(r)
        BY DEF NamedInv, NamedAfter
    <3>2. PICK n \in Nat : x.name = Mangle(f, n) \/ (IsEntry(f) /\ x.name = EntryName(f))
        BY <2>7, <2>8, <3>1 DEF Compiled
    <3> QED
        BY <2>8, <3>2, NamedAlike DEF Supported
  <2>9. BodyDone(f)'
      BY <1>1, <2>1, <2>6, UsesStay
  <2>10. \A x \in module' : x.name \in defined' => (x \in module /\ x.name \in defined) \/ BodyDone(x.of)'
    <3> SUFFICES ASSUME NEW x \in module', x.name \in defined', x.name \notin defined PROVE BodyDone(x.of)'
        BY <2>1
    <3>1. x \in module /\ x.name = fr.name
        BY <2>1, <2>4
    <3>2. x.of = f
        BY <2>8, <3>1
    <3> QED
        BY <2>9, <3>2
  <2> QED
      BY <1>1, <2>1, <2>3, <2>10, UsesKept
<1>7. CASE Reject
  <2>1. Calling /\ module' = module /\ defined' = defined /\ stack' = stack /\ status' = "failed"
      BY <1>7 DEF Reject, Creating, Constructing
  <2>2. UnsupportedUse(Head(Top.code))
      BY <1>7, RejectedUse
  <2>3. PICK u \in Uses, f \in Functions, j \in Nat :
             /\ u = Head(Top.code) /\ Top \in InStack
             /\ j \in 1..Len(Body(Top.of)) /\ u = Body(Top.of)[j]
      BY <2>1, DueUse
  <2>4. Top.of \in Reachable
      BY <2>3 DEF UsesDone, FrameDone
  <2>5. PICK g : g = Top.of
      OBVIOUS
  <2>6. \A x : UnsupportedUse(x)' = UnsupportedUse(x)
      BY <1>1, <2>1, UsesStay
  <2>7. Reachable' = Reachable
      BY <1>1, <2>1, UsesStay
  <2>8. Body(g)' = Body(g)
      BY <1>1, BodiesStay
  <2>9. g \in Reachable /\ j \in 1..Len(Body(g)) /\ UnsupportedUse(Body(g)[j])
      BY <2>2, <2>3, <2>4, <2>5
  <2>10. \E h \in Reachable' : \E i \in 1..Len(Body(h)') : UnsupportedUse(Body(h)[i])'
      BY <1>1, <2>7, <2>8, <2>9 DEF UnsupportedUse
  <2>11. InStack' = InStack
      BY <2>1 DEF InStack
  <2>12. /\ \A fr : FrameDone(fr) => FrameDone(fr)'
         /\ \A h : BodyDone(h) => BodyDone(h)'
      BY <1>1, <2>1, UsesStay
  <2> QED
      BY <2>1, <2>10, <2>11, <2>12 DEF UsesDone
<1>8. CASE CompleteSourceFile \/ Ended \/ UNCHANGED vars
  <2>1. module' = module /\ defined' = defined /\ stack' = stack /\ (status' = status \/ status' = "completed")
      BY <1>8 DEF CompleteSourceFile, Ended, vars
  <2>2. InStack' = InStack
      BY <2>1 DEF InStack
  <2> QED
      BY <1>1, <2>1, <2>2, UsesKept
<1> QED
    BY <1>2, <1>3, <1>4, <1>5, <1>6, <1>7, <1>8 DEF Next, Step

(* The inductive invariant behind RejectsTheUnsupported.                    *)
DoneInv == NamedInv /\ Placed /\ (Supported => UsesDone)

(* A file that is complete has every function that is reachable.            *)
LEMMA CompletedSupported ==
    ASSUME NamedInv, Supported, UsesDone, status = "completed", NEW f \in Reachable, NEW j \in 1..Len(Body(f))
    PROVE  ~UnsupportedUse(Body(f)[j])
<1>1. source \in Programs
    BY DEF NamedInv, Inv, Shape
<1>2. stack = <<>> /\ scopeFunctions = Entries
    BY DEF NamedInv, Inv, EntriesDefined
<1>3. PICK S \in SUBSET Functions : S = {r.of : r \in module}
    BY DEF NamedInv, Inv, Shape
<1>4. ASSUME NEW r \in module PROVE BodyDone(r.of)
  <2>1. 1..Len(stack) = {}
      BY <1>2
  <2>2. r.name \in defined \/ source[r.of].kind = "runtime"
      BY <2>1 DEF NamedInv, Inv, Accounted
  <2>3. r.of \in Functions
      BY DEF NamedInv, Inv, Shape
  <2> QED
      BY <1>1, <2>2, <2>3, RuntimeDone DEF UsesDone
<1>5. Entries \subseteq S
  <2> SUFFICES ASSUME NEW g \in Entries PROVE g \in S
      OBVIOUS
  <2>1. g \in Functions /\ IsEntry(g) /\ EntryName(g) \in defined
      BY <1>2 DEF NamedInv, Inv, EntriesDefined, Entries
  <2>2. PICK r \in module : r.name = EntryName(g)
      BY <2>1 DEF NamedInv, Inv, Declared, Names
  <2>3. 0 \in Nat
      OBVIOUS
  <2>4. r.of = g
      BY <2>1, <2>2, <2>3, NamedAlike DEF Supported
  <2> QED
      BY <1>3, <2>4
<1>6. \A g \in S : \A i \in 1..Len(Body(g)) : Body(g)[i].to \in S
    BY <1>3, <1>4 DEF BodyDone, Done
<1>7. f \in S
    BY <1>1, <1>5, <1>6, ReachableLeast
<1> QED
    BY <1>3, <1>4, <1>7 DEF BodyDone, Done

(* RejectsTheUnsupported, for any programs: a file is refused exactly when  *)
(* its entry functions reach something the code generator does not support, *)
(* in whatever order functions are created.                                 *)
THEOREM UnsupportedAlwaysRejected == Spec => []RejectsTheUnsupported
<1>1. Init => DoneInv
  <2> SUFFICES ASSUME Init PROVE DoneInv
      OBVIOUS
  <2>1. InStack = {} /\ module = {} /\ status = "generating"
      BY DEF Init, InStack
  <2> QED
      BY <2>1, NamedInit DEF DoneInv, Placed, UsesDone
<1>2. DoneInv /\ [Next]_vars => DoneInv'
  <2> SUFFICES ASSUME DoneInv, [Next]_vars PROVE DoneInv'
      OBVIOUS
  <2>1. NamedInv' /\ Placed'
      BY NamedNext, PlacedNext DEF DoneInv, NamedInv
  <2>2. Supported' = Supported
    <3>1. source' = source
        BY SourceStays DEF DoneInv, NamedInv
    <3>2. Entries' = Entries
        BY <3>1, NamesStay
    <3>3. NamesUnambiguous' = NamesUnambiguous
        BY <3>1 DEF NamesUnambiguous, Identity
    <3>4. \A f : Bare(f)' = Bare(f)
        BY <3>1 DEF Bare, Parameters
    <3> QED
        BY <3>1, <3>2, <3>3, <3>4 DEF Supported
  <2>3. Supported => UsesDone'
      BY UsesDoneNext DEF DoneInv
  <2> QED
      BY <2>1, <2>2, <2>3 DEF DoneInv
<1>3. DoneInv => RejectsTheUnsupported
  <2> SUFFICES ASSUME DoneInv, Supported, status # "generating"
               PROVE  status = "failed" <=>
                        \E f \in Reachable : \E i \in DOMAIN source[f].body : UnsupportedUse(source[f].body[i])
      BY DEF RejectsTheUnsupported, Supported
  <2>1. source \in Programs /\ NamedInv /\ UsesDone
      BY DEF DoneInv, NamedInv, Inv, Shape
  <2>2. \A f \in Reachable : DOMAIN source[f].body = 1..Len(Body(f)) /\ source[f].body = Body(f)
      BY <2>1, ReachableClosed, BodyType DEF Body
  <2>3. status = "completed" => \A f \in Reachable : \A j \in 1..Len(Body(f)) : ~UnsupportedUse(Body(f)[j])
      BY <2>1, CompletedSupported
  <2>4. status = "failed" => \E f \in Reachable : \E j \in 1..Len(Body(f)) : UnsupportedUse(Body(f)[j])
      BY <2>1 DEF UsesDone
  <2>5. status = "failed" \/ status = "completed"
      BY <2>1 DEF UsesDone
  <2> QED
      BY <2>2, <2>3, <2>4, <2>5
<1> QED
    BY <1>1, <1>2, <1>3, PTL DEF Spec

=============================================================================
