----------------------------- MODULE Expressions -----------------------------
(***************************************************************************)
(* The code generated for a statement around an expression, executed one   *)
(* instruction at a time and compared with what ECMAScript says of it.     *)
(***************************************************************************)
EXTENDS JsExpressions

CONSTANTS Programs,   \* the statements compiled
          Starts      \* the environments they start in

VARIABLES
    program,    \* the statement compiled
    start,      \* the environment it starts in
    phase,      \* "running" or "done"; "rejected" by a diagnostic or "invalid" for LLVM
    code,       \* the instructions
    pc,         \* the next instruction
    regs,       \* the registers, Unset before they are computed
    block,      \* the basic block being executed
    previous,   \* the block before it
    env,        \* variables, elements and calls
    result      \* the value returned, 1 or 0 for a branch taken

vars == <<program, start, phase, code, pc, regs, block, previous, env, result>>

Unset == -2000

(***************************************************************************)
(* Whether LLVM's verifier takes the code: the types of the operands, and  *)
(* the blocks a phi names.                                                 *)
(***************************************************************************)
TypeOfOperand(c, n, i) == c[c[n].args[i]].ty

OperandTypes(op) ==
  CASE op \in {"zext", "uitofp", "not", "condbr"} -> <<"i1">>
    [] op \in {"sitofp", "get"} -> <<"i32">>
    [] op = "toInt32d" -> <<"double">>
    [] op \in {"add", "or"} -> <<"i32", "i32">>
    [] op \in {"fadd", "pow", "fcmpone", "fcmpoeq", "fcmpolt", "fill"} -> <<"double", "double">>
    [] op = "set" -> <<"i32", "double">>
    [] OTHER -> <<>>

WellTypedInstruction(c, n) ==
  LET T(i) == TypeOfOperand(c, n, i)
      N == c[n]
  IN  CASE N.op \in {"icmpeq", "icmpne", "icmpslt"} -> T(1) = T(2) /\ T(1) # "double"
        [] N.op = "select" -> T(1) = "i1" /\ T(2) = N.ty /\ T(3) = N.ty
        [] N.op = "phi" -> T(1) = N.ty /\ T(2) = N.ty
        [] N.op = "store" -> T(1) = LlvmType(VarType[N.x])
        [] N.op = "call" -> N.x = "g" => T(1) = "double"
        [] N.op = "ret" -> TRUE
        [] OTHER -> \A i \in DOMAIN OperandTypes(N.op) : T(i) = OperandTypes(N.op)[i]

\* The blocks that branch to the block of label instruction n.
Terminators(c) == {n \in DOMAIN c : c[n].op \in {"br", "condbr"}}
BlockOf(c, n) == InsertBlock(SubSeq(c, 1, n))
Predecessors(c, name) == {BlockOf(c, n) : n \in {t \in Terminators(c) : \E i \in DOMAIN c[t].to : c[t].to[i] = name}}

PhiNamesPredecessors(c, n) ==
  Predecessors(c, BlockOf(c, n)) = {c[n].to[1], c[n].to[2]} /\ c[n].to[1] # c[n].to[2]

LabelsDistinct(c) ==
  \A n, m \in DOMAIN c : (c[n].op = "label" /\ c[m].op = "label" /\ c[n].v = c[m].v) => n = m

Verifies(c) ==
  /\ LabelsDistinct(c)
  /\ \A n \in DOMAIN c : WellTypedInstruction(c, n) /\ (c[n].op = "phi" => PhiNamesPredecessors(c, n))

Rejected(c) == \E n \in DOMAIN c : c[n].op = "throw"

\* What becomes of a statement the generators made the instructions c of.
Outcome(c) == IF Rejected(c) THEN "rejected" ELSE IF Verifies(c) THEN "running" ELSE "invalid"

-----------------------------------------------------------------------------
Init ==
  /\ program \in Programs
  /\ start \in Starts
  /\ code = Compile(program)
  /\ phase = Outcome(code)
  /\ regs = [n \in DOMAIN code |-> Unset]
  /\ pc = 1 /\ block = 0 /\ previous = 0 /\ result = 0
  /\ env = start

Instruction == code[pc]
Operand(i) == regs[Instruction.args[i]]

Executing(ops) == phase = "running" /\ pc \in DOMAIN code /\ Instruction.op \in ops

\* toInt32d of the runtime.
ToInt32d(x) == IF x = NaN THEN 0 ELSE x

\* What an instruction without effects computes.
Computed(op) ==
  CASE op = "const" -> Instruction.v
    [] op = "load" -> env.vars[Instruction.x]
    [] op = "get" -> env.array[Operand(1)]
    [] op = "toInt32d" -> ToInt32d(Operand(1))
    [] op \in {"zext", "uitofp", "sitofp"} -> Operand(1)
    [] op = "not" -> 1 - Operand(1)
    [] op = "or" -> Calculate("|", Operand(1), Operand(2))
    [] op \in {"add", "fadd"} -> Calculate("+", Operand(1), Operand(2))
    [] op = "pow" -> Calculate("**", Operand(1), Operand(2))
    [] op \in {"icmpeq", "fcmpoeq"} -> Calculate("==", Operand(1), Operand(2))
    [] op \in {"icmpslt", "fcmpolt"} -> Calculate("<", Operand(1), Operand(2))
    [] op = "icmpne" -> Bool(Operand(1) # Operand(2))
    [] op = "fcmpone" -> Bool(Operand(1) # Operand(2) /\ NaN \notin {Operand(1), Operand(2)})
    [] op = "select" -> IF Operand(1) = 1 THEN Operand(2) ELSE Operand(3)
    [] op = "phi" -> Operand(IF previous = Instruction.to[1] THEN 1 ELSE 2)
    [] OTHER -> 0

Compute ==
  /\ Executing({"const", "load", "get", "toInt32d", "zext", "uitofp", "sitofp", "not", "or", "add", "fadd", "pow",
                "icmpeq", "icmpne", "icmpslt", "fcmpoeq", "fcmpone", "fcmpolt", "select", "phi"})
  /\ regs' = [regs EXCEPT ![pc] = Computed(Instruction.op)]
  /\ pc' = pc + 1
  /\ UNCHANGED <<program, start, phase, code, block, previous, env, result>>

\* A store, the setter of an element or the function filling an array.
Assign ==
  /\ Executing({"store", "set", "fill"})
  /\ env' = CASE Instruction.op = "store" -> [env EXCEPT !.vars[Instruction.x] = Operand(1)]
              [] Instruction.op = "set" -> [env EXCEPT !.array[Operand(1)] = Operand(2)]
              [] OTHER -> [env EXCEPT !.array = [@ EXCEPT ![0] = Operand(1), ![1] = Operand(2)]]
  /\ pc' = pc + 1
  /\ UNCHANGED <<program, start, phase, code, regs, block, previous, result>>

\* f returns 1, g what it is passed.
Call ==
  /\ Executing({"call"})
  /\ LET x == IF Instruction.x = "f" THEN 0 ELSE Operand(1)
     IN  /\ env' = [env EXCEPT !.calls = Append(@, <<Instruction.x, x>>)]
         /\ regs' = [regs EXCEPT ![pc] = IF Instruction.x = "f" THEN 1 ELSE x]
  /\ pc' = pc + 1
  /\ UNCHANGED <<program, start, phase, code, block, previous, result>>

Position(name) == CHOOSE n \in DOMAIN code : code[n].op = "label" /\ code[n].v = name

Branch ==
  /\ Executing({"br", "condbr"})
  /\ pc' = Position(IF Instruction.op = "condbr" /\ Operand(1) = 0 THEN Instruction.to[2] ELSE Instruction.to[1])
  /\ UNCHANGED <<program, start, phase, code, regs, block, previous, env, result>>

EnterBlock ==
  /\ Executing({"label"})
  /\ previous' = block /\ block' = Instruction.v
  /\ pc' = pc + 1
  /\ UNCHANGED <<program, start, phase, code, regs, env, result>>

\* The branch of an if statement, or the value of a return statement.
Observe ==
  /\ Executing({"mark", "ret"})
  /\ result' = IF Instruction.op = "ret" THEN Operand(1) ELSE Bool(Instruction.x = "then")
  /\ pc' = pc + 1
  /\ UNCHANGED <<program, start, phase, code, regs, block, previous, env>>

Finish ==
  /\ phase = "running" /\ pc > Len(code)
  /\ phase' = "done"
  /\ UNCHANGED <<program, start, code, pc, regs, block, previous, env, result>>

Ended == phase \in {"done", "rejected", "invalid"} /\ UNCHANGED vars

Next == Compute \/ Assign \/ Call \/ Branch \/ EnterBlock \/ Observe \/ Finish \/ Ended

Spec == Init /\ [][Next]_vars /\ WF_vars(Next)

-----------------------------------------------------------------------------
(* What ECMAScript and the code generators are known to disagree about.    *)
RECURSIVE Nodes(_)
Nodes(e) == {e} \cup UNION {Nodes(e.s[i]) : i \in DOMAIN e.s}

ProgramNodes == UNION {Nodes(program.s[i]) : i \in DOMAIN program.s}

HasEffect(e) ==
  \E d \in Nodes(e) : d.k \in {"call", "post"} \/ (d.k = "pre" /\ d.op # "!") \/ (d.k = "bin" /\ d.op \in Assignments)

\* Both alternatives of a conditional are evaluated.
EagerAlternatives(e) == e.k = "cond" /\ (HasEffect(e.s[2]) \/ HasEffect(e.s[3]))

\* The index of an assigned element is evaluated after the value, and twice by a compound assignment.
LateTarget(e) ==
  /\ e.k = "bin" /\ e.op \in Assignments /\ e.s[1].k = "elem"
  /\ HasEffect(e.s[1].s[1]) \/ (HasEffect(e.s[2]) /\ e.s[1].s[1].k # "lit")

\* Numbers are unequal only when they are ordered: NaN != NaN is false.
OrderedInequality(e) == e.k = "bin" /\ e.op = "!=" /\ "num" \in {Type(e.s[1]), Type(e.s[2])}

KnownDivergence == \E e \in ProgramNodes : EagerAlternatives(e) \/ LateTarget(e) \/ OrderedInequality(e)

\* An int and a number: ** and || convert from the type of before the cast, && does not cast its
\* operands, and x = i has the type of x in the code generators but that of i for TypeScript.
ConfusedTypes(e) ==
  /\ e.k = "bin" /\ e.op \in {"**", "**=", "&&", "||", "="}
  /\ {Type(e.s[1]), Type(e.s[2])} = {"int", "num"}

-----------------------------------------------------------------------------
\* A statement that is not rejected becomes code LLVM's verifier takes, but for the expressions that
\* mix int and number where the generators lose track of it: operands have the types their
\* instruction asks for, a phi names the blocks that really precede it.
GeneratesValidCode == phase = "invalid" => \E e \in ProgramNodes : ConfusedTypes(e)

\* No instruction uses a register that was not computed on the way to it, and neither NaN nor a
\* wide value gets into an int, a boolean or an object (the type invariant of the variables).
OperandsComputed ==
  /\ (phase = "running" /\ pc \in DOMAIN code) =>
       IF Instruction.op = "phi" THEN Computed("phi") # Unset
       ELSE \A i \in DOMAIN Instruction.args : Operand(i) # Unset
  /\ env.vars["i"] \in Nat /\ env.vars["b"] \in {0, 1} /\ env.vars["p"] \in {0, 1}
  /\ block \in {0} \cup {code[n].v : n \in DOMAIN code}

\* The result and the environment are those ECMAScript says.
Agrees ==
  LET js == Run(program, start)
  IN  result = js.v /\ env = js.env

\* A statement leaves the variables, elements, calls in their order and result that ECMAScript says,
\* but for the known divergences.
EvaluatesLikeJavaScript == (phase = "done" /\ ~KnownDivergence) => Agrees

=============================================================================
