---------------------------- MODULE ControlFlow ----------------------------
(***************************************************************************)
(* The statement code generators of src/packages/compiler/src/             *)
(* code-generation/code-generators turn the body of a Speedy.js function   *)
(* into basic blocks of LLVM.  The specification walks over any body that  *)
(* TypeScript accepts: the actions are the parts of the generate() methods *)
(* between their calls of context.generate, frames is the stack of the     *)
(* calls in progress, and which statement comes next is a free choice.     *)
(*                                                                         *)
(* Expressions append instructions to the current block.  A condition ends *)
(* it with a branch to two blocks; the blocks && and || put in between are *)
(* left out.                                                               *)
(***************************************************************************)
EXTENDS Naturals, Sequences

CONSTANTS
    Labels,         \* the labels a body may use
    NoLabel,        \* no label
    MaxStatements,  \* bound of the runs: statements in a body
    AnyBody         \* TRUE: also jumps that may find the blocks of an ended loop

ASSUME NoLabelIsNone == NoLabel \notin Labels
ASSUME BoundIsPositive == MaxStatements \in Nat \ {0}
ASSUME AnyBodyIsBoolean == AnyBody \in BOOLEAN

VARIABLES
    frames,      \* the generate() calls in progress, the innermost last
    scopes,      \* Scope.labels of the current scope and its parents
    blocks,      \* every block created: where it is, what it holds
    insert,      \* builder.getInsertBlock()
    status,      \* "generating", "done", or "failed": an assertion failed
    live,        \* the language's view: can the next statement be reached?
    looped,      \* depths of scopes in which a loop ended since one began
    statements   \* statements generated so far

vars == <<frames, scopes, blocks, insert, status, live, looped, statements>>

-----------------------------------------------------------------------------
(* Basic blocks.  A block that is created without a function is detached;  *)
(* addBasicBlock attaches it; eraseFromParent and release free it.         *)

Entry == 1
ReturnBlock == 2

BlockIds == 1..Len(blocks)

Detached == [at |-> "detached", holds |-> "nothing", to |-> {}]
Attached == [Detached EXCEPT !.at = "function"]

\* What the block holds when one more instruction is appended: "overrun" when
\* it had its terminator before.
After(block, holds) ==
    IF block.holds \in {"terminator", "overrun"} THEN "overrun" ELSE holds

AppendCode(bs, b) == [bs EXCEPT ![b].holds = After(bs[b], "code")]

Branch(bs, b, targets) ==
    [bs EXCEPT ![b].holds = After(bs[b], "terminator"), ![b].to = targets]

\* if (!block.getTerminator()) createBr(target)
BranchUnlessEnded(bs, b, target) ==
    IF bs[b].holds = "terminator" THEN bs ELSE Branch(bs, b, {target})

AddBasicBlock(bs, b) == [bs EXCEPT ![b].at = "function"]

Free(bs, b) == [bs EXCEPT ![b].at = "freed"]

ReplaceAllUsesWith(bs, old, new) ==
    [b \in DOMAIN bs |->
        IF old \in bs[b].to THEN [bs[b] EXCEPT !.to = (@ \ {old}) \cup {new}]
                            ELSE bs[b]]

UseEmpty(bs, b) == \A c \in DOMAIN bs : b \notin bs[c].to

-----------------------------------------------------------------------------
(* Scopes.  The keys of Scope.labels are pairs of a jump and its label; a   *)
(* key without a block is mapped to 0, the code's undefined.                *)

Jumps == {"continue", "break"}
Keys == Jumps \X (Labels \cup {NoLabel})
NoLabels == [key \in Keys |-> 0]

Depth == Len(scopes)

\* Mutated form of GetLabel: the outermost scope is asked first.
GetLabelOutermost(key) ==
    LET having == {d \in 1..Depth : scopes[d][key] # 0}
    IN  IF having = {} THEN 0
        ELSE scopes[CHOOSE d \in having : \A e \in having : e >= d][key]

\* Scope.getLabel: the innermost scope that has the key, 0 when none has.
GetLabel(key) ==
    LET having == {d \in 1..Depth : scopes[d][key] # 0}
    IN  IF having = {} THEN 0
        ELSE scopes[CHOOSE d \in having : \A e \in having : e <= d][key]

\* setContinueBlock and setBreakBlock for the keys of `new`.
SetBlocks(new) ==
    scopes' = [scopes EXCEPT ![Depth] =
                [key \in Keys |-> IF key \in DOMAIN new THEN new[key] ELSE @[key]]]

-----------------------------------------------------------------------------
(* Frames.  `body` says which statements of its own a construct still has  *)
(* to generate: any number ("list"), exactly one ("one") or none ("none"). *)
(* `next` is where a body that ended normally goes on, `head` the block a  *)
(* for loop repeats, `end` the block behind the construct.  `reached`: some *)
(* path comes out of the construct, other than the one being generated.    *)

Frame(kind, body, blks) ==
    [kind |-> kind, body |-> body, label |-> NoLabel, depth |-> Depth,
     head |-> blks[1], next |-> blks[2], end |-> blks[3], reached |-> FALSE]

NoBlocks == <<0, 0, 0>>

Height == Len(frames)
Top == frames[Height]
Loops == {"while", "for"}

Init ==
    /\ scopes = << NoLabels, NoLabels >>
    /\ frames = << Frame("block", "list", NoBlocks) >>
    /\ blocks = << Attached, Detached >>
    /\ insert = Entry
    /\ status = "generating"
    /\ live = TRUE
    /\ looped = {}
    /\ statements = 0

\* A statement may come next.  TypeScript reports statements that cannot be
\* reached, and compile() generates nothing when there are diagnostics.
StatementDue == status = "generating" /\ live /\ Top.body # "none"

\* A statement that contains statements; the bound leaves the others.
CompoundDue == StatementDue /\ statements < MaxStatements

SimpleDue == StatementDue /\ (Top.body = "list" => statements < MaxStatements)

BodyGenerated(kinds) ==
    /\ status = "generating"
    /\ Top.kind \in kinds
    /\ Top.body = "none"

\* The frames fs when a statement of the innermost one has been generated.
Generated(fs) ==
    IF fs[Len(fs)].body = "one" THEN [fs EXCEPT ![Len(fs)].body = "none"] ELSE fs

Call(frame) ==
    /\ frames' = Append(frames, frame)
    /\ statements' = statements + 1

Return(fs) == Generated(SubSeq(fs, 1, Height - 1))

Created == Len(blocks)

-----------------------------------------------------------------------------
(* Expression statements and variable declarations.                        *)

GenerateExpression ==
    /\ SimpleDue
    /\ blocks' = AppendCode(blocks, insert)
    /\ frames' = Generated(frames)
    /\ statements' = statements + 1
    /\ UNCHANGED <<scopes, insert, status, live, looped>>

(* BlockCodeGenerator.generate                                             *)

EnterBlock ==
    /\ CompoundDue
    /\ scopes' = Append(scopes, NoLabels)
    /\ Call([Frame("block", "list", NoBlocks) EXCEPT !.depth = Depth + 1])
    /\ UNCHANGED <<blocks, insert, status, live, looped>>

LeaveBlock ==
    /\ status = "generating"
    /\ Height > 1
    /\ Top.kind = "block"
    /\ scopes' = SubSeq(scopes, 1, Depth - 1)
    /\ looped' = looped \ {Depth}
    /\ frames' = Return(frames)
    /\ UNCHANGED <<blocks, insert, status, live, statements>>

(* IfStatementCodeGenerator.generate                                       *)

GenerateThen ==
    /\ CompoundDue
    /\ LET then == Created + 1
           else == Created + 2
           end == Created + 3
       IN  /\ blocks' = Branch(blocks \o <<Attached, Detached, Detached>>,
                               insert, {then, else})
           /\ insert' = then
           /\ Call(Frame("then", "one", <<0, else, end>>))
    /\ UNCHANGED <<scopes, status, live, looped>>

GenerateElse(hasElse) ==
    /\ BodyGenerated({"then"})
    /\ blocks' = AddBasicBlock(BranchUnlessEnded(blocks, insert, Top.end), Top.next)
    /\ insert' = Top.next
    /\ frames' = [frames EXCEPT ![Height].kind = "else",
                                ![Height].body = IF hasElse THEN "one" ELSE "none",
                                ![Height].reached = live]
    /\ live' = TRUE
    /\ UNCHANGED <<scopes, status, looped, statements>>

\* Mutated form of EndIf: the empty else block is erased, its uses remain.
EndIfNotReplaced ==
    /\ BodyGenerated({"else"})
    /\ LET joined == IF blocks[insert].holds = "nothing" THEN Free(blocks, insert)
                     ELSE BranchUnlessEnded(blocks, insert, Top.end)
       IN  blocks' = AddBasicBlock(joined, Top.end)
    /\ insert' = Top.end
    /\ frames' = Return(frames)
    /\ live' = (live \/ Top.reached)
    /\ UNCHANGED <<scopes, status, looped, statements>>

EndIf ==
    /\ BodyGenerated({"else"})
    /\ LET joined ==
            IF blocks[insert].holds = "nothing"
            THEN Free(ReplaceAllUsesWith(blocks, insert, Top.end), insert)
            ELSE BranchUnlessEnded(blocks, insert, Top.end)
       IN  blocks' = AddBasicBlock(joined, Top.end)
    /\ insert' = Top.end
    /\ frames' = Return(frames)
    /\ live' = (live \/ Top.reached)
    /\ UNCHANGED <<scopes, status, looped, statements>>

(* WhileStatementCodeGenerator, ForStatementCodeGenerator.  A loop whose   *)
(* parent is a labeled statement sets the blocks of that label, too.       *)

SetBlocksOfLoop(labels, continueBlock, breakBlock) ==
    SetBlocks([k \in {"continue", "break"} \X labels |->
                IF k[1] = "continue" THEN continueBlock ELSE breakBlock])

\* Mutated form of SetContinueAndBreakLabels: no label is looked at.
SetUnlabeledOnly(continueBlock, breakBlock) ==
    SetBlocksOfLoop({NoLabel}, continueBlock, breakBlock)

SetContinueAndBreakLabels(continueBlock, breakBlock) ==
    SetBlocksOfLoop({NoLabel} \cup (IF Top.kind = "label" THEN {Top.label} ELSE {}),
                    continueBlock, breakBlock)

GenerateWhile ==
    /\ CompoundDue
    /\ LET condition == Created + 1
           body == Created + 2
           end == Created + 3
       IN  /\ SetContinueAndBreakLabels(condition, end)
           /\ blocks' = Branch(Branch(blocks \o <<Attached, Attached, Detached>>,
                                      insert, {condition}), condition, {body, end})
           /\ insert' = body
           /\ Call([Frame("while", "one", <<condition, condition, end>>)
                        EXCEPT !.reached = TRUE])
    /\ looped' = looped \ {Depth}
    /\ UNCHANGED <<status, live>>

\* Mutated form of EndWhile: the body branches back even when it has ended.
EndWhileAlwaysBranches ==
    /\ BodyGenerated({"while"})
    /\ blocks' = AddBasicBlock(Branch(blocks, insert, {Top.next}), Top.end)
    /\ insert' = Top.end
    /\ frames' = Return(frames)
    /\ live' = TRUE
    /\ looped' = looped \cup {Depth}
    /\ UNCHANGED <<scopes, status, statements>>

EndWhile ==
    /\ BodyGenerated({"while"})
    /\ blocks' = AddBasicBlock(BranchUnlessEnded(blocks, insert, Top.next), Top.end)
    /\ insert' = Top.end
    /\ frames' = Return(frames)
    /\ live' = TRUE
    /\ looped' = looped \cup {Depth}
    /\ UNCHANGED <<scopes, status, statements>>

\* The condition is optional; without it the loop repeats its body.
GenerateFor(hasCondition) ==
    /\ CompoundDue
    /\ LET end == Created + 1
           body == Created + 2
           incrementer == Created + 3
           head == IF hasCondition THEN Created + 4 ELSE body
           created == blocks \o <<Detached, Attached, Detached>>
       IN  /\ SetContinueAndBreakLabels(incrementer, end)
           /\ blocks' = IF hasCondition
                        THEN Branch(Branch(Append(created, Attached), insert, {head}),
                                    head, {body, end})
                        ELSE Branch(created, insert, {body})
           /\ insert' = body
           /\ Call([Frame("for", "one", <<head, incrementer, end>>)
                        EXCEPT !.reached = hasCondition])
    /\ looped' = looped \ {Depth}
    /\ UNCHANGED <<status, live>>

EndFor ==
    /\ BodyGenerated({"for"})
    /\ LET looping == Branch(BranchUnlessEnded(blocks, insert, Top.next),
                             Top.next, {Top.head})
       IN  blocks' = AddBasicBlock(AddBasicBlock(looping, Top.next), Top.end)
    /\ insert' = Top.end
    /\ frames' = Return(frames)
    /\ live' = Top.reached
    /\ looped' = looped \cup {Depth}
    /\ UNCHANGED <<scopes, status, statements>>

(* LabeledStatementCodeGenerator.generate                                  *)

GenerateLabeled(label) ==
    /\ CompoundDue
    /\ \A i \in 1..Height : frames[i].label # label
    /\ LET end == Created + 1
       IN  /\ blocks' = Append(blocks, Detached)
           /\ SetBlocks([k \in {<<"break", label>>} |-> end])
           /\ Call([Frame("label", "one", <<0, 0, end>>) EXCEPT !.label = label])
    /\ UNCHANGED <<insert, status, live, looped>>

EndLabeled ==
    /\ BodyGenerated({"label"})
    /\ IF UseEmpty(blocks, Top.end)
       THEN /\ blocks' = Free(blocks, Top.end)
            /\ UNCHANGED insert
       ELSE /\ blocks' = AddBasicBlock(
                            BranchUnlessEnded(blocks, insert, Top.end), Top.end)
            /\ insert' = Top.end
    /\ frames' = Return(frames)
    /\ live' = (live \/ Top.reached)
    /\ UNCHANGED <<scopes, status, looped, statements>>

-----------------------------------------------------------------------------
(* Jumps.  The constructs a jump refers to in the source.                   *)

OpenLoops == {i \in 1..Height : frames[i].kind \in Loops}
OpenLabels == {frames[i].label : i \in 1..Height} \ {NoLabel}

InnermostLoop == CHOOSE i \in OpenLoops : \A j \in OpenLoops : j <= i

LabelFrame(label) == CHOOSE i \in 1..Height : frames[i].label = label

\* The statement behind all of the labels in front of it.
LabeledStatement(i) ==
    CHOOSE j \in i..Height :
        /\ \A k \in i..(j - 1) : frames[k].kind = "label"
        /\ j = Height \/ frames[j].kind # "label"

BreakLegal(label) == IF label = NoLabel THEN OpenLoops # {} ELSE label \in OpenLabels

ContinueLegal(label) ==
    IF label = NoLabel THEN OpenLoops # {}
    ELSE label \in OpenLabels /\ LabeledStatement(LabelFrame(label)) \in OpenLoops

\* No other loop ended in the scopes between the jump and its loop.
Undisturbed == looped \cap (frames[InnermostLoop].depth .. Depth) = {}

\* The label stands in front of another label, as a in a: b: while (c) s.  A
\* loop sets the continue block of the label it is the statement of, b, only.
OuterLabel(label) == frames[LabelFrame(label) + 1].kind = "label"

\* The statements that break or continue with a label or none, and the frame
\* whose end a break makes reachable.
Jump(kind, label, left) ==
    LET target == GetLabel(<<kind, label>>)
    IN  IF target = 0
        THEN /\ status' = "failed"
             /\ UNCHANGED <<frames, scopes, blocks, insert, live, looped, statements>>
        ELSE /\ blocks' = Branch(blocks, insert, {target})
             /\ frames' = Generated([i \in 1..Height |->
                            IF i = left THEN [frames[i] EXCEPT !.reached = TRUE]
                                        ELSE frames[i]])
             /\ live' = FALSE
             /\ statements' = statements + 1
             /\ UNCHANGED <<scopes, insert, status, looped>>

Break(label) ==
    /\ SimpleDue
    /\ BreakLegal(label)
    /\ ~AnyBody /\ label = NoLabel => Undisturbed
    /\ Jump("break", label,
            IF label = NoLabel THEN InnermostLoop ELSE LabelFrame(label))

\* An outer label has no continue block but the one that an earlier loop of the
\* same label may have left.
Continue(label) ==
    /\ SimpleDue
    /\ ContinueLegal(label)
    /\ ~AnyBody => IF label = NoLabel THEN Undisturbed
                   ELSE OuterLabel(label) => GetLabel(<<"continue", label>>) = 0
    /\ Jump("continue", label, 0)

(* ReturnStatementCodeGenerator.generate                                   *)

GenerateReturn ==
    /\ SimpleDue
    /\ blocks' = Branch(blocks, insert, {ReturnBlock})
    /\ frames' = Generated(frames)
    /\ live' = FALSE
    /\ statements' = statements + 1
    /\ UNCHANGED <<scopes, insert, status, looped>>

(* FunctionDefinitionBuilder.define, after the body                        *)

EndFunction ==
    /\ status = "generating"
    /\ Height = 1
    /\ LET replaced == ReplaceAllUsesWith(blocks, ReturnBlock, insert)
           joined == BranchUnlessEnded(blocks, insert, ReturnBlock)
       IN  CASE blocks[insert].holds = "nothing" ->
                    /\ blocks' = Branch(Free(replaced, ReturnBlock), insert, {})
                    /\ UNCHANGED insert
             [] blocks[insert].holds # "nothing" /\ UseEmpty(blocks, ReturnBlock) ->
                    /\ blocks' = Branch(Free(blocks, ReturnBlock), insert, {})
                    /\ UNCHANGED insert
             [] OTHER ->
                    /\ blocks' = Branch(AddBasicBlock(joined, ReturnBlock), ReturnBlock, {})
                    /\ insert' = ReturnBlock
    /\ status' = "done"
    /\ UNCHANGED <<frames, scopes, live, looped, statements>>

Stopped == status # "generating" /\ UNCHANGED vars

Next ==
    \/ GenerateExpression \/ EnterBlock \/ LeaveBlock
    \/ GenerateThen \/ (\E hasElse \in BOOLEAN : GenerateElse(hasElse)) \/ EndIf
    \/ GenerateWhile \/ EndWhile
    \/ (\E hasCondition \in BOOLEAN : GenerateFor(hasCondition)) \/ EndFor
    \/ (\E label \in Labels : GenerateLabeled(label)) \/ EndLabeled
    \/ (\E label \in Labels \cup {NoLabel} : Break(label) \/ Continue(label))
    \/ GenerateReturn \/ EndFunction
    \/ Stopped

Spec == Init /\ [][Next]_vars

-----------------------------------------------------------------------------
(* Properties.                                                             *)

BlockType ==
    [at : {"detached", "function", "freed"},
     holds : {"nothing", "code", "terminator", "overrun"}, to : SUBSET Nat]

FrameType ==
    [kind : {"block", "then", "else", "label"} \cup Loops,
     body : {"list", "one", "none"}, label : Labels \cup {NoLabel},
     depth : Nat, head : Nat, next : Nat, end : Nat, reached : BOOLEAN]

TypeOK ==
    /\ frames \in Seq(FrameType) /\ frames # << >>
    /\ scopes \in Seq([Keys -> Nat])
    /\ blocks \in Seq(BlockType)
    /\ insert \in BlockIds
    /\ status \in {"generating", "done", "failed"}
    /\ live \in BOOLEAN
    /\ looped \subseteq Nat

\* The scopes are those of the blocks in progress, a label is in progress at
\* most once, and only the innermost construct can be complete.
Nesting ==
    /\ Top.depth = Depth
    /\ \A i, j \in 1..Height : i <= j => frames[i].depth <= frames[j].depth
    /\ \A i \in 1..(Height - 1) :
        frames[i + 1].depth =
            IF frames[i + 1].kind = "block" THEN frames[i].depth + 1 ELSE frames[i].depth
    /\ frames[1].kind = "block" /\ frames[1].depth = 2
    /\ \A i \in 1..Height : frames[i].kind = "label" <=> frames[i].label # NoLabel
    /\ \A i, j \in 1..Height :
        frames[i].label = frames[j].label => i = j \/ frames[i].label = NoLabel
    /\ \A i \in 1..Height : frames[i].kind = "block" <=> frames[i].body = "list"
    /\ \A i \in 1..(Height - 1) : frames[i].body # "none"

\* The blocks a construct goes on with exist.
Allocated ==
    /\ {Entry, ReturnBlock} \subseteq BlockIds
    /\ \A i \in 1..Height : frames[i].kind # "block" => frames[i].end \in BlockIds
    /\ \A i \in 1..Height :
        frames[i].kind \in Loops \cup {"then"} => frames[i].next \in BlockIds

LoopsAt(d) == {i \in OpenLoops : frames[i].depth = d}

\* The unlabeled blocks of a scope in which no loop ended are those of the
\* innermost loop in progress there; it has none when no loop is.
LoopBlocks ==
    \A d \in (1..Depth) \ looped :
        /\ \A jump \in Jumps : scopes[d][<<jump, NoLabel>>] # 0 => LoopsAt(d) # {}
        /\ \A i \in LoopsAt(d) :
            (\A j \in LoopsAt(d) : j <= i) =>
                /\ scopes[d][<<"break", NoLabel>>] = frames[i].end
                /\ scopes[d][<<"continue", NoLabel>>] = frames[i].next

\* The scope in which a loop stands has unlabeled blocks: its own, or those of
\* another loop.
LoopsHaveBlocks ==
    \A i \in OpenLoops, jump \in Jumps : scopes[frames[i].depth][<<jump, NoLabel>>] # 0

HasLoop(i) == i < Height /\ frames[i + 1].kind \in Loops

\* The blocks of a label in progress are in the scope of its statement and in
\* no scope inside of it.
LabelBlocks ==
    \A i \in 1..Height : frames[i].kind = "label" =>
        LET d == frames[i].depth
            label == frames[i].label
        IN  /\ \A e \in (d + 1)..Depth, jump \in Jumps :
                    scopes[e][<<jump, label>>] = 0
            /\ frames[i].body = "one" =>
                scopes[d][<<"break", label>>] =
                    frames[IF HasLoop(i) THEN i + 1 ELSE i].end
            /\ HasLoop(i) =>
                scopes[d][<<"continue", label>>] = frames[i + 1].next

IInv ==
    TypeOK /\ Nesting /\ Allocated /\ LoopBlocks /\ LoopsHaveBlocks /\ LabelBlocks

\* Nothing is ever appended to a block behind its terminator, and the finished
\* function consists of terminated blocks that branch to each other only: no
\* branch to a block that was erased, released or never added.
WellFormed ==
    /\ \A b \in BlockIds : blocks[b].holds # "overrun"
    /\ status = "done" =>
        \A b \in BlockIds : blocks[b].at = "function" =>
            /\ blocks[b].holds = "terminator"
            /\ \A c \in blocks[b].to : blocks[c].at = "function"

\* The assertions of the break and continue statements hold for every jump that
\* TypeScript accepts, whatever the statements before it left in the scopes, but
\* for a continue to a label in front of another label: the loop generators look
\* at their parent only, and a: b: while (c) { continue a; } finds no block.
AssertionsHold ==
    [][status' = "failed" => \E label \in Labels : Continue(label) /\ OuterLabel(label)]_vars

\* The blocks reached from the entry by branches.
Reached ==
    LET step[n \in 0..Created] ==
            IF n = 0 THEN {Entry}
            ELSE LET before == step[n - 1]
                 IN  before \cup UNION {blocks[b].to : b \in before}
    IN  step[Created]

\* Code that the source can reach is put into a block that the function can
\* reach, and only such code: no path of the source is lost or added.
ReachabilityAgrees ==
    status = "generating" /\ Top.body # "none" =>
        (live <=> insert \in Reached /\ blocks[insert].holds # "terminator")

\* The blocks where a jump of the source may go on.
BreakTargets(label) ==
    IF label = NoLabel THEN {frames[InnermostLoop].end}
    ELSE LET i == LabelFrame(label)
             j == LabeledStatement(i)
         IN  {frames[k].end : k \in {i} \cup ({j} \cap OpenLoops)}

ContinueTargets(label) ==
    {frames[IF label = NoLabel THEN InnermostLoop
            ELSE LabeledStatement(LabelFrame(label))].next}

\* A break leaves the loop or labeled statement it stands in, and a continue
\* goes on with the next round of the loop it names, when they find a block.
JumpsToEnclosing ==
    [][status' # "failed" => \A label \in Labels \cup {NoLabel} :
        /\ Break(label) => blocks'[insert].to \subseteq BreakTargets(label)
        /\ Continue(label) => blocks'[insert].to \subseteq ContinueTargets(label)]_vars

=============================================================================
