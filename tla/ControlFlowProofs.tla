------------------------- MODULE ControlFlowProofs -------------------------
(***************************************************************************)
(* Proofs about ControlFlow, for bodies of any size and nesting and for    *)
(* any labels.  Every action changes the stack of frames in one of three   *)
(* ways: it keeps it, it pushes a frame, or it pops one.                   *)
(***************************************************************************)
EXTENDS ControlFlow, SequenceTheorems, FiniteSetTheorems, WellFoundedInduction, TLAPS

-----------------------------------------------------------------------------
(* Blocks.                                                                  *)

Blocks == Seq(BlockType)

\* Branch and AppendCode keep the type and the number of the blocks.
LEMMA BranchType ==
    ASSUME NEW bs \in Blocks, NEW b, NEW targets \in SUBSET Nat
    PROVE  /\ Branch(bs, b, targets) \in Blocks
           /\ Len(Branch(bs, b, targets)) = Len(bs)
<1>1. CASE b \in 1..Len(bs)
  <2>1. bs[b] \in BlockType
    BY <1>1, ElementOfSeq DEF Blocks
  <2> DEFINE new == [bs[b] EXCEPT !.holds = After(bs[b], "terminator"), !.to = targets]
  <2>2. new \in BlockType
    BY <2>1 DEF BlockType, After
  <2>3. DOMAIN bs = 1..Len(bs) /\ bs \in [1..Len(bs) -> BlockType]
    BY LenProperties DEF Blocks
  <2>4. Branch(bs, b, targets) = [bs EXCEPT ![b] = new]
    BY <1>1, <2>1, <2>3 DEF Branch, BlockType
  <2> QED
    BY <1>1, <2>2, <2>4, ExceptSeq DEF Blocks
<1>2. CASE b \notin 1..Len(bs)
  <2>1. DOMAIN bs = 1..Len(bs) /\ bs \in [1..Len(bs) -> BlockType]
    BY LenProperties DEF Blocks
  <2>2. Branch(bs, b, targets) = bs
    BY <1>2, <2>1 DEF Branch
  <2> QED
    BY <2>2
<1> QED
  BY <1>1, <1>2

LEMMA AppendCodeType ==
    ASSUME NEW bs \in Blocks, NEW b
    PROVE  /\ AppendCode(bs, b) \in Blocks
           /\ Len(AppendCode(bs, b)) = Len(bs)
<1>1. DOMAIN bs = 1..Len(bs) /\ bs \in [1..Len(bs) -> BlockType]
  BY LenProperties DEF Blocks
<1>2. CASE b \in 1..Len(bs)
  <2> DEFINE new == [bs[b] EXCEPT !.holds = After(bs[b], "code")]
  <2>1. bs[b] \in BlockType
    BY <1>1, <1>2
  <2>2. new \in BlockType
    BY <2>1 DEF BlockType, After
  <2>3. AppendCode(bs, b) = [bs EXCEPT ![b] = new]
    BY <1>1, <1>2 DEF AppendCode
  <2> QED
    BY <1>2, <2>2, <2>3, ExceptSeq DEF Blocks
<1>3. CASE b \notin 1..Len(bs)
  BY <1>1, <1>3 DEF AppendCode
<1> QED
  BY <1>2, <1>3

\* So do the functions that add, free and end a block.
LEMMA MoveType ==
    ASSUME NEW bs \in Blocks, NEW b
    PROVE  /\ AddBasicBlock(bs, b) \in Blocks /\ Len(AddBasicBlock(bs, b)) = Len(bs)
           /\ Free(bs, b) \in Blocks /\ Len(Free(bs, b)) = Len(bs)
<1>1. DOMAIN bs = 1..Len(bs) /\ bs \in [1..Len(bs) -> BlockType]
  BY LenProperties DEF Blocks
<1>2. CASE b \in 1..Len(bs)
  <2>1. bs[b] \in BlockType
    BY <1>1, <1>2
  <2>2. /\ [bs[b] EXCEPT !.at = "function"] \in BlockType
        /\ [bs[b] EXCEPT !.at = "freed"] \in BlockType
    BY <2>1 DEF BlockType
  <2>3. /\ AddBasicBlock(bs, b) = [bs EXCEPT ![b] = [bs[b] EXCEPT !.at = "function"]]
        /\ Free(bs, b) = [bs EXCEPT ![b] = [bs[b] EXCEPT !.at = "freed"]]
    BY <1>1, <1>2 DEF AddBasicBlock, Free
  <2> QED
    BY <1>2, <2>2, <2>3, ExceptSeq DEF Blocks
<1>3. CASE b \notin 1..Len(bs)
  BY <1>1, <1>3 DEF AddBasicBlock, Free
<1> QED
  BY <1>2, <1>3

LEMMA BranchUnlessEndedType ==
    ASSUME NEW bs \in Blocks, NEW b, NEW target \in Nat
    PROVE  /\ BranchUnlessEnded(bs, b, target) \in Blocks
           /\ Len(BranchUnlessEnded(bs, b, target)) = Len(bs)
<1>1. {target} \in SUBSET Nat
  OBVIOUS
<1> QED
  BY <1>1, BranchType DEF BranchUnlessEnded

LEMMA ReplaceType ==
    ASSUME NEW bs \in Blocks, NEW old, NEW new \in Nat
    PROVE  /\ ReplaceAllUsesWith(bs, old, new) \in Blocks
           /\ Len(ReplaceAllUsesWith(bs, old, new)) = Len(bs)
<1>1. DOMAIN bs = 1..Len(bs) /\ bs \in [1..Len(bs) -> BlockType] /\ Len(bs) \in Nat
  BY LenProperties DEF Blocks
<1> DEFINE result(b) == IF old \in bs[b].to
                        THEN [bs[b] EXCEPT !.to = (bs[b].to \ {old}) \cup {new}]
                        ELSE bs[b]
<1>2. \A b \in 1..Len(bs) : result(b) \in BlockType
  BY <1>1 DEF BlockType
<1>3. ReplaceAllUsesWith(bs, old, new) = [b \in 1..Len(bs) |-> result(b)]
  BY <1>1 DEF ReplaceAllUsesWith
<1> HIDE DEF result
<1> QED
  BY <1>1, <1>2, <1>3 DEF Blocks

\* Blocks that are created are added at the end.
LEMMA CreatedType ==
    ASSUME NEW bs \in Blocks
    PROVE  /\ \A x \in {Attached, Detached} :
                /\ Append(bs, x) \in Blocks
                /\ Len(Append(bs, x)) = Len(bs) + 1
           /\ \A x, y, z \in {Attached, Detached} :
                /\ bs \o <<x, y, z>> \in Blocks
                /\ Len(bs \o <<x, y, z>>) = Len(bs) + 3
<1>1. Attached \in BlockType /\ Detached \in BlockType
  BY DEF Attached, Detached, BlockType
<1>2. \A x, y, z \in {Attached, Detached} : <<x, y, z>> \in Blocks /\ Len(<<x, y, z>>) = 3
  BY <1>1 DEF Blocks
<1> QED
  BY <1>1, <1>2, ConcatProperties DEF Blocks

-----------------------------------------------------------------------------
(* Frames.                                                                  *)

\* A frame as Frame makes it is of its type.
LEMMA FrameIsTyped ==
    ASSUME NEW kind \in {"block", "then", "else", "label"} \cup Loops,
           NEW body \in {"list", "one", "none"},
           NEW head \in Nat, NEW next \in Nat, NEW end \in Nat, Depth \in Nat
    PROVE  Frame(kind, body, <<head, next, end>>) \in FrameType
BY DEF Frame, FrameType

\* Generated ends the body of the innermost frame if it is one statement.
LEMMA GeneratedFrames ==
    ASSUME NEW fs \in Seq(FrameType), fs # << >>
    PROVE  /\ Generated(fs) \in Seq(FrameType)
           /\ Len(Generated(fs)) = Len(fs)
           /\ \A i \in 1..Len(fs) :
                Generated(fs)[i] = IF i = Len(fs) /\ fs[i].body = "one"
                                   THEN [fs[i] EXCEPT !.body = "none"] ELSE fs[i]
<1>1. Len(fs) \in 1..Len(fs)
  BY EmptySeq
<1>2. fs[Len(fs)] \in FrameType
  BY <1>1, ElementOfSeq
<1> DEFINE new == [fs[Len(fs)] EXCEPT !.body = "none"]
<1>3. new \in FrameType
  BY <1>2 DEF FrameType
<1>4. DOMAIN fs = 1..Len(fs)
  BY LenProperties
<1>5. [fs EXCEPT ![Len(fs)].body = "none"] = [fs EXCEPT ![Len(fs)] = new]
  BY <1>1, <1>4
<1> HIDE DEF new
<1>6. CASE fs[Len(fs)].body = "one"
  <2>1. Generated(fs) = [fs EXCEPT ![Len(fs)] = new]
    BY <1>5, <1>6 DEF Generated
  <2>2. /\ [fs EXCEPT ![Len(fs)] = new] \in Seq(FrameType)
        /\ Len([fs EXCEPT ![Len(fs)] = new]) = Len(fs)
        /\ \A j \in 1..Len(fs) :
            [fs EXCEPT ![Len(fs)] = new][j] = IF j = Len(fs) THEN new ELSE fs[j]
    BY <1>1, <1>3, ExceptSeq
  <2> QED
    BY <1>6, <2>1, <2>2 DEF new
<1>7. CASE fs[Len(fs)].body # "one"
  BY <1>7 DEF Generated
<1> QED
  BY <1>6, <1>7

LEMMA FrameFacts ==
    ASSUME TypeOK
    PROVE  /\ Height \in Nat /\ Height >= 1 /\ DOMAIN frames = 1..Height
           /\ \A i \in 1..Height : frames[i] \in FrameType
           /\ Depth \in Nat /\ DOMAIN scopes = 1..Depth
           /\ \A d \in 1..Depth : scopes[d] \in [Keys -> Nat]
           /\ Created \in Nat
BY EmptySeq, LenProperties, ElementOfSeq DEF TypeOK, Height, Depth, Created

\* The fields the invariant reads are kept, but the innermost construct may go
\* from its "then" to its "else" and its body may be generated.
SameFrame(i) ==
    /\ frames'[i].label = frames[i].label
    /\ frames'[i].depth = frames[i].depth
    /\ frames'[i].next = frames[i].next
    /\ frames'[i].end = frames[i].end
    /\ \/ frames'[i].kind = frames[i].kind
       \/ frames[i].kind = "then" /\ frames'[i].kind = "else"
    /\ \/ frames'[i].body = frames[i].body
       \/ frames[i].body # "list" /\ frames'[i].body = "none"
       \/ frames[i].body # "list" /\ frames'[i].body = "one" /\ frames[i].kind = "then"

FramesKept ==
    /\ frames' \in Seq(FrameType)
    /\ Height' = Height
    /\ \A i \in 1..Height : SameFrame(i)
    /\ \A i \in 1..(Height - 1) : frames'[i].body = frames[i].body

LEMMA KeptNesting ==
    ASSUME TypeOK, Nesting, FramesKept, Depth' = Depth
    PROVE  Nesting'
<1>1. Height \in Nat /\ Height >= 1
  BY FrameFacts
<1>2. Height \in 1..Height
  BY <1>1
<1>3. Top'.depth = Depth'
  BY <1>2 DEF FramesKept, SameFrame, Nesting, Top, Height
<1>4. \A i, j \in 1..Height' : i <= j => frames'[i].depth <= frames'[j].depth
  BY DEF FramesKept, SameFrame, Nesting
<1>5. \A i \in 1..(Height' - 1) : i \in 1..Height /\ i + 1 \in 1..Height
  BY <1>1 DEF FramesKept
<1>6. \A i \in 1..(Height' - 1) :
        frames'[i + 1].depth = IF frames'[i + 1].kind = "block"
                               THEN frames'[i].depth + 1 ELSE frames'[i].depth
  BY <1>5 DEF FramesKept, SameFrame, Nesting
<1>7. frames'[1].kind = "block" /\ frames'[1].depth = 2
  BY <1>1 DEF FramesKept, SameFrame, Nesting
<1>8. \A i \in 1..Height' :
        /\ frames'[i].kind = "label" <=> frames'[i].label # NoLabel
        /\ frames'[i].kind = "block" <=> frames'[i].body = "list"
  BY DEF FramesKept, SameFrame, Nesting
<1>9. \A i, j \in 1..Height' :
        frames'[i].label = frames'[j].label => i = j \/ frames'[i].label = NoLabel
  BY DEF FramesKept, SameFrame, Nesting
<1>10. \A i \in 1..(Height' - 1) : frames'[i].body # "none"
  BY DEF FramesKept, Nesting
<1> QED
  BY <1>3, <1>4, <1>6, <1>7, <1>8, <1>9, <1>10 DEF Nesting

LEMMA KeptAllocated ==
    ASSUME TypeOK, Allocated, FramesKept, BlockIds \subseteq BlockIds'
    PROVE  Allocated'
<1>1. {Entry, ReturnBlock} \subseteq BlockIds'
  BY DEF Allocated
<1>2. \A i \in 1..Height' : frames'[i].kind # "block" => frames'[i].end \in BlockIds'
  BY DEF Allocated, FramesKept, SameFrame
<1>3. \A i \in 1..Height' :
        frames'[i].kind \in Loops \cup {"then"} => frames'[i].next \in BlockIds'
  BY DEF Allocated, FramesKept, SameFrame, Loops
<1> QED
  BY <1>1, <1>2, <1>3 DEF Allocated, Entry, ReturnBlock

LEMMA KeptLoops ==
    ASSUME FramesKept
    PROVE  OpenLoops' = OpenLoops /\ \A d : LoopsAt(d)' = LoopsAt(d)
BY DEF FramesKept, SameFrame, OpenLoops, LoopsAt, Loops

LEMMA KeptLoopBlocks ==
    ASSUME TypeOK, LoopBlocks, FramesKept, scopes' = scopes, looped \subseteq looped'
    PROVE  LoopBlocks'
<1> SUFFICES ASSUME NEW d \in (1..Depth') \ looped'
             PROVE  /\ \A jump \in Jumps : scopes'[d][<<jump, NoLabel>>] # 0 => LoopsAt(d)' # {}
                    /\ \A i \in LoopsAt(d)' : (\A j \in LoopsAt(d)' : j <= i) =>
                        /\ scopes'[d][<<"break", NoLabel>>] = frames'[i].end
                        /\ scopes'[d][<<"continue", NoLabel>>] = frames'[i].next
  BY DEF LoopBlocks
<1>1. d \in (1..Depth) \ looped /\ LoopsAt(d)' = LoopsAt(d)
  BY KeptLoops DEF Depth
<1>2. \A i \in LoopsAt(d) : frames'[i].end = frames[i].end /\ frames'[i].next = frames[i].next
  BY DEF FramesKept, SameFrame, LoopsAt, OpenLoops
<1> QED
  BY <1>1, <1>2 DEF LoopBlocks

LEMMA KeptLoopsHaveBlocks ==
    ASSUME TypeOK, LoopsHaveBlocks, FramesKept, scopes' = scopes
    PROVE  LoopsHaveBlocks'
<1>1. \A i \in OpenLoops' : i \in OpenLoops /\ frames'[i].depth = frames[i].depth
  BY KeptLoops DEF FramesKept, SameFrame, OpenLoops
<1> QED
  BY <1>1 DEF LoopsHaveBlocks, Jumps

LEMMA KeptLabelBlocks ==
    ASSUME TypeOK, Nesting, LabelBlocks, FramesKept, scopes' = scopes
    PROVE  LabelBlocks'
<1> SUFFICES ASSUME NEW i \in 1..Height', frames'[i].kind = "label"
             PROVE  LET d == frames'[i].depth
                        label == frames'[i].label
                    IN  /\ \A e \in (d + 1)..Depth', jump \in Jumps :
                                scopes'[e][<<jump, label>>] = 0
                        /\ frames'[i].body = "one" =>
                            scopes'[d][<<"break", label>>] =
                                frames'[IF HasLoop(i)' THEN i + 1 ELSE i].end
                        /\ HasLoop(i)' =>
                            scopes'[d][<<"continue", label>>] = frames'[i + 1].next
  BY DEF LabelBlocks
<1>1. Height \in Nat /\ i \in 1..Height /\ (i < Height => i + 1 \in 1..Height)
  BY FrameFacts DEF FramesKept
<1>2. frames[i].kind = "label" /\ SameFrame(i)
  BY <1>1 DEF FramesKept, SameFrame
<1>3. frames'[i].body = "one" => frames[i].body = "one"
  BY <1>2 DEF SameFrame
<1>4. HasLoop(i)' <=> HasLoop(i)
  BY <1>1 DEF HasLoop, FramesKept, SameFrame, Loops
<1>5. HasLoop(i) => frames'[i + 1].end = frames[i + 1].end /\ frames'[i + 1].next = frames[i + 1].next
  BY <1>1 DEF HasLoop, FramesKept, SameFrame
<1> QED
  BY <1>1, <1>2, <1>3, <1>4, <1>5 DEF LabelBlocks, SameFrame, Depth

-----------------------------------------------------------------------------
(* Steps that push a frame.                                                 *)

FramePushed(f) ==
    /\ frames' = Append(frames, f)
    /\ f \in FrameType
    /\ Top.body # "none"

\* The frame is one of the source: it starts complete only as a block, and its
\* label is not in progress.
Fits(f) ==
    /\ f.depth = Depth'
    /\ Depth' = IF f.kind = "block" THEN Depth + 1 ELSE Depth
    /\ f.kind = "label" <=> f.label # NoLabel
    /\ f.kind = "block" <=> f.body = "list"
    /\ \A i \in 1..Height : f.label # NoLabel => frames[i].label # f.label

LEMMA PushedFrames ==
    ASSUME TypeOK, NEW f, FramePushed(f)
    PROVE  /\ frames' \in Seq(FrameType) /\ frames' # << >>
           /\ Height' = Height + 1
           /\ \A i \in 1..Height : frames'[i] = frames[i]
           /\ frames'[Height + 1] = f
           /\ Height \in Nat /\ Height >= 1
BY FrameFacts DEF FramePushed, TypeOK, Height

LEMMA PushedNesting ==
    ASSUME TypeOK, Nesting, NEW f, FramePushed(f), Fits(f)
    PROVE  Nesting'
<1>0. /\ Height' = Height + 1 /\ frames'[Height + 1] = f
      /\ \A i \in 1..Height : frames'[i] = frames[i]
      /\ Height \in Nat /\ Height >= 1 /\ Depth \in Nat
      /\ f \in FrameType /\ \A i \in 1..Height : frames[i] \in FrameType
  BY FrameFacts, PushedFrames DEF FramePushed
<1>1. Top'.depth = Depth'
  BY <1>0 DEF Top, Height, Fits
<1>2. \A i \in 1..Height : frames[i].depth <= Depth /\ frames[i].depth \in Nat
  BY <1>0 DEF Nesting, Top, FrameType
<1>3. Depth' \in Nat /\ Depth <= Depth'
  BY <1>0 DEF Fits
<1>4. \A i, j \in 1..Height' : i <= j => frames'[i].depth <= frames'[j].depth
  <2> SUFFICES ASSUME NEW i \in 1..Height', NEW j \in 1..Height', i <= j
               PROVE  frames'[i].depth <= frames'[j].depth
    OBVIOUS
  <2>1. CASE j \in 1..Height
    BY <1>0, <2>1 DEF Nesting
  <2>2. CASE j = Height + 1 /\ i \in 1..Height
    BY <1>0, <1>2, <1>3, <2>2 DEF Fits
  <2>3. CASE j = Height + 1 /\ i = Height + 1
    BY <1>0, <1>3, <2>3 DEF Fits
  <2> QED
    BY <1>0, <2>1, <2>2, <2>3
<1>5. \A i \in 1..(Height' - 1) :
        frames'[i + 1].depth = IF frames'[i + 1].kind = "block"
                               THEN frames'[i].depth + 1 ELSE frames'[i].depth
  <2> SUFFICES ASSUME NEW i \in 1..Height
               PROVE  frames'[i + 1].depth = IF frames'[i + 1].kind = "block"
                        THEN frames'[i].depth + 1 ELSE frames'[i].depth
    BY <1>0
  <2>1. CASE i = Height
    BY <1>0, <2>1 DEF Fits, Nesting, Top
  <2>2. CASE i # Height
    <3>1. i \in 1..(Height - 1) /\ i + 1 \in 1..Height
      BY <1>0, <2>2
    <3> QED
      BY <1>0, <3>1 DEF Nesting
  <2> QED
    BY <2>1, <2>2
<1>6. frames'[1].kind = "block" /\ frames'[1].depth = 2
  BY <1>0 DEF Nesting
<1>7. \A i \in 1..Height' : i \in 1..Height \/ i = Height + 1
  BY <1>0
<1>8. \A i \in 1..Height' :
        /\ frames'[i].kind = "label" <=> frames'[i].label # NoLabel
        /\ frames'[i].kind = "block" <=> frames'[i].body = "list"
  <2>1. ASSUME NEW i \in 1..Height
        PROVE  /\ frames'[i].kind = "label" <=> frames'[i].label # NoLabel
               /\ frames'[i].kind = "block" <=> frames'[i].body = "list"
    BY <1>0, <2>1 DEF Nesting
  <2>2. /\ f.kind = "label" <=> f.label # NoLabel
        /\ f.kind = "block" <=> f.body = "list"
    BY DEF Fits
  <2> QED
    BY <1>0, <1>7, <2>1, <2>2
<1>9. \A i, j \in 1..Height' :
        frames'[i].label = frames'[j].label => i = j \/ frames'[i].label = NoLabel
  <2> SUFFICES ASSUME NEW i \in 1..Height', NEW j \in 1..Height',
                      frames'[i].label = frames'[j].label, i # j
               PROVE  frames'[i].label = NoLabel
    OBVIOUS
  <2>1. CASE i \in 1..Height /\ j \in 1..Height
    BY <1>0, <2>1 DEF Nesting
  <2>2. CASE i \in 1..Height /\ j = Height + 1
    BY <1>0, <2>2 DEF Fits
  <2>3. CASE i = Height + 1 /\ j \in 1..Height
    BY <1>0, <2>3 DEF Fits
  <2> QED
    BY <1>7, <2>1, <2>2, <2>3
<1>10. \A i \in 1..(Height' - 1) : frames'[i].body # "none"
  <2> SUFFICES ASSUME NEW i \in 1..Height PROVE frames[i].body # "none"
    BY <1>0
  <2>1. CASE i = Height
    BY <2>1 DEF FramePushed, Top
  <2>2. CASE i # Height
    BY <1>0, <2>2 DEF Nesting
  <2> QED
    BY <2>1, <2>2
<1> QED
  BY <1>1, <1>4, <1>5, <1>6, <1>8, <1>9, <1>10 DEF Nesting

LEMMA PushedAllocated ==
    ASSUME TypeOK, Allocated, NEW f, FramePushed(f), BlockIds \subseteq BlockIds',
           f.kind # "block" => f.end \in BlockIds',
           f.kind \in Loops \cup {"then"} => f.next \in BlockIds'
    PROVE  Allocated'
<1>1. \A i \in 1..Height' : frames'[i] = f \/ \E j \in 1..Height : frames'[i] = frames[j]
  BY PushedFrames
<1>2. {Entry, ReturnBlock} \subseteq BlockIds'
  BY DEF Allocated
<1>3. \A i \in 1..Height' : frames'[i].kind # "block" => frames'[i].end \in BlockIds'
  BY <1>1 DEF Allocated
<1>4. \A i \in 1..Height' :
        frames'[i].kind \in Loops \cup {"then"} => frames'[i].next \in BlockIds'
  BY <1>1 DEF Allocated
<1> QED
  BY <1>2, <1>3, <1>4 DEF Allocated, Entry, ReturnBlock, Loops

\* A step that pushes no loop and leaves the unlabeled blocks alone.
LEMMA PushedLoopBlocks ==
    ASSUME TypeOK, Nesting, LoopBlocks, NEW f, FramePushed(f), Fits(f),
           f.kind \notin Loops, looped' = looped,
           \A d \in 1..Depth, jump \in Jumps :
                scopes'[d][<<jump, NoLabel>>] = scopes[d][<<jump, NoLabel>>],
           f.kind = "block" =>
                \A jump \in Jumps : scopes'[Depth + 1][<<jump, NoLabel>>] = 0
    PROVE  LoopBlocks'
<1>0. /\ Height' = Height + 1 /\ frames'[Height + 1] = f
      /\ \A i \in 1..Height : frames'[i] = frames[i]
      /\ Height \in Nat /\ Height >= 1 /\ Depth \in Nat
      /\ \A i \in 1..Height : frames[i] \in FrameType
  BY PushedFrames, FrameFacts
<1>1. \A d : LoopsAt(d)' = LoopsAt(d)
  BY <1>0 DEF LoopsAt, OpenLoops
<1>2. \A i \in OpenLoops : frames'[i] = frames[i] /\ frames[i].depth <= Depth
  BY <1>0 DEF OpenLoops, Nesting, Top
<1> SUFFICES ASSUME NEW d \in (1..Depth') \ looped'
             PROVE  /\ \A jump \in Jumps : scopes'[d][<<jump, NoLabel>>] # 0 => LoopsAt(d)' # {}
                    /\ \A i \in LoopsAt(d)' : (\A j \in LoopsAt(d)' : j <= i) =>
                        /\ scopes'[d][<<"break", NoLabel>>] = frames'[i].end
                        /\ scopes'[d][<<"continue", NoLabel>>] = frames'[i].next
  BY DEF LoopBlocks
<1>3. CASE d \in 1..Depth
  <2>1. \A i \in LoopsAt(d) : frames'[i] = frames[i]
    BY <1>2 DEF LoopsAt
  <2> QED
    BY <1>1, <1>3, <2>1 DEF LoopBlocks, Jumps
<1>4. CASE d \notin 1..Depth
  <2>1. f.kind = "block" /\ d = Depth + 1
    BY <1>0, <1>4 DEF Fits
  <2>2. LoopsAt(d) = {}
    BY <1>0, <1>2, <2>1 DEF LoopsAt
  <2> QED
    BY <1>1, <2>1, <2>2
<1> QED
  BY <1>3, <1>4

LEMMA DepthsInScope ==
    ASSUME TypeOK, Nesting, NEW i \in 1..Height
    PROVE  frames[i].depth \in 1..Depth
<1>1. /\ 1 \in 1..Height /\ Height \in 1..Height /\ 1 <= i /\ i <= Height
      /\ \A j \in 1..Height : frames[j].depth \in Nat
      /\ Depth \in Nat
  BY FrameFacts DEF FrameType
<1>2. frames[1].depth <= frames[i].depth /\ frames[i].depth <= frames[Height].depth
  BY <1>1 DEF Nesting
<1>3. frames[1].depth = 2 /\ frames[Height].depth = Depth
  BY DEF Nesting, Top
<1> QED
  BY <1>1, <1>2, <1>3

LEMMA PushedLoopsHaveBlocks ==
    ASSUME TypeOK, Nesting, LoopsHaveBlocks, NEW f, FramePushed(f), f.kind \notin Loops,
           \A d \in 1..Depth, jump \in Jumps :
                scopes'[d][<<jump, NoLabel>>] = scopes[d][<<jump, NoLabel>>]
    PROVE  LoopsHaveBlocks'
<1>1. /\ Height' = Height + 1 /\ frames'[Height + 1] = f /\ Height \in Nat
      /\ \A i \in 1..Height : frames'[i] = frames[i]
  BY PushedFrames
<1>2. \A i \in OpenLoops' : i \in OpenLoops /\ i \in 1..Height /\ frames'[i] = frames[i]
  BY <1>1 DEF OpenLoops
<1>3. \A i \in OpenLoops : frames[i].depth \in 1..Depth
  BY DepthsInScope DEF OpenLoops
<1> QED
  BY <1>2, <1>3 DEF LoopsHaveBlocks, Jumps

LEMMA PushedLoopHasBlocks ==
    ASSUME TypeOK, Nesting, LoopsHaveBlocks, NEW f, FramePushed(f), f.depth = Depth,
           f.end # 0, f.next # 0,
           \A d \in 1..(Depth - 1) : scopes'[d] = scopes[d],
           scopes'[Depth][<<"break", NoLabel>>] = f.end,
           scopes'[Depth][<<"continue", NoLabel>>] = f.next
    PROVE  LoopsHaveBlocks'
<1>1. /\ Height' = Height + 1 /\ frames'[Height + 1] = f /\ Height \in Nat /\ Depth \in Nat
      /\ \A i \in 1..Height : frames'[i] = frames[i]
  BY PushedFrames, FrameFacts
<1> SUFFICES ASSUME NEW i \in OpenLoops', NEW jump \in Jumps
             PROVE  scopes'[frames'[i].depth][<<jump, NoLabel>>] # 0
  BY DEF LoopsHaveBlocks, Jumps
<1>2. CASE frames'[i].depth = Depth
  BY <1>2 DEF Jumps
<1>3. CASE frames'[i].depth # Depth
  <2>1. i # Height + 1
    BY <1>1, <1>3
  <2>2. i \in 1..Height /\ i \in OpenLoops /\ frames'[i] = frames[i]
    BY <1>1, <2>1 DEF OpenLoops
  <2>3. frames[i].depth \in 1..(Depth - 1)
    BY <1>1, <1>3, <2>2, DepthsInScope
  <2> QED
    BY <2>2, <2>3 DEF LoopsHaveBlocks
<1> QED
  BY <1>2, <1>3

\* A step that pushes a loop and sets the blocks of the current scope for it.
LEMMA PushedLoop ==
    ASSUME TypeOK, Nesting, LoopBlocks, NEW f, FramePushed(f), Fits(f),
           f.kind \in Loops, looped' = looped \ {Depth},
           \A d \in 1..(Depth - 1) : scopes'[d] = scopes[d],
           scopes'[Depth][<<"break", NoLabel>>] = f.end,
           scopes'[Depth][<<"continue", NoLabel>>] = f.next
    PROVE  LoopBlocks'
<1>0. /\ Height' = Height + 1 /\ frames'[Height + 1] = f
      /\ \A i \in 1..Height : frames'[i] = frames[i]
      /\ Height \in Nat /\ Height >= 1 /\ Depth \in Nat
  BY PushedFrames, FrameFacts
<1>1. Depth' = Depth /\ f.depth = Depth
  BY DEF Fits, Loops
<1> SUFFICES ASSUME NEW d \in (1..Depth') \ looped'
             PROVE  /\ \A jump \in Jumps : scopes'[d][<<jump, NoLabel>>] # 0 => LoopsAt(d)' # {}
                    /\ \A i \in LoopsAt(d)' : (\A j \in LoopsAt(d)' : j <= i) =>
                        /\ scopes'[d][<<"break", NoLabel>>] = frames'[i].end
                        /\ scopes'[d][<<"continue", NoLabel>>] = frames'[i].next
  BY DEF LoopBlocks
<1>2. CASE d = Depth
  <2>1. Height + 1 \in LoopsAt(d)'
    BY <1>0, <1>1, <1>2 DEF LoopsAt, OpenLoops
  <2>2. ASSUME NEW i \in LoopsAt(d)', \A j \in LoopsAt(d)' : j <= i
        PROVE  frames'[i] = f
    <3>1. i \in 1..(Height + 1) /\ Height + 1 <= i
      BY <1>0, <2>1, <2>2 DEF LoopsAt, OpenLoops
    <3> QED
      BY <1>0, <3>1
  <2> QED
    BY <1>2, <2>1, <2>2
<1>3. CASE d # Depth
  <2>1. d \in (1..Depth) \ looped /\ d \in 1..(Depth - 1)
    BY <1>0, <1>1, <1>3
  <2>2. LoopsAt(d)' = LoopsAt(d)
    BY <1>0, <1>1, <1>3 DEF LoopsAt, OpenLoops
  <2>3. \A i \in LoopsAt(d) : frames'[i] = frames[i]
    BY <1>0 DEF LoopsAt, OpenLoops
  <2> QED
    BY <2>1, <2>2, <2>3 DEF LoopBlocks
<1> QED
  BY <1>2, <1>3

\* What LabelBlocks says of one frame.
LabelBlocksOf(i) ==
    frames[i].kind = "label" =>
        /\ \A e \in (frames[i].depth + 1)..Depth, jump \in Jumps :
                scopes[e][<<jump, frames[i].label>>] = 0
        /\ frames[i].body = "one" =>
            scopes[frames[i].depth][<<"break", frames[i].label>>] =
                frames[IF HasLoop(i) THEN i + 1 ELSE i].end
        /\ HasLoop(i) =>
            scopes[frames[i].depth][<<"continue", frames[i].label>>] = frames[i + 1].next

LEMMA LabelBlocksSplit ==
    /\ LabelBlocks <=> \A i \in 1..Height : LabelBlocksOf(i)
    /\ LabelBlocks' <=> \A i \in 1..Height' : LabelBlocksOf(i)'
BY DEF LabelBlocks, LabelBlocksOf

LEMMA PushedFacts ==
    ASSUME TypeOK, Nesting, NEW f, FramePushed(f)
    PROVE  /\ Height' = Height + 1 /\ frames'[Height + 1] = f
           /\ \A i \in 1..Height : frames'[i] = frames[i]
           /\ \A i \in 1..(Height - 1) : HasLoop(i)' <=> HasLoop(i)
           /\ \A i : i = Height => (~HasLoop(i) /\ (HasLoop(i)' <=> f.kind \in Loops))
           /\ \A i : i = Height + 1 => ~HasLoop(i)'
           /\ Height \in Nat /\ Height >= 1 /\ Depth \in Nat
           /\ \A i \in 1..Height :
                /\ frames[i].depth <= Depth /\ frames[i].depth \in Nat
                /\ frames[i].depth >= 2
                /\ frames[i].label \in Labels \cup {NoLabel}
<1>0. /\ Height' = Height + 1 /\ frames'[Height + 1] = f
      /\ \A i \in 1..Height : frames'[i] = frames[i]
      /\ Height \in Nat /\ Height >= 1 /\ Depth \in Nat
  BY PushedFrames, FrameFacts
<1>1. \A i \in 1..(Height - 1) : i + 1 \in 1..Height /\ i < Height /\ i < Height'
  BY <1>0
<1>2. \A i \in 1..(Height - 1) : HasLoop(i)' <=> HasLoop(i)
  BY <1>0, <1>1 DEF HasLoop, Loops
<1>3. \A i : i = Height => (~HasLoop(i) /\ (HasLoop(i)' <=> f.kind \in Loops))
  BY <1>0 DEF HasLoop, Loops
<1>4. \A i : i = Height + 1 => ~HasLoop(i)'
  BY <1>0 DEF HasLoop
<1>5. \A i \in 1..Height : frames[i] \in FrameType
  BY FrameFacts
<1>6. \A i \in 1..Height :
        /\ frames[i].depth <= Depth /\ frames[i].depth \in Nat
        /\ frames[i].depth >= 2
        /\ frames[i].label \in Labels \cup {NoLabel}
  BY <1>0, <1>5 DEF Nesting, Top, FrameType
<1> QED
  BY <1>0, <1>2, <1>3, <1>4, <1>6

\* A step that pushes neither a loop nor a label.
LEMMA PushedLabelBlocks ==
    ASSUME TypeOK, Nesting, LabelBlocks, NEW f, FramePushed(f), Fits(f),
           f.kind \notin Loops \cup {"label"},
           \A d \in 1..Depth : scopes'[d] = scopes[d],
           f.kind = "block" => scopes'[Depth + 1] = NoLabels
    PROVE  LabelBlocks'
<1>1. SUFFICES ASSUME NEW i \in 1..Height' PROVE LabelBlocksOf(i)'
  BY LabelBlocksSplit
<1>2. CASE i \in 1..Height
  <2>1. HasLoop(i)' <=> HasLoop(i)
    <3>1. CASE i = Height
      BY <3>1, PushedFacts
    <3>2. CASE i # Height
      <4>1. i \in 1..(Height - 1)
        BY <1>2, <3>2, PushedFacts
      <4> QED
        BY <4>1, PushedFacts
    <3> QED
      BY <3>1, <3>2
  <2>2. HasLoop(i) => i + 1 \in 1..Height
    BY <1>2, PushedFacts DEF HasLoop
  <2>3. frames[i].depth \in 1..Depth /\ frames[i].depth \in Nat /\ Depth \in Nat
    BY <1>2, PushedFacts
  <2>4. ASSUME frames[i].kind = "label",
               NEW e \in (frames[i].depth + 1)..Depth', NEW jump \in Jumps
        PROVE  scopes'[e][<<jump, frames[i].label>>] = 0
    <3>1. CASE e \in 1..Depth
      <4>1. e \in (frames[i].depth + 1)..Depth /\ scopes'[e] = scopes[e]
        BY <2>3, <2>4, <3>1
      <4>2. LabelBlocksOf(i)
        BY <1>2, LabelBlocksSplit
      <4> QED
        BY <2>4, <4>1, <4>2 DEF LabelBlocksOf
    <3>2. CASE e \notin 1..Depth
      <4>1. e = Depth + 1 /\ f.kind = "block"
        BY <2>3, <2>4, <3>2 DEF Fits
      <4>2. <<jump, frames[i].label>> \in Keys
        BY <1>2, PushedFacts DEF Keys
      <4> QED
        BY <4>1, <4>2 DEF NoLabels
    <3> QED
      BY <3>1, <3>2
  <2>5. frames'[i] = frames[i] /\ (HasLoop(i) => frames'[i + 1] = frames[i + 1])
    BY <1>2, <2>2, PushedFacts
  <2>6. LabelBlocksOf(i)
    BY <1>2, LabelBlocksSplit
  <2> QED
    BY <2>1, <2>3, <2>4, <2>5, <2>6 DEF LabelBlocksOf
<1>3. CASE i = Height + 1
  BY <1>3, PushedFacts DEF LabelBlocksOf
<1> QED
  BY <1>2, <1>3, PushedFacts

\* A step that pushes a label and sets its break block.
LEMMA PushedLabel ==
    ASSUME TypeOK, Nesting, LabelBlocks, NEW f, FramePushed(f), Fits(f),
           f.kind = "label",
           \A d \in 1..(Depth - 1) : scopes'[d] = scopes[d],
           \A key \in Keys : scopes'[Depth][key] =
                IF key = <<"break", f.label>> THEN f.end ELSE scopes[Depth][key]
    PROVE  LabelBlocks'
<1>1. SUFFICES ASSUME NEW i \in 1..Height' PROVE LabelBlocksOf(i)'
  BY LabelBlocksSplit
<1>0. Depth' = Depth /\ f.depth = Depth /\ f.label # NoLabel
  BY DEF Fits
<1>2. CASE i \in 1..Height
  <2> SUFFICES ASSUME frames[i].kind = "label"
               PROVE  LabelBlocksOf(i)'
    BY <1>2, PushedFacts DEF LabelBlocksOf
  <2>1. HasLoop(i)' <=> HasLoop(i)
    <3>1. CASE i = Height
      BY <3>1, PushedFacts DEF Loops
    <3>2. CASE i # Height
      <4>1. i \in 1..(Height - 1)
        BY <1>2, <3>2, PushedFacts
      <4> QED
        BY <4>1, PushedFacts
    <3> QED
      BY <3>1, <3>2
  <2>2. HasLoop(i) => i + 1 \in 1..Height
    BY <1>2, PushedFacts DEF HasLoop
  <2>3. /\ frames[i].depth \in 1..Depth /\ frames[i].depth \in Nat /\ Depth \in Nat
        /\ frames[i].label \in Labels \cup {NoLabel}
    BY <1>2, PushedFacts
  <2>4. frames[i].label # f.label
    BY <1>0, <1>2 DEF Fits
  <2>5. \A d \in 1..Depth, jump \in Jumps :
            scopes'[d][<<jump, frames[i].label>>] = scopes[d][<<jump, frames[i].label>>]
    <3> TAKE d \in 1..Depth, jump \in Jumps
    <3>1. <<jump, frames[i].label>> \in Keys /\ <<jump, frames[i].label>> # <<"break", f.label>>
      BY <2>3, <2>4 DEF Keys
    <3>2. d = Depth \/ d \in 1..(Depth - 1)
      BY <2>3
    <3> QED
      BY <3>1, <3>2
  <2>6. \A e \in (frames[i].depth + 1)..Depth : e \in 1..Depth
    BY <2>3
  <2>7. frames'[i] = frames[i] /\ (HasLoop(i) => frames'[i + 1] = frames[i + 1])
    BY <1>2, <2>2, PushedFacts
  <2>8. LabelBlocksOf(i)
    BY <1>2, LabelBlocksSplit
  <2> QED
    BY <1>0, <2>1, <2>3, <2>5, <2>6, <2>7, <2>8 DEF LabelBlocksOf, Jumps
<1>3. CASE i = Height + 1
  <2>1. <<"break", f.label>> \in Keys
    BY DEF FramePushed, FrameType, Keys, Jumps
  <2>2. scopes'[Depth][<<"break", f.label>>] = f.end
    BY <2>1
  <2>3. frames'[i] = f /\ ~HasLoop(i)'
    BY <1>3, PushedFacts
  <2>4. \A e \in (f.depth + 1)..Depth' : FALSE
    BY <1>0, PushedFacts
  <2> QED
    BY <1>0, <2>2, <2>3, <2>4 DEF LabelBlocksOf
<1> QED
  BY <1>2, <1>3, PushedFacts

\* A step that pushes a loop and sets the blocks of the label in front of it.
LEMMA PushedLoopLabels ==
    ASSUME TypeOK, Nesting, LabelBlocks, NEW f, FramePushed(f), Fits(f),
           f.kind \in Loops,
           \A d \in 1..(Depth - 1) : scopes'[d] = scopes[d],
           \A jump \in Jumps, label \in Labels :
                scopes'[Depth][<<jump, label>>] =
                    IF Top.kind = "label" /\ label = Top.label
                    THEN IF jump = "continue" THEN f.next ELSE f.end
                    ELSE scopes[Depth][<<jump, label>>]
    PROVE  LabelBlocks'
<1>1. SUFFICES ASSUME NEW i \in 1..Height' PROVE LabelBlocksOf(i)'
  BY LabelBlocksSplit
<1>0. Depth' = Depth /\ f.depth = Depth /\ f.kind # "label"
  BY DEF Fits, Loops
<1>2. CASE i \in 1..Height
  <2> SUFFICES ASSUME frames[i].kind = "label"
               PROVE  LabelBlocksOf(i)'
    BY <1>2, PushedFacts DEF LabelBlocksOf
  <2>3. /\ frames[i].depth \in 1..Depth /\ frames[i].depth \in Nat /\ Depth \in Nat
        /\ frames[i].label \in Labels
    BY <1>2, PushedFacts DEF Nesting
  <2>8. LabelBlocksOf(i)
    BY <1>2, LabelBlocksSplit
  <2>9. CASE i = Height
    <3>1. HasLoop(i)' /\ frames'[i] = frames[i] /\ frames'[i + 1] = f
      BY <1>2, <2>9, PushedFacts
    <3>2. frames[i] = Top /\ frames[i].depth = Depth
      BY <2>9 DEF Top, Nesting
    <3>3. /\ scopes'[Depth][<<"break", frames[i].label>>] = f.end
          /\ scopes'[Depth][<<"continue", frames[i].label>>] = f.next
      BY <2>3, <3>2 DEF Jumps
    <3>4. \A e \in (Depth + 1)..Depth' : FALSE
      BY <1>0, <2>3
    <3> QED
      BY <3>1, <3>2, <3>3, <3>4 DEF LabelBlocksOf
  <2>10. CASE i # Height
    <3>1. i \in 1..(Height - 1) /\ i + 1 \in 1..Height
      BY <1>2, <2>10, PushedFacts
    <3>2. HasLoop(i)' <=> HasLoop(i)
      BY <3>1, PushedFacts
    <3>3. Top.kind = "label" => frames[i].label # Top.label
      BY <1>2, <2>10, PushedFacts DEF Nesting, Top
    <3>4. \A d \in 1..Depth, jump \in Jumps :
            scopes'[d][<<jump, frames[i].label>>] = scopes[d][<<jump, frames[i].label>>]
      <4> TAKE d \in 1..Depth, jump \in Jumps
      <4>1. d = Depth \/ d \in 1..(Depth - 1)
        BY <2>3
      <4> QED
        BY <2>3, <3>3, <4>1
    <3>5. \A e \in (frames[i].depth + 1)..Depth : e \in 1..Depth
      BY <2>3
    <3>6. frames'[i] = frames[i] /\ frames'[i + 1] = frames[i + 1]
      BY <1>2, <3>1, PushedFacts
    <3> QED
      BY <1>0, <2>3, <2>8, <3>2, <3>4, <3>5, <3>6 DEF LabelBlocksOf, Jumps
  <2> QED
    BY <2>9, <2>10
<1>3. CASE i = Height + 1
  BY <1>0, <1>3, PushedFacts DEF LabelBlocksOf
<1> QED
  BY <1>2, <1>3, PushedFacts

-----------------------------------------------------------------------------
(* Steps that pop a frame.                                                  *)

FramePopped == Height > 1 /\ frames' = Return(frames)

LEMMA PoppedFrames ==
    ASSUME TypeOK, FramePopped
    PROVE  /\ frames' \in Seq(FrameType) /\ frames' # << >>
           /\ Height' = Height - 1
           /\ \A i \in 1..(Height - 1) :
                frames'[i] = IF i = Height - 1 /\ frames[i].body = "one"
                             THEN [frames[i] EXCEPT !.body = "none"] ELSE frames[i]
           /\ Height \in Nat /\ Height - 1 \in 1..Height'
<1>1. Height \in Nat /\ Height > 1
  BY FrameFacts DEF FramePopped
<1>2. \A i \in 1..(Height - 1) : frames[i] \in FrameType
  BY <1>1, FrameFacts
<1>3. PICK n \in Nat : n = Height - 1 /\ n >= 1
  BY <1>1
<1>4. \A i \in 1..n : frames[i] \in FrameType
  BY <1>2, <1>3
<1> DEFINE rest == SubSeq(frames, 1, n)
<1>5. /\ rest \in Seq(FrameType)
      /\ Len(rest) = n
      /\ \A i \in 1..n : rest[i] = frames[i]
  <2>1. 1 \in Int /\ n \in Int
    BY <1>3
  <2>2. /\ SubSeq(frames, 1, n) \in Seq(FrameType)
        /\ Len(SubSeq(frames, 1, n)) = IF 1 <= n THEN n - 1 + 1 ELSE 0
        /\ \A i \in 1 .. n - 1 + 1 : SubSeq(frames, 1, n)[i] = frames[1 + i - 1]
    BY <1>4, <2>1, SubSeqProperties
  <2>3. n - 1 + 1 = n /\ \A i \in 1..n : 1 + i - 1 = i
    BY <1>3
  <2> QED
    BY <1>3, <2>2, <2>3
<1> HIDE DEF rest
<1>6. rest # << >>
  BY <1>3, <1>5, EmptySeq
<1>7. frames' = Generated(rest)
  BY <1>3 DEF FramePopped, Return, rest
<1>8. /\ Generated(rest) \in Seq(FrameType)
      /\ Len(Generated(rest)) = n
      /\ \A i \in 1..n :
            Generated(rest)[i] = IF i = n /\ rest[i].body = "one"
                                 THEN [rest[i] EXCEPT !.body = "none"] ELSE rest[i]
  BY <1>5, <1>6, GeneratedFrames
<1>9. frames' \in Seq(FrameType) /\ Len(frames') = n
  BY <1>7, <1>8
<1>10. frames' # << >>
  BY <1>3, <1>9, EmptySeq
<1>11. \A i \in 1..n :
        frames'[i] = IF i = n /\ frames[i].body = "one"
                     THEN [frames[i] EXCEPT !.body = "none"] ELSE frames[i]
  BY <1>5, <1>7, <1>8
<1> QED
  BY <1>1, <1>3, <1>9, <1>10, <1>11 DEF Height

\* The frames below the popped one keep what the invariant reads.
LEMMA PoppedFacts ==
    ASSUME TypeOK, FramePopped
    PROVE  /\ \A i \in 1..Height' :
                /\ i \in 1..Height /\ i \in 1..(Height - 1)
                /\ frames'[i].kind = frames[i].kind
                /\ frames'[i].label = frames[i].label
                /\ frames'[i].depth = frames[i].depth
                /\ frames'[i].next = frames[i].next
                /\ frames'[i].end = frames[i].end
                /\ i # Height' => frames'[i].body = frames[i].body
                /\ i = Height' => frames'[i].body =
                        IF frames[i].body = "one" THEN "none" ELSE frames[i].body
           /\ Height' = Height - 1 /\ Height \in Nat /\ Height' \in Nat /\ Height' >= 1
           /\ \A i \in 1..Height : frames[i] \in FrameType
<1>1. /\ Height' = Height - 1 /\ Height \in Nat /\ Height' \in Nat /\ Height' >= 1
      /\ \A i \in 1..Height : frames[i] \in FrameType
  BY PoppedFrames, FrameFacts DEF FramePopped
<1> SUFFICES ASSUME NEW i \in 1..Height'
             PROVE  /\ i \in 1..Height /\ i \in 1..(Height - 1)
                    /\ frames'[i].kind = frames[i].kind
                    /\ frames'[i].label = frames[i].label
                    /\ frames'[i].depth = frames[i].depth
                    /\ frames'[i].next = frames[i].next
                    /\ frames'[i].end = frames[i].end
                    /\ i # Height' => frames'[i].body = frames[i].body
                    /\ i = Height' => frames'[i].body =
                        IF frames[i].body = "one" THEN "none" ELSE frames[i].body
  BY <1>1
<1>2. i \in 1..Height /\ i \in 1..(Height - 1)
  BY <1>1
<1>3. frames[i] \in FrameType
  BY <1>1, <1>2
<1>4. frames'[i] = IF i = Height - 1 /\ frames[i].body = "one"
                   THEN [frames[i] EXCEPT !.body = "none"] ELSE frames[i]
  BY <1>2, PoppedFrames
<1> QED
  BY <1>1, <1>2, <1>3, <1>4 DEF FrameType

LEMMA PoppedNesting ==
    ASSUME TypeOK, Nesting, FramePopped,
           Depth' = IF Top.kind = "block" THEN Depth - 1 ELSE Depth
    PROVE  Nesting'
<1>0. /\ Height' = Height - 1 /\ Height \in Nat /\ Height' \in Nat /\ Height' >= 1
      /\ Height' \in 1..Height' /\ Height' + 1 = Height /\ Height' \in 1..(Height - 1)
      /\ Height' \in 1..Height
      /\ Depth \in Nat /\ \A i \in 1..Height : frames[i] \in FrameType
  BY PoppedFacts, FrameFacts
<1>1. Top'.depth = Depth'
  <2>1. frames[Height].depth = IF frames[Height].kind = "block"
                               THEN frames[Height'].depth + 1 ELSE frames[Height'].depth
    BY <1>0 DEF Nesting
  <2>2. frames'[Height'].depth = frames[Height'].depth /\ frames[Height'].depth \in Nat
    BY <1>0, PoppedFacts DEF FrameType
  <2>3. frames[Height].depth = Depth
    BY DEF Nesting, Top
  <2> QED
    BY <1>0, <2>1, <2>2, <2>3 DEF Top
<1>2. \A i, j \in 1..Height' : i <= j => frames'[i].depth <= frames'[j].depth
  BY PoppedFacts DEF Nesting
<1>3. \A i \in 1..(Height' - 1) :
        frames'[i + 1].depth = IF frames'[i + 1].kind = "block"
                               THEN frames'[i].depth + 1 ELSE frames'[i].depth
  <2> SUFFICES ASSUME NEW i \in 1..(Height' - 1)
               PROVE  frames'[i + 1].depth = IF frames'[i + 1].kind = "block"
                        THEN frames'[i].depth + 1 ELSE frames'[i].depth
    OBVIOUS
  <2>1. i \in 1..(Height - 1) /\ i \in 1..Height' /\ i + 1 \in 1..Height'
    BY <1>0
  <2> QED
    BY <2>1, PoppedFacts DEF Nesting
<1>4. frames'[1].kind = "block" /\ frames'[1].depth = 2
  <2>1. 1 \in 1..Height'
    BY <1>0
  <2> QED
    BY <2>1, PoppedFacts DEF Nesting
<1>5. \A i \in 1..Height' :
        /\ frames'[i].kind = "label" <=> frames'[i].label # NoLabel
        /\ frames'[i].kind = "block" <=> frames'[i].body = "list"
  BY PoppedFacts DEF Nesting
<1>6. \A i, j \in 1..Height' :
        frames'[i].label = frames'[j].label => i = j \/ frames'[i].label = NoLabel
  BY PoppedFacts DEF Nesting
<1>7. \A i \in 1..(Height' - 1) : frames'[i].body # "none"
  <2> SUFFICES ASSUME NEW i \in 1..(Height' - 1) PROVE frames'[i].body # "none"
    OBVIOUS
  <2>1. i \in 1..(Height - 1) /\ i \in 1..Height' /\ i # Height'
    BY <1>0
  <2> QED
    BY <2>1, PoppedFacts DEF Nesting
<1> QED
  BY <1>1, <1>2, <1>3, <1>4, <1>5, <1>6, <1>7 DEF Nesting

LEMMA PoppedAllocated ==
    ASSUME TypeOK, Allocated, FramePopped, BlockIds \subseteq BlockIds'
    PROVE  Allocated'
<1>1. {Entry, ReturnBlock} \subseteq BlockIds'
  BY DEF Allocated
<1>2. \A i \in 1..Height' : frames'[i].kind # "block" => frames'[i].end \in BlockIds'
  BY PoppedFacts DEF Allocated
<1>3. \A i \in 1..Height' :
        frames'[i].kind \in Loops \cup {"then"} => frames'[i].next \in BlockIds'
  BY PoppedFacts DEF Allocated
<1> QED
  BY <1>1, <1>2, <1>3 DEF Allocated, Entry, ReturnBlock, Loops

\* When a loop is popped, its scope counts as one where a loop ended.
LEMMA PoppedLoopBlocks ==
    ASSUME TypeOK, Nesting, LoopBlocks, FramePopped, Depth' \in Nat, Depth' <= Depth,
           \A d \in 1..Depth' : scopes'[d] = scopes[d],
           \A d \in 1..Depth' : d \notin looped' => d \notin looped,
           Top.kind \in Loops => Depth \in looped'
    PROVE  LoopBlocks'
<1>0. /\ Height' = Height - 1 /\ Height \in Nat /\ Height' \in Nat /\ Height' >= 1
      /\ Depth \in Nat
  BY PoppedFacts, FrameFacts
<1> SUFFICES ASSUME NEW d \in (1..Depth') \ looped'
             PROVE  /\ \A jump \in Jumps : scopes'[d][<<jump, NoLabel>>] # 0 => LoopsAt(d)' # {}
                    /\ \A i \in LoopsAt(d)' : (\A j \in LoopsAt(d)' : j <= i) =>
                        /\ scopes'[d][<<"break", NoLabel>>] = frames'[i].end
                        /\ scopes'[d][<<"continue", NoLabel>>] = frames'[i].next
  BY DEF LoopBlocks
<1>1. d \in (1..Depth) \ looped /\ scopes'[d] = scopes[d]
  BY <1>0
<1>2. Height \notin LoopsAt(d)
  BY <1>1 DEF LoopsAt, OpenLoops, Nesting, Top
<1>3. LoopsAt(d)' = LoopsAt(d)
  <2>1. \A i \in 1..Height' : i \in LoopsAt(d)' <=> i \in LoopsAt(d)
    BY PoppedFacts DEF LoopsAt, OpenLoops, Loops
  <2>2. LoopsAt(d)' \subseteq 1..Height'
    BY DEF LoopsAt, OpenLoops
  <2>3. LoopsAt(d) \subseteq 1..Height'
    BY <1>0, <1>2 DEF LoopsAt, OpenLoops
  <2> QED
    BY <2>1, <2>2, <2>3
<1>4. \A i \in LoopsAt(d)' : frames'[i].end = frames[i].end /\ frames'[i].next = frames[i].next
  BY PoppedFacts DEF LoopsAt, OpenLoops
<1> QED
  BY <1>1, <1>3, <1>4 DEF LoopBlocks

LEMMA PoppedLoopsHaveBlocks ==
    ASSUME TypeOK, Nesting, LoopsHaveBlocks, FramePopped, Depth' \in Nat, Depth' <= Depth,
           Depth' = IF Top.kind = "block" THEN Depth - 1 ELSE Depth,
           \A d \in 1..Depth' : scopes'[d] = scopes[d]
    PROVE  LoopsHaveBlocks'
<1>0. /\ Height' = Height - 1 /\ Height \in Nat /\ Height' \in Nat /\ Height' >= 1
  BY PoppedFacts
<1> SUFFICES ASSUME NEW i \in OpenLoops', NEW jump \in Jumps
             PROVE  scopes'[frames'[i].depth][<<jump, NoLabel>>] # 0
  BY DEF LoopsHaveBlocks, Jumps
<1>1. i \in 1..Height'
  BY DEF OpenLoops
<1>2. /\ i \in 1..Height /\ frames'[i].kind = frames[i].kind
      /\ frames'[i].depth = frames[i].depth /\ frames[i].depth \in Nat
  BY <1>1, PoppedFacts DEF FrameType
<1>3. i \in OpenLoops
  BY <1>2 DEF OpenLoops, Loops
<1>4. frames'[i].depth \in 1..Depth'
  <2>1. Height' \in 1..Height' /\ 1 \in 1..Height' /\ 1 <= i /\ i <= Height'
    BY <1>0, <1>1
  <2>2. Nesting'
    BY PoppedNesting
  <2>3. frames'[i].depth <= Depth' /\ 2 <= frames'[i].depth
    BY <1>1, <2>1, <2>2 DEF Nesting, Top
  <2> QED
    BY <1>2, <2>3
<1> QED
  BY <1>2, <1>3, <1>4 DEF LoopsHaveBlocks

LEMMA PoppedLabelBlocks ==
    ASSUME TypeOK, Nesting, LabelBlocks, FramePopped, Depth' \in Nat, Depth' <= Depth,
           Depth' = IF Top.kind = "block" THEN Depth - 1 ELSE Depth,
           \A d \in 1..Depth' : scopes'[d] = scopes[d]
    PROVE  LabelBlocks'
<1>0. /\ Height' = Height - 1 /\ Height \in Nat /\ Height' \in Nat /\ Height' >= 1
      /\ Depth \in Nat
  BY PoppedFacts, FrameFacts
<1> SUFFICES ASSUME NEW i \in 1..Height' PROVE LabelBlocksOf(i)'
  BY LabelBlocksSplit
<1>1. i \in 1..Height /\ LabelBlocksOf(i) /\ frames[i] \in FrameType
  BY PoppedFacts, LabelBlocksSplit
<1>2. /\ frames'[i].kind = frames[i].kind /\ frames'[i].label = frames[i].label
      /\ frames'[i].depth = frames[i].depth /\ frames'[i].end = frames[i].end
  BY PoppedFacts
<1>3. frames'[i].depth \in 1..Depth'
  <2>1. Height' \in 1..Height' /\ 1 \in 1..Height' /\ 1 <= i /\ i <= Height'
    BY <1>0
  <2>2. Nesting'
    BY PoppedNesting
  <2>3. frames'[i].depth <= Depth' /\ 2 <= frames'[i].depth
    BY <2>1, <2>2 DEF Nesting, Top
  <2>4. frames'[i].depth \in Nat
    BY <1>1, <1>2 DEF FrameType
  <2> QED
    BY <2>3, <2>4
<1>4. \A e \in (frames'[i].depth + 1)..Depth' :
        e \in (frames[i].depth + 1)..Depth /\ scopes'[e] = scopes[e]
  BY <1>0, <1>2, <1>3
<1>5. CASE i = Height'
  <2>1. ~HasLoop(i)'
    BY <1>0, <1>5 DEF HasLoop
  <2>2. frames'[i].body # "one"
    BY <1>5, PoppedFacts
  <2> QED
    BY <1>1, <1>2, <1>4, <2>1, <2>2 DEF LabelBlocksOf
<1>6. CASE i # Height'
  <2>1. i + 1 \in 1..Height' /\ i < Height /\ i < Height'
    BY <1>0, <1>6
  <2>2. /\ frames'[i + 1].kind = frames[i + 1].kind /\ frames'[i + 1].end = frames[i + 1].end
        /\ frames'[i + 1].next = frames[i + 1].next
    BY <2>1, PoppedFacts
  <2>3. HasLoop(i)' <=> HasLoop(i)
    BY <2>1, <2>2 DEF HasLoop, Loops
  <2>4. frames'[i].body = frames[i].body
    BY <1>6, PoppedFacts
  <2> QED
    BY <1>1, <1>2, <1>3, <1>4, <2>2, <2>3, <2>4 DEF LabelBlocksOf
<1> QED
  BY <1>5, <1>6

-----------------------------------------------------------------------------
(* The three kinds of steps preserve the invariant.                         *)

LEMMA BlockIdsGrow ==
    ASSUME blocks \in Blocks, blocks' \in Blocks, Len(blocks) <= Len(blocks')
    PROVE  BlockIds \subseteq BlockIds'
BY LenProperties DEF Blocks, BlockIds

LEMMA KeptInv ==
    ASSUME IInv, TypeOK', FramesKept, UNCHANGED scopes, UNCHANGED looped,
           Len(blocks) <= Len(blocks')
    PROVE  IInv'
<1>1. BlockIds \subseteq BlockIds'
  BY BlockIdsGrow DEF IInv, TypeOK, Blocks
<1>2. Depth' = Depth
  BY DEF Depth
<1> QED
  BY <1>1, <1>2, KeptNesting, KeptAllocated, KeptLoopBlocks, KeptLoopsHaveBlocks,
     KeptLabelBlocks DEF IInv

LEMMA PoppedInv ==
    ASSUME IInv, TypeOK', FramePopped, Len(blocks) <= Len(blocks'),
           Depth' = IF Top.kind = "block" THEN Depth - 1 ELSE Depth,
           \A d \in 1..Depth' : scopes'[d] = scopes[d],
           \A d \in 1..Depth' : d \notin looped' => d \notin looped,
           Top.kind \in Loops => Depth \in looped'
    PROVE  IInv'
<1>1. BlockIds \subseteq BlockIds'
  BY BlockIdsGrow DEF IInv, TypeOK, Blocks
<1>2. Depth' \in Nat /\ Depth' <= Depth
  BY FrameFacts DEF IInv, TypeOK, Depth
<1>3. Nesting'
  BY PoppedNesting DEF IInv
<1>4. Allocated'
  BY <1>1, PoppedAllocated DEF IInv
<1>5. LoopBlocks'
  BY <1>2, PoppedLoopBlocks DEF IInv
<1>6. LabelBlocks'
  BY <1>2, PoppedLabelBlocks DEF IInv
<1>7. LoopsHaveBlocks'
  BY <1>2, PoppedLoopsHaveBlocks DEF IInv
<1> QED
  BY <1>3, <1>4, <1>5, <1>6, <1>7 DEF IInv

\* A pop within the scope of the popped construct.
LEMMA PoppedInScope ==
    ASSUME IInv, TypeOK', FramePopped, Len(blocks) <= Len(blocks'), UNCHANGED scopes,
           Top.kind # "block", looped \subseteq looped',
           Top.kind \in Loops => Depth \in looped'
    PROVE  IInv'
<1>1. Depth' = Depth
  BY DEF Depth
<1> QED
  BY <1>1, PoppedInv

LEMMA GeneratedKept ==
    ASSUME TypeOK, Nesting, NEW fs \in Seq(FrameType), Len(fs) = Height,
           \A i \in 1..Height :
                fs[i] = frames[i] \/ fs[i] = [frames[i] EXCEPT !.reached = TRUE],
           frames' = Generated(fs)
    PROVE  FramesKept /\ frames' # << >>
<1>1. fs # << >> /\ Height \in Nat /\ Height >= 1
  BY FrameFacts, EmptySeq
<1>2. /\ frames' \in Seq(FrameType) /\ Len(frames') = Height
      /\ \A i \in 1..Height :
            frames'[i] = IF i = Height /\ fs[i].body = "one"
                         THEN [fs[i] EXCEPT !.body = "none"] ELSE fs[i]
  BY <1>1, GeneratedFrames
<1>3. Height' = Height
  BY <1>2 DEF Height
<1>4. ASSUME NEW i \in 1..Height
      PROVE  SameFrame(i) /\ (i # Height => frames'[i].body = frames[i].body)
  <2>1. frames[i] \in FrameType
    BY FrameFacts
  <2>2. fs[i] \in FrameType /\ fs[i].body = frames[i].body /\ fs[i].kind = frames[i].kind
        /\ fs[i].label = frames[i].label /\ fs[i].depth = frames[i].depth
        /\ fs[i].next = frames[i].next /\ fs[i].end = frames[i].end
    BY <2>1 DEF FrameType
  <2>3. frames'[i] = IF i = Height /\ fs[i].body = "one"
                     THEN [fs[i] EXCEPT !.body = "none"] ELSE fs[i]
    BY <1>2
  <2>4. CASE i = Height /\ fs[i].body = "one"
    BY <2>2, <2>3, <2>4 DEF SameFrame, FrameType
  <2>5. CASE ~(i = Height /\ fs[i].body = "one")
    BY <2>2, <2>3, <2>5 DEF SameFrame
  <2> QED
    BY <2>4, <2>5
<1>5. \A i \in 1..(Height - 1) : i \in 1..Height /\ i # Height
  BY <1>1
<1>6. frames' # << >>
  BY <1>1, <1>2, EmptySeq
<1> QED
  BY <1>2, <1>3, <1>4, <1>5, <1>6 DEF FramesKept

LEMMA GeneratedUnchanged ==
    ASSUME TypeOK, Nesting, frames' = Generated(frames)
    PROVE  FramesKept /\ frames' # << >> /\ frames' \in Seq(FrameType)
<1>1. frames \in Seq(FrameType) /\ Len(frames) = Height
  BY DEF TypeOK, Height
<1> QED
  BY <1>1, GeneratedKept DEF FramesKept

-----------------------------------------------------------------------------
(* The actions.                                                             *)

LEMMA TypeFacts ==
    ASSUME TypeOK
    PROVE  /\ blocks \in Blocks /\ Created = Len(blocks) /\ Created \in Nat
           /\ insert \in Nat /\ insert >= 1 /\ insert <= Created
           /\ Depth \in Nat /\ Height \in Nat /\ Height >= 1
           /\ Top \in FrameType
BY FrameFacts DEF TypeOK, Blocks, Created, BlockIds, Top

\* TypeOK of a step that goes on generating with the scopes as they are.
LEMMA TypeStep ==
    ASSUME TypeOK, frames' \in Seq(FrameType), frames' # << >>,
           blocks' \in Blocks, Len(blocks) <= Len(blocks'), insert' \in BlockIds',
           status' \in {"generating", "done", "failed"}, live' \in BOOLEAN,
           scopes' \in Seq([Keys -> Nat]), looped' \subseteq Nat
    PROVE  TypeOK'
BY DEF TypeOK, Blocks, BlockType, FrameType, Loops, Keys, Jumps

LEMMA ExpressionInv ==
    ASSUME IInv, GenerateExpression
    PROVE  IInv'
<1> USE DEF IInv, GenerateExpression
<1>1. blocks' \in Blocks /\ Len(blocks') = Len(blocks)
  BY AppendCodeType, TypeFacts
<1>2. FramesKept /\ frames' # << >> /\ frames' \in Seq(FrameType)
  BY GeneratedUnchanged
<1>3. TypeOK'
  BY <1>1, <1>2, TypeStep, TypeFacts DEF TypeOK, BlockIds
<1> QED
  BY <1>1, <1>2, <1>3, KeptInv, TypeFacts

LEMMA ReturnInv ==
    ASSUME IInv, GenerateReturn
    PROVE  IInv'
<1> USE DEF IInv, GenerateReturn
<1>0. {ReturnBlock} \in SUBSET Nat
  BY DEF ReturnBlock
<1>1. blocks' \in Blocks /\ Len(blocks') = Len(blocks)
  BY <1>0, BranchType, TypeFacts
<1>2. FramesKept /\ frames' # << >> /\ frames' \in Seq(FrameType)
  BY GeneratedUnchanged
<1>3. TypeOK'
  <2>1. insert' \in BlockIds' /\ scopes' \in Seq([Keys -> Nat]) /\ looped' \subseteq Nat
    BY <1>1 DEF TypeOK, BlockIds
  <2>2. live' \in BOOLEAN /\ status' \in {"generating", "done", "failed"}
    BY DEF TypeOK
  <2> QED
    BY <1>1, <1>2, <2>1, <2>2, TypeStep, TypeFacts
<1> QED
  BY <1>1, <1>2, <1>3, KeptInv, TypeFacts

LEMMA HasMaximum ==
    ASSUME NEW n \in Nat, NEW T \in SUBSET (1..n), T # {}
    PROVE  \E x \in T : \A y \in T : y <= x
<1> DEFINE D == {k \in Nat : n - k \in T}
<1>1. D \subseteq Nat /\ D # {}
  <2>1. PICK x \in T : x \in 1..n
    OBVIOUS
  <2>2. n - x \in Nat /\ n - (n - x) = x
    BY <2>1
  <2> QED
    BY <2>1, <2>2
<1>2. PICK k \in D : \A m \in D : <<m, k>> \notin OpToRel(<, Nat)
  BY <1>1, NatLessThanWellFounded, WFMin, Zenon
<1>3. \A m \in D : ~(m < k)
  BY <1>1, <1>2, Zenon DEF OpToRel
<1>4. n - k \in T /\ k \in Nat
  OBVIOUS
<1>5. ASSUME NEW y \in T PROVE y <= n - k
  <2>1. y \in 1..n /\ n - y \in Nat /\ n - (n - y) = y
    OBVIOUS
  <2>2. n - y \in D
    BY <2>1
  <2>3. PICK m \in Nat : m = n - y
    BY <2>1
  <2>4. ~(m < k)
    BY <1>3, <2>2, <2>3
  <2> QED
    BY <1>4, <2>1, <2>3, <2>4
<1> QED
  BY <1>4, <1>5

\* The block getLabel finds is one of the innermost scope that has the key.
LEMMA GetLabelInnermost ==
    ASSUME TypeOK, NEW key \in Keys, NEW d \in 1..Depth, scopes[d][key] # 0,
           \A e \in (d + 1)..Depth : scopes[e][key] = 0
    PROVE  GetLabel(key) = scopes[d][key]
<1> DEFINE having == {e \in 1..Depth : scopes[e][key] # 0}
<1>1. Depth \in Nat
  BY FrameFacts
<1>2. d \in having /\ \A e \in having : e <= d
  BY <1>1
<1>3. \A c \in having : (\A e \in having : e <= c) => c = d
  BY <1>1, <1>2
<1> HIDE DEF having
<1>4. (CHOOSE c \in having : \A e \in having : e <= c) = d
  BY <1>2, <1>3
<1>5. having # {}
  BY <1>2
<1> QED
  BY <1>4, <1>5 DEF GetLabel, having

LEMMA GetLabelType ==
    ASSUME TypeOK, NEW key \in Keys
    PROVE  GetLabel(key) \in Nat
<1> DEFINE having == {e \in 1..Depth : scopes[e][key] # 0}
<1>1. CASE having = {}
  BY <1>1 DEF GetLabel
<1>2. CASE having # {}
  <2>1. having \in SUBSET (1..Depth) /\ Depth \in Nat
    BY FrameFacts
  <2>2. PICK d \in having : \A e \in having : e <= d
    <3> HIDE DEF having
    <3> QED
      BY <1>2, <2>1, HasMaximum
  <2>3. d \in 1..Depth /\ scopes[d][key] # 0 /\ \A e \in (d + 1)..Depth : scopes[e][key] = 0
    BY <2>1, <2>2
  <2>4. GetLabel(key) = scopes[d][key]
    BY <2>3, GetLabelInnermost
  <2> QED
    BY <2>3, <2>4, FrameFacts
<1> QED
  BY <1>1, <1>2

LEMMA JumpInv ==
    ASSUME IInv, NEW kind \in Jumps, NEW label \in Labels \cup {NoLabel}, NEW left,
           Jump(kind, label, left)
    PROVE  IInv'
<1> USE DEF IInv
<1>1. CASE GetLabel(<<kind, label>>) = 0
  <2>1. UNCHANGED <<frames, scopes, blocks, insert, live, looped>> /\ status' = "failed"
    BY <1>1 DEF Jump
  <2>2. TypeOK'
    BY <2>1, TypeStep, TypeFacts DEF TypeOK, BlockIds
  <2>3. FramesKept
    BY <2>1 DEF FramesKept, SameFrame, Height, TypeOK
  <2> QED
    BY <2>1, <2>2, <2>3, KeptInv, TypeFacts
<1>2. CASE GetLabel(<<kind, label>>) # 0
  <2>1. PICK target \in Nat : target = GetLabel(<<kind, label>>)
    <3>1. <<kind, label>> \in Keys
      BY DEF Keys
    <3> QED
      BY <3>1, GetLabelType
  <2>2. PICK fs : fs = [i \in 1..Height |-> IF i = left THEN [frames[i] EXCEPT !.reached = TRUE]
                                                       ELSE frames[i]]
    OBVIOUS
  <2>3. /\ blocks' = Branch(blocks, insert, {target})
        /\ frames' = Generated(fs)
        /\ live' = FALSE
        /\ UNCHANGED <<scopes, insert, status, looped>>
    BY <1>2, <2>1, <2>2 DEF Jump
  <2>4. \A i \in 1..Height : fs[i] \in FrameType
    BY <2>2, FrameFacts DEF FrameType
  <2>5. fs \in Seq(FrameType) /\ Len(fs) = Height
    BY <2>2, <2>4, FrameFacts
  <2>6. FramesKept /\ frames' # << >>
    BY <2>2, <2>3, <2>5, GeneratedKept
  <2>7. blocks' \in Blocks /\ Len(blocks') = Len(blocks)
    BY <2>3, BranchType, TypeFacts
  <2>8. TypeOK'
    <3>1. insert' \in BlockIds' /\ scopes' \in Seq([Keys -> Nat]) /\ looped' \subseteq Nat
      BY <2>3, <2>7 DEF TypeOK, BlockIds
    <3>2. live' \in BOOLEAN /\ status' \in {"generating", "done", "failed"}
      BY <2>3 DEF TypeOK
    <3>3. frames' \in Seq(FrameType)
      BY <2>6 DEF FramesKept
    <3> QED
      BY <2>6, <2>7, <3>1, <3>2, <3>3, TypeStep, TypeFacts
  <2> QED
    BY <2>3, <2>6, <2>7, <2>8, KeptInv, TypeFacts
<1> QED
  BY <1>1, <1>2

LEMMA EnterBlockInv ==
    ASSUME IInv, EnterBlock
    PROVE  IInv'
<1> USE DEF IInv
<1>1. PICK f : f = [Frame("block", "list", NoBlocks) EXCEPT !.depth = Depth + 1]
  OBVIOUS
<1>2. /\ frames' = Append(frames, f) /\ scopes' = Append(scopes, NoLabels)
      /\ UNCHANGED <<blocks, insert, status, live, looped>> /\ Top.body # "none"
  BY <1>1 DEF EnterBlock, Call, CompoundDue, StatementDue
<1>3. /\ f \in FrameType /\ f.kind = "block" /\ f.body = "list" /\ f.label = NoLabel
      /\ f.depth = Depth + 1
  <2>1. PICK g : g = Frame("block", "list", NoBlocks)
    OBVIOUS
  <2>2. g \in FrameType /\ g.kind = "block" /\ g.body = "list" /\ g.label = NoLabel
    BY <2>1, FrameIsTyped, TypeFacts DEF NoBlocks, Frame
  <2>3. Depth + 1 \in Nat /\ f = [g EXCEPT !.depth = Depth + 1]
    BY <1>1, <2>1, TypeFacts
  <2> QED
    BY <2>2, <2>3 DEF FrameType
<1>4. FramePushed(f)
  BY <1>2, <1>3 DEF FramePushed
<1>5. NoLabels \in [Keys -> Nat]
  BY DEF NoLabels
<1>6. /\ scopes' \in Seq([Keys -> Nat]) /\ Depth' = Depth + 1
      /\ \A d \in 1..Depth : scopes'[d] = scopes[d]
      /\ scopes'[Depth + 1] = NoLabels
  BY <1>2, <1>5, FrameFacts DEF TypeOK, Depth
<1>7. Fits(f)
  BY <1>3, <1>6 DEF Fits
<1>8. TypeOK'
  <2>1. frames' \in Seq(FrameType) /\ frames' # << >>
    BY <1>4, PushedFrames
  <2> QED
    BY <1>2, <1>6, <2>1, TypeStep, TypeFacts DEF TypeOK, BlockIds
<1>9. BlockIds' = BlockIds
  BY <1>2 DEF BlockIds
<1>10. Nesting' /\ Allocated'
  BY <1>3, <1>4, <1>7, <1>9, PushedNesting, PushedAllocated DEF Loops
<1>11. LoopBlocks'
  <2>1. \A jump \in Jumps : NoLabels[<<jump, NoLabel>>] = 0
    BY DEF NoLabels, Keys
  <2>2. f.kind \notin Loops
    BY <1>3 DEF Loops
  <2> QED
    BY <1>2, <1>4, <1>6, <1>7, <2>1, <2>2, PushedLoopBlocks
<1>12. LabelBlocks'
  BY <1>3, <1>4, <1>6, <1>7, PushedLabelBlocks DEF Loops
<1>13. LoopsHaveBlocks'
  BY <1>3, <1>4, <1>6, PushedLoopsHaveBlocks DEF Loops
<1> QED
  BY <1>8, <1>10, <1>11, <1>12, <1>13

LEMMA LeaveBlockInv ==
    ASSUME IInv, LeaveBlock
    PROVE  IInv'
<1> USE DEF IInv
<1>1. FramePopped /\ Top.kind = "block" /\ UNCHANGED <<blocks, insert, status, live>>
  BY DEF LeaveBlock, FramePopped
<1>2. Depth \in Nat /\ Depth >= 2
  <2>1. 1 \in 1..Height /\ Height \in 1..Height /\ 1 <= Height
    BY TypeFacts
  <2>2. frames[1].depth <= frames[Height].depth
    BY <2>1 DEF Nesting
  <2> QED
    BY <2>2, TypeFacts DEF Nesting, Top
<1>3. PICK n \in Nat : n = Depth - 1 /\ n >= 1
  BY <1>2
<1>4. /\ scopes' \in Seq([Keys -> Nat]) /\ Depth' = n
      /\ \A d \in 1..n : scopes'[d] = scopes[d]
  <2>1. \A d \in 1..n : scopes[d] \in [Keys -> Nat]
    BY <1>3, FrameFacts
  <2>2. 1 \in Int /\ n \in Int
    BY <1>3
  <2>3. /\ SubSeq(scopes, 1, n) \in Seq([Keys -> Nat])
        /\ Len(SubSeq(scopes, 1, n)) = IF 1 <= n THEN n - 1 + 1 ELSE 0
        /\ \A d \in 1 .. n - 1 + 1 : SubSeq(scopes, 1, n)[d] = scopes[1 + d - 1]
    BY <2>1, <2>2, SubSeqProperties
  <2>4. n - 1 + 1 = n /\ \A d \in 1..n : 1 + d - 1 = d
    BY <1>3
  <2>5. scopes' = SubSeq(scopes, 1, n)
    BY <1>3 DEF LeaveBlock
  <2> QED
    BY <1>3, <2>3, <2>4, <2>5 DEF Depth
<1>5. TypeOK'
  <2>1. frames' \in Seq(FrameType) /\ frames' # << >>
    BY <1>1, PoppedFrames
  <2>2. looped' \subseteq Nat
    BY DEF LeaveBlock, TypeOK
  <2> QED
    BY <1>1, <1>4, <2>1, <2>2, TypeStep, TypeFacts DEF TypeOK, BlockIds
<1>6. \A d \in 1..Depth' : d \notin looped' => d \notin looped
  BY <1>2, <1>3, <1>4 DEF LeaveBlock
<1>7. Len(blocks) <= Len(blocks')
  BY <1>1, TypeFacts
<1> QED
  BY <1>1, <1>3, <1>4, <1>5, <1>6, <1>7, PoppedInv DEF Loops

\* The frame on top has the blocks it goes on with.
LEMMA TopFacts ==
    ASSUME IInv, Top.kind # "block"
    PROVE  /\ Height > 1 /\ Top.end \in BlockIds /\ Top.end \in Nat
           /\ Top.kind \in Loops \cup {"then"} => Top.next \in BlockIds /\ Top.next \in Nat
           /\ Top.reached \in BOOLEAN
<1> USE DEF IInv
<1>1. Height \in Nat /\ Height >= 1 /\ Top \in FrameType
  BY TypeFacts
<1>2. Height > 1
  BY <1>1 DEF Nesting, Top
<1>3. Height \in 1..Height
  BY <1>1
<1>4. /\ Top.end \in BlockIds
      /\ Top.kind \in Loops \cup {"then"} => Top.next \in BlockIds
  BY <1>3 DEF Allocated, Top
<1>5. Top.end \in Nat /\ Top.next \in Nat /\ Top.reached \in BOOLEAN
  BY <1>1 DEF FrameType
<1> QED
  BY <1>2, <1>4, <1>5

LEMMA GenerateElseInv ==
    ASSUME IInv, NEW hasElse \in BOOLEAN, GenerateElse(hasElse)
    PROVE  IInv'
<1> USE DEF IInv
<1>1. Top.kind = "then" /\ Top.body = "none"
  BY DEF GenerateElse, BodyGenerated
<1>2. /\ Top.end \in Nat /\ Top.next \in Nat /\ Top.next \in BlockIds
  BY <1>1, TopFacts
<1>3. blocks' \in Blocks /\ Len(blocks') = Len(blocks)
  <2>1. /\ BranchUnlessEnded(blocks, insert, Top.end) \in Blocks
        /\ Len(BranchUnlessEnded(blocks, insert, Top.end)) = Len(blocks)
    BY <1>2, BranchUnlessEndedType, TypeFacts
  <2> QED
    BY <2>1, MoveType DEF GenerateElse
<1>4. Height \in 1..Height /\ Height \in Nat
  BY TypeFacts
<1>5. PICK new : new = [Top EXCEPT !.kind = "else",
                                   !.body = IF hasElse THEN "one" ELSE "none",
                                   !.reached = live]
  OBVIOUS
<1>6. /\ new \in FrameType /\ new.kind = "else" /\ new.body \in {"one", "none"}
      /\ new.label = Top.label /\ new.depth = Top.depth
      /\ new.next = Top.next /\ new.end = Top.end
  <2>1. Top \in FrameType /\ live \in BOOLEAN
    BY TypeFacts DEF TypeOK
  <2> QED
    BY <1>5, <2>1 DEF FrameType
<1>7. frames' = [frames EXCEPT ![Height] = new]
  BY <1>4, <1>5, FrameFacts DEF GenerateElse, Top
<1>8. /\ frames' \in Seq(FrameType) /\ Len(frames') = Height
      /\ \A i \in 1..Height : frames'[i] = IF i = Height THEN new ELSE frames[i]
  BY <1>4, <1>6, <1>7, ExceptSeq DEF TypeOK, Height
<1>9. FramesKept /\ frames' # << >>
  <2>1. Height' = Height
    BY <1>8 DEF Height
  <2>2. \A i \in 1..Height : SameFrame(i)
    BY <1>1, <1>6, <1>8 DEF SameFrame, Top
  <2>3. \A i \in 1..(Height - 1) : frames'[i].body = frames[i].body
    BY <1>4, <1>8
  <2>4. frames' # << >>
    BY <1>8, TypeFacts, EmptySeq
  <2> QED
    BY <1>8, <2>1, <2>2, <2>3, <2>4 DEF FramesKept
<1>10. UNCHANGED <<scopes, status, looped>> /\ insert' = Top.next /\ live' = TRUE
  BY DEF GenerateElse
<1>11. TypeOK'
  <2>1. insert' \in BlockIds' /\ scopes' \in Seq([Keys -> Nat]) /\ looped' \subseteq Nat
    BY <1>2, <1>3, <1>10 DEF TypeOK, BlockIds
  <2>2. live' \in BOOLEAN /\ status' \in {"generating", "done", "failed"}
    BY <1>10 DEF TypeOK
  <2> QED
    BY <1>3, <1>8, <1>9, <2>1, <2>2, TypeStep, TypeFacts
<1> QED
  BY <1>3, <1>9, <1>10, <1>11, KeptInv, TypeFacts

\* A step that ends a construct and goes on in its end block, or where it is.
LEMMA EndInv ==
    ASSUME IInv, Top.kind # "block", frames' = Return(frames),
           blocks' \in Blocks, Len(blocks') = Len(blocks),
           insert' \in {insert, Top.end}, UNCHANGED <<scopes, status>>,
           live' \in BOOLEAN, looped \subseteq looped', looped' \subseteq Nat,
           Top.kind \in Loops => Depth \in looped'
    PROVE  IInv'
<1> USE DEF IInv
<1>1. FramePopped
  BY TopFacts DEF FramePopped
<1>2. frames' \in Seq(FrameType) /\ frames' # << >>
  BY <1>1, PoppedFrames
<1>3. TypeOK'
  <2>1. insert' \in BlockIds' /\ scopes' \in Seq([Keys -> Nat])
    BY TopFacts DEF TypeOK, BlockIds
  <2> QED
    BY <1>2, <2>1, TypeStep, TypeFacts DEF TypeOK
<1> QED
  BY <1>1, <1>3, PoppedInScope, TypeFacts

LEMMA EndIfInv ==
    ASSUME IInv, EndIf
    PROVE  IInv'
<1> USE DEF IInv
<1>1. Top.kind = "else" /\ frames' = Return(frames)
  BY DEF EndIf, BodyGenerated
<1>2. Top.end \in Nat /\ Top.reached \in BOOLEAN
  BY <1>1, TopFacts
<1>3. blocks' \in Blocks /\ Len(blocks') = Len(blocks)
  <2> DEFINE erased == Free(ReplaceAllUsesWith(blocks, insert, Top.end), insert)
             ended == BranchUnlessEnded(blocks, insert, Top.end)
  <2>1. erased \in Blocks /\ Len(erased) = Len(blocks)
    <3>1. /\ ReplaceAllUsesWith(blocks, insert, Top.end) \in Blocks
          /\ Len(ReplaceAllUsesWith(blocks, insert, Top.end)) = Len(blocks)
      BY <1>2, ReplaceType, TypeFacts
    <3> QED
      BY <3>1, MoveType
  <2>2. ended \in Blocks /\ Len(ended) = Len(blocks)
    BY <1>2, BranchUnlessEndedType, TypeFacts
  <2>3. blocks' = AddBasicBlock(erased, Top.end) \/ blocks' = AddBasicBlock(ended, Top.end)
    BY DEF EndIf
  <2> HIDE DEF erased, ended
  <2> QED
    BY <2>1, <2>2, <2>3, MoveType
<1>4. insert' \in {insert, Top.end} /\ UNCHANGED <<scopes, status, looped>>
  BY DEF EndIf
<1>5. live' \in BOOLEAN
  BY <1>2 DEF EndIf, TypeOK
<1> QED
  BY <1>1, <1>3, <1>4, <1>5, EndInv DEF Loops, TypeOK

LEMMA EndWhileInv ==
    ASSUME IInv, EndWhile
    PROVE  IInv'
<1> USE DEF IInv
<1>1. Top.kind = "while" /\ frames' = Return(frames)
  BY DEF EndWhile, BodyGenerated
<1>2. Top.next \in Nat
  BY <1>1, TopFacts DEF Loops
<1>3. blocks' \in Blocks /\ Len(blocks') = Len(blocks)
  <2>1. /\ BranchUnlessEnded(blocks, insert, Top.next) \in Blocks
        /\ Len(BranchUnlessEnded(blocks, insert, Top.next)) = Len(blocks)
    BY <1>2, BranchUnlessEndedType, TypeFacts
  <2> QED
    BY <2>1, MoveType DEF EndWhile
<1>4. insert' \in {insert, Top.end} /\ UNCHANGED <<scopes, status>>
  BY DEF EndWhile
<1>5. live' \in BOOLEAN
  BY DEF EndWhile
<1>6. looped \subseteq looped' /\ looped' \subseteq Nat /\ Depth \in looped'
  BY TypeFacts DEF EndWhile, TypeOK
<1> QED
  BY <1>1, <1>3, <1>4, <1>5, <1>6, EndInv

LEMMA EndForInv ==
    ASSUME IInv, EndFor
    PROVE  IInv'
<1> USE DEF IInv
<1>1. Top.kind = "for" /\ frames' = Return(frames)
  BY DEF EndFor, BodyGenerated
<1>2. Top.next \in Nat /\ Top.reached \in BOOLEAN
  BY <1>1, TopFacts DEF Loops
<1>3. blocks' \in Blocks /\ Len(blocks') = Len(blocks)
  <2> DEFINE looping == Branch(BranchUnlessEnded(blocks, insert, Top.next),
                               Top.next, {Top.head})
  <2>1. /\ BranchUnlessEnded(blocks, insert, Top.next) \in Blocks
        /\ Len(BranchUnlessEnded(blocks, insert, Top.next)) = Len(blocks)
    BY <1>2, BranchUnlessEndedType, TypeFacts
  <2>2. {Top.head} \in SUBSET Nat
    BY TypeFacts DEF FrameType
  <2>3. looping \in Blocks /\ Len(looping) = Len(blocks)
    BY <2>1, <2>2, BranchType
  <2>4. blocks' = AddBasicBlock(AddBasicBlock(looping, Top.next), Top.end)
    BY DEF EndFor
  <2> HIDE DEF looping
  <2>5. /\ AddBasicBlock(looping, Top.next) \in Blocks
        /\ Len(AddBasicBlock(looping, Top.next)) = Len(blocks)
    BY <2>3, MoveType
  <2> QED
    BY <2>4, <2>5, MoveType
<1>4. insert' \in {insert, Top.end} /\ UNCHANGED <<scopes, status>>
  BY DEF EndFor
<1>5. live' \in BOOLEAN
  BY <1>2 DEF EndFor
<1>6. looped \subseteq looped' /\ looped' \subseteq Nat /\ Depth \in looped'
  BY TypeFacts DEF EndFor, TypeOK
<1> QED
  BY <1>1, <1>3, <1>4, <1>5, <1>6, EndInv

LEMMA EndLabeledInv ==
    ASSUME IInv, EndLabeled
    PROVE  IInv'
<1> USE DEF IInv
<1>1. Top.kind = "label" /\ frames' = Return(frames)
  BY DEF EndLabeled, BodyGenerated
<1>2. Top.end \in Nat /\ Top.reached \in BOOLEAN
  BY <1>1, TopFacts
<1>3. blocks' \in Blocks /\ Len(blocks') = Len(blocks)
  <2>1. /\ BranchUnlessEnded(blocks, insert, Top.end) \in Blocks
        /\ Len(BranchUnlessEnded(blocks, insert, Top.end)) = Len(blocks)
    BY <1>2, BranchUnlessEndedType, TypeFacts
  <2> QED
    BY <2>1, MoveType, TypeFacts DEF EndLabeled
<1>4. insert' \in {insert, Top.end} /\ UNCHANGED <<scopes, status, looped>>
  BY DEF EndLabeled
<1>5. live' \in BOOLEAN
  BY <1>2 DEF EndLabeled, TypeOK
<1> QED
  BY <1>1, <1>3, <1>4, <1>5, EndInv DEF Loops, TypeOK

LEMMA GenerateThenInv ==
    ASSUME IInv, GenerateThen
    PROVE  IInv'
<1> USE DEF IInv
<1>1. PICK then, else, end \in Nat :
        /\ then = Created + 1 /\ else = Created + 2 /\ end = Created + 3
  BY TypeFacts
<1>2. PICK f : f = Frame("then", "one", <<0, else, end>>)
  OBVIOUS
<1>3. /\ blocks' = Branch(blocks \o <<Attached, Detached, Detached>>, insert, {then, else})
      /\ insert' = then /\ frames' = Append(frames, f)
      /\ UNCHANGED <<scopes, status, live, looped>> /\ Top.body # "none"
  BY <1>1, <1>2 DEF GenerateThen, Call, CompoundDue, StatementDue
<1>4. /\ f \in FrameType /\ f.kind = "then" /\ f.body = "one" /\ f.label = NoLabel
      /\ f.depth = Depth /\ f.next = else /\ f.end = end
  BY <1>1, <1>2, FrameIsTyped, TypeFacts DEF Frame
<1>5. blocks' \in Blocks /\ Len(blocks') = Len(blocks) + 3
  <2>1. /\ blocks \o <<Attached, Detached, Detached>> \in Blocks
        /\ Len(blocks \o <<Attached, Detached, Detached>>) = Len(blocks) + 3
    BY CreatedType, TypeFacts
  <2>2. {then, else} \in SUBSET Nat
    OBVIOUS
  <2> QED
    BY <1>3, <2>1, <2>2, BranchType
<1>6. {then, else, end} \subseteq BlockIds' /\ BlockIds \subseteq BlockIds'
  BY <1>1, <1>5, TypeFacts DEF BlockIds
<1>7. FramePushed(f) /\ Depth' = Depth
  BY <1>3, <1>4 DEF FramePushed, Depth
<1>8. Fits(f)
  BY <1>4, <1>7 DEF Fits
<1>9. TypeOK'
  <2>1. frames' \in Seq(FrameType) /\ frames' # << >>
    BY <1>7, PushedFrames
  <2>2. Len(blocks) <= Len(blocks')
    BY <1>5, TypeFacts
  <2> QED
    BY <1>3, <1>5, <1>6, <2>1, <2>2, TypeStep DEF TypeOK
<1>10. Nesting' /\ Allocated'
  BY <1>4, <1>6, <1>7, <1>8, PushedNesting, PushedAllocated
<1>11. LoopBlocks'
  BY <1>3, <1>4, <1>7, <1>8, PushedLoopBlocks DEF Loops
<1>12. LabelBlocks'
  BY <1>3, <1>4, <1>7, <1>8, PushedLabelBlocks DEF Loops
<1>13. LoopsHaveBlocks'
  BY <1>3, <1>4, <1>7, PushedLoopsHaveBlocks DEF Loops
<1> QED
  BY <1>9, <1>10, <1>11, <1>12, <1>13

LEMMA SetBlocksFacts ==
    ASSUME TypeOK, Depth >= 1, NEW new, SetBlocks(new),
           \A key \in DOMAIN new : new[key] \in Nat
    PROVE  /\ scopes' \in Seq([Keys -> Nat]) /\ Depth' = Depth
           /\ \A d \in 1..(Depth - 1) : scopes'[d] = scopes[d]
           /\ \A key \in Keys : scopes'[Depth][key] =
                IF key \in DOMAIN new THEN new[key] ELSE scopes[Depth][key]
<1>1. Depth \in 1..Depth /\ Depth \in Nat /\ DOMAIN scopes = 1..Depth
  BY FrameFacts
<1>2. scopes[Depth] \in [Keys -> Nat]
  BY <1>1, FrameFacts
<1>3. PICK scope : scope = [key \in Keys |-> IF key \in DOMAIN new THEN new[key]
                                             ELSE scopes[Depth][key]]
  OBVIOUS
<1>4. scope \in [Keys -> Nat]
  BY <1>2, <1>3
<1>5. scopes' = [scopes EXCEPT ![Depth] = scope]
  BY <1>1, <1>3 DEF SetBlocks
<1>6. /\ scopes' \in Seq([Keys -> Nat]) /\ Len(scopes') = Depth
      /\ \A d \in 1..Depth : scopes'[d] = IF d = Depth THEN scope ELSE scopes[d]
  BY <1>1, <1>4, <1>5, ExceptSeq DEF TypeOK, Depth
<1>7. \A d \in 1..(Depth - 1) : d \in 1..Depth /\ d # Depth
  BY <1>1
<1>8. Depth' = Depth
  BY <1>6 DEF Depth
<1>9. scopes'[Depth] = scope
  BY <1>1, <1>6
<1> QED
  BY <1>3, <1>6, <1>7, <1>8, <1>9

LEMMA DepthIsPositive ==
    ASSUME TypeOK, Nesting
    PROVE  Depth \in Nat /\ Depth >= 2
<1>1. 1 \in 1..Height /\ Height \in 1..Height /\ 1 <= Height
  BY TypeFacts
<1>2. frames[1].depth <= frames[Height].depth
  BY <1>1 DEF Nesting
<1> QED
  BY <1>2, TypeFacts DEF Nesting, Top

\* setContinueAndBreakLabels sets the blocks of no label and those of the
\* label in front of the loop.
LEMMA LoopLabelFacts ==
    ASSUME TypeOK, Nesting, NEW continueBlock \in Nat, NEW breakBlock \in Nat,
           SetContinueAndBreakLabels(continueBlock, breakBlock)
    PROVE  /\ scopes' \in Seq([Keys -> Nat]) /\ Depth' = Depth
           /\ \A d \in 1..(Depth - 1) : scopes'[d] = scopes[d]
           /\ scopes'[Depth][<<"break", NoLabel>>] = breakBlock
           /\ scopes'[Depth][<<"continue", NoLabel>>] = continueBlock
           /\ \A jump \in Jumps, label \in Labels :
                scopes'[Depth][<<jump, label>>] =
                    IF Top.kind = "label" /\ label = Top.label
                    THEN IF jump = "continue" THEN continueBlock ELSE breakBlock
                    ELSE scopes[Depth][<<jump, label>>]
<1>1. PICK labels : labels = {NoLabel} \cup (IF Top.kind = "label" THEN {Top.label} ELSE {})
  OBVIOUS
<1>2. PICK new : new = [k \in {"continue", "break"} \X labels |->
                          IF k[1] = "continue" THEN continueBlock ELSE breakBlock]
  OBVIOUS
<1>3. SetBlocks(new)
  BY <1>1, <1>2 DEF SetContinueAndBreakLabels, SetBlocksOfLoop
<1>4. \A key \in DOMAIN new : new[key] \in Nat
  BY <1>2
<1>5. /\ scopes' \in Seq([Keys -> Nat]) /\ Depth' = Depth
      /\ \A d \in 1..(Depth - 1) : scopes'[d] = scopes[d]
      /\ \A key \in Keys : scopes'[Depth][key] =
            IF key \in DOMAIN new THEN new[key] ELSE scopes[Depth][key]
  BY <1>3, <1>4, SetBlocksFacts, DepthIsPositive
<1>6. \A jump \in Jumps, label \in Labels \cup {NoLabel} :
        /\ <<jump, label>> \in Keys
        /\ <<jump, label>> \in DOMAIN new <=> label \in labels
        /\ label \in labels =>
            new[<<jump, label>>] = IF jump = "continue" THEN continueBlock ELSE breakBlock
  BY <1>2 DEF Keys, Jumps
<1>7. /\ scopes'[Depth][<<"break", NoLabel>>] = breakBlock
      /\ scopes'[Depth][<<"continue", NoLabel>>] = continueBlock
  <2>1. NoLabel \in labels /\ "break" \in Jumps /\ "continue" \in Jumps
    BY <1>1 DEF Jumps
  <2> QED
    BY <1>5, <1>6, <2>1
<1>8. ASSUME NEW jump \in Jumps, NEW label \in Labels
      PROVE  scopes'[Depth][<<jump, label>>] =
                IF Top.kind = "label" /\ label = Top.label
                THEN IF jump = "continue" THEN continueBlock ELSE breakBlock
                ELSE scopes[Depth][<<jump, label>>]
  <2>1. label \in labels <=> Top.kind = "label" /\ label = Top.label
    BY <1>1, NoLabelIsNone
  <2> QED
    BY <1>5, <1>6, <2>1
<1> QED
  BY <1>5, <1>7, <1>8

\* A step that begins a loop whose blocks are all new.
LEMMA LoopInv ==
    ASSUME IInv, NEW f \in FrameType, frames' = Append(frames, f), Top.body # "none",
           f.kind \in Loops, f.body = "one", f.label = NoLabel, f.depth = Depth,
           SetContinueAndBreakLabels(f.next, f.end),
           blocks' \in Blocks, Len(blocks) <= Len(blocks'),
           f.end \in BlockIds', f.next \in BlockIds', insert' \in BlockIds',
           looped' = looped \ {Depth}, UNCHANGED <<status, live>>
    PROVE  IInv'
<1> USE DEF IInv
<1>1. f.next \in Nat /\ f.end \in Nat
  BY DEF FrameType
<1>2. /\ scopes' \in Seq([Keys -> Nat]) /\ Depth' = Depth
      /\ \A d \in 1..(Depth - 1) : scopes'[d] = scopes[d]
      /\ scopes'[Depth][<<"break", NoLabel>>] = f.end
      /\ scopes'[Depth][<<"continue", NoLabel>>] = f.next
      /\ \A jump \in Jumps, label \in Labels :
            scopes'[Depth][<<jump, label>>] =
                IF Top.kind = "label" /\ label = Top.label
                THEN IF jump = "continue" THEN f.next ELSE f.end
                ELSE scopes[Depth][<<jump, label>>]
  BY <1>1, LoopLabelFacts
<1>3. FramePushed(f)
  BY DEF FramePushed
<1>4. Fits(f)
  BY <1>2 DEF Fits, Loops
<1>5. TypeOK'
  <2>1. frames' \in Seq(FrameType) /\ frames' # << >>
    BY <1>3, PushedFrames
  <2>2. looped' \subseteq Nat
    BY DEF TypeOK
  <2> QED
    BY <1>2, <2>1, <2>2, TypeStep DEF TypeOK
<1>6. BlockIds \subseteq BlockIds'
  BY BlockIdsGrow, TypeFacts
<1>7. Nesting' /\ Allocated'
  BY <1>3, <1>4, <1>6, PushedNesting, PushedAllocated
<1>8. LoopBlocks'
  BY <1>2, <1>3, <1>4, PushedLoop
<1>9. LabelBlocks'
  BY <1>2, <1>3, <1>4, PushedLoopLabels
<1>10. LoopsHaveBlocks'
  <2>1. f.end # 0 /\ f.next # 0
    BY DEF BlockIds
  <2> QED
    BY <1>2, <1>3, <2>1, PushedLoopHasBlocks
<1> QED
  BY <1>5, <1>7, <1>8, <1>9, <1>10

LEMMA GenerateWhileInv ==
    ASSUME IInv, GenerateWhile
    PROVE  IInv'
<1> USE DEF IInv
<1>1. PICK condition, body, end \in Nat :
        condition = Created + 1 /\ body = Created + 2 /\ end = Created + 3
  BY TypeFacts
<1>2. PICK f : f = [Frame("while", "one", <<condition, condition, end>>)
                        EXCEPT !.reached = TRUE]
  OBVIOUS
<1>3. /\ SetContinueAndBreakLabels(condition, end)
      /\ blocks' = Branch(Branch(blocks \o <<Attached, Attached, Detached>>,
                                 insert, {condition}), condition, {body, end})
      /\ insert' = body /\ frames' = Append(frames, f)
      /\ looped' = looped \ {Depth} /\ UNCHANGED <<status, live>> /\ Top.body # "none"
  BY <1>1, <1>2 DEF GenerateWhile, Call, CompoundDue, StatementDue
<1>4. /\ f \in FrameType /\ f.kind = "while" /\ f.body = "one" /\ f.label = NoLabel
      /\ f.depth = Depth /\ f.next = condition /\ f.end = end
  <2>1. PICK g : g = Frame("while", "one", <<condition, condition, end>>)
    OBVIOUS
  <2>2. /\ g \in FrameType /\ g.kind = "while" /\ g.body = "one" /\ g.label = NoLabel
        /\ g.depth = Depth /\ g.next = condition /\ g.end = end
    BY <2>1, FrameIsTyped, TypeFacts DEF Frame, Loops
  <2> QED
    BY <1>2, <2>1, <2>2 DEF FrameType
<1>5. blocks' \in Blocks /\ Len(blocks') = Len(blocks) + 3
  <2>1. PICK bs : bs = blocks \o <<Attached, Attached, Detached>>
    OBVIOUS
  <2>2. bs \in Blocks /\ Len(bs) = Len(blocks) + 3
    BY <2>1, CreatedType, TypeFacts
  <2>3. {condition} \in SUBSET Nat /\ {body, end} \in SUBSET Nat
    OBVIOUS
  <2>4. PICK branched : branched = Branch(bs, insert, {condition})
    OBVIOUS
  <2>5. branched \in Blocks /\ Len(branched) = Len(bs)
    BY <2>2, <2>3, <2>4, BranchType
  <2> QED
    BY <1>3, <2>1, <2>2, <2>3, <2>4, <2>5, BranchType
<1>6. {condition, body, end} \subseteq BlockIds' /\ Len(blocks) <= Len(blocks')
  BY <1>1, <1>5, TypeFacts DEF BlockIds
<1> QED
  BY <1>3, <1>4, <1>5, <1>6, LoopInv DEF Loops

LEMMA GenerateForInv ==
    ASSUME IInv, NEW hasCondition \in BOOLEAN, GenerateFor(hasCondition)
    PROVE  IInv'
<1> USE DEF IInv
<1>1. PICK end, body, incrementer, head \in Nat :
        /\ end = Created + 1 /\ body = Created + 2 /\ incrementer = Created + 3
        /\ head = IF hasCondition THEN Created + 4 ELSE body
  BY TypeFacts
<1>2. PICK f : f = [Frame("for", "one", <<head, incrementer, end>>)
                        EXCEPT !.reached = hasCondition]
  OBVIOUS
<1>3. PICK created : created = blocks \o <<Detached, Attached, Detached>>
  OBVIOUS
<1>4. /\ SetContinueAndBreakLabels(incrementer, end)
      /\ blocks' = IF hasCondition
                   THEN Branch(Branch(Append(created, Attached), insert, {head}),
                               head, {body, end})
                   ELSE Branch(created, insert, {body})
      /\ insert' = body /\ frames' = Append(frames, f)
      /\ looped' = looped \ {Depth} /\ UNCHANGED <<status, live>> /\ Top.body # "none"
  BY <1>1, <1>2, <1>3 DEF GenerateFor, Call, CompoundDue, StatementDue
<1>5. /\ f \in FrameType /\ f.kind = "for" /\ f.body = "one" /\ f.label = NoLabel
      /\ f.depth = Depth /\ f.next = incrementer /\ f.end = end
  <2>1. PICK g : g = Frame("for", "one", <<head, incrementer, end>>)
    OBVIOUS
  <2>2. /\ g \in FrameType /\ g.kind = "for" /\ g.body = "one" /\ g.label = NoLabel
        /\ g.depth = Depth /\ g.next = incrementer /\ g.end = end
    BY <2>1, FrameIsTyped, TypeFacts DEF Frame, Loops
  <2> QED
    BY <1>2, <2>1, <2>2 DEF FrameType
<1>6. created \in Blocks /\ Len(created) = Len(blocks) + 3
  BY <1>3, CreatedType, TypeFacts
<1>7. {head} \in SUBSET Nat /\ {body} \in SUBSET Nat /\ {body, end} \in SUBSET Nat
  OBVIOUS
<1>8. blocks' \in Blocks /\ Len(blocks') >= Len(blocks) + 3
  <2>1. CASE hasCondition
    <3>1. PICK bs : bs = Append(created, Attached)
      OBVIOUS
    <3>2. bs \in Blocks /\ Len(bs) = Len(created) + 1
      BY <1>6, <3>1, CreatedType
    <3>3. PICK branched : branched = Branch(bs, insert, {head})
      OBVIOUS
    <3>4. branched \in Blocks /\ Len(branched) = Len(bs)
      BY <1>7, <3>2, <3>3, BranchType
    <3>5. blocks' = Branch(branched, head, {body, end})
      BY <1>4, <2>1, <3>1, <3>3
    <3>6. blocks' \in Blocks /\ Len(blocks') = Len(branched)
      BY <1>7, <3>4, <3>5, BranchType
    <3> QED
      BY <1>6, <3>2, <3>4, <3>6, TypeFacts
  <2>2. CASE ~hasCondition
    <3>1. blocks' \in Blocks /\ Len(blocks') = Len(created)
      BY <1>4, <1>6, <1>7, <2>2, BranchType
    <3> QED
      BY <1>6, <3>1, TypeFacts
  <2> QED
    BY <2>1, <2>2
<1>9. {end, body, incrementer} \subseteq BlockIds' /\ Len(blocks) <= Len(blocks')
  <2>1. Len(blocks') \in Nat
    BY <1>8, LenProperties DEF Blocks
  <2> QED
    BY <1>1, <1>8, <2>1, TypeFacts DEF BlockIds
<1> QED
  BY <1>4, <1>5, <1>8, <1>9, LoopInv DEF Loops

LEMMA GenerateLabeledInv ==
    ASSUME IInv, NEW label \in Labels, GenerateLabeled(label)
    PROVE  IInv'
<1> USE DEF IInv
<1>1. PICK end \in Nat : end = Created + 1
  BY TypeFacts
<1>2. PICK f : f = [Frame("label", "one", <<0, 0, end>>) EXCEPT !.label = label]
  OBVIOUS
<1>3. PICK new : new = [k \in {<<"break", label>>} |-> end]
  OBVIOUS
<1>4. /\ blocks' = Append(blocks, Detached) /\ SetBlocks(new)
      /\ frames' = Append(frames, f) /\ Top.body # "none"
      /\ UNCHANGED <<insert, status, live, looped>>
      /\ \A i \in 1..Height : frames[i].label # label
  BY <1>1, <1>2, <1>3 DEF GenerateLabeled, Call, CompoundDue, StatementDue
<1>5. /\ f \in FrameType /\ f.kind = "label" /\ f.body = "one" /\ f.label = label
      /\ f.depth = Depth /\ f.end = end
  <2>1. PICK g : g = Frame("label", "one", <<0, 0, end>>)
    OBVIOUS
  <2>2. g \in FrameType /\ g.kind = "label" /\ g.body = "one" /\ g.depth = Depth /\ g.end = end
    BY <2>1, FrameIsTyped, TypeFacts DEF Frame
  <2> QED
    BY <1>2, <2>1, <2>2 DEF FrameType
<1>6. /\ scopes' \in Seq([Keys -> Nat]) /\ Depth' = Depth
      /\ \A d \in 1..(Depth - 1) : scopes'[d] = scopes[d]
      /\ \A key \in Keys : scopes'[Depth][key] =
            IF key \in DOMAIN new THEN new[key] ELSE scopes[Depth][key]
  <2>1. \A key \in DOMAIN new : new[key] \in Nat
    BY <1>3
  <2> QED
    BY <1>4, <2>1, SetBlocksFacts, DepthIsPositive
<1>7. \A key \in Keys : scopes'[Depth][key] =
        IF key = <<"break", f.label>> THEN f.end ELSE scopes[Depth][key]
  BY <1>3, <1>5, <1>6
<1>8. blocks' \in Blocks /\ Len(blocks') = Len(blocks) + 1
  BY <1>4, CreatedType, TypeFacts
<1>9. end \in BlockIds' /\ BlockIds \subseteq BlockIds' /\ Len(blocks) <= Len(blocks')
  BY <1>1, <1>8, TypeFacts DEF BlockIds
<1>10. FramePushed(f)
  BY <1>4, <1>5 DEF FramePushed
<1>11. label # NoLabel
  BY NoLabelIsNone
<1>12. Fits(f)
  BY <1>4, <1>5, <1>6, <1>11 DEF Fits
<1>13. TypeOK'
  <2>1. frames' \in Seq(FrameType) /\ frames' # << >>
    BY <1>10, PushedFrames
  <2>2. insert' \in BlockIds'
    BY <1>4, <1>9 DEF TypeOK
  <2> QED
    BY <1>4, <1>6, <1>8, <1>9, <2>1, <2>2, TypeStep DEF TypeOK
<1>14. Nesting' /\ Allocated'
  BY <1>5, <1>9, <1>10, <1>12, PushedNesting, PushedAllocated DEF Loops
<1>15. LoopBlocks' /\ LoopsHaveBlocks'
  <2>1. \A d \in 1..Depth, jump \in Jumps :
            scopes'[d][<<jump, NoLabel>>] = scopes[d][<<jump, NoLabel>>]
    <3> TAKE d \in 1..Depth, jump \in Jumps
    <3>1. <<jump, NoLabel>> \in Keys /\ <<jump, NoLabel>> # <<"break", f.label>>
      BY <1>5, <1>11 DEF Keys
    <3>2. d = Depth \/ d \in 1..(Depth - 1)
      BY DepthIsPositive
    <3> QED
      BY <1>6, <1>7, <3>1, <3>2
  <2>2. f.kind \notin Loops /\ f.kind # "block"
    BY <1>5 DEF Loops
  <2> QED
    BY <1>4, <1>10, <1>12, <2>1, <2>2, PushedLoopBlocks, PushedLoopsHaveBlocks
<1>16. LabelBlocks'
  BY <1>5, <1>6, <1>7, <1>10, <1>12, PushedLabel
<1> QED
  BY <1>13, <1>14, <1>15, <1>16

LEMMA EndFunctionInv ==
    ASSUME IInv, EndFunction
    PROVE  IInv'
<1> USE DEF IInv
<1>1. status' = "done" /\ UNCHANGED <<frames, scopes, live, looped>>
  BY DEF EndFunction
<1>2. ReturnBlock \in Nat /\ {} \in SUBSET Nat
  BY DEF ReturnBlock
<1>3. blocks' \in Blocks /\ Len(blocks') = Len(blocks)
  <2>1. PICK replaced : replaced = ReplaceAllUsesWith(blocks, ReturnBlock, insert)
    OBVIOUS
  <2>2. PICK joined : joined = BranchUnlessEnded(blocks, insert, ReturnBlock)
    OBVIOUS
  <2>3. replaced \in Blocks /\ Len(replaced) = Len(blocks)
    BY <2>1, ReplaceType, TypeFacts
  <2>4. joined \in Blocks /\ Len(joined) = Len(blocks)
    BY <1>2, <2>2, BranchUnlessEndedType, TypeFacts
  <2>5. \/ blocks' = Branch(Free(replaced, ReturnBlock), insert, {})
        \/ blocks' = Branch(Free(blocks, ReturnBlock), insert, {})
        \/ blocks' = Branch(AddBasicBlock(joined, ReturnBlock), ReturnBlock, {})
    BY <2>1, <2>2, Zenon DEF EndFunction
  <2>6. PICK bs : /\ bs \in Blocks /\ Len(bs) = Len(blocks)
                  /\ blocks' = Branch(bs, insert, {}) \/ blocks' = Branch(bs, ReturnBlock, {})
    BY <2>3, <2>4, <2>5, MoveType, TypeFacts
  <2> QED
    BY <1>2, <2>6, BranchType
<1>4. insert' \in BlockIds'
  <2>1. insert' = insert \/ insert' = ReturnBlock
    BY DEF EndFunction
  <2> QED
    BY <1>3, <2>1 DEF TypeOK, Allocated, BlockIds
<1>5. TypeOK'
  <2>1. /\ frames' \in Seq(FrameType) /\ frames' # << >>
        /\ scopes' \in Seq([Keys -> Nat]) /\ looped' \subseteq Nat /\ live' \in BOOLEAN
    BY <1>1 DEF TypeOK
  <2>2. Len(blocks) <= Len(blocks')
    BY <1>3, TypeFacts
  <2> QED
    BY <1>1, <1>3, <1>4, <2>1, <2>2, TypeStep
<1>6. FramesKept
  BY <1>1 DEF FramesKept, SameFrame, Height, TypeOK
<1> QED
  BY <1>1, <1>3, <1>5, <1>6, KeptInv, TypeFacts

-----------------------------------------------------------------------------
(* The invariant.                                                           *)

LEMMA InitInv == Init => IInv
<1> SUFFICES ASSUME Init PROVE IInv
  OBVIOUS
<1>1. /\ NoLabels \in [Keys -> Nat]
      /\ \A jump \in Jumps : NoLabels[<<jump, NoLabel>>] = 0
  BY DEF NoLabels, Keys
<1>2. scopes \in Seq([Keys -> Nat]) /\ Depth = 2 /\ \A d \in 1..Depth : scopes[d] = NoLabels
  BY <1>1 DEF Init, Depth
<1>3. PICK f : f = Frame("block", "list", NoBlocks)
  OBVIOUS
<1>4. /\ f \in FrameType /\ f.kind = "block" /\ f.body = "list" /\ f.label = NoLabel
      /\ f.depth = 2
  BY <1>2, <1>3, FrameIsTyped DEF NoBlocks, Frame
<1>5. frames = <<f>>
  BY <1>3 DEF Init
<1>6. frames \in Seq(FrameType) /\ frames # << >> /\ Height = 1 /\ frames[1] = f
  BY <1>4, <1>5 DEF Height
<1>7. blocks \in Seq(BlockType) /\ BlockIds = 1..2
  BY DEF Init, Attached, Detached, BlockType, BlockIds
<1>8. TypeOK
  BY <1>2, <1>6, <1>7 DEF TypeOK, Init, Entry
<1>9. Nesting
  BY <1>2, <1>4, <1>6 DEF Nesting, Top
<1>10. Allocated
  BY <1>4, <1>6, <1>7 DEF Allocated, Entry, ReturnBlock, Loops
<1>11. OpenLoops = {}
  BY <1>4, <1>6 DEF OpenLoops, Loops
<1>12. LoopBlocks
  BY <1>1, <1>2, <1>11 DEF LoopBlocks, LoopsAt
<1>13. LabelBlocks
  BY <1>4, <1>6 DEF LabelBlocks
<1>14. LoopsHaveBlocks
  BY <1>11 DEF LoopsHaveBlocks
<1> QED
  BY <1>8, <1>9, <1>10, <1>12, <1>13, <1>14 DEF IInv

\* A step of Next is one of its actions.
Straight ==
    \/ GenerateExpression \/ EnterBlock \/ LeaveBlock \/ GenerateThen \/ EndIf
    \/ GenerateWhile \/ EndWhile \/ EndFor \/ EndLabeled \/ GenerateReturn
    \/ EndFunction

LEMMA NextInv ==
    ASSUME IInv, [Next]_vars
    PROVE  IInv'
<1>1. ASSUME Straight PROVE IInv'
  BY <1>1, ExpressionInv, EnterBlockInv, LeaveBlockInv, GenerateThenInv, EndIfInv,
     GenerateWhileInv, EndWhileInv, EndForInv, EndLabeledInv, ReturnInv, EndFunctionInv
     DEF Straight
<1>2. ASSUME NEW hasElse \in BOOLEAN, GenerateElse(hasElse) PROVE IInv'
  BY <1>2, GenerateElseInv
<1>3. ASSUME NEW hasCondition \in BOOLEAN, GenerateFor(hasCondition) PROVE IInv'
  BY <1>3, GenerateForInv
<1>4. ASSUME NEW label \in Labels, GenerateLabeled(label) PROVE IInv'
  BY <1>4, GenerateLabeledInv
<1>5. ASSUME NEW label \in Labels \cup {NoLabel}, Break(label) PROVE IInv'
  <2>1. PICK left : Jump("break", label, left)
    BY <1>5 DEF Break
  <2> QED
    BY <2>1, JumpInv DEF Jumps
<1>6. ASSUME NEW label \in Labels \cup {NoLabel}, Continue(label) PROVE IInv'
  BY <1>6, JumpInv DEF Continue, Jumps
<1>7. ASSUME UNCHANGED vars PROVE IInv'
  <2>1. /\ UNCHANGED <<frames, scopes, blocks, insert, status, live, looped>>
    BY <1>7 DEF vars
  <2>2. TypeOK' /\ FramesKept /\ Len(blocks) <= Len(blocks')
    BY <2>1, TypeFacts DEF IInv, TypeOK, BlockIds, FramesKept, SameFrame, Height
  <2> QED
    BY <2>1, <2>2, KeptInv
<1> QED
  BY <1>1, <1>2, <1>3, <1>4, <1>5, <1>6, <1>7, Zenon DEF Next, Straight, Stopped

\* The frames nest like the statements and blocks of the source, and the
\* scopes hold the blocks of the loops and labels in progress.
THEOREM Invariant == Spec => []IInv
<1>1. Init => IInv
  BY InitInv
<1>2. IInv /\ [Next]_vars => IInv'
  BY NextInv
<1> QED
  BY <1>1, <1>2, PTL DEF Spec

-----------------------------------------------------------------------------
(* Jumps find the blocks of the statements they stand in.                   *)

LEMMA InnermostLoopFacts ==
    ASSUME TypeOK, OpenLoops # {}
    PROVE  InnermostLoop \in OpenLoops /\ \A j \in OpenLoops : j <= InnermostLoop
<1>1. OpenLoops \in SUBSET (1..Height) /\ Height \in Nat
  BY FrameFacts DEF OpenLoops
<1>2. \E i \in OpenLoops : \A j \in OpenLoops : j <= i
  BY <1>1, HasMaximum
<1> QED
  BY <1>2 DEF InnermostLoop

LEMMA LoopBlockFound ==
    ASSUME IInv, OpenLoops # {}, Undisturbed
    PROVE  /\ GetLabel(<<"break", NoLabel>>) = frames[InnermostLoop].end
           /\ GetLabel(<<"continue", NoLabel>>) = frames[InnermostLoop].next
           /\ frames[InnermostLoop].end # 0 /\ frames[InnermostLoop].next # 0
<1> USE DEF IInv
<1>1. PICK i \in OpenLoops : i = InnermostLoop /\ \A j \in OpenLoops : j <= i
  BY InnermostLoopFacts
<1>2. PICK d : d = frames[i].depth
  OBVIOUS
<1>3. /\ i \in 1..Height /\ d \in 1..Depth /\ d \in Nat /\ Depth \in Nat
      /\ \A j \in 1..Height : frames[j].depth \in Nat
  <2>1. i \in 1..Height /\ Height \in 1..Height /\ i <= Height /\ 1 \in 1..Height /\ 1 <= i
    BY TypeFacts DEF OpenLoops
  <2>2. \A j \in 1..Height : frames[j].depth \in Nat
    BY FrameFacts DEF FrameType
  <2>3. d <= Depth /\ 2 <= d
    BY <1>2, <2>1 DEF Nesting, Top
  <2> QED
    BY <1>2, <2>1, <2>2, <2>3, TypeFacts
<1>4. \A e \in d..Depth : e \notin looped
  BY <1>1, <1>2 DEF Undisturbed
<1>5. ASSUME NEW e \in (d + 1)..Depth
      PROVE  LoopsAt(e) = {}
  <2> SUFFICES ASSUME NEW j \in LoopsAt(e) PROVE FALSE
    OBVIOUS
  <2>1. j \in OpenLoops /\ frames[j].depth = e /\ j \in 1..Height /\ j <= i
    BY <1>1 DEF LoopsAt, OpenLoops
  <2>2. frames[j].depth <= frames[i].depth
    BY <1>3, <2>1 DEF Nesting
  <2> QED
    BY <1>2, <1>3, <2>1, <2>2
<1>6. ASSUME NEW jump \in Jumps, NEW e \in (d + 1)..Depth
      PROVE  scopes[e][<<jump, NoLabel>>] = 0
  <2>1. e \in (1..Depth) \ looped
    BY <1>3, <1>4
  <2> QED
    BY <1>5, <2>1 DEF LoopBlocks
<1>7. /\ scopes[d][<<"break", NoLabel>>] = frames[i].end
      /\ scopes[d][<<"continue", NoLabel>>] = frames[i].next
  <2>1. d \in (1..Depth) \ looped
    BY <1>3, <1>4
  <2>2. i \in LoopsAt(d) /\ \A j \in LoopsAt(d) : j <= i
    BY <1>1, <1>2 DEF LoopsAt
  <2> QED
    BY <2>1, <2>2 DEF LoopBlocks
<1>8. frames[i].end # 0 /\ frames[i].next # 0
  <2>1. frames[i].kind \in Loops /\ frames[i].kind # "block"
    BY DEF OpenLoops, Loops
  <2>2. frames[i].end \in BlockIds /\ frames[i].next \in BlockIds
    BY <1>3, <2>1 DEF Allocated
  <2> QED
    BY <2>2 DEF BlockIds
<1>9. <<"break", NoLabel>> \in Keys /\ <<"continue", NoLabel>> \in Keys
  BY DEF Keys, Jumps
<1>10. GetLabel(<<"break", NoLabel>>) = frames[i].end
  BY <1>3, <1>6, <1>7, <1>8, <1>9, GetLabelInnermost DEF Jumps
<1>11. GetLabel(<<"continue", NoLabel>>) = frames[i].next
  BY <1>3, <1>6, <1>7, <1>8, <1>9, GetLabelInnermost DEF Jumps
<1> QED
  BY <1>1, <1>8, <1>10, <1>11

LEMMA LabelFrameFacts ==
    ASSUME IInv, NEW label \in Labels, label \in OpenLabels
    PROVE  /\ LabelFrame(label) \in 1..Height
           /\ frames[LabelFrame(label)].label = label
           /\ frames[LabelFrame(label)].kind = "label"
           /\ Top.body # "none" => frames[LabelFrame(label)].body = "one"
<1> USE DEF IInv
<1>1. \E i \in 1..Height : frames[i].label = label
  BY DEF OpenLabels
<1>2. PICK i \in 1..Height : i = LabelFrame(label) /\ frames[i].label = label
  BY <1>1 DEF LabelFrame
<1>3. label # NoLabel
  BY NoLabelIsNone
<1>4. frames[i].kind = "label"
  BY <1>2, <1>3 DEF Nesting
<1>5. ASSUME Top.body # "none" PROVE frames[i].body = "one"
  <2>1. frames[i].body \in {"list", "one", "none"}
    BY FrameFacts DEF FrameType
  <2>2. frames[i].body # "list"
    BY <1>4 DEF Nesting
  <2>3. frames[i].body # "none"
    <3>1. i = Height \/ i \in 1..(Height - 1)
      BY TypeFacts
    <3> QED
      BY <1>5, <3>1 DEF Nesting, Top
  <2> QED
    BY <2>1, <2>2, <2>3
<1> QED
  BY <1>2, <1>4, <1>5

\* The statement behind a label is the loop that follows it on the stack.
LEMMA LabeledLoop ==
    ASSUME TypeOK, NEW i \in 1..Height, frames[i].kind = "label", HasLoop(i)
    PROVE  LabeledStatement(i) = i + 1 /\ i + 1 \in OpenLoops
<1>1. Height \in Nat /\ i \in Nat /\ i < Height /\ frames[i + 1].kind \in Loops
  BY TypeFacts DEF HasLoop
<1>2. PICK n \in Nat : n = i + 1 /\ n \in i..Height
  BY <1>1
<1>3. frames[n].kind # "label"
  BY <1>1, <1>2 DEF Loops
<1>4. \A k \in i..(n - 1) : k = i
  BY <1>1, <1>2
<1>5. /\ \A k \in i..(n - 1) : frames[k].kind = "label"
      /\ n = Height \/ frames[n].kind # "label"
  BY <1>3, <1>4
<1>6. ASSUME NEW j \in i..Height,
             \A k \in i..(j - 1) : frames[k].kind = "label",
             j = Height \/ frames[j].kind # "label"
      PROVE  j = n
  <2>1. j # i
    BY <1>1, <1>6
  <2>2. ~(j > n)
    <3> SUFFICES ASSUME j > n PROVE FALSE
      OBVIOUS
    <3>1. n \in i..(j - 1)
      BY <1>1, <1>2
    <3> QED
      BY <1>3, <1>6, <3>1
  <2> QED
    BY <1>1, <1>2, <2>1, <2>2
<1>7. LabeledStatement(i) = n
  BY <1>2, <1>5, <1>6 DEF LabeledStatement
<1>8. n \in OpenLoops
  BY <1>1, <1>2 DEF OpenLoops
<1> QED
  BY <1>2, <1>7, <1>8

LEMMA LabelBlockFound ==
    ASSUME IInv, NEW label \in Labels, label \in OpenLabels, Top.body # "none"
    PROVE  /\ GetLabel(<<"break", label>>) \in BreakTargets(label)
           /\ GetLabel(<<"break", label>>) # 0
           /\ GetLabel(<<"break", label>>) =
                frames[IF HasLoop(LabelFrame(label)) THEN LabelFrame(label) + 1
                       ELSE LabelFrame(label)].end
           /\ HasLoop(LabelFrame(label)) =>
                /\ GetLabel(<<"continue", label>>) \in ContinueTargets(label)
                /\ GetLabel(<<"continue", label>>) # 0
                /\ GetLabel(<<"continue", label>>) = frames[LabelFrame(label) + 1].next
<1> USE DEF IInv
<1>1. PICK i \in 1..Height : /\ i = LabelFrame(label) /\ frames[i].label = label
                             /\ frames[i].kind = "label" /\ frames[i].body = "one"
  BY LabelFrameFacts
<1>2. PICK d : d = frames[i].depth
  OBVIOUS
<1>3. d \in 1..Depth /\ d \in Nat /\ Depth \in Nat
  <2>1. Height \in 1..Height /\ i <= Height /\ 1 \in 1..Height /\ 1 <= i
    BY TypeFacts
  <2>2. d \in Nat
    BY <1>2, FrameFacts DEF FrameType
  <2>3. d <= Depth /\ 2 <= d
    BY <1>2, <2>1 DEF Nesting, Top
  <2> QED
    BY <2>2, <2>3, TypeFacts
<1>4. LabelBlocksOf(i)
  BY LabelBlocksSplit
<1>5. /\ \A e \in (d + 1)..Depth, jump \in Jumps : scopes[e][<<jump, label>>] = 0
      /\ scopes[d][<<"break", label>>] = frames[IF HasLoop(i) THEN i + 1 ELSE i].end
      /\ HasLoop(i) => scopes[d][<<"continue", label>>] = frames[i + 1].next
  BY <1>1, <1>2, <1>4 DEF LabelBlocksOf
<1>6. <<"break", label>> \in Keys /\ <<"continue", label>> \in Keys
  BY DEF Keys, Jumps
<1>7. label # NoLabel
  BY NoLabelIsNone
<1>8. HasLoop(i) => /\ frames[i + 1].end # 0 /\ frames[i + 1].next # 0
                    /\ LabeledStatement(i) = i + 1 /\ i + 1 \in OpenLoops
  <2> SUFFICES ASSUME HasLoop(i) PROVE /\ frames[i + 1].end # 0 /\ frames[i + 1].next # 0
                    /\ LabeledStatement(i) = i + 1 /\ i + 1 \in OpenLoops
    OBVIOUS
  <2>1. LabeledStatement(i) = i + 1 /\ i + 1 \in OpenLoops
    BY <1>1, LabeledLoop
  <2>2. i + 1 \in 1..Height /\ frames[i + 1].kind \in Loops /\ frames[i + 1].kind # "block"
    BY <2>1 DEF OpenLoops, Loops
  <2>3. frames[i + 1].end \in BlockIds /\ frames[i + 1].next \in BlockIds
    BY <2>2 DEF Allocated
  <2> QED
    BY <2>1, <2>3 DEF BlockIds
<1>9. frames[i].end # 0
  <2>1. frames[i].end \in BlockIds
    BY <1>1 DEF Allocated
  <2> QED
    BY <2>1 DEF BlockIds
<1>10. scopes[d][<<"break", label>>] # 0
  BY <1>5, <1>8, <1>9
<1>11. GetLabel(<<"break", label>>) = scopes[d][<<"break", label>>]
  BY <1>3, <1>5, <1>6, <1>10, GetLabelInnermost DEF Jumps
<1>12. scopes[d][<<"break", label>>] \in BreakTargets(label)
  BY <1>1, <1>5, <1>7, <1>8 DEF BreakTargets
<1>13. ASSUME HasLoop(i)
       PROVE  /\ GetLabel(<<"continue", label>>) \in ContinueTargets(label)
              /\ GetLabel(<<"continue", label>>) # 0
              /\ GetLabel(<<"continue", label>>) = frames[i + 1].next
  <2>1. scopes[d][<<"continue", label>>] = frames[i + 1].next /\ frames[i + 1].next # 0
    BY <1>5, <1>8, <1>13
  <2>2. GetLabel(<<"continue", label>>) = scopes[d][<<"continue", label>>]
    BY <1>3, <1>5, <1>6, <2>1, GetLabelInnermost DEF Jumps
  <2>3. ContinueTargets(label) = {frames[i + 1].next}
    BY <1>1, <1>7, <1>8, <1>13 DEF ContinueTargets
  <2> QED
    BY <2>1, <2>2, <2>3
<1> QED
  BY <1>1, <1>5, <1>10, <1>11, <1>12, <1>13

\* Where the jumps of the source that the code gets right go on.
LEMMA BreakFound ==
    ASSUME IInv, ~AnyBody, NEW label \in Labels \cup {NoLabel}, Break(label)
    PROVE  /\ GetLabel(<<"break", label>>) \in BreakTargets(label)
           /\ GetLabel(<<"break", label>>) # 0
<1>1. CASE label = NoLabel
  <2>1. OpenLoops # {} /\ Undisturbed
    BY <1>1 DEF Break, BreakLegal
  <2> QED
    BY <1>1, <2>1, LoopBlockFound DEF BreakTargets
<1>2. CASE label \in Labels
  <2>1. label # NoLabel
    BY <1>2, NoLabelIsNone
  <2>2. label \in OpenLabels /\ Top.body # "none"
    BY <2>1 DEF Break, BreakLegal, SimpleDue, StatementDue
  <2> QED
    BY <1>2, <2>2, LabelBlockFound
<1> QED
  BY <1>1, <1>2

\* The statement behind a label of a continue is a loop: the next frame is that
\* loop, or another label.
LEMMA ContinueLabel ==
    ASSUME IInv, NEW label \in Labels, ContinueLegal(label), Top.body # "none"
    PROVE  label \in OpenLabels /\ (OuterLabel(label) \/ HasLoop(LabelFrame(label)))
<1>1. label # NoLabel
  BY NoLabelIsNone
<1>2. label \in OpenLabels /\ LabeledStatement(LabelFrame(label)) \in OpenLoops
  BY <1>1 DEF ContinueLegal
<1>3. PICK i \in 1..Height : i = LabelFrame(label) /\ frames[i].kind = "label"
  BY <1>2, LabelFrameFacts
<1>4. PICK n \in Nat : n = Height /\ i <= n
  BY TypeFacts DEF IInv
<1>5. \E j \in i..n : /\ \A k \in i..(j - 1) : frames[k].kind = "label"
                      /\ j = n \/ frames[j].kind # "label"
  <2> DEFINE D == {j \in i..n : \A k \in i..j : frames[k].kind = "label"}
  <2>1. i \in D /\ D \in SUBSET (1..n) /\ D # {}
    BY <1>3, <1>4
  <2>2. PICK x \in D : \A y \in D : y <= x
    <3> HIDE DEF D
    <3> QED
      BY <2>1, HasMaximum
  <2>3. x \in i..n /\ x \in Nat /\ \A k \in i..x : frames[k].kind = "label"
    BY <1>4, <2>2
  <2>4. CASE x = n
    BY <2>3, <2>4
  <2>5. CASE x # n
    <3>1. x + 1 \in i..n /\ x + 1 \notin D
      BY <1>4, <2>1, <2>2, <2>3, <2>5
    <3>2. frames[x + 1].kind # "label"
      <4> SUFFICES ASSUME frames[x + 1].kind = "label" PROVE FALSE
        OBVIOUS
      <4>1. \A k \in i..(x + 1) : k \in i..x \/ k = x + 1
        BY <2>3
      <4>2. \A k \in i..(x + 1) : frames[k].kind = "label"
        BY <2>3, <4>1
      <4> QED
        BY <3>1, <4>2
    <3>3. \A k \in i..((x + 1) - 1) : frames[k].kind = "label"
      BY <2>3
    <3> QED
      BY <3>1, <3>2, <3>3
  <2> QED
    BY <2>4, <2>5
<1>6. PICK j \in i..n : /\ j = LabeledStatement(i)
                        /\ \A k \in i..(j - 1) : frames[k].kind = "label"
  BY <1>4, <1>5 DEF LabeledStatement
<1>7. frames[j].kind \in Loops
  BY <1>2, <1>3, <1>6 DEF OpenLoops
<1>8. j # i
  BY <1>3, <1>7 DEF Loops
<1>9. i < Height
  BY <1>4, <1>6, <1>8
<1>10. CASE j = i + 1
  BY <1>2, <1>3, <1>7, <1>9, <1>10 DEF HasLoop
<1>11. CASE j # i + 1
  <2>1. i + 1 \in i..(j - 1)
    BY <1>4, <1>6, <1>8, <1>11
  <2> QED
    BY <1>2, <1>3, <1>6, <2>1 DEF OuterLabel
<1> QED
  BY <1>10, <1>11

LEMMA ContinueFound ==
    ASSUME IInv, ~AnyBody, NEW label \in Labels \cup {NoLabel}, Continue(label),
           ~(label \in Labels /\ OuterLabel(label))
    PROVE  /\ GetLabel(<<"continue", label>>) \in ContinueTargets(label)
           /\ GetLabel(<<"continue", label>>) # 0
<1>1. CASE label = NoLabel
  <2>1. OpenLoops # {} /\ Undisturbed
    BY <1>1 DEF Continue, ContinueLegal
  <2> QED
    BY <1>1, <2>1, LoopBlockFound DEF ContinueTargets
<1>2. CASE label \in Labels
  <2>1. ContinueLegal(label) /\ Top.body # "none"
    BY DEF Continue, SimpleDue, StatementDue
  <2>2. label \in OpenLabels /\ HasLoop(LabelFrame(label))
    BY <1>2, <2>1, ContinueLabel
  <2> QED
    BY <1>2, <2>1, <2>2, LabelBlockFound
<1> QED
  BY <1>1, <1>2

\* A key with a block in some scope is found.
LEMMA GetLabelFound ==
    ASSUME TypeOK, NEW key \in Keys, NEW d \in 1..Depth, scopes[d][key] # 0
    PROVE  GetLabel(key) # 0
<1> DEFINE having == {e \in 1..Depth : scopes[e][key] # 0}
<1>1. having \in SUBSET (1..Depth) /\ having # {} /\ Depth \in Nat
  BY FrameFacts
<1>2. PICK e \in having : \A c \in having : c <= e
  <2> HIDE DEF having
  <2> QED
    BY <1>1, HasMaximum
<1>3. e \in 1..Depth /\ scopes[e][key] # 0 /\ \A c \in (e + 1)..Depth : scopes[c][key] = 0
  BY <1>1, <1>2
<1> QED
  BY <1>3, GetLabelInnermost

\* A jump without a label finds the blocks of some loop.
LEMMA UnlabeledFound ==
    ASSUME IInv, OpenLoops # {}, NEW jump \in Jumps
    PROVE  GetLabel(<<jump, NoLabel>>) # 0
<1>1. PICK i \in OpenLoops : i \in 1..Height
  BY DEF OpenLoops
<1>2. frames[i].depth \in 1..Depth
  BY <1>1, DepthsInScope DEF IInv
<1>3. scopes[frames[i].depth][<<jump, NoLabel>>] # 0
  BY <1>1 DEF IInv, LoopsHaveBlocks
<1>4. <<jump, NoLabel>> \in Keys
  BY DEF Keys
<1> QED
  BY <1>2, <1>3, <1>4, GetLabelFound DEF IInv

\* In every body, the assertions of break and continue statements hold, but for
\* a continue to a label in front of another label: the scopes have a block for
\* every other jump that TypeScript accepts.
THEOREM AssertionsAlwaysHold == Spec => AssertionsHold
<1> DEFINE Excused == \E label \in Labels : Continue(label) /\ OuterLabel(label)
<1>1. ASSUME Straight PROVE status' # "failed"
  BY <1>1 DEF Straight, GenerateExpression, EnterBlock, LeaveBlock, GenerateThen, EndIf,
     GenerateWhile, EndWhile, EndFor, EndLabeled, GenerateReturn, EndFunction, SimpleDue,
     CompoundDue, StatementDue, BodyGenerated
<1>2. ASSUME NEW hasElse \in BOOLEAN, GenerateElse(hasElse) PROVE status' # "failed"
  BY <1>2 DEF GenerateElse, BodyGenerated
<1>3. ASSUME NEW hasCondition \in BOOLEAN, GenerateFor(hasCondition) PROVE status' # "failed"
  BY <1>3 DEF GenerateFor, CompoundDue, StatementDue
<1>4. ASSUME NEW label \in Labels, GenerateLabeled(label) PROVE status' # "failed"
  BY <1>4 DEF GenerateLabeled, CompoundDue, StatementDue
<1>5. ASSUME NEW kind \in Jumps, NEW label \in Labels \cup {NoLabel}, NEW left,
             Jump(kind, label, left), StatementDue, GetLabel(<<kind, label>>) # 0
      PROVE  status' # "failed"
  BY <1>5 DEF Jump, StatementDue
<1>6. ASSUME IInv, NEW label \in Labels \cup {NoLabel}, Break(label)
      PROVE  status' # "failed"
  <2>1. PICK left : Jump("break", label, left) /\ StatementDue /\ BreakLegal(label)
    BY <1>6 DEF Break, SimpleDue
  <2>2. GetLabel(<<"break", label>>) # 0
    <3>1. CASE label = NoLabel
      BY <1>6, <2>1, <3>1, UnlabeledFound DEF BreakLegal, Jumps
    <3>2. CASE label \in Labels
      <4>1. label \in OpenLabels /\ Top.body # "none"
        BY <2>1, <3>2, NoLabelIsNone DEF BreakLegal, StatementDue
      <4> QED
        BY <1>6, <3>2, <4>1, LabelBlockFound
    <3> QED
      BY <3>1, <3>2
  <2> QED
    BY <1>5, <2>1, <2>2 DEF Jumps
<1>7. ASSUME IInv, NEW label \in Labels \cup {NoLabel}, Continue(label)
      PROVE  status' # "failed" \/ Excused
  <2>1. Jump("continue", label, 0) /\ StatementDue /\ ContinueLegal(label)
    BY <1>7 DEF Continue, SimpleDue
  <2>2. CASE label = NoLabel
    <3>1. GetLabel(<<"continue", label>>) # 0
      BY <1>7, <2>1, <2>2, UnlabeledFound DEF ContinueLegal, Jumps
    <3> QED
      BY <1>5, <2>1, <3>1 DEF Jumps
  <2>3. CASE label \in Labels /\ OuterLabel(label)
    BY <1>7, <2>3
  <2>4. CASE label \in Labels /\ ~OuterLabel(label)
    <3>1. Top.body # "none"
      BY <2>1 DEF StatementDue
    <3>2. label \in OpenLabels /\ HasLoop(LabelFrame(label))
      BY <1>7, <2>1, <2>4, <3>1, ContinueLabel
    <3>3. GetLabel(<<"continue", label>>) # 0
      BY <1>7, <2>4, <3>1, <3>2, LabelBlockFound
    <3> QED
      BY <1>5, <2>1, <3>3 DEF Jumps
  <2> QED
    BY <2>2, <2>3, <2>4
<1> HIDE DEF Excused
<1>8. ASSUME IInv, Next PROVE (status' = "failed" => Excused) \/ UNCHANGED vars
  BY <1>1, <1>2, <1>3, <1>4, <1>6, <1>7, <1>8, Zenon DEF Next, Straight, Stopped
<1>9. IInv /\ [Next]_vars => [status' = "failed" => Excused]_vars
  BY <1>8
<1> QED
  BY <1>9, Invariant, PTL DEF Spec, AssertionsHold, Excused

\* In a body in which no jump may find the blocks of an ended loop, every break
\* that finds a block leaves the loop or the labeled statement it stands in, and
\* every such continue goes on with the loop it names.
THEOREM JumpsGoToEnclosing ==
    ASSUME ~AnyBody
    PROVE  Spec => JumpsToEnclosing
<1> DEFINE Enclosing ==
        \A label \in Labels \cup {NoLabel} :
            /\ Break(label) => blocks'[insert].to \subseteq BreakTargets(label)
            /\ Continue(label) => blocks'[insert].to \subseteq ContinueTargets(label)
<1>1. ASSUME IInv, NEW kind \in Jumps, NEW label \in Labels \cup {NoLabel}, NEW left,
             Jump(kind, label, left), GetLabel(<<kind, label>>) # 0
      PROVE  blocks'[insert].to = {GetLabel(<<kind, label>>)}
  <2>1. blocks' = Branch(blocks, insert, {GetLabel(<<kind, label>>)})
    BY <1>1 DEF Jump
  <2>2. insert \in DOMAIN blocks /\ blocks[insert] \in BlockType
    BY <1>1, LenProperties, ElementOfSeq DEF IInv, TypeOK, BlockIds
  <2> QED
    BY <2>1, <2>2 DEF Branch, BlockType
<1>2. ASSUME IInv, NEW label \in Labels \cup {NoLabel}, Break(label)
      PROVE  blocks'[insert].to \subseteq BreakTargets(label)
  <2>1. PICK left : Jump("break", label, left)
    BY <1>2 DEF Break
  <2> QED
    BY <1>1, <1>2, <2>1, BreakFound DEF Jumps
<1>3. ASSUME IInv, NEW label \in Labels \cup {NoLabel}, Continue(label), status' # "failed"
      PROVE  blocks'[insert].to \subseteq ContinueTargets(label)
  <2>1. Jump("continue", label, 0)
    BY <1>3 DEF Continue
  <2>2. GetLabel(<<"continue", label>>) # 0
    BY <1>3, <2>1 DEF Jump
  <2>3. ~(label \in Labels /\ OuterLabel(label))
    BY <1>3, <2>2, NoLabelIsNone DEF Continue
  <2> QED
    BY <1>1, <1>3, <2>1, <2>2, <2>3, ContinueFound DEF Jumps
<1>4. IInv => (status' # "failed" => Enclosing)
  BY <1>2, <1>3
<1> QED
  BY <1>4, Invariant, PTL DEF JumpsToEnclosing

-----------------------------------------------------------------------------
(* The blocks.  The lemmas are about frames, blocks and insert blocks as     *)
(* values: Woven says how the blocks of a function in progress are linked,  *)
(* Paths which of them are reached, and Agree how they belong to the frames. *)

\* The ids of the blocks bs.
Ids(bs) == 1..Len(bs)

\* The blocks bs with the insert block x and the blocks Q that wait to be added.
Woven(bs, x, Q) ==
    /\ bs \in Blocks /\ x \in Ids(bs) /\ Q \subseteq Ids(bs) /\ Entry \in Ids(bs)
    /\ \A b \in Ids(bs) :
        /\ bs[b].holds # "overrun"
        /\ bs[b].holds # "terminator" => bs[b].to = {}
        /\ bs[b].at = "function" => b = x \/ bs[b].holds = "terminator"
        /\ \A c \in bs[b].to : c \in Ids(bs) /\ (bs[c].at = "function" \/ c \in Q)
    /\ bs[x].at = "function"
    /\ \A b \in Q : bs[b] = Detached

\* Blocks that are part of the function stay there, with their terminators.
Stay(bs, cs) ==
    /\ Len(bs) <= Len(cs)
    /\ \A b \in Ids(bs) :
        /\ bs[b].at = "function" => cs[b].at = "function"
        /\ bs[b].holds = "terminator" => cs[b].holds = "terminator"

\* A block that the insert block may branch to.
Joinable(bs, Q, t) == t \in Ids(bs) /\ (bs[t].at = "function" \/ t \in Q)

\* The branches of bs to old go to new in cs.
Redirects(bs, cs, old, new) ==
    /\ Len(cs) = Len(bs)
    /\ \A b \in Ids(bs) :
        cs[b].to = IF old \in bs[b].to THEN (bs[b].to \ {old}) \cup {new} ELSE bs[b].to

\* The blocks are where they were and hold what they held.
SameBlocks(bs, cs) ==
    \A b \in Ids(bs) : cs[b].at = bs[b].at /\ cs[b].holds = bs[b].holds

\* The blocks when an empty else block x is replaced with the block e behind it.
Erased(bs, x, e) == AddBasicBlock(Free(ReplaceAllUsesWith(bs, x, e), x), e)

\* The same without the block x.
StayBut(bs, cs, x) ==
    \A b \in Ids(bs) :
        /\ b # x /\ bs[b].at = "function" => cs[b].at = "function"
        /\ cs[b].holds = bs[b].holds

\* The blocks of a sequence of blocks.
LEMMA BlockFacts ==
    ASSUME NEW bs \in Blocks
    PROVE  /\ Len(bs) \in Nat /\ DOMAIN bs = Ids(bs) /\ Ids(bs) \subseteq Nat
           /\ \A b \in Ids(bs) : bs[b] \in BlockType
BY LenProperties DEF Blocks, Ids

\* A new block, added to the function or not, is empty.
LEMMA DetachedType ==
    /\ Detached \in BlockType /\ Attached \in BlockType /\ Detached # Attached
    /\ Detached.at = "detached" /\ Detached.holds = "nothing" /\ Detached.to = {}
    /\ Attached.at = "function" /\ Attached.holds = "nothing" /\ Attached.to = {}
BY DEF Detached, Attached, BlockType

\* What Branch changes, when the block is not terminated.
LEMMA BranchFacts ==
    ASSUME NEW bs \in Blocks, NEW b \in Ids(bs), NEW T \in SUBSET Nat,
           bs[b].holds \notin {"terminator", "overrun"}
    PROVE  /\ Branch(bs, b, T) \in Blocks /\ Len(Branch(bs, b, T)) = Len(bs)
           /\ \A c \in Ids(bs) : c # b => Branch(bs, b, T)[c] = bs[c]
           /\ Branch(bs, b, T)[b].at = bs[b].at
           /\ Branch(bs, b, T)[b].holds = "terminator"
           /\ Branch(bs, b, T)[b].to = T
<1>1. bs[b] \in BlockType /\ DOMAIN bs = Ids(bs)
  BY BlockFacts
<1> QED
  BY <1>1, BranchType DEF Branch, After, BlockType

\* What adding or releasing a block changes.
LEMMA AddFacts ==
    ASSUME NEW bs \in Blocks, NEW b \in Ids(bs)
    PROVE  /\ AddBasicBlock(bs, b) \in Blocks /\ Len(AddBasicBlock(bs, b)) = Len(bs)
           /\ \A c \in Ids(bs) : c # b => AddBasicBlock(bs, b)[c] = bs[c]
           /\ AddBasicBlock(bs, b)[b].at = "function"
           /\ AddBasicBlock(bs, b)[b].holds = bs[b].holds
           /\ AddBasicBlock(bs, b)[b].to = bs[b].to
           /\ Free(bs, b) \in Blocks /\ Len(Free(bs, b)) = Len(bs)
           /\ \A c \in Ids(bs) : c # b => Free(bs, b)[c] = bs[c]
           /\ Free(bs, b)[b].at = "freed"
           /\ Free(bs, b)[b].holds = bs[b].holds
           /\ Free(bs, b)[b].to = bs[b].to
<1>1. bs[b] \in BlockType /\ DOMAIN bs = Ids(bs)
  BY BlockFacts
<1> QED
  BY <1>1, MoveType DEF AddBasicBlock, Free, BlockType

\* What appended instructions change, when the block is not terminated.
LEMMA CodeFacts ==
    ASSUME NEW bs \in Blocks, NEW b \in Ids(bs),
           bs[b].holds \notin {"terminator", "overrun"}
    PROVE  /\ AppendCode(bs, b) \in Blocks /\ Len(AppendCode(bs, b)) = Len(bs)
           /\ \A c \in Ids(bs) : c # b => AppendCode(bs, b)[c] = bs[c]
           /\ AppendCode(bs, b)[b].at = bs[b].at
           /\ AppendCode(bs, b)[b].holds = "code"
           /\ AppendCode(bs, b)[b].to = bs[b].to
<1>1. bs[b] \in BlockType /\ DOMAIN bs = Ids(bs)
  BY BlockFacts
<1> QED
  BY <1>1, AppendCodeType DEF AppendCode, After, BlockType

\* What a new block changes.
LEMMA AppendFacts ==
    ASSUME NEW bs \in Blocks
    PROVE  /\ Append(bs, Detached) \in Blocks
           /\ Len(Append(bs, Detached)) = Len(bs) + 1
           /\ \A c \in Ids(bs) : c \in Ids(Append(bs, Detached)) /\ Append(bs, Detached)[c] = bs[c]
           /\ Append(bs, Detached)[Len(bs) + 1] = Detached
           /\ \A c \in Ids(Append(bs, Detached)) : c \in Ids(bs) \/ c = Len(bs) + 1
           /\ Len(bs) + 1 \notin Ids(bs) /\ Len(bs) + 1 \in Ids(Append(bs, Detached))
<1>1. Append(bs, Detached) \in Blocks /\ Len(Append(bs, Detached)) = Len(bs) + 1
  BY CreatedType
<1>2. Len(bs) \in Nat
  BY BlockFacts
<1> QED
  BY <1>1, <1>2, DetachedType, AppendProperties DEF Ids, Blocks

\* ReplaceAllUsesWith redirects branches and changes nothing else.
LEMMA ReplaceFacts ==
    ASSUME NEW bs \in Blocks, NEW old, NEW new \in Nat
    PROVE  /\ ReplaceAllUsesWith(bs, old, new) \in Blocks
           /\ Redirects(bs, ReplaceAllUsesWith(bs, old, new), old, new)
           /\ SameBlocks(bs, ReplaceAllUsesWith(bs, old, new))
<1>1. /\ ReplaceAllUsesWith(bs, old, new) \in Blocks
      /\ Len(ReplaceAllUsesWith(bs, old, new)) = Len(bs)
  BY ReplaceType
<1>2. DOMAIN bs = Ids(bs) /\ \A b \in Ids(bs) : bs[b] \in BlockType
  BY BlockFacts
<1> QED
  BY <1>1, <1>2 DEF ReplaceAllUsesWith, BlockType, Redirects, SameBlocks

-----------------------------------------------------------------------------
\* A branch from the insert block to blocks of the function or that wait.
LEMMA WovenBranch ==
    ASSUME NEW bs, NEW x, NEW Q, Woven(bs, x, Q), bs[x].holds # "terminator",
           NEW T, \A t \in T : Joinable(bs, Q, t), x \notin Q
    PROVE  /\ Woven(Branch(bs, x, T), x, Q)
           /\ Stay(bs, Branch(bs, x, T))
           /\ Len(Branch(bs, x, T)) = Len(bs)
           /\ Branch(bs, x, T)[x].holds = "terminator" /\ Branch(bs, x, T)[x].to = T
           /\ \A c \in Ids(bs) : c # x => Branch(bs, x, T)[c] = bs[c]
<1>1. bs \in Blocks /\ x \in Ids(bs) /\ bs[x].holds \notin {"terminator", "overrun"}
  BY DEF Woven
<1>2. T \in SUBSET Nat /\ T \subseteq Ids(bs)
  BY <1>1, BlockFacts DEF Joinable
<1> DEFINE cs == Branch(bs, x, T)
<1>3. /\ cs \in Blocks /\ Len(cs) = Len(bs)
      /\ \A c \in Ids(bs) : c # x => cs[c] = bs[c]
      /\ cs[x].at = bs[x].at /\ cs[x].holds = "terminator" /\ cs[x].to = T
  BY <1>1, <1>2, BranchFacts
<1> HIDE DEF cs
<1>4. Ids(cs) = Ids(bs) /\ Len(bs) \in Nat
  BY <1>1, <1>3, BlockFacts DEF Ids
<1>5. \A c \in Ids(bs) : cs[c].at = bs[c].at
  BY <1>3
<1>6. Woven(cs, x, Q)
  BY <1>3, <1>4, <1>5 DEF Woven, Joinable
<1>7. Stay(bs, cs)
  BY <1>3, <1>4, <1>5 DEF Stay
<1> QED
  BY <1>3, <1>6, <1>7 DEF cs

\* Instructions that are appended to the insert block.
LEMMA WovenCode ==
    ASSUME NEW bs, NEW x, NEW Q, Woven(bs, x, Q), bs[x].holds # "terminator", x \notin Q
    PROVE  /\ Woven(AppendCode(bs, x), x, Q)
           /\ Stay(bs, AppendCode(bs, x))
           /\ AppendCode(bs, x)[x].holds # "terminator"
           /\ Len(AppendCode(bs, x)) = Len(bs)
           /\ \A b \in Ids(bs) : AppendCode(bs, x)[b].to = bs[b].to
<1>1. bs \in Blocks /\ x \in Ids(bs) /\ bs[x].holds \notin {"terminator", "overrun"}
  BY DEF Woven
<1> DEFINE cs == AppendCode(bs, x)
<1>3. /\ cs \in Blocks /\ Len(cs) = Len(bs)
      /\ \A c \in Ids(bs) : c # x => cs[c] = bs[c]
      /\ cs[x].at = bs[x].at /\ cs[x].holds = "code" /\ cs[x].to = bs[x].to
  BY <1>1, CodeFacts
<1> HIDE DEF cs
<1>4. Ids(cs) = Ids(bs) /\ Len(bs) \in Nat
  BY <1>1, <1>3, BlockFacts DEF Ids
<1>5. \A c \in Ids(bs) : cs[c].at = bs[c].at /\ cs[c].to = bs[c].to
  BY <1>3
<1>6. Woven(cs, x, Q)
  BY <1>1, <1>3, <1>4, <1>5 DEF Woven
<1>7. Stay(bs, cs)
  BY <1>1, <1>3, <1>4, <1>5 DEF Stay
<1> QED
  BY <1>3, <1>5, <1>6, <1>7 DEF cs

\* A block that is created waits.
LEMMA WovenAppend ==
    ASSUME NEW bs, NEW x, NEW Q, Woven(bs, x, Q), x \notin Q
    PROVE  /\ Woven(Append(bs, Detached), x, Q \cup {Len(bs) + 1})
           /\ Stay(bs, Append(bs, Detached))
           /\ x # Len(bs) + 1 /\ Len(bs) + 1 \notin Q
<1>1. bs \in Blocks /\ x \in Ids(bs)
  BY DEF Woven
<1> DEFINE cs == Append(bs, Detached)
<1>2. PICK n \in Nat : n = Len(bs)
  BY <1>1, BlockFacts
<1>3. /\ cs \in Blocks /\ Len(cs) = n + 1
      /\ \A c \in Ids(bs) : c \in Ids(cs) /\ cs[c] = bs[c]
      /\ cs[n + 1] = Detached
      /\ \A c \in Ids(cs) : c \in Ids(bs) \/ c = n + 1
      /\ n + 1 \notin Ids(bs) /\ n + 1 \in Ids(cs)
  BY <1>1, <1>2, AppendFacts
<1> HIDE DEF cs
<1>4. PICK m : m = n + 1
  OBVIOUS
<1>5. /\ \A c \in Ids(bs) : c \in Ids(cs) /\ cs[c] = bs[c]
      /\ cs[m] = Detached
      /\ \A c \in Ids(cs) : c \in Ids(bs) \/ c = m
      /\ m \notin Ids(bs) /\ m \in Ids(cs)
  BY <1>3, <1>4
<1>6. \A b \in Ids(cs) : \A c \in cs[b].to :
        c \in Ids(cs) /\ (cs[c].at = "function" \/ c \in Q \cup {m})
  <2> SUFFICES ASSUME NEW b \in Ids(cs), NEW c \in cs[b].to
               PROVE  c \in Ids(cs) /\ (cs[c].at = "function" \/ c \in Q \cup {m})
    OBVIOUS
  <2>1. b \in Ids(bs)
    BY <1>5, DetachedType
  <2> QED
    BY <1>5, <2>1 DEF Woven
<1>7. \A b \in Ids(cs) :
        /\ cs[b].holds # "overrun"
        /\ cs[b].holds # "terminator" => cs[b].to = {}
        /\ cs[b].at = "function" => b = x \/ cs[b].holds = "terminator"
  BY <1>5, DetachedType DEF Woven
<1>8. Woven(cs, x, Q \cup {m})
  BY <1>1, <1>3, <1>5, <1>6, <1>7 DEF Woven
<1>9. Stay(bs, cs)
  BY <1>2, <1>3, <1>5 DEF Stay
<1>10. x # m /\ m \notin Q
  BY <1>5 DEF Woven
<1> QED
  BY <1>2, <1>4, <1>8, <1>9, <1>10 DEF cs

\* A block that waits is added, behind a terminated insert block.
LEMMA WovenMove ==
    ASSUME NEW bs, NEW x, NEW Q, Woven(bs, x, Q), bs[x].holds = "terminator", x \notin Q,
           NEW c \in Q
    PROVE  /\ Woven(AddBasicBlock(bs, c), c, Q \ {c})
           /\ Stay(bs, AddBasicBlock(bs, c))
           /\ Len(AddBasicBlock(bs, c)) = Len(bs)
           /\ AddBasicBlock(bs, c)[c].holds = "nothing"
           /\ \A b \in Ids(bs) : AddBasicBlock(bs, c)[b].to = bs[b].to
           /\ \A b \in Ids(bs) : b # c => AddBasicBlock(bs, c)[b] = bs[b]
<1>1. bs \in Blocks /\ c \in Ids(bs) /\ bs[c] = Detached
  BY DEF Woven
<1> DEFINE cs == AddBasicBlock(bs, c)
<1>3. /\ cs \in Blocks /\ Len(cs) = Len(bs)
      /\ \A b \in Ids(bs) : b # c => cs[b] = bs[b]
      /\ cs[c].at = "function" /\ cs[c].holds = bs[c].holds /\ cs[c].to = bs[c].to
  BY <1>1, AddFacts
<1> HIDE DEF cs
<1>4. Ids(cs) = Ids(bs) /\ Len(bs) \in Nat
  BY <1>1, <1>3, BlockFacts DEF Ids
<1>5. \A b \in Ids(bs) : cs[b].to = bs[b].to /\ cs[b].holds = bs[b].holds
  BY <1>3
<1>6. \A b \in Ids(cs) : \A t \in cs[b].to :
        t \in Ids(cs) /\ (cs[t].at = "function" \/ t \in Q \ {c})
  <2> SUFFICES ASSUME NEW b \in Ids(bs), NEW t \in bs[b].to
               PROVE  t \in Ids(bs) /\ (cs[t].at = "function" \/ t \in Q \ {c})
    BY <1>4, <1>5
  <2>1. t \in Ids(bs) /\ (bs[t].at = "function" \/ t \in Q)
    BY DEF Woven
  <2> QED
    BY <1>3, <2>1
<1>7. \A b \in Ids(cs) :
        /\ cs[b].holds # "overrun"
        /\ cs[b].holds # "terminator" => cs[b].to = {}
        /\ cs[b].at = "function" => b = c \/ cs[b].holds = "terminator"
  BY <1>3, <1>4, <1>5 DEF Woven
<1>8. Woven(cs, c, Q \ {c})
  BY <1>1, <1>3, <1>4, <1>6, <1>7 DEF Woven
<1>9. Stay(bs, cs)
  BY <1>3, <1>4, <1>5 DEF Stay
<1>10. cs[c].holds = "nothing"
  BY <1>1, <1>3, DetachedType
<1> QED
  BY <1>3, <1>5, <1>8, <1>9, <1>10 DEF cs

\* A block that waits and has no uses is released.
LEMMA WovenFree ==
    ASSUME NEW bs, NEW x, NEW Q, Woven(bs, x, Q), x \notin Q, NEW c \in Q,
           UseEmpty(bs, c)
    PROVE  /\ Woven(Free(bs, c), x, Q \ {c})
           /\ Stay(bs, Free(bs, c))
           /\ Len(Free(bs, c)) = Len(bs)
           /\ Free(bs, c)[x] = bs[x]
           /\ \A b \in Ids(bs) : Free(bs, c)[b].to = bs[b].to
           /\ \A b \in Ids(bs) : b # c => Free(bs, c)[b] = bs[b]
<1>1. bs \in Blocks /\ c \in Ids(bs) /\ bs[c] = Detached /\ x \in Ids(bs) /\ x # c
  BY DEF Woven
<1> DEFINE cs == Free(bs, c)
<1>3. /\ cs \in Blocks /\ Len(cs) = Len(bs)
      /\ \A b \in Ids(bs) : b # c => cs[b] = bs[b]
      /\ cs[c].at = "freed" /\ cs[c].holds = bs[c].holds /\ cs[c].to = bs[c].to
  BY <1>1, AddFacts
<1> HIDE DEF cs
<1>4. Ids(cs) = Ids(bs) /\ Len(bs) \in Nat
  BY <1>1, <1>3, BlockFacts DEF Ids
<1>5. \A b \in Ids(bs) : cs[b].to = bs[b].to /\ cs[b].holds = bs[b].holds
  BY <1>3
<1>6. \A b \in Ids(cs) : \A t \in cs[b].to :
        t \in Ids(cs) /\ (cs[t].at = "function" \/ t \in Q \ {c})
  <2> SUFFICES ASSUME NEW b \in Ids(bs), NEW t \in bs[b].to
               PROVE  t \in Ids(bs) /\ (cs[t].at = "function" \/ t \in Q \ {c})
    BY <1>4, <1>5
  <2>1. t \in Ids(bs) /\ (bs[t].at = "function" \/ t \in Q)
    BY DEF Woven
  <2>2. t # c
    BY <1>1, BlockFacts DEF UseEmpty
  <2> QED
    BY <1>3, <2>1, <2>2
<1>7. \A b \in Ids(cs) :
        /\ cs[b].holds # "overrun"
        /\ cs[b].holds # "terminator" => cs[b].to = {}
        /\ cs[b].at = "function" => b = x \/ cs[b].holds = "terminator"
  BY <1>3, <1>4, <1>5 DEF Woven
<1>8. Woven(cs, x, Q \ {c})
  BY <1>1, <1>3, <1>4, <1>6, <1>7 DEF Woven
<1>9. Stay(bs, cs)
  BY <1>1, <1>3, <1>4, <1>5, DetachedType DEF Stay
<1> QED
  BY <1>1, <1>3, <1>5, <1>8, <1>9 DEF cs

\* The end of an if whose else block is empty.
LEMMA WovenReplace ==
    ASSUME NEW bs, NEW x, NEW Q, Woven(bs, x, Q), x \notin Q, NEW e \in Q,
           bs[x].holds = "nothing"
    PROVE  /\ Woven(Erased(bs, x, e), e, Q \ {e})
           /\ Len(Erased(bs, x, e)) = Len(bs)
           /\ Erased(bs, x, e)[e].holds = "nothing"
           /\ StayBut(bs, Erased(bs, x, e), x)
           /\ Redirects(bs, Erased(bs, x, e), x, e)
<1>0. PICK cs : cs = Erased(bs, x, e)
  OBVIOUS
<1>1. bs \in Blocks /\ e \in Ids(bs) /\ bs[e] = Detached /\ x \in Ids(bs) /\ x # e /\ e \in Nat
  BY BlockFacts DEF Woven
<1>2. PICK rs : rs = ReplaceAllUsesWith(bs, x, e)
  OBVIOUS
<1>3. /\ rs \in Blocks /\ Len(rs) = Len(bs)
      /\ \A b \in Ids(bs) :
            /\ rs[b].at = bs[b].at /\ rs[b].holds = bs[b].holds
            /\ rs[b].to = IF x \in bs[b].to THEN (bs[b].to \ {x}) \cup {e} ELSE bs[b].to
  <2>1. rs \in Blocks /\ Redirects(bs, rs, x, e) /\ SameBlocks(bs, rs)
    BY <1>1, <1>2, ReplaceFacts
  <2> QED
    BY <2>1 DEF Redirects, SameBlocks
<1>4. PICK fs : fs = Free(rs, x)
  OBVIOUS
<1>5. Ids(rs) = Ids(bs)
  BY <1>3 DEF Ids
<1>6. /\ fs \in Blocks /\ Len(fs) = Len(bs)
      /\ \A b \in Ids(bs) : b # x => fs[b] = rs[b]
      /\ fs[x].at = "freed" /\ fs[x].holds = rs[x].holds /\ fs[x].to = rs[x].to
  BY <1>1, <1>3, <1>4, <1>5, AddFacts
<1>7. Ids(fs) = Ids(bs)
  BY <1>6 DEF Ids
<1>8. /\ cs \in Blocks /\ Len(cs) = Len(bs)
      /\ \A b \in Ids(bs) : b # e => cs[b] = fs[b]
      /\ cs[e].at = "function" /\ cs[e].holds = fs[e].holds /\ cs[e].to = fs[e].to
  BY <1>0, <1>1, <1>2, <1>4, <1>6, <1>7, AddFacts DEF Erased
<1>9. Ids(cs) = Ids(bs)
  BY <1>8 DEF Ids
<1>10. \A b \in Ids(bs) :
        /\ cs[b].holds = bs[b].holds
        /\ cs[b].to = IF x \in bs[b].to THEN (bs[b].to \ {x}) \cup {e} ELSE bs[b].to
        /\ b # x /\ b # e => cs[b].at = bs[b].at
  <2> SUFFICES ASSUME NEW b \in Ids(bs)
               PROVE  /\ cs[b].holds = bs[b].holds /\ cs[b].to = rs[b].to
                      /\ b # x /\ b # e => cs[b].at = rs[b].at
    BY <1>3
  <2>1. cs[b].holds = fs[b].holds /\ cs[b].to = fs[b].to /\ (b # e => cs[b].at = fs[b].at)
    BY <1>8
  <2>2. fs[b].holds = rs[b].holds /\ fs[b].to = rs[b].to /\ (b # x => fs[b].at = rs[b].at)
    BY <1>6
  <2> QED
    BY <1>3, <2>1, <2>2
<1>11. cs[x].at = "freed" /\ cs[x].holds = "nothing" /\ cs[e].holds = "nothing"
  BY <1>1, <1>3, <1>6, <1>8, DetachedType
<1>12. \A b \in Ids(cs) : \A t \in cs[b].to :
        t \in Ids(cs) /\ (cs[t].at = "function" \/ t \in Q \ {e})
  <2> SUFFICES ASSUME NEW b \in Ids(bs), NEW t \in cs[b].to
               PROVE  t \in Ids(bs) /\ (cs[t].at = "function" \/ t \in Q \ {e})
    BY <1>9
  <2>1. CASE t = e
    BY <1>1, <1>8, <2>1
  <2>2. CASE t # e
    <3>1. t \in bs[b].to /\ t # x
      BY <1>10, <2>2
    <3>2. t \in Ids(bs) /\ (bs[t].at = "function" \/ t \in Q)
      BY <3>1 DEF Woven
    <3> QED
      BY <1>10, <2>2, <3>1, <3>2
  <2> QED
    BY <2>1, <2>2
<1>13. \A b \in Ids(cs) :
        /\ cs[b].holds # "overrun"
        /\ cs[b].holds # "terminator" => cs[b].to = {}
        /\ cs[b].at = "function" => b = e \/ cs[b].holds = "terminator"
  <2> SUFFICES ASSUME NEW b \in Ids(bs)
               PROVE  /\ cs[b].holds # "overrun"
                      /\ cs[b].holds # "terminator" => cs[b].to = {}
                      /\ cs[b].at = "function" => b = e \/ cs[b].holds = "terminator"
    BY <1>9
  <2>1. /\ bs[b].holds # "overrun"
        /\ bs[b].holds # "terminator" => bs[b].to = {}
        /\ bs[b].at = "function" => b = x \/ bs[b].holds = "terminator"
    BY DEF Woven
  <2> QED
    BY <1>10, <1>11, <2>1
<1>14. \A b \in Q \ {e} : cs[b] = Detached
  <2> SUFFICES ASSUME NEW b \in Q \ {e} PROVE cs[b] = Detached
    OBVIOUS
  <2>1. b \in Ids(bs) /\ bs[b] = Detached /\ b # x
    BY DEF Woven
  <2>2. cs[b] \in BlockType
    BY <1>8, <1>9, <2>1, BlockFacts
  <2> QED
    BY <1>10, <2>1, <2>2, DetachedType DEF BlockType, Detached
<1>15. Woven(cs, e, Q \ {e})
  BY <1>1, <1>8, <1>9, <1>12, <1>13, <1>14 DEF Woven
<1> QED
  <2>1. \A b \in Ids(bs) : b # x /\ bs[b].at = "function" => cs[b].at = "function"
    BY <1>8, <1>10
  <2>2. StayBut(bs, cs, x)
    BY <1>10, <2>1 DEF StayBut
  <2>3. Redirects(bs, cs, x, e)
    BY <1>8, <1>10 DEF Redirects
  <2> QED
    BY <1>0, <1>8, <1>11, <1>15, <2>2, <2>3

\* A set of blocks that has the entry and whatever its blocks branch to.
Closed(bs, S) == Entry \in S /\ \A b \in S : bs[b].to \subseteq S

\* The blocks reached from the entry: the least set that is closed.
Paths(bs) == {b \in Ids(bs) : \A S \in SUBSET Ids(bs) : Closed(bs, S) => b \in S}

\* Every branch goes to a block that exists.
Flows(bs) ==
    bs \in Blocks /\ Entry \in Ids(bs) /\ \A b \in Ids(bs) : bs[b].to \subseteq Ids(bs)

\* Blocks that are woven branch to blocks that exist; no insert block waits.
LEMMA WovenFlows ==
    ASSUME NEW bs, NEW x, NEW Q, Woven(bs, x, Q)
    PROVE  Flows(bs) /\ x \notin Q
BY DetachedType DEF Woven, Flows

\* What is reached has the entry and whatever its blocks branch to.
LEMMA PathsClosed ==
    ASSUME NEW bs, Flows(bs)
    PROVE  Closed(bs, Paths(bs)) /\ Paths(bs) \subseteq Ids(bs)
<1>1. Closed(bs, Ids(bs))
  BY DEF Flows, Closed
<1>2. Entry \in Paths(bs)
  BY DEF Paths, Closed, Flows
<1>3. ASSUME NEW b \in Paths(bs), NEW c \in bs[b].to PROVE c \in Paths(bs)
  <2>1. b \in Ids(bs) /\ c \in Ids(bs)
    BY <1>3 DEF Paths, Flows
  <2>2. ASSUME NEW S \in SUBSET Ids(bs), Closed(bs, S) PROVE c \in S
    BY <1>3, <2>2 DEF Paths, Closed
  <2> QED
    BY <2>1, <2>2 DEF Paths
<1> QED
  BY <1>2, <1>3 DEF Closed, Paths

\* What is reached is part of every closed set.
LEMMA PathsLeast ==
    ASSUME NEW bs, NEW S, Closed(bs, S), Flows(bs)
    PROVE  Paths(bs) \subseteq S
<1>1. Closed(bs, S \cap Ids(bs))
  BY DEF Closed, Flows
<1> QED
  BY <1>1 DEF Paths

\* Steps that change no branch keep what is reached.
LEMMA PathsSame ==
    ASSUME NEW bs, NEW cs, Flows(bs), Flows(cs), Len(cs) = Len(bs),
           \A b \in Ids(bs) : cs[b].to = bs[b].to
    PROVE  Paths(cs) = Paths(bs)
<1>1. Ids(cs) = Ids(bs)
  BY DEF Ids
<1>2. Closed(cs, Paths(bs)) /\ Closed(bs, Paths(cs))
  BY <1>1, PathsClosed DEF Closed
<1> QED
  BY <1>2, PathsLeast

\* A block that is created is not reached.
LEMMA PathsAppend ==
    ASSUME NEW bs, Flows(bs)
    PROVE  /\ Paths(Append(bs, Detached)) = Paths(bs)
           /\ Len(bs) + 1 \notin Paths(bs)
<1> DEFINE cs == Append(bs, Detached)
<1>1. bs \in Blocks
  BY DEF Flows
<1>2. PICK m : m = Len(bs) + 1
  OBVIOUS
<1>3. /\ cs \in Blocks
      /\ \A c \in Ids(bs) : c \in Ids(cs) /\ cs[c] = bs[c]
      /\ cs[m] = Detached
      /\ \A c \in Ids(cs) : c \in Ids(bs) \/ c = m
      /\ m \notin Ids(bs) /\ m \in Ids(cs)
  BY <1>1, <1>2, AppendFacts
<1> HIDE DEF cs
<1>4. Flows(cs)
  BY <1>3, DetachedType DEF Flows
<1>5. Closed(cs, Paths(bs))
  BY <1>3, PathsClosed DEF Closed
<1>6. Paths(cs) \subseteq Paths(bs)
  BY <1>4, <1>5, PathsLeast
<1>7. Closed(bs, Paths(cs))
  <2>1. Closed(cs, Paths(cs))
    BY <1>4, PathsClosed
  <2>2. \A b \in Paths(cs) : b \in Ids(bs)
    BY <1>6, PathsClosed
  <2> QED
    BY <1>3, <2>1, <2>2 DEF Closed
<1>8. Paths(bs) \subseteq Paths(cs)
  BY <1>7, PathsLeast
<1>9. m \notin Paths(bs)
  BY <1>3, PathsClosed
<1> QED
  BY <1>2, <1>6, <1>8, <1>9 DEF cs

\* A branch from a block without one: its targets are reached when it is.
LEMMA PathsBranch ==
    ASSUME NEW bs, NEW cs, NEW u, NEW T, Flows(bs), Flows(cs), Len(cs) = Len(bs),
           u \in Ids(bs), bs[u].to = {}, cs[u].to = T,
           \A b \in Ids(bs) : b # u => cs[b].to = bs[b].to,
           \A t \in T : t \in Ids(bs) /\ (bs[t].to = {} \/ t \in Paths(bs))
    PROVE  Paths(cs) = IF u \in Paths(bs) THEN Paths(bs) \cup T ELSE Paths(bs)
<1>1. Ids(cs) = Ids(bs)
  BY DEF Ids
<1>2. /\ Closed(bs, Paths(bs)) /\ Paths(bs) \subseteq Ids(bs)
      /\ Closed(cs, Paths(cs)) /\ Paths(cs) \subseteq Ids(bs)
  BY <1>1, PathsClosed
<1>3. Closed(bs, Paths(cs))
  BY <1>2 DEF Closed
<1>4. Paths(bs) \subseteq Paths(cs)
  BY <1>3, PathsLeast
<1>5. CASE u \in Paths(bs)
  <2>1. Closed(cs, Paths(bs) \cup T)
    <3> SUFFICES ASSUME NEW b \in Paths(bs) \cup T PROVE cs[b].to \subseteq Paths(bs) \cup T
      BY <1>2 DEF Closed
    <3>1. CASE b = u
      BY <3>1
    <3>2. CASE b # u
      BY <1>2, <3>2 DEF Closed
    <3> QED
      BY <3>1, <3>2
  <2>2. T \subseteq Paths(cs)
    BY <1>2, <1>4, <1>5 DEF Closed
  <2> QED
    BY <1>4, <1>5, <2>1, <2>2, PathsLeast
<1>6. CASE u \notin Paths(bs)
  <2>1. Closed(cs, Paths(bs))
    BY <1>2, <1>6 DEF Closed
  <2> QED
    BY <1>4, <1>6, <2>1, PathsLeast
<1> QED
  BY <1>5, <1>6

\* Uses that are replaced go on in the new block.
LEMMA PathsReplace ==
    ASSUME NEW bs, NEW cs, NEW x, NEW e, Flows(bs), Flows(cs), Redirects(bs, cs, x, e),
           x \in Ids(bs), e \in Ids(bs), x # e, x # Entry, bs[x].to = {}, bs[e].to = {}
    PROVE  Paths(cs) = IF x \in Paths(bs) THEN (Paths(bs) \ {x}) \cup {e} ELSE Paths(bs)
<1>1. Ids(cs) = Ids(bs)
  BY DEF Ids, Redirects
<1>0. \A b \in Ids(bs) :
        cs[b].to = IF x \in bs[b].to THEN (bs[b].to \ {x}) \cup {e} ELSE bs[b].to
  BY DEF Redirects
<1>2. /\ Closed(bs, Paths(bs)) /\ Paths(bs) \subseteq Ids(bs)
      /\ Closed(cs, Paths(cs)) /\ Paths(cs) \subseteq Ids(bs)
  BY <1>1, PathsClosed
<1>3. Closed(bs, Paths(cs) \cup {x})
  <2>1. ASSUME NEW b \in Paths(cs), NEW t \in bs[b].to PROVE t \in Paths(cs) \cup {x}
    <3>1. t = x \/ t \in cs[b].to
      BY <1>0, <1>2, <2>1
    <3> QED
      BY <1>2, <3>1 DEF Closed
  <2> QED
    BY <1>2, <2>1 DEF Closed
<1>4. Paths(bs) \subseteq Paths(cs) \cup {x}
  BY <1>3, PathsLeast
<1>5. CASE x \in Paths(bs)
  <2>1. Closed(cs, (Paths(bs) \ {x}) \cup {e})
    <3> SUFFICES ASSUME NEW b \in (Paths(bs) \ {x}) \cup {e}
                 PROVE  cs[b].to \subseteq (Paths(bs) \ {x}) \cup {e}
      BY <1>2 DEF Closed
    <3>1. CASE b = e
      BY <1>0, <3>1
    <3>2. CASE b # e
      <4>1. b \in Ids(bs) /\ bs[b].to \subseteq Paths(bs)
        BY <1>2, <3>2 DEF Closed
      <4> QED
        BY <1>0, <4>1
    <3> QED
      BY <3>1, <3>2
  <2>2. \E b \in Paths(bs) : x \in bs[b].to
    <3> SUFFICES ASSUME \A b \in Paths(bs) : x \notin bs[b].to PROVE FALSE
      OBVIOUS
    <3>1. Closed(bs, Paths(bs) \ {x})
      BY <1>2 DEF Closed
    <3> QED
      BY <1>5, <3>1, PathsLeast
  <2>3. PICK b \in Paths(bs) : x \in bs[b].to
    BY <2>2
  <2>4. b # x /\ b \in Ids(bs)
    BY <1>2, <2>3
  <2>5. b \in Paths(cs) /\ e \in cs[b].to
    BY <1>0, <1>4, <2>3, <2>4
  <2>6. e \in Paths(cs)
    BY <1>2, <2>5 DEF Closed
  <2> QED
    BY <1>4, <1>5, <2>1, <2>6, PathsLeast
<1>6. CASE x \notin Paths(bs)
  <2>1. \A b \in Paths(bs) : x \notin bs[b].to
    BY <1>2, <1>6 DEF Closed
  <2>2. Closed(cs, Paths(bs))
    BY <1>0, <1>2, <2>1 DEF Closed
  <2> QED
    BY <1>4, <1>6, <2>2, PathsLeast
<1> QED
  BY <1>5, <1>6

\* A block without uses is not reached.
LEMMA PathsUnused ==
    ASSUME NEW bs, Flows(bs), NEW c, UseEmpty(bs, c), c # Entry
    PROVE  c \notin Paths(bs)
<1>1. Closed(bs, Paths(bs)) /\ Paths(bs) \subseteq Ids(bs) /\ DOMAIN bs = Ids(bs)
  BY PathsClosed, BlockFacts DEF Flows
<1>2. Closed(bs, Paths(bs) \ {c})
  BY <1>1 DEF Closed, UseEmpty
<1> QED
  BY <1>2, PathsLeast

\* A set of natural numbers that is not empty has a least one.
LEMMA LeastNatural ==
    ASSUME NEW T \in SUBSET Nat, T # {}
    PROVE  \E x \in T : \A y \in T : ~(y < x)
<1>1. PICK x \in T : \A y \in T : <<y, x>> \notin OpToRel(<, Nat)
  BY NatLessThanWellFounded, WFMin, Zenon
<1>2. \A y \in T : ~(y < x)
  BY <1>1, Zenon DEF OpToRel
<1> QED
  BY <1>2

\* The recursive function of Reached.
IsStep(bs, m, f) ==
    f = [n \in 0..m |->
            IF n = 0 THEN {Entry}
            ELSE f[n - 1] \cup UNION {bs[b].to : b \in f[n - 1]}]

\* The recursion of Reached defines a function.
LEMMA StepExists ==
    ASSUME NEW bs, NEW m \in Nat
    PROVE  \E f : IsStep(bs, m, f)
<1> DEFINE T == {k \in Nat : ~ \E f : IsStep(bs, k, f)}
<1> SUFFICES ASSUME T # {} PROVE FALSE
  OBVIOUS
<1>1. PICK k \in T : \A j \in T : ~(j < k)
  <2>1. T \in SUBSET Nat
    OBVIOUS
  <2> HIDE DEF T
  <2> QED
    BY <2>1, LeastNatural
<1>2. CASE k = 0
  <2>1. IsStep(bs, 0, [n \in 0..0 |-> {Entry}])
    BY DEF IsStep
  <2> QED
    BY <1>2, <2>1
<1>3. CASE k # 0
  <2>1. PICK j \in Nat : j = k - 1 /\ k = j + 1 /\ j < k
    BY <1>3
  <2>2. PICK g : IsStep(bs, j, g)
    BY <1>1, <2>1
  <2> DEFINE next == g[j] \cup UNION {bs[b].to : b \in g[j]}
             f == [n \in 0..k |-> IF n = k THEN next ELSE g[n]]
  <2>3. ASSUME NEW n \in 0..k
        PROVE  f[n] = IF n = 0 THEN {Entry} ELSE f[n - 1] \cup UNION {bs[b].to : b \in f[n - 1]}
    <3>1. CASE n = k
      <4>1. n - 1 = j /\ n # 0 /\ j \in 0..k /\ j # k
        BY <2>1, <3>1
      <4> QED
        BY <3>1, <4>1
    <3>2. CASE n # k
      <4>1. n \in 0..j
        BY <2>1, <3>2
      <4>2. g[n] = IF n = 0 THEN {Entry} ELSE g[n - 1] \cup UNION {bs[b].to : b \in g[n - 1]}
        BY <2>2, <4>1 DEF IsStep
      <4>3. n # 0 => n - 1 \in 0..k /\ n - 1 # k
        BY <4>1, <2>1
      <4> QED
        BY <3>2, <4>2, <4>3
    <3> QED
      BY <3>1, <3>2
  <2>4. f = [n \in 0..k |-> f[n]]
    OBVIOUS
  <2> HIDE DEF f
  <2>5. IsStep(bs, k, f)
    BY <2>3, <2>4 DEF IsStep
  <2> QED
    BY <2>5
<1> QED
  BY <1>2, <1>3

\* Its value at the number of blocks is what is reached: before, every step
\* reaches a new block or none is reached any more.
LEMMA StepReaches ==
    ASSUME NEW bs, Flows(bs), NEW f, IsStep(bs, Len(bs), f)
    PROVE  f[Len(bs)] = Paths(bs)
<1>1. PICK m \in Nat : m = Len(bs)
  BY BlockFacts DEF Flows
<1>2. /\ f[0] = {Entry}
      /\ \A n \in 1..m : f[n] = f[n - 1] \cup UNION {bs[b].to : b \in f[n - 1]}
  BY <1>1 DEF IsStep
<1>3. Closed(bs, Paths(bs)) /\ Paths(bs) \subseteq Ids(bs)
  BY PathsClosed
<1>4. IsFiniteSet(Ids(bs)) /\ Cardinality(Ids(bs)) = m
  <2>1. IsFiniteSet(1..m) /\ Cardinality(1..m) = IF 1 > m THEN 0 ELSE m - 1 + 1
    BY FS_Interval
  <2>2. (IF 1 > m THEN 0 ELSE m - 1 + 1) = m
    OBVIOUS
  <2> QED
    BY <1>1, <2>1, <2>2 DEF Ids
<1> DEFINE Good(n) == /\ f[n] \subseteq Paths(bs) /\ Entry \in f[n]
                      /\ Closed(bs, f[n]) \/ n + 1 <= Cardinality(f[n])
<1>5. Good(0)
  <2>1. Cardinality({Entry}) = 1
    BY FS_Singleton
  <2> QED
    BY <1>2, <1>3, <2>1 DEF Closed
<1>6. ASSUME NEW n \in 1..m, Good(n - 1) PROVE Good(n)
  <2>1. PICK k \in Nat : k = n - 1 /\ n = k + 1
    OBVIOUS
  <2>2. /\ f[n] = f[k] \cup UNION {bs[b].to : b \in f[k]}
        /\ f[k] \subseteq Paths(bs) /\ Entry \in f[k]
        /\ Closed(bs, f[k]) \/ k + 1 <= Cardinality(f[k])
    BY <1>2, <1>6, <2>1
  <2> HIDE DEF Good
  <2>3. f[n] \subseteq Paths(bs) /\ Entry \in f[n]
    BY <1>3, <2>2 DEF Closed
  <2>4. CASE Closed(bs, f[k])
    <3>1. f[n] = f[k]
      BY <2>2, <2>4 DEF Closed
    <3> QED
      BY <2>3, <2>4, <3>1 DEF Good
  <2>5. CASE ~Closed(bs, f[k])
    <3>1. PICK b \in f[k] : ~(bs[b].to \subseteq f[k])
      BY <2>2, <2>5 DEF Closed
    <3>2. PICK c \in bs[b].to : c \notin f[k]
      BY <3>1
    <3>3. c \in f[n] /\ f[k] \cup {c} \subseteq f[n]
      BY <2>2, <3>2
    <3>4. /\ IsFiniteSet(f[n]) /\ IsFiniteSet(f[k])
      <4>1. f[n] \in SUBSET Ids(bs) /\ f[k] \in SUBSET Ids(bs)
        BY <1>3, <2>2, <2>3
      <4> QED
        BY <1>4, <4>1, FS_Subset
    <3>5. Cardinality(f[k] \cup {c}) = Cardinality(f[k]) + 1
      BY <3>2, <3>4, FS_AddElement
    <3>6. Cardinality(f[k] \cup {c}) <= Cardinality(f[n])
      BY <3>3, <3>4, FS_Subset
    <3>7. Cardinality(f[k]) \in Nat /\ Cardinality(f[n]) \in Nat
      BY <3>4, FS_CardinalityType
    <3>8. k + 1 <= Cardinality(f[k])
      BY <2>2, <2>5
    <3>9. n + 1 <= Cardinality(f[n])
      BY <2>1, <3>5, <3>6, <3>7, <3>8
    <3> QED
      BY <2>3, <3>9 DEF Good
  <2> QED
    BY <2>4, <2>5
<1> HIDE DEF Good
<1>7. Good(m)
  <2> DEFINE T == {n \in Nat : n <= m /\ ~Good(n)}
  <2>1. SUFFICES T = {}
    BY <2>1
  <2>2. SUFFICES ASSUME T # {} PROVE FALSE
    BY <2>2
  <2>3. PICK n \in T : \A k \in T : ~(k < n)
    <3>1. T \in SUBSET Nat
      OBVIOUS
    <3> HIDE DEF T
    <3> QED
      BY <2>2, <3>1, LeastNatural
  <2>4. n # 0
    BY <1>5, <2>3
  <2>5. n - 1 \in Nat /\ n - 1 < n /\ n - 1 <= m /\ n \in 1..m
    BY <2>3, <2>4
  <2>6. Good(n - 1)
    BY <2>3, <2>5
  <2> QED
    BY <1>6, <2>3, <2>5, <2>6
<1>8. f[m] \subseteq Paths(bs) /\ Entry \in f[m]
  BY <1>7 DEF Good
<1>9. Closed(bs, f[m])
  <2> SUFFICES ASSUME m + 1 <= Cardinality(f[m]) PROVE FALSE
    BY <1>7 DEF Good
  <2>1. f[m] \in SUBSET Ids(bs)
    BY <1>3, <1>8
  <2>2. Cardinality(f[m]) <= m /\ Cardinality(f[m]) \in Nat
    BY <1>4, <2>1, FS_Subset, FS_CardinalityType
  <2> QED
    BY <2>2
<1>10. Paths(bs) \subseteq f[m]
  BY <1>9, PathsLeast
<1> QED
  BY <1>1, <1>8, <1>10

\* Reached is the least closed set.
LEMMA ReachedPaths ==
    ASSUME Flows(blocks)
    PROVE  Reached = Paths(blocks)
<1>1. Created = Len(blocks) /\ Len(blocks) \in Nat
  BY BlockFacts DEF Created, Flows
<1>2. \E f : IsStep(blocks, Created, f)
  BY <1>1, StepExists
<1>3. IsStep(blocks, Created, CHOOSE f : IsStep(blocks, Created, f))
  BY <1>2
<1>4. Reached = (CHOOSE f : IsStep(blocks, Created, f))[Created]
  BY DEF Reached, IsStep
<1> QED
  BY <1>1, <1>3, <1>4, StepReaches

\* The path that is being generated is reached and goes on.
Goes(bs, x) == x \in Paths(bs) /\ bs[x].holds # "terminator"

\* A branch and a block that is added commute.
LEMMA BranchAdd ==
    ASSUME NEW bs \in Blocks, NEW b \in Ids(bs), NEW c \in Ids(bs), NEW T
    PROVE  AddBasicBlock(Branch(bs, b, T), c) = Branch(AddBasicBlock(bs, c), b, T)
<1>1. DOMAIN bs = Ids(bs) /\ bs[b] \in BlockType /\ bs[c] \in BlockType
  BY BlockFacts
<1>2. bs = [i \in Ids(bs) |-> bs[i]]
  BY <1>1, LenProperties DEF Blocks, Ids
<1> DEFINE left == AddBasicBlock(Branch(bs, b, T), c)
           right == Branch(AddBasicBlock(bs, c), b, T)
<1>3. ASSUME NEW i \in Ids(bs) PROVE left[i] = right[i]
  <2>1. CASE b # c
    BY <1>1, <1>2, <1>3, <2>1 DEF AddBasicBlock, Branch, BlockType
  <2>2. CASE b = c
    BY <1>1, <1>2, <1>3, <2>2 DEF AddBasicBlock, Branch, BlockType, After
  <2> QED
    BY <2>1, <2>2
<1>4. left = [i \in Ids(bs) |-> left[i]] /\ right = [i \in Ids(bs) |-> right[i]]
  BY <1>1, <1>2 DEF AddBasicBlock, Branch
<1> QED
  BY <1>3, <1>4

\* Blocks may be added in any order.
LEMMA AddAdd ==
    ASSUME NEW bs \in Blocks, NEW b \in Ids(bs), NEW c \in Ids(bs)
    PROVE  AddBasicBlock(AddBasicBlock(bs, b), c) = AddBasicBlock(AddBasicBlock(bs, c), b)
<1>1. DOMAIN bs = Ids(bs) /\ bs[b] \in BlockType /\ bs[c] \in BlockType
  BY BlockFacts
<1>2. bs = [i \in Ids(bs) |-> bs[i]]
  BY <1>1, LenProperties DEF Blocks, Ids
<1> DEFINE left == AddBasicBlock(AddBasicBlock(bs, b), c)
           right == AddBasicBlock(AddBasicBlock(bs, c), b)
<1>3. ASSUME NEW i \in Ids(bs) PROVE left[i] = right[i]
  BY <1>1, <1>2, <1>3 DEF AddBasicBlock, BlockType
<1>4. left = [i \in Ids(bs) |-> left[i]] /\ right = [i \in Ids(bs) |-> right[i]]
  BY <1>1, <1>2 DEF AddBasicBlock
<1> QED
  BY <1>3, <1>4

\* Three blocks that are created and not yet added.
Three(bs) == bs \o <<Detached, Detached, Detached>>

\* Blocks that are created in the function are created and added.
LEMMA CreatedInFunction ==
    ASSUME NEW bs \in Blocks, NEW n \in Nat, n = Len(bs)
    PROVE  /\ Three(bs) = Append(Append(Append(bs, Detached), Detached), Detached)
           /\ bs \o <<Attached, Detached, Detached>> = AddBasicBlock(Three(bs), n + 1)
           /\ bs \o <<Detached, Attached, Detached>> = AddBasicBlock(Three(bs), n + 2)
           /\ bs \o <<Attached, Attached, Detached>>
                = AddBasicBlock(AddBasicBlock(Three(bs), n + 1), n + 2)
           /\ Append(bs, Attached) = AddBasicBlock(Append(bs, Detached), n + 1)
<1> DEFINE D == Detached
           A == Attached
<1>1. D \in BlockType /\ A \in BlockType /\ [D EXCEPT !.at = "function"] = A
  BY DetachedType DEF Attached
<1> HIDE DEF D, A
<1>2. bs \in Seq(BlockType)
  BY DEF Blocks
<1> DEFINE seq(x, y, z) == [i \in 1..(n + 3) |->
                IF i <= n THEN bs[i] ELSE IF i = n + 1 THEN x ELSE IF i = n + 2 THEN y ELSE z]
           one(x) == [i \in 1..(n + 1) |-> IF i = n + 1 THEN x ELSE bs[i]]
<1>3. ASSUME NEW x \in BlockType, NEW y \in BlockType, NEW z \in BlockType
      PROVE  bs \o <<x, y, z>> = seq(x, y, z)
  BY <1>2, <1>3, Z3
<1>4. bs \o <<D, D, D>> = Append(Append(Append(bs, D), D), D)
  BY <1>1, <1>2
<1>5. n + 1 \in 1..(n + 3) /\ n + 2 \in 1..(n + 3) /\ n + 1 # n + 2 /\ ~(n + 1 <= n) /\ ~(n + 2 <= n)
  OBVIOUS
<1>6. ASSUME NEW x, NEW y, NEW z
      PROVE  /\ seq(x, y, z)[n + 1] = x /\ seq(x, y, z)[n + 2] = y
             /\ [seq(x, y, z) EXCEPT ![n + 1] = A] = seq(A, y, z)
             /\ [seq(x, y, z) EXCEPT ![n + 2] = A] = seq(x, A, z)
  BY <1>5
<1>7. ASSUME NEW x \in BlockType PROVE Append(bs, x) = one(x)
  <2>1. PICK f \in Seq(BlockType) : f = Append(bs, x)
    <3>1. Append(bs, x) \in Seq(BlockType)
      BY <1>2, <1>7, AppendProperties
    <3> QED
      BY <3>1
  <2>2. Len(f) = n + 1 /\ \A i \in 1..n : f[i] = bs[i]
    BY <1>2, <1>7, <2>1
  <2>3. f[n + 1] = x
    BY <1>2, <1>7, <2>1
  <2>4. f = [i \in 1..(n + 1) |-> f[i]]
    BY <2>2, LenProperties
  <2>5. \A i \in 1..(n + 1) : f[i] = IF i = n + 1 THEN x ELSE bs[i]
    BY <2>2, <2>3
  <2> QED
    BY <2>1, <2>4, <2>5
<1>8. /\ bs \o <<A, D, D>> = [bs \o <<D, D, D>> EXCEPT ![n + 1].at = "function"]
      /\ bs \o <<D, A, D>> = [bs \o <<D, D, D>> EXCEPT ![n + 2].at = "function"]
      /\ bs \o <<A, A, D>> = [bs \o <<A, D, D>> EXCEPT ![n + 2].at = "function"]
  <2> HIDE DEF seq
  <2>1. /\ bs \o <<D, D, D>> = seq(D, D, D) /\ bs \o <<A, D, D>> = seq(A, D, D)
        /\ bs \o <<D, A, D>> = seq(D, A, D) /\ bs \o <<A, A, D>> = seq(A, A, D)
    BY <1>1, <1>3
  <2>2. /\ seq(D, D, D)[n + 1] = D /\ seq(D, D, D)[n + 2] = D /\ seq(A, D, D)[n + 2] = D
    BY <1>6
  <2>3. [seq(D, D, D) EXCEPT ![n + 1].at = "function"] = [seq(D, D, D) EXCEPT ![n + 1] = A]
    BY <1>1, <2>2
  <2>4. [seq(D, D, D) EXCEPT ![n + 2].at = "function"] = [seq(D, D, D) EXCEPT ![n + 2] = A]
    BY <1>1, <2>2
  <2>5. [seq(A, D, D) EXCEPT ![n + 2].at = "function"] = [seq(A, D, D) EXCEPT ![n + 2] = A]
    BY <1>1, <2>2
  <2>6. /\ [seq(D, D, D) EXCEPT ![n + 1] = A] = seq(A, D, D)
        /\ [seq(D, D, D) EXCEPT ![n + 2] = A] = seq(D, A, D)
        /\ [seq(A, D, D) EXCEPT ![n + 2] = A] = seq(A, A, D)
    <3>1. [seq(D, D, D) EXCEPT ![n + 1] = A] = seq(A, D, D)
      BY <1>6
    <3>2. [seq(D, D, D) EXCEPT ![n + 2] = A] = seq(D, A, D)
      BY <1>6
    <3>3. [seq(A, D, D) EXCEPT ![n + 2] = A] = seq(A, A, D)
      BY <1>6
    <3> QED
      BY <3>1, <3>2, <3>3
  <2>7. /\ [seq(D, D, D) EXCEPT ![n + 1].at = "function"] = seq(A, D, D)
        /\ [seq(D, D, D) EXCEPT ![n + 2].at = "function"] = seq(D, A, D)
        /\ [seq(A, D, D) EXCEPT ![n + 2].at = "function"] = seq(A, A, D)
    BY <2>3, <2>4, <2>5, <2>6, Zenon
  <2> QED
    BY <2>1, <2>7
<1>9. Append(bs, A) = [Append(bs, D) EXCEPT ![n + 1].at = "function"]
  <2>1. Append(bs, D) = one(D) /\ Append(bs, A) = one(A)
    BY <1>1, <1>7
  <2>2. one(D)[n + 1] = D /\ [one(D) EXCEPT ![n + 1] = A] = one(A)
    OBVIOUS
  <2> HIDE DEF one
  <2>3. [one(D) EXCEPT ![n + 1].at = "function"] = [one(D) EXCEPT ![n + 1] = A]
    BY <1>1, <2>2
  <2> QED
    BY <2>1, <2>2, <2>3
<1> QED
  BY <1>4, <1>8, <1>9 DEF A, D, Three, AddBasicBlock

\* Three blocks that are created wait.
LEMMA WovenThree ==
    ASSUME NEW bs, NEW x, NEW Q, Woven(bs, x, Q), NEW n \in Nat, n = Len(bs)
    PROVE  /\ Woven(Three(bs), x, Q \cup {n + 1, n + 2, n + 3})
           /\ Stay(bs, Three(bs)) /\ Paths(Three(bs)) = Paths(bs)
           /\ Len(Three(bs)) = n + 3 /\ Three(bs)[x] = bs[x]
           /\ \A k \in {n + 1, n + 2, n + 3} : k # x /\ k \notin Q /\ k \notin Paths(bs)
<1>0. bs \in Blocks /\ x \in Ids(bs) /\ x \notin Q /\ Flows(bs)
  BY WovenFlows DEF Woven
<1>1. PICK one : one = Append(bs, Detached)
  OBVIOUS
<1>2. PICK two : two = Append(one, Detached)
  OBVIOUS
<1>3. PICK all : all = Append(two, Detached)
  OBVIOUS
<1>4. all = Three(bs)
  BY <1>0, <1>1, <1>2, <1>3, CreatedInFunction
<1>5. /\ Woven(one, x, Q \cup {n + 1}) /\ Stay(bs, one) /\ Len(one) = n + 1
      /\ x # n + 1 /\ n + 1 \notin Q
      /\ Paths(one) = Paths(bs) /\ n + 1 \notin Paths(bs)
      /\ one[x] = bs[x]
  BY <1>0, <1>1, WovenAppend, AppendFacts, PathsAppend
<1>6. one \in Blocks /\ x \in Ids(one) /\ x \notin Q \cup {n + 1} /\ Flows(one)
  <2>1. Flows(one) /\ x \notin Q \cup {n + 1}
    BY <1>5, WovenFlows
  <2> QED
    BY <1>5, <2>1 DEF Woven
<1>7. Woven(two, x, (Q \cup {n + 1}) \cup {Len(one) + 1})
      /\ Stay(one, two) /\ Len(two) = Len(one) + 1
      /\ x # Len(one) + 1 /\ Len(one) + 1 \notin Q \cup {n + 1}
      /\ Paths(two) = Paths(one) /\ Len(one) + 1 \notin Paths(one)
      /\ two[x] = one[x]
  BY <1>2, <1>5, <1>6, WovenAppend, AppendFacts, PathsAppend
<1>8. two \in Blocks /\ x \in Ids(two) /\ x \notin (Q \cup {n + 1}) \cup {Len(one) + 1} /\ Flows(two)
  <2>1. Flows(two) /\ x \notin (Q \cup {n + 1}) \cup {Len(one) + 1}
    BY <1>7, WovenFlows
  <2> QED
    BY <1>7, <2>1 DEF Woven
<1>9. Woven(all, x, ((Q \cup {n + 1}) \cup {Len(one) + 1}) \cup {Len(two) + 1})
      /\ Stay(two, all) /\ Len(all) = Len(two) + 1
      /\ x # Len(two) + 1 /\ Len(two) + 1 \notin (Q \cup {n + 1}) \cup {Len(one) + 1}
      /\ Paths(all) = Paths(two) /\ Len(two) + 1 \notin Paths(two)
      /\ all[x] = two[x]
  <2>1. PICK R : R = (Q \cup {n + 1}) \cup {Len(one) + 1}
    OBVIOUS
  <2>2. Woven(two, x, R) /\ x \notin R /\ two \in Blocks /\ Flows(two) /\ x \in Ids(two)
    BY <1>7, <1>8, <2>1
  <2>3. Woven(all, x, R \cup {Len(two) + 1}) /\ Stay(two, all)
        /\ x # Len(two) + 1 /\ Len(two) + 1 \notin R
    BY <1>3, <2>2, WovenAppend
  <2>4. Len(all) = Len(two) + 1 /\ all[x] = two[x]
    BY <1>3, <2>2, AppendFacts
  <2>5. Paths(all) = Paths(two) /\ Len(two) + 1 \notin Paths(two)
    BY <1>3, <2>2, PathsAppend
  <2> QED
    BY <2>1, <2>3, <2>4, <2>5
<1>10. Len(one) + 1 = n + 2 /\ Len(two) + 1 = n + 3
  BY <1>5, <1>7
<1>11. ((Q \cup {n + 1}) \cup {n + 2}) \cup {n + 3} = Q \cup {n + 1, n + 2, n + 3}
  OBVIOUS
<1>12. Stay(bs, all)
  <2>1. n <= n + 1 /\ n + 1 <= n + 2 /\ n + 2 <= n + 3
    OBVIOUS
  <2>2. Ids(bs) \subseteq Ids(one) /\ Ids(one) \subseteq Ids(two)
    BY <1>5, <1>7, <1>10 DEF Ids
  <2>3. Len(bs) <= Len(all)
    BY <1>9, <1>10
  <2> QED
    BY <1>5, <1>7, <1>9, <2>2, <2>3 DEF Stay
<1> QED
  BY <1>4, <1>5, <1>7, <1>9, <1>10, <1>11, <1>12

\* A branch to blocks that wait, or that are reached already.
LEMMA GoBranch ==
    ASSUME NEW bs, NEW x, NEW Q, Woven(bs, x, Q), bs[x].holds # "terminator",
           NEW T, \A t \in T : Joinable(bs, Q, t) /\ (bs[t].to = {} \/ t \in Paths(bs))
    PROVE  /\ Woven(Branch(bs, x, T), x, Q) /\ Stay(bs, Branch(bs, x, T))
           /\ Len(Branch(bs, x, T)) = Len(bs)
           /\ Branch(bs, x, T)[x].holds = "terminator" /\ Branch(bs, x, T)[x].to = T
           /\ \A c \in Ids(bs) : c # x => Branch(bs, x, T)[c] = bs[c]
           /\ Paths(Branch(bs, x, T)) = IF x \in Paths(bs) THEN Paths(bs) \cup T ELSE Paths(bs)
<1>1. Flows(bs) /\ x \notin Q /\ x \in Ids(bs) /\ bs[x].to = {}
  BY WovenFlows DEF Woven
<1>2. PICK cs : cs = Branch(bs, x, T)
  OBVIOUS
<1>3. /\ Woven(cs, x, Q) /\ Stay(bs, cs) /\ Len(cs) = Len(bs)
      /\ cs[x].holds = "terminator" /\ cs[x].to = T
      /\ \A c \in Ids(bs) : c # x => cs[c] = bs[c]
  BY <1>1, <1>2, WovenBranch
<1>4. Flows(cs)
  BY <1>3, WovenFlows
<1>5. Paths(cs) = IF x \in Paths(bs) THEN Paths(bs) \cup T ELSE Paths(bs)
  BY <1>1, <1>3, <1>4, PathsBranch DEF Joinable
<1> QED
  BY <1>2, <1>3, <1>5

\* The end of a body that goes on with t unless it has ended already.
LEMMA GoJoin ==
    ASSUME NEW bs, NEW x, NEW Q, Woven(bs, x, Q),
           NEW t, Joinable(bs, Q, t), bs[t].to = {} \/ t \in Paths(bs)
    PROVE  /\ Woven(BranchUnlessEnded(bs, x, t), x, Q)
           /\ Stay(bs, BranchUnlessEnded(bs, x, t))
           /\ Len(BranchUnlessEnded(bs, x, t)) = Len(bs)
           /\ BranchUnlessEnded(bs, x, t)[x].holds = "terminator"
           /\ \A c \in Ids(bs) : c # x => BranchUnlessEnded(bs, x, t)[c] = bs[c]
           /\ Paths(BranchUnlessEnded(bs, x, t)) =
                IF Goes(bs, x) THEN Paths(bs) \cup {t} ELSE Paths(bs)
<1>1. CASE bs[x].holds = "terminator"
  <2>1. BranchUnlessEnded(bs, x, t) = bs /\ ~Goes(bs, x)
    BY <1>1 DEF BranchUnlessEnded, Goes
  <2>2. Stay(bs, bs)
    BY BlockFacts DEF Stay, Woven
  <2> QED
    BY <1>1, <2>1, <2>2
<1>2. CASE bs[x].holds # "terminator"
  <2>1. BranchUnlessEnded(bs, x, t) = Branch(bs, x, {t})
    BY <1>2 DEF BranchUnlessEnded
  <2>0. PICK T : T = {t}
    OBVIOUS
  <2>3. PICK cs : cs = Branch(bs, x, T)
    OBVIOUS
  <2>5. \A u \in T : Joinable(bs, Q, u) /\ (bs[u].to = {} \/ u \in Paths(bs))
    BY <2>0
  <2>4. /\ Woven(cs, x, Q) /\ Stay(bs, cs) /\ Len(cs) = Len(bs)
        /\ cs[x].holds = "terminator"
        /\ \A c \in Ids(bs) : c # x => cs[c] = bs[c]
        /\ Paths(cs) = IF x \in Paths(bs) THEN Paths(bs) \cup T ELSE Paths(bs)
    BY <1>2, <2>3, <2>5, GoBranch
  <2> QED
    BY <1>2, <2>0, <2>1, <2>3, <2>4 DEF Goes
<1> QED
  BY <1>1, <1>2

\* The insert block has ended: the next one is added.
LEMMA GoMove ==
    ASSUME NEW bs, NEW x, NEW Q, Woven(bs, x, Q), bs[x].holds = "terminator", NEW c \in Q
    PROVE  /\ Woven(AddBasicBlock(bs, c), c, Q \ {c})
           /\ Stay(bs, AddBasicBlock(bs, c)) /\ Len(AddBasicBlock(bs, c)) = Len(bs)
           /\ AddBasicBlock(bs, c)[c].holds = "nothing"
           /\ \A b \in Ids(bs) : AddBasicBlock(bs, c)[b].to = bs[b].to
           /\ \A b \in Ids(bs) : b # c => AddBasicBlock(bs, c)[b] = bs[b]
           /\ Paths(AddBasicBlock(bs, c)) = Paths(bs)
<1>1. Flows(bs) /\ x \notin Q
  BY WovenFlows
<1>2. PICK cs : cs = AddBasicBlock(bs, c)
  OBVIOUS
<1>3. /\ Woven(cs, c, Q \ {c}) /\ Stay(bs, cs) /\ Len(cs) = Len(bs)
      /\ cs[c].holds = "nothing"
      /\ \A b \in Ids(bs) : cs[b].to = bs[b].to
      /\ \A b \in Ids(bs) : b # c => cs[b] = bs[b]
  BY <1>1, <1>2, WovenMove
<1>4. Paths(cs) = Paths(bs)
  BY <1>1, <1>3, WovenFlows, PathsSame
<1> QED
  BY <1>2, <1>3, <1>4

\* Stay is transitive.
LEMMA StayTwice ==
    ASSUME NEW bs \in Blocks, NEW cs \in Blocks, NEW ds \in Blocks, Stay(bs, cs), Stay(cs, ds)
    PROVE  Stay(bs, ds)
<1>1. Len(bs) \in Nat /\ Len(cs) \in Nat /\ Len(ds) \in Nat
  BY BlockFacts
<1>2. Ids(bs) \subseteq Ids(cs) /\ Len(bs) <= Len(ds)
  BY <1>1 DEF Stay, Ids
<1> QED
  BY <1>2 DEF Stay

\* The body that ends goes on with t, and the next one in c.
LEMMA GoOn ==
    ASSUME NEW bs, NEW x, NEW Q, Woven(bs, x, Q),
           NEW t, Joinable(bs, Q, t), bs[t].to = {} \/ t \in Paths(bs), NEW c \in Q,
           NEW cs, cs = AddBasicBlock(BranchUnlessEnded(bs, x, t), c)
    PROVE  /\ Woven(cs, c, Q \ {c}) /\ Stay(bs, cs) /\ Len(cs) = Len(bs)
           /\ cs[c].holds = "nothing"
           /\ \A b \in Ids(bs) : b # c /\ b # x => cs[b] = bs[b]
           /\ Paths(cs) = IF Goes(bs, x) THEN Paths(bs) \cup {t} ELSE Paths(bs)
<1>1. PICK ds : ds = BranchUnlessEnded(bs, x, t)
  OBVIOUS
<1>2. /\ Woven(ds, x, Q) /\ Stay(bs, ds) /\ Len(ds) = Len(bs)
      /\ ds[x].holds = "terminator"
      /\ \A b \in Ids(bs) : b # x => ds[b] = bs[b]
      /\ Paths(ds) = IF Goes(bs, x) THEN Paths(bs) \cup {t} ELSE Paths(bs)
  BY <1>1, GoJoin
<1>3. cs = AddBasicBlock(ds, c)
  BY <1>1
<1>4. /\ Woven(cs, c, Q \ {c}) /\ Stay(ds, cs) /\ Len(cs) = Len(ds)
      /\ cs[c].holds = "nothing"
      /\ \A b \in Ids(ds) : b # c => cs[b] = ds[b]
      /\ Paths(cs) = Paths(ds)
  <2>1. Woven(ds, x, Q) /\ ds[x].holds = "terminator"
    BY <1>2
  <2> QED
    BY <1>3, <2>1, GoMove
<1>5. Ids(ds) = Ids(bs)
  BY <1>2 DEF Ids
<1>6. Stay(bs, cs)
  BY <1>2, <1>4, StayTwice DEF Woven
<1> QED
  BY <1>2, <1>4, <1>5, <1>6

\* A block that is added and one that is created commute.
LEMMA AppendAdd ==
    ASSUME NEW bs \in Blocks, NEW b \in Ids(bs)
    PROVE  Append(AddBasicBlock(bs, b), Detached) = AddBasicBlock(Append(bs, Detached), b)
<1>1. PICK n \in Nat : n = Len(bs) /\ b \in 1..n /\ DOMAIN bs = 1..n
  BY BlockFacts DEF Ids
<1>2. PICK as : as = AddBasicBlock(bs, b)
  OBVIOUS
<1>3. PICK ap : ap = Append(bs, Detached)
  OBVIOUS
<1>4. /\ as \in Blocks /\ Len(as) = n /\ as = [bs EXCEPT ![b].at = "function"]
  BY <1>1, <1>2, AddFacts DEF AddBasicBlock
<1>5. /\ ap \in Blocks /\ Len(ap) = n + 1 /\ ap[n + 1] = Detached
      /\ \A c \in 1..n : ap[c] = bs[c]
  BY <1>1, <1>3, AppendFacts DEF Ids
<1>6. PICK left : left = Append(as, Detached)
  OBVIOUS
<1>7. /\ left \in Blocks /\ Len(left) = n + 1 /\ left[n + 1] = Detached
      /\ \A c \in 1..n : left[c] = as[c]
  BY <1>4, <1>6, AppendFacts DEF Ids
<1>8. PICK right : right = AddBasicBlock(ap, b)
  OBVIOUS
<1>9. right \in Blocks /\ Len(right) = n + 1 /\ right = [ap EXCEPT ![b].at = "function"]
  <2>1. b \in Ids(ap)
    BY <1>1, <1>5 DEF Ids
  <2>2. AddBasicBlock(ap, b) \in Blocks /\ Len(AddBasicBlock(ap, b)) = Len(ap)
    BY <1>5, <2>1, AddFacts
  <2> QED
    BY <1>5, <1>8, <2>2 DEF AddBasicBlock
<1>10. /\ left = [i \in 1..(n + 1) |-> left[i]] /\ right = [i \in 1..(n + 1) |-> right[i]]
       /\ DOMAIN ap = 1..(n + 1)
  BY <1>5, <1>7, <1>9, LenProperties DEF Blocks
<1>11. ASSUME NEW i \in 1..(n + 1) PROVE left[i] = right[i]
  <2>1. CASE i = n + 1
    <3>1. b # i /\ i \in DOMAIN ap
      BY <1>1, <1>10, <2>1
    <3> QED
      BY <1>5, <1>7, <1>9, <2>1, <3>1
  <2>2. CASE i # n + 1
    <3>1. i \in 1..n /\ i \in DOMAIN ap
      BY <1>10, <2>2
    <3>2. left[i] = as[i] /\ ap[i] = bs[i]
      BY <1>5, <1>7, <3>1
    <3>3. as[i] = IF i = b THEN [bs[i] EXCEPT !.at = "function"] ELSE bs[i]
      BY <1>1, <1>4, <3>1
    <3>4. right[i] = IF i = b THEN [ap[i] EXCEPT !.at = "function"] ELSE ap[i]
      BY <1>9, <3>1
    <3> QED
      BY <3>2, <3>3, <3>4
  <2> QED
    BY <2>1, <2>2
<1> QED
  BY <1>2, <1>3, <1>6, <1>8, <1>10, <1>11

\* From the blocks bs to those of a construct: cs goes on in y, the blocks of Q
\* wait, and those of P are reached, too.
Enters(bs, cs, y, Q, P) ==
    /\ Woven(cs, y, Q) /\ Stay(bs, cs) /\ Goes(cs, y)
    /\ Paths(cs) = Paths(bs) \cup P

\* The condition c of a loop is part of the function and terminated.
Repeats(cs, c) == c \in Ids(cs) /\ cs[c].at = "function" /\ cs[c].holds = "terminator"

\* A branch to blocks that wait, of which one is next.
LEMMA GoEnter ==
    ASSUME NEW bs, NEW x, NEW Q, Woven(bs, x, Q), Goes(bs, x),
           NEW T \in SUBSET Q, NEW c \in T
    PROVE  Enters(bs, Branch(AddBasicBlock(bs, c), x, T), c, Q \ {c}, T)
<1>0. PICK cs : cs = Branch(AddBasicBlock(bs, c), x, T)
  OBVIOUS
<1>1. /\ bs \in Blocks /\ x \in Ids(bs) /\ c \in Ids(bs) /\ c # x /\ c \in Q
      /\ x \in Paths(bs) /\ bs[x].holds # "terminator"
  <2>1. x \notin Q
    BY WovenFlows
  <2> QED
    BY <2>1 DEF Goes, Woven
<1>2. \A t \in T : Joinable(bs, Q, t) /\ (bs[t].to = {} \/ t \in Paths(bs))
  BY DetachedType DEF Joinable, Woven
<1>3. PICK es : es = Branch(bs, x, T)
  OBVIOUS
<1>4. /\ Woven(es, x, Q) /\ Stay(bs, es) /\ Len(es) = Len(bs) /\ es[x].holds = "terminator"
      /\ Paths(es) = IF x \in Paths(bs) THEN Paths(bs) \cup T ELSE Paths(bs)
  BY <1>1, <1>2, <1>3, GoBranch
<1>5. cs = AddBasicBlock(es, c)
  BY <1>0, <1>1, <1>3, BranchAdd
<1>6. /\ Woven(cs, c, Q \ {c}) /\ Stay(es, cs) /\ Len(cs) = Len(es)
      /\ cs[c].holds = "nothing" /\ Paths(cs) = Paths(es)
  <2>1. Woven(es, x, Q) /\ es[x].holds = "terminator" /\ c \in Q
    BY <1>1, <1>4
  <2>2. /\ Woven(AddBasicBlock(es, c), c, Q \ {c})
        /\ Stay(es, AddBasicBlock(es, c)) /\ Len(AddBasicBlock(es, c)) = Len(es)
        /\ AddBasicBlock(es, c)[c].holds = "nothing"
        /\ Paths(AddBasicBlock(es, c)) = Paths(es)
    BY <2>1, GoMove
  <2> QED
    BY <1>5, <2>2
<1>7. Stay(bs, cs)
  BY <1>1, <1>4, <1>6, StayTwice DEF Woven
<1>8. Goes(cs, c)
  BY <1>1, <1>4, <1>6 DEF Goes
<1>9. Enters(bs, cs, c, Q \ {c}, T)
  BY <1>1, <1>4, <1>6, <1>7, <1>8 DEF Enters
<1> QED
  BY <1>0, <1>9

\* The blocks of a loop: the condition c, the body b and the block behind it.
LEMMA GoLoop ==
    ASSUME NEW bs, NEW x, NEW Q, Woven(bs, x, Q), Goes(bs, x),
           NEW c \in Q, NEW b \in Q, NEW e \in Q, c # b, b # e, c # e
    PROVE  /\ Enters(bs, Branch(Branch(AddBasicBlock(AddBasicBlock(bs, c), b), x, {c}),
                                c, {b, e}), b, Q \ {c, b}, {c, b, e})
           /\ Repeats(Branch(Branch(AddBasicBlock(AddBasicBlock(bs, c), b), x, {c}),
                             c, {b, e}), c)
<1>0. bs \in Blocks /\ x \in Ids(bs) /\ x \notin Q /\ Flows(bs)
      /\ c \in Ids(bs) /\ b \in Ids(bs) /\ e \in Ids(bs)
      /\ bs[c] = Detached /\ bs[b] = Detached /\ bs[e] = Detached
      /\ x \in Paths(bs) /\ bs[x].holds # "terminator"
  <2>1. x \notin Q /\ Flows(bs)
    BY WovenFlows
  <2> QED
    BY <2>1 DEF Woven, Goes
<1>1. PICK C : C = {c}
  OBVIOUS
<1>2. PICK B : B = {b, e}
  OBVIOUS
<1>3. PICK one : one = Branch(bs, x, C)
  OBVIOUS
<1>4. \A t \in C : Joinable(bs, Q, t) /\ (bs[t].to = {} \/ t \in Paths(bs))
  BY <1>0, <1>1, DetachedType DEF Joinable
<1>5. /\ Woven(one, x, Q) /\ Stay(bs, one) /\ Len(one) = Len(bs)
      /\ one[x].holds = "terminator"
      /\ \A i \in Ids(bs) : i # x => one[i] = bs[i]
      /\ Paths(one) = IF x \in Paths(bs) THEN Paths(bs) \cup C ELSE Paths(bs)
  BY <1>0, <1>3, <1>4, GoBranch
<1>6. PICK two : two = AddBasicBlock(one, c)
  OBVIOUS
<1>7. /\ Woven(two, c, Q \ {c}) /\ Stay(one, two) /\ Len(two) = Len(one)
      /\ two[c].holds = "nothing"
      /\ \A i \in Ids(one) : i # c => two[i] = one[i]
      /\ Paths(two) = Paths(one)
  <2>1. Woven(one, x, Q) /\ one[x].holds = "terminator" /\ c \in Q
    BY <1>5
  <2> QED
    BY <1>6, <2>1, GoMove
<1>8. PICK P : P = Q \ {c}
  OBVIOUS
<1>9. Ids(one) = Ids(bs) /\ Ids(two) = Ids(bs)
  BY <1>5, <1>7 DEF Ids
<1>10. b \in P /\ e \in P /\ two[b] = Detached /\ two[e] = Detached
  BY <1>0, <1>5, <1>7, <1>8, <1>9
<1>11. \A t \in B : Joinable(two, P, t) /\ (two[t].to = {} \/ t \in Paths(two))
  BY <1>0, <1>2, <1>9, <1>10, DetachedType DEF Joinable
<1>12. PICK tri : tri = Branch(two, c, B)
  OBVIOUS
<1>13. Woven(two, c, P) /\ two[c].holds # "terminator"
  BY <1>7, <1>8
<1>14. /\ Woven(tri, c, P) /\ Stay(two, tri) /\ Len(tri) = Len(two)
       /\ tri[c].holds = "terminator"
       /\ Paths(tri) = IF c \in Paths(two) THEN Paths(two) \cup B ELSE Paths(two)
  BY <1>11, <1>12, <1>13, GoBranch
<1>15. PICK all : all = AddBasicBlock(tri, b)
  OBVIOUS
<1>16. /\ Woven(all, b, P \ {b}) /\ Stay(tri, all) /\ Len(all) = Len(tri)
       /\ all[b].holds = "nothing" /\ Paths(all) = Paths(tri)
  <2>1. Woven(tri, c, P) /\ tri[c].holds = "terminator" /\ b \in P
    BY <1>10, <1>14
  <2> QED
    BY <1>15, <2>1, GoMove
<1>17. all = Branch(Branch(AddBasicBlock(AddBasicBlock(bs, c), b), x, {c}), c, {b, e})
  <2>1. /\ one \in Blocks /\ two \in Blocks /\ tri \in Blocks
    BY <1>5, <1>7, <1>14 DEF Woven
  <2>2. PICK ab : ab = AddBasicBlock(bs, b)
    OBVIOUS
  <2>3. ab \in Blocks /\ Len(ab) = Len(bs)
    BY <1>0, <2>2, AddFacts
  <2>4. Ids(ab) = Ids(bs)
    BY <2>3 DEF Ids
  <2>5. PICK ob : ob = AddBasicBlock(one, b)
    OBVIOUS
  <2>6. ob = Branch(ab, x, C)
    BY <1>0, <1>3, <2>2, <2>5, BranchAdd
  <2>7. ob \in Blocks /\ Len(ob) = Len(one)
    BY <1>9, <1>0, <2>1, <2>5, AddFacts
  <2>8. Ids(ob) = Ids(bs)
    BY <1>5, <2>7 DEF Ids
  <2>9. AddBasicBlock(two, b) = AddBasicBlock(ob, c)
    BY <1>0, <1>6, <1>9, <2>1, <2>5, AddAdd
  <2>10. AddBasicBlock(ob, c) = Branch(AddBasicBlock(ab, c), x, C)
    BY <1>0, <2>3, <2>4, <2>6, BranchAdd
  <2>11. AddBasicBlock(ab, c) = AddBasicBlock(AddBasicBlock(bs, c), b)
    BY <1>0, <2>2, AddAdd
  <2>12. all = Branch(AddBasicBlock(two, b), c, B)
    BY <1>0, <1>9, <1>12, <1>15, <2>1, BranchAdd
  <2> QED
    BY <1>1, <1>2, <2>9, <2>10, <2>11, <2>12
<1>18. c \in Ids(tri) /\ tri[c].at = "function" /\ all[c].at = "function"
       /\ all[c].holds = "terminator"
  BY <1>14, <1>16 DEF Woven, Stay
<1>19. Stay(bs, all)
  <2>1. one \in Blocks /\ two \in Blocks /\ tri \in Blocks /\ all \in Blocks
    BY <1>5, <1>7, <1>14, <1>16 DEF Woven
  <2>2. Stay(bs, two)
    BY <1>0, <1>5, <1>7, <2>1, StayTwice
  <2>3. Stay(bs, tri)
    BY <1>0, <1>14, <2>1, <2>2, StayTwice
  <2> QED
    BY <1>0, <1>16, <2>1, <2>3, StayTwice
<1>20. P \ {b} = Q \ {c, b}
  BY <1>8
<1>21. Paths(all) = Paths(bs) \cup {c, b, e}
  <2>1. Paths(two) = Paths(bs) \cup {c} /\ c \in Paths(two)
    BY <1>0, <1>1, <1>5, <1>7
  <2> QED
    BY <1>2, <1>14, <1>16, <2>1
<1>22. Goes(all, b) /\ c \in Ids(all)
  BY <1>0, <1>5, <1>7, <1>14, <1>16, <1>21 DEF Goes, Ids
<1>23. Enters(bs, all, b, Q \ {c, b}, {c, b, e}) /\ Repeats(all, c)
  BY <1>16, <1>18, <1>19, <1>20, <1>21, <1>22 DEF Enters, Repeats
<1> QED
  BY <1>17, <1>23

\* The blocks that the generators of if statements and loops create.
LEMMA EnteredBlocks ==
    ASSUME NEW bs \in Blocks, NEW n \in Nat, n = Len(bs)
    PROVE  /\ Append(bs \o <<Detached, Attached, Detached>>, Attached)
                = AddBasicBlock(AddBasicBlock(Append(Three(bs), Detached), n + 4), n + 2)
<1>1. Three(bs) \in Blocks /\ Len(Three(bs)) = n + 3
  BY CreatedType DEF Three
<1>2. PICK ds \in Blocks : ds = Three(bs) /\ Len(ds) = n + 3
  BY <1>1
<1>3. PICK es \in Blocks : es = bs \o <<Detached, Attached, Detached>> /\ Len(es) = n + 3
  BY CreatedType
<1>4. es = AddBasicBlock(ds, n + 2)
  BY <1>2, <1>3, CreatedInFunction
<1>5. PICK k \in Nat : k = n + 3
  OBVIOUS
<1>6. Append(es, Attached) = AddBasicBlock(Append(es, Detached), k + 1)
  BY <1>3, <1>5, CreatedInFunction
<1>7. n + 2 \in Ids(ds) /\ k + 1 = n + 4
  BY <1>2, <1>5 DEF Ids
<1>8. Append(es, Detached) = AddBasicBlock(Append(ds, Detached), n + 2)
  BY <1>4, <1>7, AppendAdd
<1>9. PICK fs : fs = Append(ds, Detached)
  OBVIOUS
<1>10. fs \in Blocks /\ Len(fs) = k + 1
  BY <1>2, <1>5, <1>9, AppendFacts
<1>11. n + 2 \in Ids(fs) /\ n + 4 \in Ids(fs)
  BY <1>7, <1>10 DEF Ids
<1>12. AddBasicBlock(AddBasicBlock(fs, n + 2), n + 4) = AddBasicBlock(AddBasicBlock(fs, n + 4), n + 2)
  BY <1>10, <1>11, AddAdd
<1> QED
  BY <1>2, <1>3, <1>6, <1>7, <1>8, <1>9, <1>12

\* The blocks cs go on in e, and those of Q wait: t is reached when the path of
\* x went on.
Joins(bs, cs, x, Q, t, e) ==
    /\ Woven(cs, e, Q) /\ Stay(bs, cs) /\ cs[e].holds = "nothing"
    /\ Paths(cs) = IF Goes(bs, x) THEN Paths(bs) \cup {t} ELSE Paths(bs)

\* The end of a for loop, whose incrementer repeats the loop.
LEMMA GoRepeat ==
    ASSUME NEW bs, NEW x, NEW Q, Woven(bs, x, Q), NEW next \in Q, NEW end \in Q, next # end,
           NEW head \in Ids(bs), bs[head].at = "function", head \in Paths(bs)
    PROVE  Joins(bs, AddBasicBlock(AddBasicBlock(
                        Branch(BranchUnlessEnded(bs, x, next), next, {head}), next), end),
                 x, Q \ {next, end}, next, end)
<1>0. PICK cs : cs = AddBasicBlock(AddBasicBlock(
                    Branch(BranchUnlessEnded(bs, x, next), next, {head}), next), end)
  OBVIOUS
<1>1. PICK ds : ds = BranchUnlessEnded(bs, x, next)
  OBVIOUS
<1>2. PICK es : es = AddBasicBlock(ds, next)
  OBVIOUS
<1>3. bs \in Blocks /\ next \in Ids(bs) /\ end \in Ids(bs) /\ bs[next].to = {}
      /\ Joinable(bs, Q, next)
  BY DetachedType DEF Woven, Joinable
<1>4. /\ Woven(es, next, Q \ {next}) /\ Stay(bs, es) /\ Len(es) = Len(bs)
      /\ es[next].holds = "nothing"
      /\ Paths(es) = IF Goes(bs, x) THEN Paths(bs) \cup {next} ELSE Paths(bs)
  <2>1. es = AddBasicBlock(BranchUnlessEnded(bs, x, next), next)
    BY <1>1, <1>2
  <2> QED
    BY <1>3, <2>1, GoOn
<1>5. PICK P : P = Q \ {next}
  OBVIOUS
<1>6. PICK H : H = {head}
  OBVIOUS
<1>7. PICK fs : fs = Branch(es, next, H)
  OBVIOUS
<1>8. \A t \in H : Joinable(es, P, t) /\ (es[t].to = {} \/ t \in Paths(es))
  <2>1. Ids(es) = Ids(bs) /\ es[head].at = "function" /\ head \in Paths(es)
    BY <1>4 DEF Ids, Stay
  <2> QED
    BY <1>6, <2>1 DEF Joinable
<1>9. Woven(es, next, P) /\ es[next].holds # "terminator"
  BY <1>4, <1>5
<1>10. /\ Woven(fs, next, P) /\ Stay(es, fs) /\ Len(fs) = Len(es)
       /\ fs[next].holds = "terminator"
       /\ Paths(fs) = IF next \in Paths(es) THEN Paths(es) \cup H ELSE Paths(es)
  BY <1>7, <1>8, <1>9, GoBranch
<1>11. Paths(fs) = Paths(es)
  BY <1>4, <1>6, <1>10
<1>12. end \in P
  BY <1>5
<1>13. PICK gs : gs = AddBasicBlock(fs, end)
  OBVIOUS
<1>14. /\ Woven(gs, end, P \ {end}) /\ Stay(fs, gs) /\ Len(gs) = Len(fs)
       /\ gs[end].holds = "nothing" /\ Paths(gs) = Paths(fs)
  <2>1. Woven(fs, next, P) /\ fs[next].holds = "terminator"
    BY <1>10
  <2>2. /\ Woven(AddBasicBlock(fs, end), end, P \ {end})
        /\ Stay(fs, AddBasicBlock(fs, end)) /\ Len(AddBasicBlock(fs, end)) = Len(fs)
        /\ AddBasicBlock(fs, end)[end].holds = "nothing"
        /\ Paths(AddBasicBlock(fs, end)) = Paths(fs)
    BY <1>12, <2>1, GoMove
  <2> QED
    BY <1>13, <2>2
<1>15. gs = cs
  <2>1. ds \in Blocks /\ Len(ds) = Len(bs)
    <3>1. Woven(ds, x, Q) /\ Len(ds) = Len(bs)
      BY <1>1, <1>3, GoJoin
    <3> QED
      BY <3>1 DEF Woven
  <2>2. next \in Ids(ds)
    BY <1>3, <2>1 DEF Ids
  <2>3. AddBasicBlock(Branch(ds, next, H), next) = Branch(AddBasicBlock(ds, next), next, H)
    BY <2>1, <2>2, BranchAdd
  <2> QED
    BY <1>0, <1>1, <1>2, <1>6, <1>7, <1>13, <2>3
<1>16. Stay(bs, gs)
  <2>1. es \in Blocks /\ fs \in Blocks /\ gs \in Blocks
    BY <1>4, <1>10, <1>14 DEF Woven
  <2>2. Stay(bs, fs)
    BY <1>3, <1>4, <1>10, <2>1, StayTwice
  <2> QED
    BY <1>3, <1>14, <2>1, <2>2, StayTwice
<1>17. P \ {end} = Q \ {next, end}
  BY <1>5
<1>18. Paths(cs) = IF Goes(bs, x) THEN Paths(bs) \cup {next} ELSE Paths(bs)
  BY <1>4, <1>11, <1>14, <1>15
<1>19. Joins(bs, cs, x, Q \ {next, end}, next, end)
  BY <1>14, <1>15, <1>16, <1>17, <1>18 DEF Joins
<1> QED
  BY <1>0, <1>19

\* The end of an if statement whose else block is empty.
LEMMA GoErase ==
    ASSUME NEW bs, NEW x, NEW Q, Woven(bs, x, Q), NEW e \in Q, x # Entry,
           bs[x].holds = "nothing"
    PROVE  /\ Woven(Erased(bs, x, e), e, Q \ {e}) /\ Len(Erased(bs, x, e)) = Len(bs)
           /\ Erased(bs, x, e)[e].holds = "nothing"
           /\ StayBut(bs, Erased(bs, x, e), x)
           /\ Paths(Erased(bs, x, e)) =
                IF x \in Paths(bs) THEN (Paths(bs) \ {x}) \cup {e} ELSE Paths(bs)
<1>0. PICK cs : cs = Erased(bs, x, e)
  OBVIOUS
<1>1. Flows(bs) /\ x \notin Q
  BY WovenFlows
<1>2. /\ Woven(cs, e, Q \ {e})
      /\ Len(cs) = Len(bs)
      /\ cs[e].holds = "nothing"
      /\ StayBut(bs, cs, x)
      /\ Redirects(bs, cs, x, e)
  BY <1>0, <1>1, WovenReplace
<1>3. Flows(cs)
  BY <1>2, WovenFlows
<1>4. /\ x \in Ids(bs) /\ e \in Ids(bs) /\ x # e /\ bs[x].to = {} /\ bs[e].to = {}
  BY <1>1, DetachedType DEF Woven
<1>5. Paths(cs) = IF x \in Paths(bs) THEN (Paths(bs) \ {x}) \cup {e} ELSE Paths(bs)
  BY <1>1, <1>2, <1>3, <1>4, PathsReplace
<1> QED
  BY <1>0, <1>2, <1>5

-----------------------------------------------------------------------------
\* A function whose blocks are terminated and branch to each other only.
Finished(bs) ==
    \A b \in Ids(bs) :
        /\ bs[b].holds # "overrun"
        /\ bs[b].at = "function" =>
            bs[b].holds = "terminator" /\ \A c \in bs[b].to : bs[c].at = "function"

\* The return of the function ends it, when no block waits.
LEMMA GoReturn ==
    ASSUME NEW bs, NEW x, Woven(bs, x, {}), bs[x].holds # "terminator"
    PROVE  Finished(Branch(bs, x, {}))
<1>1. PICK T : T = {}
  OBVIOUS
<1>2. Woven(Branch(bs, x, T), x, {}) /\ Branch(bs, x, T)[x].holds = "terminator"
  BY <1>1, WovenBranch
<1>3. PICK cs : cs = Branch(bs, x, T)
  OBVIOUS
<1>4. Woven(cs, x, {}) /\ cs[x].holds = "terminator"
  BY <1>2, <1>3
<1>5. Finished(cs)
  BY <1>4 DEF Woven, Finished
<1> QED
  BY <1>1, <1>3, <1>5

\* The uses of a block that waits are given to the insert block.
LEMMA WovenRedirect ==
    ASSUME NEW bs, NEW x, NEW Q, Woven(bs, x, Q), NEW c \in Q, NEW cs,
           cs = ReplaceAllUsesWith(bs, c, x), bs[x].holds # "terminator"
    PROVE  Woven(cs, x, Q) /\ UseEmpty(cs, c) /\ cs[x].holds = bs[x].holds
<1>1. bs \in Blocks /\ x \in Ids(bs) /\ x \notin Q /\ x \in Nat /\ Q \subseteq Ids(bs)
  <2>1. x \notin Q
    BY WovenFlows
  <2> QED
    BY <2>1, BlockFacts DEF Woven
<1>2. /\ cs \in Blocks /\ Len(cs) = Len(bs)
      /\ \A b \in Ids(bs) :
            /\ cs[b].at = bs[b].at /\ cs[b].holds = bs[b].holds
            /\ cs[b].to = IF c \in bs[b].to THEN (bs[b].to \ {c}) \cup {x} ELSE bs[b].to
  <2>1. cs \in Blocks /\ Redirects(bs, cs, c, x) /\ SameBlocks(bs, cs)
    BY <1>1, ReplaceFacts
  <2> QED
    BY <2>1 DEF Redirects, SameBlocks
<1>3. Ids(cs) = Ids(bs) /\ DOMAIN cs = Ids(bs)
  BY <1>2, BlockFacts DEF Ids
<1>4. UseEmpty(cs, c)
  BY <1>1, <1>2, <1>3 DEF UseEmpty
<1>5. ASSUME NEW b \in Ids(bs), NEW t \in cs[b].to
      PROVE  t \in Ids(bs) /\ (cs[t].at = "function" \/ t \in Q)
  <2>1. CASE t = x
    BY <1>1, <1>2, <2>1 DEF Woven
  <2>2. CASE t # x
    <3>1. t \in bs[b].to
      BY <1>2, <2>2
    <3>2. t \in Ids(bs) /\ (bs[t].at = "function" \/ t \in Q)
      BY <3>1 DEF Woven
    <3> QED
      BY <1>2, <3>2
  <2> QED
    BY <2>1, <2>2
<1>6. ASSUME NEW b \in Ids(bs)
      PROVE  /\ cs[b].holds # "overrun"
             /\ cs[b].holds # "terminator" => cs[b].to = {}
             /\ cs[b].at = "function" => b = x \/ cs[b].holds = "terminator"
  <2>1. /\ bs[b].holds # "overrun"
        /\ bs[b].holds # "terminator" => bs[b].to = {}
        /\ bs[b].at = "function" => b = x \/ bs[b].holds = "terminator"
    BY DEF Woven
  <2> QED
    BY <1>2, <2>1
<1>7. ASSUME NEW b \in Q PROVE cs[b] = Detached
  <2>1. b \in Ids(bs) /\ bs[b] = Detached
    BY <1>1 DEF Woven
  <2>2. cs[b] \in BlockType
    BY <1>2, <1>3, <2>1, BlockFacts
  <2>3. cs[b].at = Detached.at /\ cs[b].holds = Detached.holds /\ cs[b].to = Detached.to
    BY <1>2, <2>1, DetachedType
  <2> QED
    BY <2>2, <2>3, DetachedType DEF BlockType
<1>8. cs[x].at = "function"
  BY <1>1, <1>2 DEF Woven
<1>9. Woven(cs, x, Q)
  BY <1>1, <1>2, <1>3, <1>5, <1>6, <1>7, <1>8 DEF Woven
<1> QED
  BY <1>1, <1>2, <1>4, <1>9

\* The places of the frames fs.
Spots(fs) == 1..Len(fs)

\* The frame i lies on the frame j.
On(i, j) == i = j + 1

\* The statement of the labeled statement i is a loop.
HasLoopAt(fs, i) == \E j \in Spots(fs) : On(j, i) /\ fs[j].kind \in Loops
\* A labeled statement whose loop is i is left by a break with its label.
LabelReached(fs, i) ==
    \E j \in Spots(fs) : On(i, j) /\ fs[j].kind = "label" /\ fs[j].reached

\* The blocks of a construct that wait to be added, and those that jumps go to.
Pending(f) ==
    (IF f.kind # "block" THEN {f.end} ELSE {})
        \cup (IF f.kind \in {"then", "for"} THEN {f.next} ELSE {})

Exits(f) ==
    (IF f.kind # "block" THEN {f.end} ELSE {})
        \cup (IF f.kind \in Loops THEN {f.next} ELSE {})

\* The construct has blocks of its own, so that it ended the block before it.
Opens(f) == f.kind \notin {"block", "label"}

\* All blocks that wait to be added: the block of the returns, and those of the
\* constructs in progress.
Waiting(fs) == {ReturnBlock} \cup UNION {Pending(fs[i]) : i \in Spots(fs)}

\* The frames nest: only the innermost one may have generated its body.
Shape(fs) ==
    /\ fs \in Seq(FrameType) /\ Len(fs) \in Spots(fs)
    /\ fs[1].kind = "block"
    /\ \A i \in Spots(fs) : fs[i].kind = "block" <=> fs[i].body = "list"
    /\ \A i \in Spots(fs) : i # Len(fs) => fs[i].body # "none"

\* Every block that waits belongs to one construct.
Apart(fs) ==
    /\ \A i \in Spots(fs) : ReturnBlock \notin Pending(fs[i])
    /\ \A i \in Spots(fs) : fs[i].kind \in {"then", "for"} => fs[i].next # fs[i].end
    /\ \A i, j \in Spots(fs) : i # j => Pending(fs[i]) \cap Pending(fs[j]) = {}

\* An insert block that ended branches to where a jump may go.
InsertEnds(fs, bs, x) ==
    bs[x].holds = "terminator" =>
        /\ bs[x].to # {}
        /\ \A c \in bs[x].to : c = ReturnBlock \/ \E i \in Spots(fs) : c \in Exits(fs[i])

\* The entry ended when a construct with blocks of its own is in progress.
EntryEnds(fs, bs) ==
    /\ bs[Entry].at = "function"
    /\ (\E i \in Spots(fs) : Opens(fs[i])) => bs[Entry].holds = "terminator"

\* The block that a loop in progress goes back to is part of the function.
LoopRepeats(fs, bs, i) ==
    /\ fs[i].kind = "while" =>
        /\ fs[i].next \in Ids(bs)
        /\ bs[fs[i].next].at = "function" /\ bs[fs[i].next].holds = "terminator"
    /\ fs[i].kind = "for" =>
        /\ fs[i].head \in Ids(bs) /\ bs[fs[i].head].at = "function"
        /\ (\E j \in Spots(fs) : i < j /\ Opens(fs[j])) =>
                bs[fs[i].head].holds = "terminator"

\* The blocks that a construct goes on with are reached exactly when the source
\* says that the construct goes on there.
PathKept(fs, bs, i) ==
    /\ fs[i].kind = "then" => fs[i].next \in Paths(bs) /\ fs[i].end \notin Paths(bs)
    /\ fs[i].kind = "else" => (fs[i].end \in Paths(bs) <=> fs[i].reached)
    /\ fs[i].kind = "while" => fs[i].next \in Paths(bs) /\ fs[i].end \in Paths(bs)
    /\ fs[i].kind = "for" =>
        /\ fs[i].head \in Paths(bs)
        /\ fs[i].end \in Paths(bs) <=> fs[i].reached \/ LabelReached(fs, i)
    /\ fs[i].kind = "label" =>
        /\ HasLoopAt(fs, i) => fs[i].end \notin Paths(bs)
        /\ ~HasLoopAt(fs, i) /\ fs[i].body = "one" =>
                (fs[i].end \in Paths(bs) <=> fs[i].reached)

\* A labeled statement whose statement was generated and which has not ended.
Bare(f) == f.kind = "label" /\ f.body = "none"

\* The path that is generated is the one the source is on.
TopAgrees(f, bs, x, l) ==
    /\ ~Bare(f) => (l <=> Goes(bs, x))
    /\ Bare(f) => (l \/ f.reached <=> Goes(bs, x) \/ f.end \in Paths(bs))
    /\ f.kind = "label" /\ f.body = "one" => ~f.reached

\* The invariant of a step that generates, of the frames fs, the blocks bs, the
\* insert block x, and whether the source is reached.
Agree(fs, bs, x, l) ==
    /\ Shape(fs)
    /\ Woven(bs, x, Waiting(fs))
    /\ Apart(fs)
    /\ InsertEnds(fs, bs, x)
    /\ EntryEnds(fs, bs)
    /\ \A i \in Spots(fs) : LoopRepeats(fs, bs, i)
    /\ \A i \in Spots(fs) : PathKept(fs, bs, i)
    /\ TopAgrees(fs[Len(fs)], bs, x, l)

\* A frame that keeps all but what is generated of its body.
Like(f, g) ==
    /\ g.kind = f.kind /\ g.head = f.head /\ g.next = f.next /\ g.end = f.end
    /\ g.reached = f.reached
    /\ g.body = f.body \/ g.body = "none"

\* Such a frame waits for the same blocks.
LEMMA LikePending ==
    ASSUME NEW f, NEW g, Like(f, g)
    PROVE  Pending(g) = Pending(f) /\ Exits(g) = Exits(f) /\ Opens(g) = Opens(f)
BY DEF Like, Pending, Exits, Opens

\* What the blocks of a construct are.
LEMMA PendingFacts ==
    ASSUME NEW fs, NEW bs, NEW x, NEW l, Agree(fs, bs, x, l), NEW i \in Spots(fs)
    PROVE  /\ \A b \in Pending(fs[i]) :
                /\ b \in Waiting(fs) /\ b \in Ids(bs) /\ bs[b] = Detached
                /\ bs[b].to = {} /\ bs[b].at # "function" /\ b # x /\ b # Entry
           /\ fs[i].kind # "block" => fs[i].end \in Pending(fs[i])
           /\ fs[i].kind \in {"then", "for"} => fs[i].next \in Pending(fs[i])
           /\ fs[i] \in FrameType
<1>1. \A b \in Pending(fs[i]) : b \in Waiting(fs)
  BY DEF Waiting
<1>2. \A b \in Waiting(fs) : b \in Ids(bs) /\ bs[b] = Detached /\ bs[x].at = "function"
  BY DEF Agree, Woven
<1>3. bs[Entry].at = "function"
  BY DEF Agree, EntryEnds
<1>4. fs[i] \in FrameType
  BY ElementOfSeq DEF Agree, Shape, Spots
<1>5. \A b \in Pending(fs[i]) :
        /\ b \in Waiting(fs) /\ b \in Ids(bs) /\ bs[b] = Detached
        /\ bs[b].to = {} /\ bs[b].at # "function" /\ b # x /\ b # Entry
  BY <1>1, <1>2, <1>3, DetachedType
<1> QED
  BY <1>4, <1>5 DEF Pending

\* What a construct waits for is kept when its blocks are as reached as before.
LEMMA PathTransfer ==
    ASSUME NEW fs, NEW gs, NEW bs, NEW cs, NEW i \in Spots(fs), i \in Spots(gs),
           PathKept(fs, bs, i), Like(fs[i], gs[i]),
           LabelReached(gs, i) <=> LabelReached(fs, i),
           \/ HasLoopAt(gs, i) <=> HasLoopAt(fs, i)
           \/ gs[i].body = "none" /\ ~HasLoopAt(gs, i),
           fs[i].kind # "block" => (fs[i].end \in Paths(cs) <=> fs[i].end \in Paths(bs)),
           fs[i].kind \in {"then", "while"} =>
                (fs[i].next \in Paths(bs) => fs[i].next \in Paths(cs)),
           fs[i].kind = "for" => (fs[i].head \in Paths(bs) => fs[i].head \in Paths(cs))
    PROVE  PathKept(gs, cs, i)
BY DEF PathKept, Like

\* The innermost frame of fs returns.
Pops(fs, gs) ==
    /\ gs \in Seq(FrameType) /\ Len(gs) \in Spots(gs) /\ On(Len(fs), Len(gs))
    /\ \A i \in Spots(gs) :
        /\ Like(fs[i], gs[i])
        /\ i # Len(gs) => gs[i].body = fs[i].body
        /\ gs[i].body # "one" \/ i # Len(gs)
        /\ fs[i].body = "list" => gs[i].body = "list"
        /\ fs[i].body = "one" /\ i = Len(gs) => gs[i].body = "none"

\* Blocks that are part of the function stay there but for those of Z, and
\* terminators stay.
Stays(bs, cs, Z) ==
    /\ Ids(bs) \subseteq Ids(cs)
    /\ \A b \in Ids(bs) :
        /\ b \notin Z /\ bs[b].at = "function" => cs[b].at = "function"
        /\ bs[b].holds = "terminator" => cs[b].holds = "terminator"

\* The blocks outside of D are reached as before.
SamePaths(bs, cs, D) == \A b \in Ids(bs) \ D : b \in Paths(cs) <=> b \in Paths(bs)

\* Lengths are natural numbers.
LEMMA LenNat ==
    ASSUME NEW fs, fs \in Seq(FrameType)
    PROVE  Len(fs) \in Nat /\ Spots(fs) \subseteq Nat
BY LenProperties DEF Spots

\* The places of the frames when the innermost one returned.
LEMMA PopSpots ==
    ASSUME NEW fs, NEW gs, Shape(fs), Pops(fs, gs)
    PROVE  /\ \A i \in Spots(gs) : i \in Spots(fs) /\ i # Len(fs)
           /\ \A i \in Spots(fs) : i \in Spots(gs) \/ i = Len(fs)
           /\ \A i \in Spots(gs), j \in Spots(fs) : On(i, j) => j \in Spots(gs) /\ j # Len(gs)
           /\ \A i \in Spots(gs), j \in Spots(fs) :
                On(j, i) => j \in Spots(gs) \/ (j = Len(fs) /\ i = Len(gs))
           /\ \A j \in Spots(gs) : ~On(j, Len(gs))
           /\ Len(gs) \in Spots(fs) /\ Len(fs) \in Spots(fs) /\ On(Len(fs), Len(gs))
           /\ \A j \in Spots(fs) : On(Len(fs), j) => j = Len(gs)
<1>1. PICK n \in Nat : n = Len(fs)
  BY LenNat DEF Shape
<1>2. PICK m \in Nat : m = Len(gs) /\ m >= 1 /\ n = m + 1
  BY <1>1, LenNat DEF Pops, On, Spots
<1>3. Spots(fs) = 1..n /\ Spots(gs) = 1..m
  BY <1>1, <1>2 DEF Spots
<1>4. \A i \in 1..m : i \in 1..n /\ i # n
  BY <1>2
<1>5. \A i \in 1..n : i \in 1..m \/ i = n
  BY <1>2
<1>6. \A i \in 1..m, j \in 1..n : On(i, j) => j \in 1..m /\ j # m
  BY <1>2 DEF On
<1>7. \A i \in 1..m, j \in 1..n : On(j, i) => j \in 1..m \/ (j = n /\ i = m)
  BY <1>2 DEF On
<1>8. (\A j \in 1..m : ~On(j, m)) /\ m \in 1..n /\ n \in 1..n /\ On(n, m)
  BY <1>2 DEF On
<1>9. \A j \in 1..n : On(n, j) => j = m
  BY <1>2 DEF On
<1> QED
  BY <1>1, <1>2, <1>3, <1>4, <1>5, <1>6, <1>7, <1>8, <1>9

\* The frames nest and wait as before when the innermost one returned.
LEMMA PopShape ==
    ASSUME NEW fs, NEW gs, Shape(fs), Apart(fs), Pops(fs, gs)
    PROVE  /\ Shape(gs) /\ Apart(gs)
           /\ \A i \in Spots(gs) : i \in Spots(fs) /\ i # Len(fs)
                                   /\ Pending(gs[i]) = Pending(fs[i])
           /\ Waiting(gs) = Waiting(fs) \ Pending(fs[Len(fs)])
<1>1. /\ \A i \in Spots(gs) : i \in Spots(fs) /\ i # Len(fs)
      /\ \A i \in Spots(fs) : i \in Spots(gs) \/ i = Len(fs)
      /\ Len(fs) \in Spots(fs)
  BY PopSpots
<1>2. \A i \in Spots(gs) : Like(fs[i], gs[i])
  BY DEF Pops
<1>3. \A i \in Spots(gs) : Pending(gs[i]) = Pending(fs[i])
  BY <1>2, LikePending
<1>4. Shape(gs)
  <2>1. 1 \in Spots(gs)
    BY LenNat DEF Pops, Spots
  <2>2. \A i \in Spots(gs) : gs[i].kind = "block" <=> gs[i].body = "list"
    <3> SUFFICES ASSUME NEW i \in Spots(gs) PROVE gs[i].kind = "block" <=> gs[i].body = "list"
      OBVIOUS
    <3>1. fs[i].kind = "block" <=> fs[i].body = "list"
      BY <1>1 DEF Shape
    <3> QED
      BY <1>2, <3>1 DEF Pops, Like
  <2>3. \A i \in Spots(gs) : i # Len(gs) => gs[i].body # "none"
    BY <1>1 DEF Pops, Shape
  <2>4. gs[1].kind = "block"
    BY <1>2, <2>1 DEF Like, Shape
  <2> QED
    BY <2>2, <2>3, <2>4 DEF Shape, Pops
<1>5. Apart(gs)
  BY <1>1, <1>2, <1>3 DEF Apart, Like
<1>6. Waiting(gs) = Waiting(fs) \ Pending(fs[Len(fs)])
  <2>1. ASSUME NEW b \in Waiting(gs) PROVE b \in Waiting(fs) /\ b \notin Pending(fs[Len(fs)])
    BY <1>1, <1>3, <2>1 DEF Waiting, Apart
  <2>2. ASSUME NEW b \in Waiting(fs), b \notin Pending(fs[Len(fs)]) PROVE b \in Waiting(gs)
    BY <1>1, <1>3, <2>2 DEF Waiting
  <2> QED
    BY <2>1, <2>2
<1> QED
  BY <1>1, <1>3, <1>4, <1>5, <1>6

\* The end of the innermost construct.
LEMMA PopAgrees ==
    ASSUME NEW fs, NEW bs, NEW x, NEW l \in BOOLEAN, Agree(fs, bs, x, l),
           NEW gs, Pops(fs, gs), NEW f, f = fs[Len(fs)],
           NEW cs, NEW y, NEW m \in BOOLEAN, NEW Z, NEW D,
           Woven(cs, y, Waiting(fs) \ Pending(f)),
           Z = {} \/ (Opens(f) /\ Z = {x} /\ x # Entry /\ bs[x].holds # "terminator"),
           Stays(bs, cs, Z),
           D \subseteq Pending(f) \cup Z, SamePaths(bs, cs, D),
           \/ cs[y].holds # "terminator"
           \/ /\ y = x /\ cs[x] = bs[x]
              /\ bs[x].holds = "terminator" => bs[x].to \cap Exits(f) = {},
           (m \/ (f.kind \in Loops /\ LabelReached(fs, Len(fs)))) <=> Goes(cs, y)
    PROVE  Agree(gs, cs, y, m)
<1>0. /\ Shape(fs) /\ Apart(fs) /\ InsertEnds(fs, bs, x) /\ EntryEnds(fs, bs)
      /\ Woven(bs, x, Waiting(fs))
      /\ \A i \in Spots(fs) : LoopRepeats(fs, bs, i) /\ PathKept(fs, bs, i)
  BY DEF Agree
<1>1. /\ Shape(gs) /\ Apart(gs)
      /\ \A i \in Spots(gs) : i \in Spots(fs) /\ i # Len(fs)
                              /\ Pending(gs[i]) = Pending(fs[i])
      /\ Waiting(gs) = Waiting(fs) \ Pending(f)
  BY <1>0, PopShape
<1>2. \A i \in Spots(gs) : Like(fs[i], gs[i])
  BY DEF Pops
<1>3. /\ \A i \in Spots(fs) : i \in Spots(gs) \/ i = Len(fs)
      /\ \A i \in Spots(gs), j \in Spots(fs) : On(i, j) => j \in Spots(gs) /\ j # Len(gs)
      /\ \A i \in Spots(gs), j \in Spots(fs) :
                On(j, i) => j \in Spots(gs) \/ (j = Len(fs) /\ i = Len(gs))
      /\ \A j \in Spots(gs) : ~On(j, Len(gs))
      /\ Len(gs) \in Spots(fs) /\ Len(fs) \in Spots(fs) /\ On(Len(fs), Len(gs))
      /\ \A j \in Spots(fs) : On(Len(fs), j) => j = Len(gs)
  BY <1>0, PopSpots
<1>4. Woven(cs, y, Waiting(gs))
  BY <1>1
<1>5. InsertEnds(gs, cs, y)
  <2> SUFFICES ASSUME cs[y].holds = "terminator"
               PROVE  /\ cs[y].to # {}
                      /\ \A c \in cs[y].to :
                            c = ReturnBlock \/ \E i \in Spots(gs) : c \in Exits(gs[i])
    BY DEF InsertEnds
  <2>1. /\ y = x /\ cs[y] = bs[x] /\ bs[x].holds = "terminator"
        /\ bs[x].to \cap Exits(f) = {}
    OBVIOUS
  <2>2. /\ bs[x].to # {}
        /\ \A c \in bs[x].to : c = ReturnBlock \/ \E i \in Spots(fs) : c \in Exits(fs[i])
    BY <1>0, <2>1 DEF InsertEnds
  <2>3. \A i \in Spots(gs) : Exits(gs[i]) = Exits(fs[i])
    BY <1>2, LikePending
  <2> QED
    BY <1>3, <2>1, <2>2, <2>3
<1>6. Entry \notin Z
  OBVIOUS
<1>7. EntryEnds(gs, cs)
  <2>1. Entry \in Ids(bs)
    BY <1>0 DEF Woven
  <2>2. cs[Entry].at = "function"
    BY <1>0, <1>6, <2>1 DEF EntryEnds, Stays
  <2>3. \A i \in Spots(gs) : Opens(gs[i]) => Opens(fs[i])
    BY <1>2, LikePending
  <2> QED
    BY <1>0, <1>1, <2>1, <2>2, <2>3 DEF EntryEnds, Stays
<1>8. ASSUME NEW i \in Spots(gs) PROVE LoopRepeats(gs, cs, i)
  <2>1. LoopRepeats(fs, bs, i) /\ Like(fs[i], gs[i])
    BY <1>0, <1>1, <1>2
  <2>2. CASE fs[i].kind = "while"
    <3>1. /\ fs[i].next \in Ids(bs) /\ fs[i].next \notin Z
          /\ bs[fs[i].next].at = "function" /\ bs[fs[i].next].holds = "terminator"
      BY <2>1, <2>2 DEF LoopRepeats
    <3>2. /\ fs[i].next \in Ids(cs)
          /\ cs[fs[i].next].at = "function" /\ cs[fs[i].next].holds = "terminator"
      BY <3>1 DEF Stays
    <3> QED
      BY <2>1, <2>2, <3>2 DEF LoopRepeats, Like
  <2>3. CASE fs[i].kind = "for"
    <3>1. fs[i].head \in Ids(bs) /\ bs[fs[i].head].at = "function"
      BY <2>1, <2>3 DEF LoopRepeats
    <3>2. fs[i].head \notin Z
      <4> SUFFICES ASSUME Opens(f) PROVE bs[fs[i].head].holds = "terminator"
        OBVIOUS
      <4>1. i < Len(fs) /\ Len(fs) \in Spots(fs)
        BY <1>1, <1>3, LenNat, <1>0 DEF Spots, Shape
      <4> QED
        BY <2>1, <2>3, <4>1 DEF LoopRepeats
    <3>3. fs[i].head \in Ids(cs) /\ cs[fs[i].head].at = "function"
      BY <3>1, <3>2 DEF Stays
    <3>4. ASSUME NEW j \in Spots(gs), i < j, Opens(gs[j])
          PROVE  cs[fs[i].head].holds = "terminator"
      <4>1. Opens(fs[j]) /\ j \in Spots(fs)
        BY <1>1, <1>2, <3>4, LikePending
      <4>2. bs[fs[i].head].holds = "terminator"
        BY <2>1, <2>3, <3>4, <4>1 DEF LoopRepeats
      <4> QED
        BY <3>1, <4>2 DEF Stays
    <3> QED
      BY <2>1, <2>3, <3>3, <3>4 DEF LoopRepeats, Like
  <2>4. CASE fs[i].kind \notin {"while", "for"}
    BY <2>1, <2>4 DEF LoopRepeats, Like
  <2> QED
    BY <2>2, <2>3, <2>4
<1>9. ASSUME NEW b \in Ids(bs), b \notin Pending(f), b \notin Z
      PROVE  b \in Paths(cs) <=> b \in Paths(bs)
  BY <1>9 DEF SamePaths
<1>10. ASSUME NEW i \in Spots(gs), NEW b \in Pending(fs[i])
       PROVE  b \in Paths(cs) <=> b \in Paths(bs)
  <2>1. b \in Ids(bs) /\ b # x
    BY <1>1, <1>10, PendingFacts
  <2>2. b \notin Pending(f)
    BY <1>0, <1>1, <1>3, <1>10 DEF Apart
  <2> QED
    BY <1>9, <2>1, <2>2
<1>11. \A b \in Pending(f) : bs[b].at # "function"
  BY <1>3, PendingFacts
<1>12. ASSUME NEW i \in Spots(gs) PROVE PathKept(gs, cs, i)
  <2>1. PathKept(fs, bs, i) /\ LoopRepeats(fs, bs, i) /\ Like(fs[i], gs[i]) /\ i \in Spots(fs)
    BY <1>0, <1>1, <1>2
  <2>2. fs[i].kind # "block" => (fs[i].end \in Paths(cs) <=> fs[i].end \in Paths(bs))
    BY <1>10, <2>1, PendingFacts
  <2>3. fs[i].kind = "then" => (fs[i].next \in Paths(cs) <=> fs[i].next \in Paths(bs))
    BY <1>10, <2>1, PendingFacts
  <2>4. fs[i].kind = "while" => (fs[i].next \in Paths(cs) <=> fs[i].next \in Paths(bs))
    <3> SUFFICES ASSUME fs[i].kind = "while"
                 PROVE  fs[i].next \in Paths(cs) <=> fs[i].next \in Paths(bs)
      OBVIOUS
    <3>1. /\ fs[i].next \in Ids(bs) /\ fs[i].next \notin Z
          /\ bs[fs[i].next].at = "function"
      BY <2>1 DEF LoopRepeats
    <3> QED
      BY <1>9, <1>11, <3>1
  <2>5. fs[i].kind = "for" => (fs[i].head \in Paths(cs) <=> fs[i].head \in Paths(bs))
    <3> SUFFICES ASSUME fs[i].kind = "for"
                 PROVE  fs[i].head \in Paths(cs) <=> fs[i].head \in Paths(bs)
      OBVIOUS
    <3>1. fs[i].head \in Ids(bs) /\ bs[fs[i].head].at = "function"
      BY <2>1 DEF LoopRepeats
    <3>2. fs[i].head \notin Z
      <4> SUFFICES ASSUME Opens(f) PROVE bs[fs[i].head].holds = "terminator"
        OBVIOUS
      <4>1. i < Len(fs) /\ Len(fs) \in Spots(fs)
        BY <1>1, <1>3, LenNat, <1>0 DEF Spots, Shape
      <4> QED
        BY <2>1, <4>1 DEF LoopRepeats
    <3> QED
      BY <1>9, <1>11, <3>1, <3>2
  <2>6. LabelReached(gs, i) <=> LabelReached(fs, i)
    BY <1>1, <1>2, <1>3 DEF LabelReached, Like
  <2>7. \/ HasLoopAt(gs, i) <=> HasLoopAt(fs, i)
        \/ gs[i].body = "none" /\ ~HasLoopAt(gs, i)
        \/ gs[i].kind # "label"
    <3>1. CASE i = Len(gs)
      <4>1. ~HasLoopAt(gs, i)
        BY <1>3, <3>1 DEF HasLoopAt
      <4>2. fs[i].kind = "label" => gs[i].body = "none"
        <5>1. fs[i].body # "none" /\ (fs[i].kind = "label" => fs[i].body # "list")
          BY <1>0, <1>1 DEF Shape
        <5>2. fs[i].body \in {"list", "one", "none"}
          BY <2>1, PendingFacts DEF FrameType
        <5> QED
          BY <3>1, <5>1, <5>2 DEF Pops
      <4> QED
        BY <2>1, <4>1, <4>2 DEF Like
    <3>2. CASE i # Len(gs)
      BY <1>1, <1>2, <1>3, <3>2 DEF HasLoopAt, Like
    <3> QED
      BY <3>1, <3>2
  <2>8. CASE gs[i].kind # "label"
    BY <2>1, <2>2, <2>3, <2>4, <2>5, <2>6, <2>8 DEF PathKept, Like
  <2>9. CASE gs[i].kind = "label"
    BY <2>1, <2>2, <2>3, <2>4, <2>5, <2>6, <2>7, <2>9, PathTransfer
  <2> QED
    BY <2>8, <2>9
<1>13. TopAgrees(gs[Len(gs)], cs, y, m)
  <2>1. PICK g : g = gs[Len(gs)]
    OBVIOUS
  <2>2. PICK h : h = fs[Len(gs)]
    OBVIOUS
  <2>3. Like(h, g) /\ g.body # "one" /\ (h.body = "one" => g.body = "none")
    BY <1>3, <2>1, <2>2 DEF Pops
  <2>4. h.body # "none" /\ (h.kind = "label" => h.body # "list")
        /\ h.body \in {"list", "one", "none"}
    <3>1. Len(gs) \in Spots(fs) /\ Len(gs) # Len(fs)
      BY <1>1, <1>3 DEF Pops
    <3>2. h \in FrameType
      BY <2>2, <3>1, PendingFacts
    <3> QED
      BY <1>0, <2>2, <3>1, <3>2 DEF Shape, FrameType
  <2>5. Bare(g) <=> h.kind = "label"
    BY <2>3, <2>4 DEF Bare, Like
  <2>6. LabelReached(fs, Len(fs)) <=> h.kind = "label" /\ h.reached
    BY <1>3, <2>2 DEF LabelReached
  <2>7. HasLoopAt(fs, Len(gs)) <=> f.kind \in Loops
    <3>1. \A j \in Spots(fs) : On(j, Len(gs)) => j = Len(fs)
      BY <1>3
    <3> QED
      BY <1>3, <3>1 DEF HasLoopAt
  <2>8. CASE h.kind # "label"
    <3>1. m <=> Goes(cs, y)
      BY <2>6, <2>8
    <3> QED
      BY <2>1, <2>3, <2>5, <2>8, <3>1 DEF TopAgrees, Like
  <2>9. CASE h.kind = "label"
    <3>1. PathKept(fs, bs, Len(gs))
      BY <1>0, <1>3
    <3>2. h.end \in Paths(cs) <=> h.end \in Paths(bs)
      BY <1>3, <1>10, <2>2, <2>9, PendingFacts DEF Pops
    <3>3. h.body = "one"
      BY <2>4, <2>9
    <3>4. f.kind \in Loops => h.end \notin Paths(bs)
      BY <2>2, <2>7, <2>9, <3>1 DEF PathKept
    <3>5. f.kind \notin Loops => (h.end \in Paths(bs) <=> h.reached)
      BY <2>2, <2>7, <2>9, <3>1, <3>3 DEF PathKept
    <3>6. g.end = h.end /\ g.reached = h.reached
      BY <2>3 DEF Like
    <3>7. m \/ g.reached <=> Goes(cs, y) \/ g.end \in Paths(cs)
      <4>1. CASE f.kind \in Loops
        <5>1. h.end \notin Paths(cs)
          BY <3>2, <3>4, <4>1
        <5>2. m \/ h.reached <=> Goes(cs, y)
          BY <2>6, <2>9, <4>1
        <5> QED
          BY <3>6, <5>1, <5>2
      <4>2. CASE f.kind \notin Loops
        <5>1. m <=> Goes(cs, y)
          BY <4>2
        <5>2. h.end \in Paths(cs) <=> h.reached
          BY <3>2, <3>5, <4>2
        <5> QED
          BY <3>6, <5>1, <5>2
      <4> QED
        BY <4>1, <4>2
    <3> QED
      BY <2>1, <2>3, <2>5, <2>9, <3>7 DEF TopAgrees
  <2> QED
    BY <2>1, <2>8, <2>9
<1> QED
  BY <1>1, <1>4, <1>5, <1>7, <1>8, <1>12, <1>13 DEF Agree

\* The entry stays terminated.
LEMMA StayEnds ==
    ASSUME NEW fs, NEW gs, NEW bs, NEW cs, EntryEnds(fs, bs), Stay(bs, cs),
           Entry \in Ids(bs),
           (\E i \in Spots(gs) : Opens(gs[i])) =>
                (\E i \in Spots(fs) : Opens(fs[i])) \/ cs[Entry].holds = "terminator"
    PROVE  EntryEnds(gs, cs)
BY DEF EntryEnds, Stay

\* The blocks that loops go back to stay in the function.
LEMMA StayRepeats ==
    ASSUME NEW fs, NEW gs, NEW bs \in Blocks, NEW cs \in Blocks, NEW i,
           LoopRepeats(fs, bs, i), Stay(bs, cs),
           gs[i].kind = fs[i].kind \/ (gs[i].kind \notin Loops),
           gs[i].next = fs[i].next, gs[i].head = fs[i].head,
           \A j \in Spots(gs) : i < j /\ Opens(gs[j]) =>
                (\E k \in Spots(fs) : i < k /\ Opens(fs[k]))
                \/ (\A b \in Ids(bs) : cs[b].at = "function" => cs[b].holds = "terminator")
    PROVE  LoopRepeats(gs, cs, i)
<1>1. Ids(bs) \subseteq Ids(cs)
  BY BlockFacts DEF Stay, Ids
<1>2. CASE gs[i].kind = "while"
  BY <1>1, <1>2 DEF LoopRepeats, Stay, Loops
<1>3. CASE gs[i].kind = "for"
  <2>1. PICK h : h = gs[i].head
    OBVIOUS
  <2>2. h \in Ids(bs) /\ bs[h].at = "function" /\ h \in Ids(cs) /\ cs[h].at = "function"
    BY <1>1, <1>3, <2>1 DEF LoopRepeats, Stay, Loops
  <2>3. ASSUME NEW j \in Spots(gs), i < j, Opens(gs[j]) PROVE cs[h].holds = "terminator"
    <3>1. CASE \E k \in Spots(fs) : i < k /\ Opens(fs[k])
      BY <1>3, <2>1, <2>2, <3>1 DEF LoopRepeats, Stay, Loops
    <3>2. CASE \A b \in Ids(bs) : cs[b].at = "function" => cs[b].holds = "terminator"
      BY <2>2, <3>2
    <3> QED
      BY <2>3, <3>1, <3>2
  <2> QED
    BY <1>3, <2>1, <2>2, <2>3 DEF LoopRepeats
<1>4. CASE gs[i].kind \notin {"while", "for"}
  BY <1>4 DEF LoopRepeats
<1> QED
  BY <1>2, <1>3, <1>4

\* The frame f is called.
Pushes(fs, gs, f) ==
    /\ gs \in Seq(FrameType) /\ Len(gs) \in Spots(gs) /\ On(Len(gs), Len(fs))
    /\ \A i \in Spots(fs) : gs[i] = fs[i]
    /\ gs[Len(gs)] = f /\ f \in FrameType

\* What a construct begins with: the blocks it created and reaches.
Begins(f, bs, cs, y) ==
    /\ f.body # "none" /\ (f.kind = "block" <=> f.body = "list") /\ f.kind # "else"
    /\ \A b \in Pending(f) : b \notin Ids(bs)
    /\ f.kind \in {"then", "for"} => f.next # f.end
    /\ Opens(f) => y \notin Ids(bs)
    /\ f.kind = "then" => f.next \in Paths(cs) /\ f.end \notin Paths(cs)
    /\ f.kind = "while" =>
        /\ f.next \in Paths(cs) /\ f.end \in Paths(cs) /\ f.next \in Ids(cs)
        /\ cs[f.next].at = "function" /\ cs[f.next].holds = "terminator"
    /\ f.kind = "for" =>
        /\ f.head \in Ids(cs) /\ cs[f.head].at = "function" /\ f.head \in Paths(cs)
        /\ f.end \in Paths(cs) <=> f.reached
    /\ f.kind = "label" => f.end \notin Paths(cs) /\ ~f.reached

\* The places of the frames when another one is called.
LEMMA PushSpots ==
    ASSUME NEW fs, NEW gs, NEW f, Shape(fs), Pushes(fs, gs, f)
    PROVE  /\ \A i \in Spots(fs) : i \in Spots(gs) /\ i # Len(gs) /\ ~(Len(gs) < i)
           /\ \A i \in Spots(gs) : i \in Spots(fs) \/ i = Len(gs)
           /\ \A j \in Spots(gs) : ~On(j, Len(gs)) /\ ~(Len(gs) < j)
           /\ \A j \in Spots(gs) : On(Len(gs), j) => j = Len(fs)
           /\ \A i \in Spots(fs), j \in Spots(gs) : On(i, j) => j \in Spots(fs)
           /\ \A i \in Spots(fs), j \in Spots(gs) :
                On(j, i) => j \in Spots(fs) \/ (i = Len(fs) /\ j = Len(gs))
           /\ \A j \in Spots(fs) : ~On(j, Len(fs))
           /\ Len(gs) \in Spots(gs) /\ Len(fs) \in Spots(fs) /\ 1 \in Spots(fs)
<1>1. PICK n \in Nat : n = Len(fs) /\ n >= 1
  BY LenNat DEF Shape, Spots
<1>2. PICK m \in Nat : m = Len(gs) /\ m = n + 1
  BY <1>1, LenNat DEF Pushes, On, Spots
<1>3. Spots(fs) = 1..n /\ Spots(gs) = 1..m
  BY <1>1, <1>2 DEF Spots
<1>4. \A i \in 1..n : i \in 1..m /\ i # m /\ ~(m < i)
  BY <1>2
<1>5. \A i \in 1..m : i \in 1..n \/ i = m
  BY <1>2
<1>6. \A j \in 1..m : ~On(j, m) /\ ~(m < j)
  BY <1>2 DEF On
<1>7. \A j \in 1..m : On(m, j) => j = n
  BY <1>2 DEF On
<1>8. \A i \in 1..n, j \in 1..m : On(i, j) => j \in 1..n
  BY <1>2 DEF On
<1>9. \A i \in 1..n, j \in 1..m : On(j, i) => j \in 1..n \/ (i = n /\ j = m)
  BY <1>2 DEF On
<1>10. (\A j \in 1..n : ~On(j, n)) /\ m \in 1..m /\ n \in 1..n /\ 1 \in 1..n
  BY <1>1, <1>2 DEF On
<1> QED
  BY <1>1, <1>2, <1>3, <1>4, <1>5, <1>6, <1>7, <1>8, <1>9, <1>10

\* A construct begins.
LEMMA PushAgrees ==
    ASSUME NEW fs, NEW bs, NEW x, Agree(fs, bs, x, TRUE), fs[Len(fs)].body # "none",
           NEW gs, NEW f, Pushes(fs, gs, f), NEW cs, NEW y, Begins(f, bs, cs, y),
           Woven(cs, y, Waiting(fs) \cup Pending(f)), Stay(bs, cs),
           \A b \in Ids(bs) : b \in Paths(cs) <=> b \in Paths(bs),
           Goes(cs, y)
    PROVE  Agree(gs, cs, y, TRUE)
<1>0. /\ Shape(fs) /\ Apart(fs) /\ EntryEnds(fs, bs) /\ Woven(bs, x, Waiting(fs))
      /\ \A i \in Spots(fs) : LoopRepeats(fs, bs, i) /\ PathKept(fs, bs, i)
      /\ TopAgrees(fs[Len(fs)], bs, x, TRUE)
  BY DEF Agree
<1>1. /\ \A i \in Spots(fs) : i \in Spots(gs) /\ i # Len(gs) /\ ~(Len(gs) < i)
      /\ \A i \in Spots(gs) : i \in Spots(fs) \/ i = Len(gs)
      /\ \A j \in Spots(gs) : ~On(j, Len(gs)) /\ ~(Len(gs) < j)
      /\ \A j \in Spots(gs) : On(Len(gs), j) => j = Len(fs)
      /\ \A i \in Spots(fs), j \in Spots(gs) : On(i, j) => j \in Spots(fs)
      /\ \A i \in Spots(fs), j \in Spots(gs) :
            On(j, i) => j \in Spots(fs) \/ (i = Len(fs) /\ j = Len(gs))
      /\ \A j \in Spots(fs) : ~On(j, Len(fs))
      /\ Len(gs) \in Spots(gs) /\ Len(fs) \in Spots(fs) /\ 1 \in Spots(fs)
  BY <1>0, PushSpots
<1>2. /\ \A i \in Spots(fs) : gs[i] = fs[i]
      /\ gs[Len(gs)] = f /\ f \in FrameType /\ gs \in Seq(FrameType)
  BY DEF Pushes
<1>3. bs \in Blocks /\ cs \in Blocks /\ Entry \in Ids(bs) /\ Waiting(fs) \subseteq Ids(bs)
  BY <1>0 DEF Woven
<1>4. Shape(gs)
  BY <1>0, <1>1, <1>2 DEF Shape, Begins
<1>5. \A i \in Spots(fs) : Pending(gs[i]) = Pending(fs[i]) /\ Pending(fs[i]) \subseteq Ids(bs)
  BY <1>2, <1>3 DEF Waiting
<1>6. Pending(gs[Len(gs)]) = Pending(f) /\ \A b \in Pending(f) : b \notin Ids(bs)
  BY <1>2 DEF Begins
<1>7. Apart(gs)
  <2>1. ReturnBlock \in Ids(bs)
    BY <1>3 DEF Waiting
  <2>2. \A i \in Spots(gs) : ReturnBlock \notin Pending(gs[i])
    BY <1>0, <1>1, <1>5, <1>6, <2>1 DEF Apart
  <2>3. \A i \in Spots(gs) : gs[i].kind \in {"then", "for"} => gs[i].next # gs[i].end
    BY <1>0, <1>1, <1>2 DEF Apart, Begins
  <2>4. \A i, j \in Spots(gs) : i # j => Pending(gs[i]) \cap Pending(gs[j]) = {}
    <3> SUFFICES ASSUME NEW i \in Spots(gs), NEW j \in Spots(gs), i # j
                 PROVE  Pending(gs[i]) \cap Pending(gs[j]) = {}
      OBVIOUS
    <3>1. CASE i \in Spots(fs) /\ j \in Spots(fs)
      BY <1>0, <1>5, <3>1 DEF Apart
    <3>2. CASE i = Len(gs) /\ j \in Spots(fs)
      BY <1>5, <1>6, <3>2
    <3>3. CASE j = Len(gs) /\ i \in Spots(fs)
      BY <1>5, <1>6, <3>3
    <3> QED
      BY <1>1, <3>1, <3>2, <3>3
  <2> QED
    BY <2>2, <2>3, <2>4 DEF Apart
<1>8. Waiting(gs) = Waiting(fs) \cup Pending(f)
  BY <1>1, <1>5, <1>6 DEF Waiting
<1>9. InsertEnds(gs, cs, y)
  BY DEF Goes, InsertEnds
<1>10. Opens(f) => \A b \in Ids(bs) : cs[b].at = "function" => cs[b].holds = "terminator"
  <2>1. Ids(bs) \subseteq Ids(cs)
    BY <1>3, BlockFacts DEF Stay, Ids
  <2> QED
    BY <2>1 DEF Begins, Woven
<1>11. EntryEnds(gs, cs)
  <2>1. cs[Entry].at = "function"
    BY <1>0, <1>3 DEF EntryEnds, Stay
  <2>2. ASSUME NEW i \in Spots(gs), Opens(gs[i])
        PROVE  (\E j \in Spots(fs) : Opens(fs[j])) \/ cs[Entry].holds = "terminator"
    BY <1>1, <1>2, <1>3, <1>10, <2>1, <2>2
  <2> QED
    BY <1>0, <1>3, <2>2, StayEnds
<1>12. ASSUME NEW i \in Spots(gs) PROVE LoopRepeats(gs, cs, i)
  <2>1. CASE i \in Spots(fs)
    <3>1. ASSUME NEW j \in Spots(gs), i < j, Opens(gs[j])
          PROVE  \/ \E k \in Spots(fs) : i < k /\ Opens(fs[k])
                 \/ \A b \in Ids(bs) : cs[b].at = "function" => cs[b].holds = "terminator"
      BY <1>1, <1>2, <1>10, <3>1
    <3>2. LoopRepeats(fs, bs, i) /\ gs[i] = fs[i]
      BY <1>0, <1>2, <2>1
    <3> QED
      BY <1>3, <3>1, <3>2, StayRepeats
  <2>2. CASE i = Len(gs)
    BY <1>1, <1>2, <2>2 DEF LoopRepeats, Begins
  <2> QED
    BY <1>1, <2>1, <2>2
<1>13. PICK h : h = fs[Len(fs)]
  OBVIOUS
<1>14. h.kind = "label" => ~h.reached /\ h.end \notin Paths(bs)
  <2> SUFFICES ASSUME h.kind = "label" PROVE ~h.reached /\ h.end \notin Paths(bs)
    OBVIOUS
  <2>1. h.body = "one"
    <3>1. h \in FrameType /\ (h.kind = "block" <=> h.body = "list") /\ h.body # "none"
      BY <1>0, <1>1, <1>13, PendingFacts DEF Shape
    <3> QED
      BY <3>1 DEF FrameType
  <2>2. ~h.reached
    BY <1>0, <1>13, <2>1 DEF TopAgrees
  <2>3. ~HasLoopAt(fs, Len(fs)) /\ PathKept(fs, bs, Len(fs))
    BY <1>0, <1>1 DEF HasLoopAt
  <2> QED
    BY <1>13, <2>1, <2>2, <2>3 DEF PathKept
<1>15. ASSUME NEW i \in Spots(gs) PROVE PathKept(gs, cs, i)
  <2>1. CASE i = Len(gs)
    <3>1. ~LabelReached(gs, i)
      BY <1>1, <1>2, <1>13, <1>14, <2>1 DEF LabelReached
    <3>2. ~HasLoopAt(gs, i)
      BY <1>1, <2>1 DEF HasLoopAt
    <3> QED
      BY <1>2, <2>1, <3>1, <3>2 DEF PathKept, Begins
  <2>2. CASE i \in Spots(fs)
    <3>1. PathKept(fs, bs, i) /\ LoopRepeats(fs, bs, i) /\ gs[i] = fs[i]
      BY <1>0, <1>2, <2>2
    <3>2. fs[i].kind # "block" => (fs[i].end \in Paths(cs) <=> fs[i].end \in Paths(bs))
      BY <1>5, <2>2 DEF Pending
    <3>3. fs[i].kind = "then" => (fs[i].next \in Paths(cs) <=> fs[i].next \in Paths(bs))
      BY <1>5, <2>2 DEF Pending
    <3>4. fs[i].kind = "while" => (fs[i].next \in Paths(cs) <=> fs[i].next \in Paths(bs))
      BY <3>1 DEF LoopRepeats
    <3>5. fs[i].kind = "for" => (fs[i].head \in Paths(cs) <=> fs[i].head \in Paths(bs))
      BY <3>1 DEF LoopRepeats
    <3>6. LabelReached(gs, i) <=> LabelReached(fs, i)
      BY <1>1, <1>2, <2>2 DEF LabelReached
    <3>7. CASE fs[i].kind # "label"
      BY <3>1, <3>2, <3>3, <3>4, <3>5, <3>6, <3>7 DEF PathKept
    <3>8. CASE fs[i].kind = "label"
      <4>1. CASE i = Len(fs)
        <5>1. fs[i].end \notin Paths(cs) /\ ~fs[i].reached
          BY <1>13, <1>14, <3>2, <3>8, <4>1
        <5> QED
          BY <3>1, <3>8, <5>1 DEF PathKept
      <4>2. CASE i # Len(fs)
        <5>1. HasLoopAt(gs, i) <=> HasLoopAt(fs, i)
          BY <1>1, <1>2, <2>2, <4>2 DEF HasLoopAt
        <5> QED
          BY <3>1, <3>2, <3>8, <5>1 DEF PathKept
      <4> QED
        BY <4>1, <4>2
    <3> QED
      BY <3>7, <3>8
  <2> QED
    BY <1>1, <2>1, <2>2
<1>16. TopAgrees(gs[Len(gs)], cs, y, TRUE)
  BY <1>2 DEF TopAgrees, Bare, Begins
<1> QED
  BY <1>4, <1>7, <1>8, <1>9, <1>11, <1>12, <1>15, <1>16 DEF Agree

\* One more statement of the innermost frame is generated: k is the frame whose
\* end a break makes reachable.
Continues(fs, gs, k) ==
    /\ gs \in Seq(FrameType) /\ Len(gs) = Len(fs)
    /\ \A i \in Spots(fs) :
        /\ gs[i].kind = fs[i].kind /\ gs[i].head = fs[i].head
        /\ gs[i].next = fs[i].next /\ gs[i].end = fs[i].end
        /\ gs[i].reached = (fs[i].reached \/ i = k)
        /\ i # Len(fs) => gs[i].body = fs[i].body
        /\ fs[i].body = "list" => gs[i].body = "list"
        /\ i = Len(fs) /\ fs[i].body = "one" => gs[i].body = "none"

\* All but the paths of a step that keeps the frames.
LEMMA ContinuesKeeps ==
    ASSUME NEW fs, NEW bs, NEW x, NEW l, Agree(fs, bs, x, l), fs[Len(fs)].body # "none",
           NEW gs, NEW k, Continues(fs, gs, k), NEW cs, Stay(bs, cs),
           cs \in Blocks
    PROVE  /\ Shape(gs) /\ Apart(gs) /\ Waiting(gs) = Waiting(fs)
           /\ Spots(gs) = Spots(fs) /\ Len(gs) \in Spots(fs)
           /\ EntryEnds(gs, cs)
           /\ \A i \in Spots(fs) : LoopRepeats(gs, cs, i)
           /\ \A i \in Spots(fs) : HasLoopAt(gs, i) <=> HasLoopAt(fs, i)
           /\ \A i \in Spots(fs) : Exits(gs[i]) = Exits(fs[i])
           /\ gs[Len(gs)].body # "one"
           /\ \A i \in Spots(fs) : gs[i].body = "one" => fs[i].body = "one"
           /\ fs[Len(gs)].kind = "label" => fs[Len(gs)].body = "one"
<1>0. /\ Shape(fs) /\ Apart(fs) /\ EntryEnds(fs, bs) /\ Woven(bs, x, Waiting(fs))
      /\ \A i \in Spots(fs) : LoopRepeats(fs, bs, i)
  BY DEF Agree
<1>1. Spots(gs) = Spots(fs) /\ Len(gs) = Len(fs) /\ Len(fs) \in Spots(fs)
  BY <1>0 DEF Continues, Spots, Shape
<1>2. \A i \in Spots(fs) :
        /\ gs[i].kind = fs[i].kind /\ gs[i].head = fs[i].head
        /\ gs[i].next = fs[i].next /\ gs[i].end = fs[i].end
  BY DEF Continues
<1>3. \A i \in Spots(fs) :
        Pending(gs[i]) = Pending(fs[i]) /\ Exits(gs[i]) = Exits(fs[i])
        /\ (Opens(gs[i]) <=> Opens(fs[i]))
  BY <1>2 DEF Pending, Exits, Opens
<1>4. \A i \in Spots(fs) : fs[i].body \in {"list", "one", "none"} /\ fs[i].body # "none"
  BY <1>0, PendingFacts DEF Shape, FrameType
<1>5. /\ \A i \in Spots(fs) : gs[i].kind = "block" <=> gs[i].body = "list"
      /\ \A i \in Spots(fs) : i # Len(gs) => gs[i].body # "none"
      /\ gs[Len(gs)].body # "one"
      /\ \A i \in Spots(fs) : gs[i].body = "one" => fs[i].body = "one"
  <2> SUFFICES ASSUME NEW i \in Spots(fs)
               PROVE  /\ gs[i].kind = "block" <=> gs[i].body = "list"
                      /\ i # Len(gs) => gs[i].body # "none"
                      /\ i = Len(gs) => gs[i].body # "one"
                      /\ gs[i].body = "one" => fs[i].body = "one"
    BY <1>1
  <2>1. fs[i].kind = "block" <=> fs[i].body = "list"
    BY <1>0 DEF Shape
  <2> QED
    BY <1>1, <1>2, <1>4, <2>1 DEF Continues
<1>6. Shape(gs)
  <2>1. gs[1].kind = "block"
    <3>1. 1 \in Spots(fs)
      BY <1>0, LenNat DEF Spots, Shape
    <3> QED
      BY <1>0, <1>2, <3>1 DEF Shape
  <2> QED
    BY <1>1, <1>5, <2>1 DEF Shape, Continues
<1>7. Apart(gs) /\ Waiting(gs) = Waiting(fs)
  BY <1>0, <1>1, <1>2, <1>3 DEF Apart, Waiting
<1>8. Entry \in Ids(bs) /\ bs \in Blocks
  BY <1>0 DEF Woven
<1>9. EntryEnds(gs, cs)
  BY <1>0, <1>1, <1>3, <1>8, StayEnds
<1>10. ASSUME NEW i \in Spots(fs) PROVE LoopRepeats(gs, cs, i)
  <2>1. LoopRepeats(fs, bs, i)
    BY <1>0
  <2>2. ASSUME NEW j \in Spots(gs), i < j, Opens(gs[j])
        PROVE  \E m \in Spots(fs) : i < m /\ Opens(fs[m])
    BY <1>1, <1>3, <2>2
  <2>3. /\ gs[i].kind = fs[i].kind /\ gs[i].next = fs[i].next /\ gs[i].head = fs[i].head
    BY <1>2
  <2> QED
    BY <1>8, <2>1, <2>2, <2>3, StayRepeats
<1>11. \A i \in Spots(fs) : HasLoopAt(gs, i) <=> HasLoopAt(fs, i)
  BY <1>1, <1>2 DEF HasLoopAt
<1>12. fs[Len(gs)].kind = "label" => fs[Len(gs)].body = "one"
  <2>1. fs[Len(fs)].kind = "block" <=> fs[Len(fs)].body = "list"
    BY <1>0, <1>1 DEF Shape
  <2> QED
    BY <1>1, <1>4, <2>1
<1> QED
  BY <1>1, <1>3, <1>5, <1>6, <1>7, <1>9, <1>10, <1>11, <1>12

\* A statement that appends instructions.
LEMMA CodeAgrees ==
    ASSUME NEW fs, NEW bs, NEW x, Agree(fs, bs, x, TRUE), fs[Len(fs)].body # "none",
           NEW gs, Continues(fs, gs, 0)
    PROVE  Agree(gs, AppendCode(bs, x), x, TRUE)
<1>0. /\ Woven(bs, x, Waiting(fs)) /\ TopAgrees(fs[Len(fs)], bs, x, TRUE)
      /\ \A i \in Spots(fs) : PathKept(fs, bs, i) /\ i # 0
  <2>1. \A i \in Spots(fs) : i # 0
    BY LenNat DEF Agree, Shape, Spots
  <2> QED
    BY <2>1 DEF Agree
<1>1. Goes(bs, x)
  BY <1>0 DEF TopAgrees, Bare
<1>2. PICK cs : cs = AppendCode(bs, x)
  OBVIOUS
<1>3. /\ Woven(AppendCode(bs, x), x, Waiting(fs)) /\ Stay(bs, AppendCode(bs, x))
      /\ AppendCode(bs, x)[x].holds # "terminator"
      /\ Len(AppendCode(bs, x)) = Len(bs)
      /\ \A b \in Ids(bs) : AppendCode(bs, x)[b].to = bs[b].to
  BY <1>0, <1>1, WovenCode, WovenFlows DEF Goes
<1>4. /\ Woven(cs, x, Waiting(fs)) /\ Stay(bs, cs) /\ cs[x].holds # "terminator"
      /\ Len(cs) = Len(bs) /\ \A b \in Ids(bs) : cs[b].to = bs[b].to
  BY <1>2, <1>3
<1>5. Paths(cs) = Paths(bs)
  <2>1. Flows(bs) /\ Flows(cs)
    BY <1>0, <1>4, WovenFlows
  <2> QED
    BY <1>4, <2>1, PathsSame
<1>6. Goes(cs, x)
  BY <1>1, <1>4, <1>5 DEF Goes
<1>7. cs \in Blocks
  BY <1>4 DEF Woven
<1>8. /\ Shape(gs) /\ Apart(gs) /\ Waiting(gs) = Waiting(fs)
      /\ Spots(gs) = Spots(fs) /\ Len(gs) \in Spots(fs)
      /\ EntryEnds(gs, cs)
      /\ \A i \in Spots(fs) : LoopRepeats(gs, cs, i)
      /\ \A i \in Spots(fs) : HasLoopAt(gs, i) <=> HasLoopAt(fs, i)
      /\ gs[Len(gs)].body # "one"
      /\ \A i \in Spots(fs) : gs[i].body = "one" => fs[i].body = "one"
  BY <1>4, <1>7, ContinuesKeeps
<1>9. ASSUME NEW i \in Spots(fs) PROVE PathKept(gs, cs, i)
  <2>1. PathKept(fs, bs, i)
    BY <1>0
  <2>2. /\ gs[i].kind = fs[i].kind /\ gs[i].head = fs[i].head
        /\ gs[i].next = fs[i].next /\ gs[i].end = fs[i].end
        /\ gs[i].reached <=> fs[i].reached
    BY <1>0 DEF Continues
  <2>3. LabelReached(gs, i) <=> LabelReached(fs, i)
    <3>1. \A j \in Spots(fs) : gs[j].kind = fs[j].kind /\ (gs[j].reached <=> fs[j].reached)
      BY <1>0 DEF Continues
    <3> QED
      BY <1>8, <3>1 DEF LabelReached
  <2> QED
    BY <1>5, <1>8, <2>1, <2>2, <2>3 DEF PathKept
<1>10. TopAgrees(gs[Len(gs)], cs, x, TRUE)
  BY <1>6, <1>8 DEF TopAgrees
<1>11. InsertEnds(gs, cs, x)
  BY <1>4 DEF InsertEnds
<1> QED
  BY <1>2, <1>4, <1>8, <1>9, <1>10, <1>11 DEF Agree

\* Where a jump goes on, and the frame whose end it makes reachable.
JumpsTo(fs, t, k) ==
    \/ t = ReturnBlock /\ k = 0
    \/ k = 0 /\ \E i \in Spots(fs) : fs[i].kind \in Loops /\ t = fs[i].next
    \/ k \in Spots(fs) /\ fs[k].kind \in Loops /\ t = fs[k].end
    \/ k \in Spots(fs) /\ fs[k].kind = "label" /\ ~HasLoopAt(fs, k) /\ t = fs[k].end
    \/ /\ k \in Spots(fs) /\ fs[k].kind = "label"
       /\ \E i \in Spots(fs) : On(i, k) /\ fs[i].kind \in Loops /\ t = fs[i].end

\* The target of a jump is the end of the frame k, or of the loop it labels, and
\* of no other frame.
LEMMA JumpTarget ==
    ASSUME NEW fs, NEW bs, NEW x, NEW l, Agree(fs, bs, x, l),
           NEW t, NEW k, JumpsTo(fs, t, k)
    PROVE  /\ Joinable(bs, Waiting(fs), t) /\ (bs[t].to = {} \/ t \in Paths(bs))
           /\ t = ReturnBlock \/ \E i \in Spots(fs) : t \in Exits(fs[i])
           /\ \A i \in Spots(fs) : t \in Pending(fs[i]) => fs[i].kind \in Loops \cup {"label"}
           /\ \A i \in Spots(fs) : fs[i].kind = "label" =>
                (t = fs[i].end <=> k = i /\ ~HasLoopAt(fs, i))
           /\ \A i \in Spots(fs) : fs[i].kind \in Loops =>
                (t = fs[i].end <=> k = i \/ (k \in Spots(fs) /\ On(i, k) /\ fs[k].kind = "label"))
           /\ k = 0 \/ (k \in Spots(fs) /\ fs[k].kind \in Loops \cup {"label"})
<1>0. /\ Apart(fs) /\ Woven(bs, x, Waiting(fs))
      /\ \A i \in Spots(fs) : LoopRepeats(fs, bs, i) /\ PathKept(fs, bs, i)
  BY DEF Agree
<1>1. 0 \notin Spots(fs)
  BY LenNat DEF Agree, Shape, Spots
<1>2. \A i \in Spots(fs) :
        /\ fs[i].kind # "block" => fs[i].end \in Pending(fs[i])
        /\ fs[i].kind = "for" => fs[i].next \in Pending(fs[i])
  BY DEF Pending
<1>3. \A b \in Waiting(fs) : bs[b] = Detached /\ b \in Ids(bs) /\ bs[b].to = {}
                             /\ bs[b].at # "function"
  BY <1>0, DetachedType DEF Woven
<1>4. \A i \in Spots(fs) : Pending(fs[i]) \subseteq Waiting(fs)
  BY DEF Waiting
<1>5. \A i, j \in Spots(fs) : \A b : b \in Pending(fs[i]) /\ b \in Pending(fs[j]) => i = j
  BY <1>0 DEF Apart
<1>6. ReturnBlock \in Waiting(fs) /\ \A i \in Spots(fs) : ReturnBlock \notin Pending(fs[i])
  BY <1>0 DEF Apart, Waiting
<1>7. CASE /\ k = 0 /\ \A i \in Spots(fs) : t \notin Pending(fs[i])
           /\ Joinable(bs, Waiting(fs), t) /\ (bs[t].to = {} \/ t \in Paths(bs))
           /\ t = ReturnBlock \/ \E i \in Spots(fs) : t \in Exits(fs[i])
  <2>1. \A i \in Spots(fs) : fs[i].kind # "block" => t # fs[i].end
    BY <1>2, <1>7
  <2> QED
    BY <1>1, <1>7, <2>1 DEF Loops
<1>8. CASE t = ReturnBlock /\ k = 0
  BY <1>3, <1>6, <1>7, <1>8 DEF Joinable
<1>9. CASE k = 0 /\ \E i \in Spots(fs) : fs[i].kind \in Loops /\ t = fs[i].next
  <2>1. PICK i \in Spots(fs) : fs[i].kind \in Loops /\ t = fs[i].next
    BY <1>9
  <2>2. t \in Exits(fs[i])
    BY <2>1 DEF Exits
  <2>3. CASE fs[i].kind = "while"
    <3>1. t \in Ids(bs) /\ bs[t].at = "function" /\ t \in Paths(bs)
      BY <1>0, <2>1, <2>3 DEF LoopRepeats, PathKept
    <3> QED
      BY <1>3, <1>4, <1>7, <1>9, <2>1, <2>2, <3>1 DEF Joinable
  <2>4. CASE fs[i].kind = "for"
    <3>1. t \in Pending(fs[i])
      BY <1>2, <2>1, <2>4
    <3>2. \A j \in Spots(fs) : t \in Pending(fs[j]) => i = j
      BY <1>5, <3>1
    <3>3. t # fs[i].end
      BY <1>0, <2>1, <2>4 DEF Apart
    <3>4. \A j \in Spots(fs) : fs[j].kind # "block" => t # fs[j].end
      BY <1>2, <3>2, <3>3
    <3> QED
      BY <1>1, <1>3, <1>4, <1>9, <2>2, <2>4, <3>1, <3>2, <3>4 DEF Joinable, Loops
  <2> QED
    BY <2>1, <2>3, <2>4 DEF Loops
<1>10. CASE \E j \in Spots(fs) :
                /\ fs[j].kind \in Loops \cup {"label"} /\ t = fs[j].end
                /\ k \in Spots(fs)
                /\ \/ j = k /\ (fs[j].kind \in Loops \/ ~HasLoopAt(fs, k))
                   \/ On(j, k) /\ fs[k].kind = "label" /\ fs[j].kind \in Loops
  <2>1. PICK j \in Spots(fs) :
                /\ fs[j].kind \in Loops \cup {"label"} /\ t = fs[j].end
                /\ k \in Spots(fs)
                /\ \/ j = k /\ (fs[j].kind \in Loops \/ ~HasLoopAt(fs, k))
                   \/ On(j, k) /\ fs[k].kind = "label" /\ fs[j].kind \in Loops
    BY <1>10
  <2>2. fs[j].kind # "block"
    BY <2>1 DEF Loops
  <2>3. t \in Pending(fs[j]) /\ t \in Exits(fs[j])
    BY <1>2, <2>1, <2>2 DEF Exits
  <2>4. \A i \in Spots(fs) : t \in Pending(fs[i]) => i = j
    BY <1>5, <2>3
  <2>5. \A i \in Spots(fs) : fs[i].kind # "block" => (t = fs[i].end <=> i = j)
    BY <1>2, <2>1, <2>4
  <2>6. "label" \notin Loops /\ "block" \notin Loops
    BY DEF Loops
  <2>7. \A i \in Spots(fs) : fs[i].kind = "label" =>
                (t = fs[i].end <=> k = i /\ ~HasLoopAt(fs, i))
    <3> SUFFICES ASSUME NEW i \in Spots(fs), fs[i].kind = "label"
                 PROVE  i = j <=> k = i /\ ~HasLoopAt(fs, i)
      BY <2>5
    <3> QED
      BY <2>1, <2>6 DEF HasLoopAt
  <2>8. \A i \in Spots(fs) : fs[i].kind \in Loops =>
                (t = fs[i].end <=> k = i \/ (k \in Spots(fs) /\ On(i, k) /\ fs[k].kind = "label"))
    <3> SUFFICES ASSUME NEW i \in Spots(fs), fs[i].kind \in Loops
                 PROVE  i = j <=> k = i \/ (On(i, k) /\ fs[k].kind = "label")
      BY <2>1, <2>5, <2>6
    <3>1. On(i, k) /\ On(j, k) => i = j
      BY DEF On
    <3> QED
      BY <2>1, <2>6, <3>1 DEF HasLoopAt
  <2>9. k = 0 \/ (k \in Spots(fs) /\ fs[k].kind \in Loops \cup {"label"})
    BY <2>1
  <2> QED
    BY <1>3, <1>4, <2>1, <2>3, <2>4, <2>7, <2>8, <2>9 DEF Joinable
<1> QED
  BY <1>8, <1>9, <1>10 DEF JumpsTo

\* A statement that jumps.
LEMMA JumpAgrees ==
    ASSUME NEW fs, NEW bs, NEW x, Agree(fs, bs, x, TRUE), fs[Len(fs)].body # "none",
           NEW t, NEW k, JumpsTo(fs, t, k), NEW gs, Continues(fs, gs, k)
    PROVE  Agree(gs, Branch(bs, x, {t}), x, FALSE)
<1>0. /\ Woven(bs, x, Waiting(fs)) /\ TopAgrees(fs[Len(fs)], bs, x, TRUE) /\ Apart(fs)
      /\ \A i \in Spots(fs) : PathKept(fs, bs, i)
  BY DEF Agree
<1>1. Goes(bs, x)
  BY <1>0 DEF TopAgrees, Bare
<1>2. PICK cs : cs = Branch(bs, x, {t})
  OBVIOUS
<1>3. /\ Joinable(bs, Waiting(fs), t) /\ (bs[t].to = {} \/ t \in Paths(bs))
      /\ t = ReturnBlock \/ \E i \in Spots(fs) : t \in Exits(fs[i])
      /\ \A i \in Spots(fs) : t \in Pending(fs[i]) => fs[i].kind \in Loops \cup {"label"}
      /\ \A i \in Spots(fs) : fs[i].kind = "label" =>
            (t = fs[i].end <=> k = i /\ ~HasLoopAt(fs, i))
      /\ \A i \in Spots(fs) : fs[i].kind \in Loops =>
            (t = fs[i].end <=> k = i \/ (k \in Spots(fs) /\ On(i, k) /\ fs[k].kind = "label"))
      /\ k = 0 \/ (k \in Spots(fs) /\ fs[k].kind \in Loops \cup {"label"})
  BY JumpTarget
<1>4. /\ Woven(Branch(bs, x, {t}), x, Waiting(fs)) /\ Stay(bs, Branch(bs, x, {t}))
      /\ Branch(bs, x, {t})[x].holds = "terminator" /\ Branch(bs, x, {t})[x].to = {t}
      /\ Paths(Branch(bs, x, {t})) =
            IF x \in Paths(bs) THEN Paths(bs) \cup {t} ELSE Paths(bs)
  BY <1>0, <1>1, <1>3, GoBranch DEF Goes
<1>5. /\ Woven(cs, x, Waiting(fs)) /\ Stay(bs, cs)
      /\ cs[x].holds = "terminator" /\ cs[x].to = {t} /\ Paths(cs) = Paths(bs) \cup {t}
  BY <1>1, <1>2, <1>4 DEF Goes
<1>6. cs \in Blocks
  BY <1>5 DEF Woven
<1>7. /\ Shape(gs) /\ Apart(gs) /\ Waiting(gs) = Waiting(fs)
      /\ Spots(gs) = Spots(fs) /\ Len(gs) \in Spots(fs)
      /\ EntryEnds(gs, cs)
      /\ \A i \in Spots(fs) : LoopRepeats(gs, cs, i)
      /\ \A i \in Spots(fs) : HasLoopAt(gs, i) <=> HasLoopAt(fs, i)
      /\ \A i \in Spots(fs) : Exits(gs[i]) = Exits(fs[i])
      /\ gs[Len(gs)].body # "one"
      /\ \A i \in Spots(fs) : gs[i].body = "one" => fs[i].body = "one"
      /\ fs[Len(gs)].kind = "label" => fs[Len(gs)].body = "one"
  BY <1>5, <1>6, ContinuesKeeps
<1>8. \A i \in Spots(fs) :
        /\ gs[i].kind = fs[i].kind /\ gs[i].head = fs[i].head
        /\ gs[i].next = fs[i].next /\ gs[i].end = fs[i].end
        /\ gs[i].reached <=> fs[i].reached \/ i = k
  BY DEF Continues
<1>9. ASSUME NEW i \in Spots(fs) PROVE PathKept(gs, cs, i)
  <2>1. PathKept(fs, bs, i) /\ \A c : c \in Paths(cs) <=> c \in Paths(bs) \/ c = t
    BY <1>0, <1>5
  <2>2. /\ gs[i].kind = fs[i].kind /\ gs[i].head = fs[i].head
        /\ gs[i].next = fs[i].next /\ gs[i].end = fs[i].end
        /\ gs[i].reached <=> fs[i].reached \/ i = k
    BY <1>8
  <2>3. CASE fs[i].kind = "then"
    <3>1. t # fs[i].end
      BY <1>3, <2>3 DEF Pending, Loops
    <3> QED
      BY <2>1, <2>2, <2>3, <3>1 DEF PathKept
  <2>4. CASE fs[i].kind = "else"
    <3>1. t # fs[i].end
      BY <1>3, <2>4 DEF Pending, Loops
    <3>2. gs[i].reached <=> fs[i].reached
      <4>1. i # k
        <5>1. i # 0
          BY LenNat DEF Agree, Shape, Spots
        <5> QED
          BY <1>3, <2>4, <5>1 DEF Loops
      <4> QED
        BY <2>2, <4>1
    <3> QED
      BY <2>1, <2>2, <2>4, <3>1, <3>2 DEF PathKept
  <2>5. CASE fs[i].kind = "while"
    BY <2>1, <2>2, <2>5 DEF PathKept
  <2>6. CASE fs[i].kind = "for"
    <3>1. t = fs[i].end <=> k = i \/ (k \in Spots(fs) /\ On(i, k) /\ fs[k].kind = "label")
      BY <1>3, <2>6 DEF Loops
    <3>2. LabelReached(gs, i) <=>
            LabelReached(fs, i) \/ (k \in Spots(fs) /\ On(i, k) /\ fs[k].kind = "label")
      BY <1>7, <1>8 DEF LabelReached
    <3>3. fs[i].head \in Paths(bs) /\ (fs[i].end \in Paths(bs) <=> fs[i].reached \/ LabelReached(fs, i))
      BY <2>1, <2>6 DEF PathKept
    <3>4. gs[i].head \in Paths(cs) /\ (gs[i].end \in Paths(cs) <=> gs[i].reached \/ LabelReached(gs, i))
      BY <2>1, <2>2, <3>1, <3>2, <3>3
    <3> QED
      BY <2>2, <2>6, <3>4 DEF PathKept
  <2>7. CASE fs[i].kind = "label"
    <3>1. t = fs[i].end <=> k = i /\ ~HasLoopAt(fs, i)
      BY <1>3, <2>7
    <3>2. HasLoopAt(gs, i) <=> HasLoopAt(fs, i)
      BY <1>7
    <3>3. HasLoopAt(gs, i) => gs[i].end \notin Paths(cs)
      BY <2>1, <2>2, <2>7, <3>1, <3>2 DEF PathKept
    <3>4. ~HasLoopAt(gs, i) /\ gs[i].body = "one" => (gs[i].end \in Paths(cs) <=> gs[i].reached)
      <4> SUFFICES ASSUME ~HasLoopAt(gs, i), gs[i].body = "one"
                   PROVE  gs[i].end \in Paths(cs) <=> gs[i].reached
        OBVIOUS
      <4>1. fs[i].end \in Paths(bs) <=> fs[i].reached
        BY <1>7, <2>1, <2>7, <3>2 DEF PathKept
      <4> QED
        BY <2>1, <2>2, <3>1, <3>2, <4>1
    <3> QED
      BY <2>2, <2>7, <3>3, <3>4 DEF PathKept
  <2>8. CASE fs[i].kind \notin {"then", "else", "while", "for", "label"}
    BY <2>2, <2>8 DEF PathKept
  <2> QED
    BY <2>3, <2>4, <2>5, <2>6, <2>7, <2>8
<1>10. TopAgrees(gs[Len(gs)], cs, x, FALSE)
  <2>1. ~Goes(cs, x)
    BY <1>5 DEF Goes
  <2>2. Bare(gs[Len(gs)]) => (gs[Len(gs)].reached <=> gs[Len(gs)].end \in Paths(cs))
    <3> SUFFICES ASSUME Bare(gs[Len(gs)])
                 PROVE  gs[Len(gs)].reached <=> gs[Len(gs)].end \in Paths(cs)
      OBVIOUS
    <3>1. PICK i \in Spots(fs) : i = Len(gs) /\ i = Len(fs)
      BY <1>7 DEF Continues
    <3>2. fs[i].kind = "label" /\ fs[i].body = "one"
      BY <1>7, <1>8, <3>1 DEF Bare
    <3>3. ~fs[i].reached
      BY <1>0, <3>1, <3>2 DEF TopAgrees
    <3>4. ~HasLoopAt(fs, i)
      <4>1. \A j \in Spots(fs) : ~On(j, Len(fs))
        BY LenNat DEF Agree, Shape, Spots, On
      <4> QED
        BY <3>1, <4>1 DEF HasLoopAt
    <3>5. fs[i].end \notin Paths(bs)
      BY <1>0, <3>2, <3>3, <3>4 DEF PathKept
    <3>6. t = fs[i].end <=> k = i
      BY <1>3, <3>2, <3>4
    <3>7. gs[i].end = fs[i].end /\ (gs[i].reached <=> fs[i].reached \/ i = k)
      BY <1>8
    <3>8. gs[i].end \in Paths(cs) <=> t = fs[i].end
      BY <1>5, <3>5, <3>7
    <3> QED
      BY <3>1, <3>3, <3>6, <3>7, <3>8
  <2> QED
    BY <1>7, <2>1, <2>2 DEF TopAgrees
<1>11. InsertEnds(gs, cs, x)
  BY <1>3, <1>5, <1>7 DEF InsertEnds
<1> QED
  BY <1>2, <1>5, <1>7, <1>9, <1>10, <1>11 DEF Agree
\* The body that is generated when the condition holds ends.
LEMMA ElseAgrees ==
    ASSUME NEW fs, NEW bs, NEW x, NEW l \in BOOLEAN, Agree(fs, bs, x, l),
           NEW f, f = fs[Len(fs)], f.kind = "then",
           NEW gs, gs \in Seq(FrameType), Len(gs) = Len(fs),
           \A i \in Spots(fs) : i # Len(fs) => gs[i] = fs[i],
           NEW g, g = gs[Len(fs)], g.kind = "else", g.body \in {"one", "none"},
           g.next = f.next, g.end = f.end, g.head = f.head, g.reached = l
    PROVE  Agree(gs, AddBasicBlock(BranchUnlessEnded(bs, x, f.end), f.next), f.next, TRUE)
<1>0. /\ Shape(fs) /\ Apart(fs) /\ EntryEnds(fs, bs) /\ Woven(bs, x, Waiting(fs))
      /\ \A i \in Spots(fs) : LoopRepeats(fs, bs, i) /\ PathKept(fs, bs, i)
      /\ TopAgrees(fs[Len(fs)], bs, x, l)
  BY DEF Agree
<1>1. PICK n \in Nat : n = Len(fs) /\ n = Len(gs) /\ n \in Spots(fs)
  BY <1>0, LenNat DEF Shape
<1>2. Spots(gs) = Spots(fs)
  BY DEF Spots
<1>3. l <=> Goes(bs, x)
  BY <1>0 DEF TopAgrees, Bare
<1>4. /\ f.end \in Pending(f) /\ f.next \in Pending(f) /\ f.next # f.end
      /\ Pending(f) \subseteq Waiting(fs)
  BY <1>0, <1>1 DEF Pending, Apart, Waiting
<1>5. Joinable(bs, Waiting(fs), f.end) /\ bs[f.end].to = {} /\ f.next \in Waiting(fs)
  BY <1>0, <1>4, DetachedType DEF Woven, Joinable
<1>6. PICK cs : cs = AddBasicBlock(BranchUnlessEnded(bs, x, f.end), f.next)
  OBVIOUS
<1>7. /\ Woven(cs, f.next, Waiting(fs) \ {f.next}) /\ Stay(bs, cs)
      /\ cs[f.next].holds = "nothing"
      /\ Paths(cs) = IF Goes(bs, x) THEN Paths(bs) \cup {f.end} ELSE Paths(bs)
  <2>1. PICK Q : Q = Waiting(fs)
    OBVIOUS
  <2>2. PICK t : t = f.end
    OBVIOUS
  <2>3. PICK c : c = f.next
    OBVIOUS
  <2>4. /\ Woven(bs, x, Q) /\ Joinable(bs, Q, t) /\ (bs[t].to = {} \/ t \in Paths(bs))
        /\ c \in Q /\ cs = AddBasicBlock(BranchUnlessEnded(bs, x, t), c)
    BY <1>0, <1>5, <1>6, <2>1, <2>2, <2>3
  <2>5. /\ Woven(cs, c, Q \ {c}) /\ Stay(bs, cs) /\ cs[c].holds = "nothing"
        /\ Paths(cs) = IF Goes(bs, x) THEN Paths(bs) \cup {t} ELSE Paths(bs)
    BY <2>4, GoOn
  <2> QED
    BY <2>1, <2>2, <2>3, <2>5
<1>8. f.next \in Paths(bs) /\ f.end \notin Paths(bs)
  BY <1>0, <1>1 DEF PathKept
<1>9. Goes(cs, f.next)
  BY <1>7, <1>8 DEF Goes
<1>10. bs \in Blocks /\ cs \in Blocks /\ Entry \in Ids(bs)
  BY <1>0, <1>7 DEF Woven
<1>11. /\ \A i \in Spots(fs) : i # n => Pending(gs[i]) = Pending(fs[i])
       /\ Pending(gs[n]) = Pending(f) \ {f.next}
       /\ \A i \in Spots(fs) : Opens(gs[i]) <=> Opens(fs[i])
  BY <1>1, <1>4 DEF Pending, Opens
<1>12. Shape(gs)
  <2>1. /\ \A i \in Spots(fs) : gs[i].kind = "block" <=> gs[i].body = "list"
        /\ \A i \in Spots(fs) : i # n => gs[i].body # "none"
    BY <1>0, <1>1 DEF Shape
  <2>2. gs[1].kind = "block"
    <3>1. 1 \in Spots(fs) /\ 1 # n
      BY <1>0, <1>1 DEF Spots, Shape
    <3> QED
      BY <1>0, <1>1, <3>1 DEF Shape
  <2> QED
    BY <1>1, <1>2, <2>1, <2>2 DEF Shape
<1>13. Apart(gs)
  <2>1. \A i \in Spots(fs) : Pending(gs[i]) \subseteq Pending(fs[i])
    BY <1>1, <1>11
  <2>2. \A i \in Spots(fs) : gs[i].kind \in {"then", "for"} => i # n
    BY <1>1
  <2>3. \A i \in Spots(fs) : ReturnBlock \notin Pending(gs[i])
    BY <1>0, <2>1 DEF Apart
  <2>4. \A i \in Spots(fs) : gs[i].kind \in {"then", "for"} => gs[i].next # gs[i].end
    BY <1>0, <1>1, <2>2 DEF Apart
  <2>5. \A i, j \in Spots(fs) : i # j => Pending(gs[i]) \cap Pending(gs[j]) = {}
    <3>1. \A i, j \in Spots(fs) : i # j => Pending(fs[i]) \cap Pending(fs[j]) = {}
      BY <1>0 DEF Apart
    <3> QED
      BY <2>1, <3>1
  <2> QED
    BY <1>2, <2>3, <2>4, <2>5 DEF Apart
<1>14. Waiting(gs) = Waiting(fs) \ {f.next}
  <2>1. f.next # ReturnBlock /\ \A i \in Spots(fs) : i # n => f.next \notin Pending(fs[i])
    BY <1>0, <1>1, <1>4 DEF Apart
  <2>2. ASSUME NEW b \in Waiting(fs), b # f.next PROVE b \in Waiting(gs)
    BY <1>1, <1>2, <1>11, <2>2 DEF Waiting
  <2>3. ASSUME NEW b \in Waiting(gs) PROVE b \in Waiting(fs) /\ b # f.next
    <3>1. CASE b = ReturnBlock
      BY <2>1, <3>1 DEF Waiting
    <3>2. CASE b # ReturnBlock
      <4>1. PICK i \in Spots(fs) : b \in Pending(gs[i])
        BY <1>2, <2>3, <3>2 DEF Waiting
      <4>2. b \in Pending(fs[i]) /\ b # f.next
        BY <1>1, <1>11, <2>1, <4>1
      <4> QED
        BY <4>2 DEF Waiting
    <3> QED
      BY <3>1, <3>2
  <2> QED
    BY <2>2, <2>3
<1>15. EntryEnds(gs, cs)
  BY <1>0, <1>2, <1>7, <1>10, <1>11, StayEnds
<1>16. ASSUME NEW i \in Spots(fs) PROVE LoopRepeats(gs, cs, i)
  <2>1. LoopRepeats(fs, bs, i)
    BY <1>0
  <2>2. ASSUME NEW j \in Spots(gs), i < j, Opens(gs[j])
        PROVE  \E m \in Spots(fs) : i < m /\ Opens(fs[m])
    BY <1>2, <1>11, <2>2
  <2>3. /\ gs[i].kind = fs[i].kind \/ (gs[i].kind \notin Loops)
        /\ gs[i].next = fs[i].next /\ gs[i].head = fs[i].head
    BY <1>1 DEF Loops
  <2> QED
    BY <1>7, <1>10, <2>1, <2>2, <2>3, StayRepeats
<1>17. ASSUME NEW i \in Spots(fs) PROVE PathKept(gs, cs, i)
  <2>1. CASE i = n
    <3>1. f.end \in Paths(cs) <=> g.reached
      BY <1>3, <1>7, <1>8
    <3> QED
      BY <1>1, <2>1, <3>1 DEF PathKept
  <2>2. CASE i # n
    <3>1. gs[i] = fs[i] /\ PathKept(fs, bs, i)
      BY <1>0, <1>1, <2>2
    <3>2. f.end \notin Pending(fs[i])
      BY <1>0, <1>1, <1>4, <2>2 DEF Apart
    <3>3. fs[i].kind # "block" => (fs[i].end \in Paths(cs) <=> fs[i].end \in Paths(bs))
      BY <1>7, <3>2 DEF Pending
    <3>4. Paths(bs) \subseteq Paths(cs)
      BY <1>7
    <3>5. LabelReached(gs, i) <=> LabelReached(fs, i)
      <4>1. \A j \in Spots(fs) : gs[j].kind = "label" => gs[j] = fs[j]
        BY <1>1
      <4>2. \A j \in Spots(fs) : fs[j].kind = "label" => gs[j] = fs[j]
        BY <1>1
      <4> QED
        BY <1>2, <4>1, <4>2 DEF LabelReached
    <3>6. HasLoopAt(gs, i) <=> HasLoopAt(fs, i)
      <4>1. \A j \in Spots(fs) : gs[j].kind \in Loops <=> fs[j].kind \in Loops
        BY <1>1 DEF Loops
      <4> QED
        BY <1>2, <4>1 DEF HasLoopAt
    <3> QED
      BY <3>1, <3>3, <3>4, <3>5, <3>6 DEF PathKept
  <2> QED
    BY <2>1, <2>2
<1>18. TopAgrees(gs[Len(gs)], cs, f.next, TRUE)
  BY <1>1, <1>9 DEF TopAgrees, Bare
<1>19. InsertEnds(gs, cs, f.next)
  BY <1>7 DEF InsertEnds
<1> QED
  BY <1>2, <1>6, <1>7, <1>12, <1>13, <1>14, <1>15, <1>16, <1>17, <1>18, <1>19 DEF Agree

\* Stay is Stays with no block left out.
LEMMA StaysOf ==
    ASSUME NEW bs \in Blocks, NEW cs \in Blocks, Stay(bs, cs)
    PROVE  Stays(bs, cs, {})
BY BlockFacts DEF Stay, Stays, Ids

\* The facts of the innermost construct that its end rests on.
LEMMA TopOfAgree ==
    ASSUME NEW fs, NEW bs, NEW x, NEW l, Agree(fs, bs, x, l), NEW f, f = fs[Len(fs)]
    PROVE  /\ Woven(bs, x, Waiting(fs)) /\ bs \in Blocks /\ Flows(bs)
           /\ Len(fs) \in Spots(fs) /\ f \in FrameType
           /\ PathKept(fs, bs, Len(fs)) /\ LoopRepeats(fs, bs, Len(fs))
           /\ TopAgrees(f, bs, x, l)
           /\ Pending(f) \subseteq Waiting(fs)
           /\ \A b \in Pending(f) : /\ Joinable(bs, Waiting(fs), b) /\ bs[b].to = {}
                                    /\ b # x /\ b # Entry
           /\ f.kind # "block" => f.end \in Pending(f)
           /\ f.kind = "for" => f.next \in Pending(f) /\ f.next # f.end
           /\ Opens(f) => bs[Entry].holds = "terminator"
<1>1. /\ Shape(fs) /\ Apart(fs) /\ EntryEnds(fs, bs) /\ Woven(bs, x, Waiting(fs))
      /\ \A i \in Spots(fs) : LoopRepeats(fs, bs, i) /\ PathKept(fs, bs, i)
      /\ TopAgrees(fs[Len(fs)], bs, x, l)
  BY DEF Agree
<1>2. PICK n \in Spots(fs) : n = Len(fs)
  BY <1>1 DEF Shape
<1>3. \A b \in Pending(fs[n]) : b \in Waiting(fs) /\ b \in Ids(bs) /\ bs[b].to = {}
                                /\ b # x /\ b # Entry
  BY PendingFacts
<1>4. fs[n] \in FrameType
  BY PendingFacts
<1>5. bs \in Blocks /\ Flows(bs)
  BY <1>1, WovenFlows DEF Woven
<1>6. fs[n].kind = "for" => fs[n].next \in Pending(fs[n]) /\ fs[n].next # fs[n].end
  BY <1>1 DEF Apart, Pending
<1> QED
  BY <1>1, <1>2, <1>3, <1>4, <1>5, <1>6 DEF Joinable, Pending, EntryEnds

\* The body that ends goes on with the block behind the construct.
LEMMA GoOut ==
    ASSUME NEW bs, NEW x, NEW Q, Woven(bs, x, Q), NEW e \in Q
    PROVE  Joins(bs, AddBasicBlock(BranchUnlessEnded(bs, x, e), e), x, Q \ {e}, e, e)
<1>1. Joinable(bs, Q, e) /\ bs[e].to = {}
  BY DetachedType DEF Woven, Joinable
<1>2. PICK cs : cs = AddBasicBlock(BranchUnlessEnded(bs, x, e), e)
  OBVIOUS
<1>3. /\ Woven(cs, e, Q \ {e}) /\ Stay(bs, cs) /\ Len(cs) = Len(bs)
      /\ cs[e].holds = "nothing"
      /\ Paths(cs) = IF Goes(bs, x) THEN Paths(bs) \cup {e} ELSE Paths(bs)
  BY <1>1, <1>2, GoOn
<1> QED
  BY <1>2, <1>3 DEF Joins

\* A block without uses is released.
LEMMA GoFree ==
    ASSUME NEW bs, NEW x, NEW Q, Woven(bs, x, Q), NEW e \in Q, UseEmpty(bs, e), e # Entry,
           NEW cs, cs = Free(bs, e)
    PROVE  /\ Woven(cs, x, Q \ {e}) /\ Stay(bs, cs) /\ cs[x] = bs[x] /\ bs[x].to \cap {e} = {}
           /\ Paths(cs) = Paths(bs) /\ e \notin Paths(bs)
<1>1. Flows(bs) /\ x \notin Q
  BY WovenFlows
<1>2. /\ Woven(Free(bs, e), x, Q \ {e}) /\ Stay(bs, Free(bs, e))
      /\ Len(Free(bs, e)) = Len(bs) /\ Free(bs, e)[x] = bs[x]
      /\ \A b \in Ids(bs) : Free(bs, e)[b].to = bs[b].to
  BY <1>1, WovenFree
<1>3. Woven(cs, x, Q \ {e})
  BY <1>2
<1>4. Flows(cs)
  BY <1>3, WovenFlows
<1>5. Paths(cs) = Paths(bs)
  BY <1>1, <1>2, <1>4, PathsSame
<1>6. e \notin Paths(bs)
  BY <1>1, PathsUnused
<1>7. x \in DOMAIN bs
  BY BlockFacts DEF Woven
<1> QED
  BY <1>2, <1>5, <1>6, <1>7 DEF UseEmpty

\* A block statement ends.
LEMMA EndBlockAgrees ==
    ASSUME NEW fs, NEW bs, NEW x, NEW l \in BOOLEAN, Agree(fs, bs, x, l),
           NEW f, f = fs[Len(fs)], f.kind = "block", NEW gs, Pops(fs, gs)
    PROVE  Agree(gs, bs, x, l)
<1>1. /\ Woven(bs, x, Waiting(fs)) /\ bs \in Blocks /\ TopAgrees(f, bs, x, l)
  BY TopOfAgree
<1>2. Pending(f) = {} /\ Exits(f) = {} /\ f.kind \notin Loops
  BY DEF Pending, Exits, Loops
<1>3. Stays(bs, bs, {}) /\ SamePaths(bs, bs, {})
  BY DEF Stays, SamePaths
<1>4. l <=> Goes(bs, x)
  BY <1>1 DEF TopAgrees, Bare
<1>5. Woven(bs, x, Waiting(fs) \ Pending(f))
  BY <1>1, <1>2
<1>6. bs[x].to \cap Exits(f) = {}
  BY <1>2
<1> QED
  BY <1>2, <1>3, <1>4, <1>5, <1>6, PopAgrees

\* An if statement ends.
LEMMA EndIfAgrees ==
    ASSUME NEW fs, NEW bs, NEW x, NEW l \in BOOLEAN, Agree(fs, bs, x, l),
           NEW f, f = fs[Len(fs)], f.kind = "else", NEW gs, Pops(fs, gs)
    PROVE  Agree(gs,
                 AddBasicBlock(IF bs[x].holds = "nothing"
                               THEN Free(ReplaceAllUsesWith(bs, x, f.end), x)
                               ELSE BranchUnlessEnded(bs, x, f.end), f.end),
                 f.end, l \/ f.reached)
<1>1. /\ Woven(bs, x, Waiting(fs)) /\ bs \in Blocks
      /\ PathKept(fs, bs, Len(fs)) /\ TopAgrees(f, bs, x, l)
      /\ f.end \in Waiting(fs) /\ Joinable(bs, Waiting(fs), f.end) /\ bs[f.end].to = {}
      /\ f.end # x /\ bs[Entry].holds = "terminator" /\ f \in FrameType
  BY TopOfAgree DEF Opens
<1>2. Pending(f) = {f.end} /\ f.kind \notin Loops /\ Opens(f)
  BY DEF Pending, Loops, Opens
<1>3. l <=> Goes(bs, x)
  BY <1>1 DEF TopAgrees, Bare
<1>4. f.end \in Paths(bs) <=> f.reached
  BY <1>1 DEF PathKept
<1>5. PICK e : e = f.end
  OBVIOUS
<1>6. PICK Q : Q = Waiting(fs)
  OBVIOUS
<1>7. PICK m \in BOOLEAN : m = (l \/ f.reached)
  OBVIOUS
<1>8. /\ Woven(bs, x, Q) /\ e \in Q /\ Joinable(bs, Q, e) /\ (bs[e].to = {} \/ e \in Paths(bs))
  BY <1>1, <1>5, <1>6
<1>9. CASE bs[x].holds = "nothing"
  <2>1. x # Entry
    BY <1>1, <1>9
  <2>2. PICK cs : cs = Erased(bs, x, e)
    OBVIOUS
  <2>3. /\ Woven(Erased(bs, x, e), e, Q \ {e}) /\ Len(Erased(bs, x, e)) = Len(bs)
        /\ Erased(bs, x, e)[e].holds = "nothing"
        /\ StayBut(bs, Erased(bs, x, e), x)
        /\ Paths(Erased(bs, x, e)) =
            IF x \in Paths(bs) THEN (Paths(bs) \ {x}) \cup {e} ELSE Paths(bs)
    BY <1>8, <1>9, <2>1, GoErase
  <2>4. /\ Woven(cs, e, Q \ {e}) /\ Len(cs) = Len(bs) /\ cs[e].holds = "nothing"
        /\ StayBut(bs, cs, x)
        /\ Paths(cs) = IF x \in Paths(bs) THEN (Paths(bs) \ {x}) \cup {e} ELSE Paths(bs)
    BY <2>2, <2>3
  <2>5. Stays(bs, cs, {x})
    BY <2>4 DEF StayBut, Stays, Ids
  <2>6. SamePaths(bs, cs, {x, e})
    BY <2>4 DEF SamePaths
  <2>7. Goes(cs, e) <=> l \/ f.reached
    BY <1>1, <1>3, <1>4, <1>5, <1>9, <2>4 DEF Goes
  <2>8. Agree(gs, cs, e, m)
    <3>1. Woven(cs, e, Waiting(fs) \ Pending(f)) /\ {x, e} \subseteq Pending(f) \cup {x}
      BY <1>2, <1>5, <1>6, <2>4
    <3>2. cs[e].holds # "terminator" /\ bs[x].holds # "terminator"
      BY <1>9, <2>4
    <3>3. (m \/ (f.kind \in Loops /\ LabelReached(fs, Len(fs)))) <=> Goes(cs, e)
      BY <1>2, <1>7, <2>7
    <3> QED
      BY <1>2, <2>1, <2>5, <2>6, <3>1, <3>2, <3>3, PopAgrees
  <2>9. cs = AddBasicBlock(IF bs[x].holds = "nothing"
                               THEN Free(ReplaceAllUsesWith(bs, x, f.end), x)
                               ELSE BranchUnlessEnded(bs, x, f.end), f.end)
    BY <1>5, <1>9, <2>2 DEF Erased
  <2> QED
    BY <1>5, <1>7, <2>8, <2>9
<1>10. CASE bs[x].holds # "nothing"
  <2>1. PICK cs : cs = AddBasicBlock(BranchUnlessEnded(bs, x, e), e)
    OBVIOUS
  <2>2. /\ Woven(cs, e, Q \ {e}) /\ Stay(bs, cs) /\ cs[e].holds = "nothing"
        /\ Paths(cs) = IF Goes(bs, x) THEN Paths(bs) \cup {e} ELSE Paths(bs)
    <3>1. Joins(bs, cs, x, Q \ {e}, e, e)
      BY <1>8, <2>1, GoOut
    <3> QED
      BY <3>1 DEF Joins
  <2>3. cs \in Blocks
    BY <2>2 DEF Woven
  <2>4. Stays(bs, cs, {})
    BY <1>1, <2>2, <2>3, StaysOf
  <2>5. SamePaths(bs, cs, {e})
    BY <2>2 DEF SamePaths
  <2>6. Goes(cs, e) <=> l \/ f.reached
    BY <1>3, <1>4, <1>5, <2>2 DEF Goes
  <2>7. Agree(gs, cs, e, m)
    <3>1. Woven(cs, e, Waiting(fs) \ Pending(f)) /\ {e} \subseteq Pending(f) \cup {}
      BY <1>2, <1>5, <1>6, <2>2
    <3>2. cs[e].holds # "terminator"
      BY <2>2
    <3>3. (m \/ (f.kind \in Loops /\ LabelReached(fs, Len(fs)))) <=> Goes(cs, e)
      BY <1>2, <1>7, <2>6
    <3> QED
      BY <2>4, <2>5, <3>1, <3>2, <3>3, PopAgrees
  <2>8. cs = AddBasicBlock(IF bs[x].holds = "nothing"
                               THEN Free(ReplaceAllUsesWith(bs, x, f.end), x)
                               ELSE BranchUnlessEnded(bs, x, f.end), f.end)
    BY <1>5, <1>10, <2>1
  <2> QED
    BY <1>5, <1>7, <2>7, <2>8
<1> QED
  BY <1>9, <1>10

\* A while loop ends.
LEMMA EndWhileAgrees ==
    ASSUME NEW fs, NEW bs, NEW x, NEW l \in BOOLEAN, Agree(fs, bs, x, l),
           NEW f, f = fs[Len(fs)], f.kind = "while", NEW gs, Pops(fs, gs)
    PROVE  Agree(gs, AddBasicBlock(BranchUnlessEnded(bs, x, f.next), f.end), f.end, TRUE)
<1>1. /\ Woven(bs, x, Waiting(fs)) /\ bs \in Blocks
      /\ PathKept(fs, bs, Len(fs)) /\ LoopRepeats(fs, bs, Len(fs))
      /\ f.end \in Waiting(fs)
  BY TopOfAgree
<1>2. Pending(f) = {f.end}
  BY DEF Pending
<1>3. f.next \in Paths(bs) /\ f.end \in Paths(bs)
  BY <1>1 DEF PathKept
<1>4. Joinable(bs, Waiting(fs), f.next)
  BY <1>1 DEF LoopRepeats, Joinable
<1>5. PICK e, t : e = f.end /\ t = f.next
  OBVIOUS
<1>6. PICK Q : Q = Waiting(fs)
  OBVIOUS
<1>7. /\ Woven(bs, x, Q) /\ e \in Q /\ Joinable(bs, Q, t) /\ (bs[t].to = {} \/ t \in Paths(bs))
  BY <1>1, <1>3, <1>4, <1>5, <1>6
<1>8. PICK cs : cs = AddBasicBlock(BranchUnlessEnded(bs, x, t), e)
  OBVIOUS
<1>9. /\ Woven(cs, e, Q \ {e}) /\ Stay(bs, cs) /\ cs[e].holds = "nothing"
      /\ Paths(cs) = IF Goes(bs, x) THEN Paths(bs) \cup {t} ELSE Paths(bs)
  BY <1>7, <1>8, GoOn
<1>10. Paths(cs) = Paths(bs) /\ cs \in Blocks
  BY <1>3, <1>5, <1>9 DEF Woven
<1>11. Stays(bs, cs, {}) /\ SamePaths(bs, cs, {})
  BY <1>1, <1>9, <1>10, StaysOf DEF SamePaths
<1>12. Goes(cs, e)
  BY <1>3, <1>5, <1>9, <1>10 DEF Goes
<1>13. Agree(gs, cs, e, TRUE)
  <2>1. Woven(cs, e, Waiting(fs) \ Pending(f))
    BY <1>2, <1>5, <1>6, <1>9
  <2>2. cs[e].holds # "terminator"
    BY <1>9
  <2> QED
    BY <1>11, <1>12, <2>1, <2>2, PopAgrees
<1> QED
  BY <1>5, <1>8, <1>13

\* A for loop ends.
LEMMA EndForAgrees ==
    ASSUME NEW fs, NEW bs, NEW x, NEW l \in BOOLEAN, Agree(fs, bs, x, l),
           NEW f, f = fs[Len(fs)], f.kind = "for", NEW gs, Pops(fs, gs)
    PROVE  Agree(gs, AddBasicBlock(AddBasicBlock(
                        Branch(BranchUnlessEnded(bs, x, f.next), f.next, {f.head}), f.next),
                        f.end),
                 f.end, f.reached)
<1>1. /\ Woven(bs, x, Waiting(fs)) /\ bs \in Blocks
      /\ PathKept(fs, bs, Len(fs)) /\ LoopRepeats(fs, bs, Len(fs))
      /\ f.end \in Waiting(fs) /\ f.next \in Waiting(fs) /\ f.next # f.end /\ f \in FrameType
  BY TopOfAgree
<1>2. Pending(f) = {f.end, f.next} /\ f.kind \in Loops
  BY DEF Pending, Loops
<1>3. f.head \in Paths(bs) /\ (f.end \in Paths(bs) <=> f.reached \/ LabelReached(fs, Len(fs)))
  BY <1>1 DEF PathKept
<1>4. f.head \in Ids(bs) /\ bs[f.head].at = "function"
  BY <1>1 DEF LoopRepeats
<1>5. PICK e, t, h : e = f.end /\ t = f.next /\ h = f.head
  OBVIOUS
<1>6. PICK Q : Q = Waiting(fs)
  OBVIOUS
<1>7. /\ Woven(bs, x, Q) /\ e \in Q /\ t \in Q /\ t # e
      /\ h \in Ids(bs) /\ bs[h].at = "function" /\ h \in Paths(bs)
  BY <1>1, <1>3, <1>4, <1>5, <1>6
<1>8. PICK cs : cs = AddBasicBlock(AddBasicBlock(
                        Branch(BranchUnlessEnded(bs, x, t), t, {h}), t), e)
  OBVIOUS
<1>9. /\ Woven(cs, e, Q \ {t, e}) /\ Stay(bs, cs) /\ cs[e].holds = "nothing"
      /\ Paths(cs) = IF Goes(bs, x) THEN Paths(bs) \cup {t} ELSE Paths(bs)
  <2>1. Joins(bs, cs, x, Q \ {t, e}, t, e)
    BY <1>7, <1>8, GoRepeat
  <2> QED
    BY <2>1 DEF Joins
<1>10. cs \in Blocks
  BY <1>9 DEF Woven
<1>11. Stays(bs, cs, {}) /\ SamePaths(bs, cs, {t})
  BY <1>1, <1>9, <1>10, StaysOf DEF SamePaths
<1>12. Goes(cs, e) <=> f.reached \/ LabelReached(fs, Len(fs))
  BY <1>3, <1>5, <1>7, <1>9 DEF Goes
<1>13. PICK m \in BOOLEAN : m = f.reached
  BY <1>1 DEF FrameType
<1>14. Agree(gs, cs, e, m)
  <2>1. Woven(cs, e, Waiting(fs) \ Pending(f)) /\ {t} \subseteq Pending(f) \cup {}
    <3>1. Q \ {t, e} = Waiting(fs) \ Pending(f)
      BY <1>2, <1>5, <1>6
    <3> QED
      BY <1>2, <1>5, <1>9, <3>1
  <2>2. cs[e].holds # "terminator"
    BY <1>9
  <2>3. (m \/ (f.kind \in Loops /\ LabelReached(fs, Len(fs)))) <=> Goes(cs, e)
    BY <1>2, <1>12, <1>13
  <2> QED
    BY <1>11, <2>1, <2>2, <2>3, PopAgrees
<1> QED
  BY <1>5, <1>8, <1>13, <1>14

\* A labeled statement ends: its end block is released when nothing uses it.
LEMMA EndLabelAgrees ==
    ASSUME NEW fs, NEW bs, NEW x, NEW l \in BOOLEAN, Agree(fs, bs, x, l),
           NEW f, f = fs[Len(fs)], f.kind = "label", f.body = "none", NEW gs, Pops(fs, gs)
    PROVE  /\ UseEmpty(bs, f.end) => Agree(gs, Free(bs, f.end), x, l \/ f.reached)
           /\ ~UseEmpty(bs, f.end) =>
                Agree(gs, AddBasicBlock(BranchUnlessEnded(bs, x, f.end), f.end), f.end,
                      l \/ f.reached)
<1>1. /\ Woven(bs, x, Waiting(fs)) /\ bs \in Blocks /\ Flows(bs) /\ TopAgrees(f, bs, x, l)
      /\ f.end \in Waiting(fs) /\ Joinable(bs, Waiting(fs), f.end) /\ bs[f.end].to = {}
      /\ f.end # x /\ f.end # Entry
  <2>1. /\ Woven(bs, x, Waiting(fs)) /\ bs \in Blocks /\ Flows(bs) /\ TopAgrees(f, bs, x, l)
        /\ Pending(f) \subseteq Waiting(fs)
        /\ \A b \in Pending(f) : /\ Joinable(bs, Waiting(fs), b) /\ bs[b].to = {}
                                 /\ b # x /\ b # Entry
        /\ f.kind # "block" => f.end \in Pending(f)
    BY TopOfAgree, Zenon
  <2> QED
    BY <2>1
<1>2. Pending(f) = {f.end} /\ Exits(f) = {f.end} /\ f.kind \notin Loops
  BY DEF Pending, Exits, Loops
<1>3. l \/ f.reached <=> Goes(bs, x) \/ f.end \in Paths(bs)
  BY <1>1 DEF TopAgrees, Bare
<1>4. PICK e : e = f.end
  OBVIOUS
<1>5. PICK Q : Q = Waiting(fs)
  OBVIOUS
<1>6. PICK m \in BOOLEAN : m = (l \/ f.reached)
  OBVIOUS
<1>7. /\ Woven(bs, x, Q) /\ e \in Q /\ Joinable(bs, Q, e) /\ (bs[e].to = {} \/ e \in Paths(bs))
      /\ e # Entry
  BY <1>1, <1>4, <1>5
<1>8. ASSUME UseEmpty(bs, e) PROVE Agree(gs, Free(bs, e), x, m)
  <2>1. PICK cs : cs = Free(bs, e)
    OBVIOUS
  <2>2. /\ Woven(cs, x, Q \ {e}) /\ Stay(bs, cs) /\ cs[x] = bs[x] /\ bs[x].to \cap {e} = {}
        /\ Paths(cs) = Paths(bs) /\ e \notin Paths(bs)
    BY <1>7, <1>8, <2>1, GoFree
  <2>3. cs \in Blocks
    BY <2>2 DEF Woven
  <2>7. Stays(bs, cs, {}) /\ SamePaths(bs, cs, {})
    BY <1>1, <2>2, <2>3, StaysOf DEF SamePaths
  <2>8. m <=> Goes(cs, x)
    BY <1>3, <1>4, <1>6, <2>2 DEF Goes
  <2>9. Woven(cs, x, Waiting(fs) \ Pending(f)) /\ bs[x].to \cap Exits(f) = {}
    BY <1>2, <1>4, <1>5, <2>2
  <2>11. Agree(gs, cs, x, m)
    BY <1>2, <2>2, <2>7, <2>8, <2>9, PopAgrees
  <2> QED
    BY <2>1, <2>11
<1>9. Agree(gs, AddBasicBlock(BranchUnlessEnded(bs, x, e), e), e, m)
  <2>1. PICK cs : cs = AddBasicBlock(BranchUnlessEnded(bs, x, e), e)
    OBVIOUS
  <2>2. /\ Woven(cs, e, Q \ {e}) /\ Stay(bs, cs) /\ cs[e].holds = "nothing"
        /\ Paths(cs) = IF Goes(bs, x) THEN Paths(bs) \cup {e} ELSE Paths(bs)
    <3>1. Joins(bs, cs, x, Q \ {e}, e, e)
      BY <1>7, <2>1, GoOut
    <3> QED
      BY <3>1 DEF Joins
  <2>3. cs \in Blocks
    BY <2>2 DEF Woven
  <2>4. Stays(bs, cs, {}) /\ SamePaths(bs, cs, {e})
    BY <1>1, <2>2, <2>3, StaysOf DEF SamePaths
  <2>5. (m \/ (f.kind \in Loops /\ LabelReached(fs, Len(fs)))) <=> Goes(cs, e)
    BY <1>2, <1>3, <1>4, <1>6, <2>2 DEF Goes
  <2>6. Woven(cs, e, Waiting(fs) \ Pending(f)) /\ {e} \subseteq Pending(f) \cup {}
    BY <1>2, <1>4, <1>5, <2>2
  <2>7. cs[e].holds # "terminator"
    BY <2>2
  <2>8. Agree(gs, cs, e, m)
    BY <2>4, <2>5, <2>6, <2>7, PopAgrees
  <2> QED
    BY <2>1, <2>8
<1> QED
  BY <1>4, <1>6, <1>8, <1>9

\* The blocks of an if statement.
LEMMA ThenEnters ==
    ASSUME NEW bs, NEW x, NEW Q, Woven(bs, x, Q), Goes(bs, x), NEW n \in Nat, n = Len(bs)
    PROVE  Enters(bs, Branch(bs \o <<Attached, Detached, Detached>>, x, {n + 1, n + 2}),
                  n + 1, Q \cup {n + 2, n + 3}, {n + 1, n + 2})
<1>1. bs \in Blocks
  BY DEF Woven
<1>2. PICK a, b, c : a = n + 1 /\ b = n + 2 /\ c = n + 3
  OBVIOUS
<1>3. a # b /\ b # c /\ a # c
  BY <1>2
<1>4. PICK ts : ts = Three(bs)
  OBVIOUS
<1>5. PICK R : R = Q \cup {a, b, c}
  OBVIOUS
<1>6. /\ Woven(ts, x, R) /\ Stay(bs, ts) /\ Paths(ts) = Paths(bs) /\ ts[x] = bs[x]
      /\ \A k \in {a, b, c} : k \notin Q
  BY <1>2, <1>4, <1>5, WovenThree
<1>7. Goes(ts, x)
  BY <1>6 DEF Goes
<1>8. PICK T : T = {a, b}
  OBVIOUS
<1>9. PICK cs : cs = Branch(AddBasicBlock(ts, a), x, T)
  OBVIOUS
<1>10. T \in SUBSET R /\ a \in T
  BY <1>5, <1>8
<1>11. /\ Woven(cs, a, R \ {a}) /\ Stay(ts, cs) /\ Goes(cs, a)
       /\ Paths(cs) = Paths(ts) \cup T
  <2>1. Enters(ts, cs, a, R \ {a}, T)
    BY <1>6, <1>7, <1>9, <1>10, GoEnter
  <2> QED
    BY <2>1 DEF Enters
<1>12. R \ {a} = Q \cup {b, c}
  BY <1>3, <1>5, <1>6
<1>13. Stay(bs, cs)
  BY <1>1, <1>6, <1>11, StayTwice DEF Woven
<1>14. Goes(cs, a)
  BY <1>11
<1>15. cs = Branch(bs \o <<Attached, Detached, Detached>>, x, {n + 1, n + 2})
  BY <1>1, <1>2, <1>4, <1>8, <1>9, CreatedInFunction
<1>16. Enters(bs, cs, a, Q \cup {b, c}, {a, b})
  BY <1>6, <1>8, <1>11, <1>12, <1>13, <1>14 DEF Enters
<1> QED
  BY <1>2, <1>15, <1>16

\* The blocks of a for loop without a condition.
LEMMA ForeverEnters ==
    ASSUME NEW bs, NEW x, NEW Q, Woven(bs, x, Q), Goes(bs, x), NEW n \in Nat, n = Len(bs)
    PROVE  Enters(bs, Branch(bs \o <<Detached, Attached, Detached>>, x, {n + 2}),
                  n + 2, Q \cup {n + 1, n + 3}, {n + 2})
<1>1. bs \in Blocks
  BY DEF Woven
<1>2. PICK a, b, c : a = n + 1 /\ b = n + 2 /\ c = n + 3
  OBVIOUS
<1>3. a # b /\ b # c /\ a # c
  BY <1>2
<1>4. PICK ts : ts = Three(bs)
  OBVIOUS
<1>5. PICK R : R = Q \cup {a, b, c}
  OBVIOUS
<1>6. /\ Woven(ts, x, R) /\ Stay(bs, ts) /\ Paths(ts) = Paths(bs) /\ ts[x] = bs[x]
      /\ \A k \in {a, b, c} : k \notin Q
  BY <1>2, <1>4, <1>5, WovenThree
<1>7. Goes(ts, x)
  BY <1>6 DEF Goes
<1>8. PICK T : T = {b}
  OBVIOUS
<1>9. PICK cs : cs = Branch(AddBasicBlock(ts, b), x, T)
  OBVIOUS
<1>10. T \in SUBSET R /\ b \in T
  BY <1>5, <1>8
<1>11. /\ Woven(cs, b, R \ {b}) /\ Stay(ts, cs) /\ Goes(cs, b)
       /\ Paths(cs) = Paths(ts) \cup T
  <2>1. Enters(ts, cs, b, R \ {b}, T)
    BY <1>6, <1>7, <1>9, <1>10, GoEnter
  <2> QED
    BY <2>1 DEF Enters
<1>12. R \ {b} = Q \cup {a, c}
  BY <1>3, <1>5, <1>6
<1>13. Stay(bs, cs)
  BY <1>1, <1>6, <1>11, StayTwice DEF Woven
<1>14. Goes(cs, b)
  BY <1>11
<1>15. cs = Branch(bs \o <<Detached, Attached, Detached>>, x, {n + 2})
  BY <1>1, <1>2, <1>4, <1>8, <1>9, CreatedInFunction
<1>16. Enters(bs, cs, b, Q \cup {a, c}, {b})
  BY <1>6, <1>8, <1>11, <1>12, <1>13, <1>14 DEF Enters
<1> QED
  BY <1>2, <1>15, <1>16

\* The blocks of a while loop.
LEMMA WhileEnters ==
    ASSUME NEW bs, NEW x, NEW Q, Woven(bs, x, Q), Goes(bs, x), NEW n \in Nat, n = Len(bs),
           NEW cs, cs = Branch(Branch(bs \o <<Attached, Attached, Detached>>, x, {n + 1}),
                               n + 1, {n + 2, n + 3})
    PROVE  /\ Enters(bs, cs, n + 2, Q \cup {n + 3}, {n + 1, n + 2, n + 3})
           /\ Repeats(cs, n + 1)
<1>1. bs \in Blocks
  BY DEF Woven
<1>2. PICK a, b, c : a = n + 1 /\ b = n + 2 /\ c = n + 3
  OBVIOUS
<1>3. a # b /\ b # c /\ a # c
  BY <1>2
<1>4. PICK ts : ts = Three(bs)
  OBVIOUS
<1>5. PICK R : R = Q \cup {a, b, c}
  OBVIOUS
<1>6. /\ Woven(ts, x, R) /\ Stay(bs, ts) /\ Paths(ts) = Paths(bs) /\ ts[x] = bs[x]
      /\ \A k \in {a, b, c} : k \notin Q
  BY <1>2, <1>4, <1>5, WovenThree
<1>7. Goes(ts, x)
  BY <1>6 DEF Goes
<1>8. PICK ds : ds = Branch(Branch(AddBasicBlock(AddBasicBlock(ts, a), b), x, {a}), a, {b, c})
  OBVIOUS
<1>9. a \in R /\ b \in R /\ c \in R
  BY <1>5
<1>10. /\ Woven(ds, b, R \ {a, b}) /\ Stay(ts, ds) /\ Goes(ds, b) /\ Repeats(ds, a)
       /\ Paths(ds) = Paths(ts) \cup {a, b, c}
  <2>1. Enters(ts, ds, b, R \ {a, b}, {a, b, c}) /\ Repeats(ds, a)
    BY <1>3, <1>6, <1>7, <1>8, <1>9, GoLoop
  <2> QED
    BY <2>1 DEF Enters
<1>11. R \ {a, b} = Q \cup {c}
  BY <1>3, <1>5, <1>6
<1>12. Stay(bs, ds)
  BY <1>1, <1>6, <1>10, StayTwice DEF Woven
<1>14. ds = cs
  BY <1>1, <1>2, <1>4, <1>8, CreatedInFunction
<1>15. Enters(bs, ds, b, Q \cup {c}, {a, b, c}) /\ Repeats(ds, a)
  BY <1>6, <1>10, <1>11, <1>12 DEF Enters
<1> QED
  BY <1>2, <1>14, <1>15

\* The blocks of a for loop with a condition.
LEMMA ForEnters ==
    ASSUME NEW bs, NEW x, NEW Q, Woven(bs, x, Q), Goes(bs, x), NEW n \in Nat, n = Len(bs),
           NEW cs, cs = Branch(Branch(Append(bs \o <<Detached, Attached, Detached>>, Attached),
                                      x, {n + 4}), n + 4, {n + 2, n + 1})
    PROVE  /\ Enters(bs, cs, n + 2, Q \cup {n + 1, n + 3}, {n + 4, n + 2, n + 1})
           /\ Repeats(cs, n + 4)
<1>1. bs \in Blocks
  BY DEF Woven
<1>2. PICK a, b, c, h : a = n + 1 /\ b = n + 2 /\ c = n + 3 /\ h = n + 4
  OBVIOUS
<1>3. a # b /\ b # c /\ a # c /\ h # a /\ h # b /\ h # c
  BY <1>2
<1>4. PICK rs : rs = Three(bs)
  OBVIOUS
<1>5. PICK P : P = Q \cup {a, b, c}
  OBVIOUS
<1>6. /\ Woven(rs, x, P) /\ Stay(bs, rs) /\ Paths(rs) = Paths(bs) /\ rs[x] = bs[x]
      /\ Len(rs) = n + 3 /\ \A k \in {a, b, c} : k \notin Q
  BY <1>2, <1>4, <1>5, WovenThree
<1>7. PICK ts : ts = Append(rs, Detached)
  OBVIOUS
<1>8. PICK R : R = P \cup {h}
  OBVIOUS
<1>9. Flows(rs) /\ x \notin P /\ Len(rs) + 1 = h
  BY <1>2, <1>6, WovenFlows
<1>10. Woven(ts, x, R) /\ Stay(rs, ts) /\ x # h /\ h \notin P
  BY <1>6, <1>7, <1>8, <1>9, WovenAppend
<1>11. Paths(ts) = Paths(bs) /\ ts[x] = bs[x]
  <2>1. Paths(ts) = Paths(rs)
    BY <1>7, <1>9, PathsAppend
  <2>2. rs \in Blocks /\ x \in Ids(rs)
    BY <1>6 DEF Woven
  <2>3. ts[x] = rs[x]
    BY <1>7, <2>2, AppendFacts
  <2> QED
    BY <1>6, <2>1, <2>3
<1>12. Goes(ts, x)
  BY <1>11 DEF Goes
<1>13. PICK ds : ds = Branch(Branch(AddBasicBlock(AddBasicBlock(ts, h), b), x, {h}), h, {b, a})
  OBVIOUS
<1>14. a \in R /\ b \in R /\ h \in R
  BY <1>5, <1>8
<1>15. /\ Woven(ds, b, R \ {h, b}) /\ Stay(ts, ds) /\ Goes(ds, b) /\ Repeats(ds, h)
       /\ Paths(ds) = Paths(ts) \cup {h, b, a}
  <2>1. Enters(ts, ds, b, R \ {h, b}, {h, b, a}) /\ Repeats(ds, h)
    BY <1>3, <1>10, <1>12, <1>13, <1>14, GoLoop
  <2> QED
    BY <2>1 DEF Enters
<1>16. R \ {h, b} = Q \cup {a, c}
  BY <1>3, <1>5, <1>6, <1>8, <1>10
<1>17. Stay(bs, ds)
  <2>1. rs \in Blocks /\ ts \in Blocks /\ ds \in Blocks
    BY <1>6, <1>10, <1>15 DEF Woven
  <2>2. Stay(bs, ts)
    BY <1>1, <1>6, <1>10, <2>1, StayTwice
  <2> QED
    BY <1>1, <1>15, <2>1, <2>2, StayTwice
<1>19. ds = cs
  BY <1>1, <1>2, <1>4, <1>7, <1>13, EnteredBlocks
<1>20. Enters(bs, ds, b, Q \cup {a, c}, {h, b, a}) /\ Repeats(ds, h)
  BY <1>11, <1>15, <1>16, <1>17 DEF Enters
<1> QED
  BY <1>2, <1>19, <1>20

\* The block of a labeled statement.
LEMMA LabelEnters ==
    ASSUME NEW bs, NEW x, NEW Q, Woven(bs, x, Q), Goes(bs, x), NEW n \in Nat, n = Len(bs)
    PROVE  Enters(bs, Append(bs, Detached), x, Q \cup {n + 1}, {})
<1>1. Flows(bs) /\ x \notin Q /\ bs \in Blocks /\ x \in Ids(bs)
  BY WovenFlows DEF Woven
<1>2. PICK cs : cs = Append(bs, Detached)
  OBVIOUS
<1>3. Woven(cs, x, Q \cup {n + 1}) /\ Stay(bs, cs)
  BY <1>1, <1>2, WovenAppend
<1>4. Paths(cs) = Paths(bs) /\ cs[x] = bs[x]
  BY <1>1, <1>2, PathsAppend, AppendFacts
<1> QED
  BY <1>2, <1>3, <1>4 DEF Enters, Goes

\* The actions that end a construct return from the innermost frame.
LEMMA PopsOf ==
    ASSUME TypeOK, Shape(frames), FramePopped
    PROVE  Pops(frames, frames')
<1>1. /\ frames' \in Seq(FrameType) /\ Height' = Height - 1
      /\ \A i \in 1..(Height - 1) :
            frames'[i] = IF i = Height - 1 /\ frames[i].body = "one"
                         THEN [frames[i] EXCEPT !.body = "none"] ELSE frames[i]
      /\ Height \in Nat /\ Height > 1 /\ \A i \in 1..Height : frames[i] \in FrameType
  BY PoppedFrames, FrameFacts DEF FramePopped
<1>2. PICK n \in Nat : n = Height - 1 /\ n + 1 = Height /\ n = Height' /\ n >= 1
  BY <1>1
<1>3. /\ Len(frames') = n /\ Len(frames) = n + 1 /\ Spots(frames') = 1..n
      /\ Len(frames') \in Spots(frames') /\ On(Len(frames), Len(frames'))
  BY <1>2 DEF Height, Spots, On
<1>4. ASSUME NEW i \in 1..n
      PROVE  /\ Like(frames[i], frames'[i])
             /\ i # n => frames'[i].body = frames[i].body
             /\ frames'[i].body # "one" \/ i # n
             /\ frames[i].body = "list" => frames'[i].body = "list"
             /\ frames[i].body = "one" /\ i = n => frames'[i].body = "none"
  <2>1. frames'[i] = IF i = n /\ frames[i].body = "one"
                     THEN [frames[i] EXCEPT !.body = "none"] ELSE frames[i]
    BY <1>1, <1>2
  <2>2. frames[i] \in FrameType
    BY <1>1, <1>2
  <2>3. CASE i = n /\ frames[i].body = "one"
    BY <2>1, <2>2, <2>3 DEF Like, FrameType
  <2>4. CASE ~(i = n /\ frames[i].body = "one")
    BY <2>1, <2>4 DEF Like
  <2> QED
    BY <2>3, <2>4
<1> QED
  BY <1>1, <1>3, <1>4 DEF Pops

\* The actions that begin a construct call a frame.
LEMMA PushesOf ==
    ASSUME TypeOK, NEW f, FramePushed(f)
    PROVE  Pushes(frames, frames', f)
<1>1. /\ frames' \in Seq(FrameType) /\ Height' = Height + 1
      /\ \A i \in 1..Height : frames'[i] = frames[i]
      /\ frames'[Height + 1] = f /\ Height \in Nat /\ Height >= 1
  BY PushedFrames
<1>2. PICK n \in Nat : n = Height /\ n + 1 = Height'
  BY <1>1
<1>3. /\ Len(frames') = n + 1 /\ Len(frames) = n /\ Spots(frames) = 1..n
      /\ Len(frames') \in Spots(frames') /\ On(Len(frames'), Len(frames))
  BY <1>2 DEF Height, Spots, On
<1> QED
  BY <1>1, <1>2, <1>3 DEF Pushes, FramePushed

\* The actions of a simple statement go on with the same frames.
LEMMA ContinuesOf ==
    ASSUME TypeOK, NEW k, NEW fs,
           fs = [i \in 1..Height |-> IF i = k THEN [frames[i] EXCEPT !.reached = TRUE]
                                              ELSE frames[i]],
           frames' = Generated(fs)
    PROVE  Continues(frames, frames', k)
<1>1. /\ Height \in Nat /\ Height >= 1 /\ \A i \in 1..Height : frames[i] \in FrameType
  BY FrameFacts
<1>2. \A i \in 1..Height : fs[i] \in FrameType
  BY <1>1 DEF FrameType
<1>3. fs \in Seq(FrameType) /\ Len(fs) = Height /\ fs # << >>
  <2>1. fs \in Seq(FrameType) /\ Len(fs) = Height
    BY <1>1, <1>2
  <2> QED
    BY <1>1, <2>1, EmptySeq
<1>4. /\ frames' \in Seq(FrameType) /\ Len(frames') = Height
      /\ \A i \in 1..Height :
            frames'[i] = IF i = Height /\ fs[i].body = "one"
                         THEN [fs[i] EXCEPT !.body = "none"] ELSE fs[i]
  <2>1. /\ Generated(fs) \in Seq(FrameType) /\ Len(Generated(fs)) = Len(fs)
        /\ \A i \in 1..Len(fs) :
            Generated(fs)[i] = IF i = Len(fs) /\ fs[i].body = "one"
                               THEN [fs[i] EXCEPT !.body = "none"] ELSE fs[i]
    BY <1>3, GeneratedFrames
  <2>2. /\ Generated(fs) \in Seq(FrameType) /\ Len(Generated(fs)) = Height
        /\ \A i \in 1..Height :
            Generated(fs)[i] = IF i = Height /\ fs[i].body = "one"
                               THEN [fs[i] EXCEPT !.body = "none"] ELSE fs[i]
    BY <1>3, <2>1
  <2> QED
    BY <2>2
<1>5. Len(frames) = Height /\ Spots(frames) = 1..Height
  BY DEF Height, Spots
<1>6. ASSUME NEW i \in 1..Height
      PROVE  /\ frames'[i].kind = frames[i].kind /\ frames'[i].head = frames[i].head
             /\ frames'[i].next = frames[i].next /\ frames'[i].end = frames[i].end
             /\ frames'[i].reached = (frames[i].reached \/ i = k)
             /\ i # Height => frames'[i].body = frames[i].body
             /\ frames[i].body = "list" => frames'[i].body = "list"
             /\ i = Height /\ frames[i].body = "one" => frames'[i].body = "none"
  <2>1. /\ fs[i].kind = frames[i].kind /\ fs[i].head = frames[i].head
        /\ fs[i].next = frames[i].next /\ fs[i].end = frames[i].end
        /\ fs[i].reached = (frames[i].reached \/ i = k)
        /\ fs[i].body = frames[i].body
    <3>1. frames[i] \in FrameType
      BY <1>1
    <3>2. CASE i = k
      BY <3>1, <3>2 DEF FrameType
    <3>3. CASE i # k
      BY <3>1, <3>3 DEF FrameType
    <3> QED
      BY <3>2, <3>3
  <2>2. fs[i] \in FrameType
    BY <1>2
  <2>3. CASE i = Height /\ fs[i].body = "one"
    <3>1. frames'[i] = [fs[i] EXCEPT !.body = "none"]
      BY <1>4, <2>3
    <3> QED
      BY <2>1, <2>2, <2>3, <3>1 DEF FrameType
  <2>4. CASE ~(i = Height /\ fs[i].body = "one")
    <3>1. frames'[i] = fs[i]
      BY <1>4, <2>4
    <3> QED
      BY <2>1, <2>4, <3>1
  <2> QED
    BY <2>3, <2>4
<1> QED
  BY <1>4, <1>5, <1>6 DEF Continues

\* The same when no end is made reachable.
LEMMA ContinuesOfKept ==
    ASSUME TypeOK, frames' = Generated(frames)
    PROVE  Continues(frames, frames', 0)
<1>1. /\ Height \in Nat /\ DOMAIN frames = 1..Height /\ frames \in Seq(FrameType)
  BY FrameFacts DEF TypeOK
<1>2. PICK fs : fs = [i \in 1..Height |-> IF i = 0 THEN [frames[i] EXCEPT !.reached = TRUE]
                                              ELSE frames[i]]
  OBVIOUS
<1>3. fs = frames
  <2>1. \A i \in 1..Height : fs[i] = frames[i]
    BY <1>1, <1>2
  <2>2. frames = [i \in 1..Height |-> frames[i]]
    BY <1>1
  <2> QED
    BY <1>1, <1>2, <2>1, <2>2
<1> QED
  BY <1>2, <1>3, ContinuesOf

-----------------------------------------------------------------------------
\* The frames, the blocks and the insert block agree as long as the function is
\* generated, also when an assertion failed, and then the function is finished.
BlocksAgree ==
    /\ status # "done" => Agree(frames, blocks, insert, live)
    /\ status = "done" => Finished(blocks)

\* A statement may be generated: its block is reached.
LEMMA Due ==
    ASSUME IInv, BlocksAgree, StatementDue
    PROVE  /\ Agree(frames, blocks, insert, TRUE) /\ live = TRUE /\ status = "generating"
           /\ frames[Len(frames)].body # "none"
           /\ Woven(blocks, insert, Waiting(frames)) /\ Goes(blocks, insert)
           /\ TypeOK
<1>1. live = TRUE /\ status = "generating" /\ frames[Len(frames)].body # "none"
  BY DEF StatementDue, Top, Height, IInv, TypeOK
<1>2. Agree(frames, blocks, insert, TRUE)
  BY <1>1 DEF BlocksAgree
<1>3. Woven(blocks, insert, Waiting(frames))
      /\ TopAgrees(frames[Len(frames)], blocks, insert, TRUE)
  BY <1>2 DEF Agree
<1> QED
  BY <1>1, <1>2, <1>3 DEF TopAgrees, Bare, IInv

\* Every action keeps that the blocks agree: a lemma for each, up to that of
\* EndFunction.
LEMMA ExpressionBlocks ==
    ASSUME IInv, BlocksAgree, GenerateExpression
    PROVE  BlocksAgree'
<1>1. StatementDue /\ frames' = Generated(frames) /\ blocks' = AppendCode(blocks, insert)
      /\ UNCHANGED <<insert, status, live>>
  BY DEF GenerateExpression, SimpleDue
<1>2. /\ Agree(frames, blocks, insert, TRUE) /\ live = TRUE /\ status = "generating"
      /\ frames[Len(frames)].body # "none" /\ TypeOK
  BY <1>1, Due
<1>3. Continues(frames, frames', 0)
  BY <1>1, <1>2, ContinuesOfKept
<1>4. Agree(frames', AppendCode(blocks, insert), insert, TRUE)
  BY <1>2, <1>3, CodeAgrees
<1> QED
  BY <1>1, <1>2, <1>4 DEF BlocksAgree

LEMMA ReturnBlocks ==
    ASSUME IInv, BlocksAgree, GenerateReturn
    PROVE  BlocksAgree'
<1>1. StatementDue /\ frames' = Generated(frames)
      /\ blocks' = Branch(blocks, insert, {ReturnBlock})
      /\ UNCHANGED <<insert, status>> /\ live' = FALSE
  BY DEF GenerateReturn, SimpleDue
<1>2. /\ Agree(frames, blocks, insert, TRUE) /\ status = "generating"
      /\ frames[Len(frames)].body # "none" /\ TypeOK
  BY <1>1, Due
<1>3. Continues(frames, frames', 0) /\ JumpsTo(frames, ReturnBlock, 0)
  BY <1>1, <1>2, ContinuesOfKept DEF JumpsTo
<1>4. Agree(frames', Branch(blocks, insert, {ReturnBlock}), insert, FALSE)
  BY <1>2, <1>3, JumpAgrees
<1> QED
  BY <1>1, <1>2, <1>4 DEF BlocksAgree

\* A jump whose target is found, and found where the source says.
LEMMA JumpBlocks ==
    ASSUME IInv, BlocksAgree, StatementDue,
           NEW kind, NEW label, NEW k, Jump(kind, label, k),
           GetLabel(<<kind, label>>) # 0, JumpsTo(frames, GetLabel(<<kind, label>>), k)
    PROVE  BlocksAgree'
<1>1. PICK t : t = GetLabel(<<kind, label>>)
  OBVIOUS
<1>2. PICK fs : fs = [i \in 1..Height |-> IF i = k THEN [frames[i] EXCEPT !.reached = TRUE]
                                              ELSE frames[i]]
  OBVIOUS
<1>3. /\ blocks' = Branch(blocks, insert, {t}) /\ frames' = Generated(fs) /\ live' = FALSE
      /\ UNCHANGED <<insert, status>>
  BY <1>1, <1>2 DEF Jump
<1>4. /\ Agree(frames, blocks, insert, TRUE) /\ status = "generating"
      /\ frames[Len(frames)].body # "none" /\ TypeOK
  BY Due
<1>5. Continues(frames, frames', k) /\ JumpsTo(frames, t, k)
  BY <1>1, <1>2, <1>3, <1>4, ContinuesOf
<1>6. Agree(frames', Branch(blocks, insert, {t}), insert, FALSE)
  BY <1>4, <1>5, JumpAgrees
<1> QED
  BY <1>3, <1>4, <1>6 DEF BlocksAgree

\* The loop of a labeled statement is the frame on it.
LEMMA HasLoopIsOn ==
    ASSUME TypeOK, NEW i \in 1..Height
    PROVE  /\ HasLoop(i) <=> HasLoopAt(frames, i)
           /\ HasLoop(i) => i + 1 \in Spots(frames) /\ On(i + 1, i) /\ frames[i + 1].kind \in Loops
<1>1. PICK n \in Nat : n = Height /\ n = Len(frames) /\ i \in 1..n /\ Spots(frames) = 1..n
  BY FrameFacts DEF Height, Spots
<1>2. ASSUME HasLoop(i)
      PROVE  i + 1 \in Spots(frames) /\ On(i + 1, i) /\ frames[i + 1].kind \in Loops
  BY <1>1, <1>2 DEF HasLoop, On
<1>3. ASSUME HasLoopAt(frames, i) PROVE HasLoop(i)
  <2>1. PICK j \in 1..n : j = i + 1 /\ frames[j].kind \in Loops
    BY <1>1, <1>3 DEF HasLoopAt, On
  <2>2. i < n
    BY <1>1, <2>1
  <2> QED
    BY <1>1, <2>1, <2>2 DEF HasLoop
<1> QED
  BY <1>2, <1>3 DEF HasLoopAt

LEMMA BreakBlocks ==
    ASSUME IInv, BlocksAgree, ~AnyBody, NEW label \in Labels \cup {NoLabel}, Break(label)
    PROVE  BlocksAgree'
<1>0. TypeOK /\ Spots(frames) = 1..Height
  BY DEF IInv, Spots, Height
<1>1. StatementDue
  BY DEF Break, SimpleDue
<1>2. GetLabel(<<"break", label>>) # 0
  BY BreakFound
<1>3. CASE label = NoLabel
  <2>1. OpenLoops # {} /\ Undisturbed /\ Jump("break", label, InnermostLoop)
    BY <1>3 DEF Break, BreakLegal
  <2>2. GetLabel(<<"break", label>>) = frames[InnermostLoop].end
    BY <1>3, <2>1, LoopBlockFound
  <2>3. InnermostLoop \in Spots(frames) /\ frames[InnermostLoop].kind \in Loops
    BY <1>0, <2>1, InnermostLoopFacts DEF OpenLoops
  <2>4. JumpsTo(frames, GetLabel(<<"break", label>>), InnermostLoop)
    BY <2>2, <2>3 DEF JumpsTo
  <2> QED
    BY <1>1, <1>2, <2>1, <2>4, JumpBlocks
<1>4. CASE label \in Labels
  <2>1. label # NoLabel
    BY <1>4, NoLabelIsNone
  <2>2. label \in OpenLabels /\ Top.body # "none" /\ Jump("break", label, LabelFrame(label))
    BY <1>1, <2>1 DEF Break, BreakLegal, StatementDue
  <2>3. PICK i \in 1..Height : i = LabelFrame(label) /\ frames[i].kind = "label"
    BY <1>4, <2>2, LabelFrameFacts
  <2>4. GetLabel(<<"break", label>>) = frames[IF HasLoop(i) THEN i + 1 ELSE i].end
    BY <1>4, <2>2, <2>3, LabelBlockFound
  <2>5. JumpsTo(frames, GetLabel(<<"break", label>>), i)
    <3>1. CASE HasLoop(i)
      <4>1. i + 1 \in Spots(frames) /\ On(i + 1, i) /\ frames[i + 1].kind \in Loops
        BY <1>0, <3>1, HasLoopIsOn
      <4>2. GetLabel(<<"break", label>>) = frames[i + 1].end
        BY <2>4, <3>1
      <4> QED
        BY <1>0, <2>3, <4>1, <4>2 DEF JumpsTo
    <3>2. CASE ~HasLoop(i)
      <4>1. ~HasLoopAt(frames, i)
        BY <1>0, <3>2, HasLoopIsOn
      <4>2. GetLabel(<<"break", label>>) = frames[i].end
        BY <2>4, <3>2
      <4> QED
        BY <1>0, <2>3, <4>1, <4>2 DEF JumpsTo
    <3> QED
      BY <3>1, <3>2
  <2> QED
    BY <1>1, <1>2, <2>2, <2>3, <2>5, JumpBlocks
<1> QED
  BY <1>3, <1>4

\* A jump whose assertion fails leaves everything as it is.
LEMMA FailedBlocks ==
    ASSUME BlocksAgree, StatementDue,
           NEW kind, NEW label, NEW k, Jump(kind, label, k), GetLabel(<<kind, label>>) = 0
    PROVE  BlocksAgree'
BY DEF Jump, BlocksAgree, StatementDue

LEMMA ContinueBlocks ==
    ASSUME IInv, BlocksAgree, ~AnyBody, NEW label \in Labels \cup {NoLabel}, Continue(label),
           GetLabel(<<"continue", label>>) # 0
    PROVE  BlocksAgree'
<1>0. TypeOK /\ Spots(frames) = 1..Height
  BY DEF IInv, Spots, Height
<1>1. StatementDue /\ Jump("continue", label, 0)
  BY DEF Continue, SimpleDue
<1>2. \E i \in Spots(frames) : frames[i].kind \in Loops
                             /\ GetLabel(<<"continue", label>>) = frames[i].next
  <2>1. CASE label = NoLabel
    <3>1. OpenLoops # {} /\ Undisturbed
      BY <2>1 DEF Continue, ContinueLegal
    <3>2. GetLabel(<<"continue", label>>) = frames[InnermostLoop].next
      BY <2>1, <3>1, LoopBlockFound
    <3> QED
      BY <1>0, <3>1, <3>2, InnermostLoopFacts DEF OpenLoops
  <2>2. CASE label \in Labels
    <3>1. ContinueLegal(label) /\ Top.body # "none" /\ ~OuterLabel(label)
      BY <1>1, <2>2, NoLabelIsNone DEF Continue, StatementDue
    <3>2. label \in OpenLabels /\ HasLoop(LabelFrame(label))
      BY <2>2, <3>1, ContinueLabel
    <3>3. PICK i \in 1..Height : i = LabelFrame(label) /\ frames[i].kind = "label"
      BY <2>2, <3>2, LabelFrameFacts
    <3>4. GetLabel(<<"continue", label>>) = frames[i + 1].next
      BY <2>2, <3>1, <3>2, <3>3, LabelBlockFound
    <3> QED
      BY <1>0, <3>2, <3>3, <3>4, HasLoopIsOn
  <2> QED
    BY <2>1, <2>2
<1>3. JumpsTo(frames, GetLabel(<<"continue", label>>), 0)
  BY <1>2 DEF JumpsTo
<1> QED
  BY <1>1, <1>3, JumpBlocks

\* The generator enters the construct f, whose blocks it just created.
LEMMA PushBlocks ==
    ASSUME IInv, Agree(frames, blocks, insert, TRUE), frames[Len(frames)].body # "none",
           NEW f, FramePushed(f), NEW cs, NEW y, NEW P, NEW Q,
           Enters(blocks, cs, y, Q, P), Q = Waiting(frames) \cup Pending(f),
           P \cap Ids(blocks) = {}, Begins(f, blocks, cs, y)
    PROVE  Agree(frames', cs, y, TRUE)
<1>1. Pushes(frames, frames', f)
  BY PushesOf DEF Agree, IInv
<1>2. /\ Woven(cs, y, Waiting(frames) \cup Pending(f)) /\ Stay(blocks, cs) /\ Goes(cs, y)
      /\ Paths(cs) = Paths(blocks) \cup P
  BY DEF Enters
<1>3. \A b \in Ids(blocks) : b \in Paths(cs) <=> b \in Paths(blocks)
  BY <1>2
<1> QED
  BY <1>1, <1>2, <1>3, PushAgrees

\* The blocks that a construct creates are new.
LEMMA NewIds ==
    ASSUME IInv, NEW n \in Nat, n = Len(blocks)
    PROVE  /\ Ids(blocks) = 1..n /\ Created = n
           /\ \A k \in Nat : k > n => k \notin Ids(blocks)
           /\ Paths(blocks) \subseteq Ids(blocks)
BY DEF Ids, Created, Paths

LEMMA EnterBlocks ==
    ASSUME IInv, BlocksAgree, EnterBlock
    PROVE  BlocksAgree'
<1>1. StatementDue
  BY DEF EnterBlock, CompoundDue
<1>2. /\ Agree(frames, blocks, insert, TRUE) /\ live = TRUE /\ status = "generating"
      /\ frames[Len(frames)].body # "none"
      /\ Woven(blocks, insert, Waiting(frames)) /\ Goes(blocks, insert) /\ TypeOK
  BY <1>1, Due
<1>3. PICK f : f = [Frame("block", "list", NoBlocks) EXCEPT !.depth = Depth + 1]
  OBVIOUS
<1>4. /\ frames' = Append(frames, f) /\ UNCHANGED <<blocks, insert, status, live>>
  BY <1>3 DEF EnterBlock, Call
<1>5. /\ f \in FrameType /\ f.kind = "block" /\ f.body = "list"
  <2>1. PICK g : g = Frame("block", "list", NoBlocks)
    OBVIOUS
  <2>2. g \in FrameType /\ g.kind = "block" /\ g.body = "list"
    BY <1>2, <2>1, FrameIsTyped, TypeFacts DEF NoBlocks, Frame
  <2>3. Depth + 1 \in Nat /\ f = [g EXCEPT !.depth = Depth + 1]
    BY <1>2, <1>3, <2>1, TypeFacts
  <2> QED
    BY <2>2, <2>3 DEF FrameType
<1>6. FramePushed(f)
  BY <1>2, <1>4, <1>5 DEF FramePushed, Top, Height
<1>7. Pending(f) = {} /\ ~Opens(f)
  BY <1>5 DEF Pending, Opens
<1>8. Begins(f, blocks, blocks, insert)
  BY <1>5, <1>7 DEF Begins
<1>9. Enters(blocks, blocks, insert, Waiting(frames), {})
  BY <1>2, BlockFacts DEF Enters, Stay, Woven
<1>10. Agree(frames', blocks, insert, TRUE)
  BY <1>2, <1>6, <1>7, <1>8, <1>9, PushBlocks
<1> QED
  BY <1>2, <1>4, <1>10 DEF BlocksAgree

LEMMA ThenBlocks ==
    ASSUME IInv, BlocksAgree, GenerateThen
    PROVE  BlocksAgree'
<1>1. StatementDue
  BY DEF GenerateThen, CompoundDue
<1>2. /\ Agree(frames, blocks, insert, TRUE) /\ live = TRUE /\ status = "generating"
      /\ frames[Len(frames)].body # "none"
      /\ Woven(blocks, insert, Waiting(frames)) /\ Goes(blocks, insert) /\ TypeOK
  BY <1>1, Due
<1>3. PICK n \in Nat : n = Len(blocks) /\ n = Created
  BY <1>2, TypeFacts DEF Created
<1>4. PICK f : f = Frame("then", "one", <<0, n + 2, n + 3>>)
  OBVIOUS
<1>5. PICK cs : cs = Branch(blocks \o <<Attached, Detached, Detached>>, insert, {n + 1, n + 2})
  OBVIOUS
<1>6. blocks' = cs /\ insert' = n + 1 /\ frames' = Append(frames, f) /\ UNCHANGED <<status, live>>
  BY <1>3, <1>4, <1>5 DEF GenerateThen, Call
<1>7. /\ f \in FrameType /\ f.kind = "then" /\ f.body = "one" /\ f.next = n + 2 /\ f.end = n + 3
  <2>1. PICK else, end \in Nat : else = n + 2 /\ end = n + 3
    OBVIOUS
  <2>2. f = Frame("then", "one", <<0, else, end>>) /\ Depth \in Nat
    BY <1>2, <1>4, <2>1, TypeFacts
  <2>3. f \in FrameType
    BY <2>2, FrameIsTyped
  <2> QED
    BY <2>1, <2>2, <2>3 DEF Frame
<1>8. FramePushed(f)
  BY <1>2, <1>6, <1>7 DEF FramePushed, Top, Height
<1>9. /\ Ids(blocks) = 1..n /\ \A k \in Nat : k > n => k \notin Ids(blocks)
      /\ Paths(blocks) \subseteq Ids(blocks)
  BY <1>3, NewIds
<1>10. Enters(blocks, cs, n + 1, Waiting(frames) \cup {n + 2, n + 3}, {n + 1, n + 2})
  BY <1>2, <1>3, <1>5, ThenEnters
<1>11. Pending(f) = {n + 2, n + 3}
  BY <1>7 DEF Pending
<1>12. /\ {n + 1, n + 2} \cap Ids(blocks) = {} /\ n + 2 # n + 3 /\ n + 3 \notin Ids(blocks)
       /\ n + 3 # n + 1
  BY <1>9
<1>13. n + 2 \in Paths(cs) /\ n + 3 \notin Paths(cs)
  BY <1>9, <1>10, <1>12 DEF Enters
<1>14. Begins(f, blocks, cs, n + 1)
  BY <1>7, <1>11, <1>12, <1>13 DEF Begins
<1>15. Agree(frames', cs, n + 1, TRUE)
  BY <1>2, <1>8, <1>10, <1>11, <1>12, <1>14, PushBlocks
<1> QED
  BY <1>2, <1>6, <1>15 DEF BlocksAgree

LEMMA WhileBlocks ==
    ASSUME IInv, BlocksAgree, GenerateWhile
    PROVE  BlocksAgree'
<1>1. StatementDue
  BY DEF GenerateWhile, CompoundDue
<1>2. /\ Agree(frames, blocks, insert, TRUE) /\ live = TRUE /\ status = "generating"
      /\ frames[Len(frames)].body # "none"
      /\ Woven(blocks, insert, Waiting(frames)) /\ Goes(blocks, insert) /\ TypeOK
  BY <1>1, Due
<1>3. PICK n \in Nat : n = Len(blocks) /\ n = Created
  BY <1>2, TypeFacts DEF Created
<1>4. PICK f : f = [Frame("while", "one", <<n + 1, n + 1, n + 3>>) EXCEPT !.reached = TRUE]
  OBVIOUS
<1>5. PICK cs : cs = Branch(Branch(blocks \o <<Attached, Attached, Detached>>, insert, {n + 1}),
                            n + 1, {n + 2, n + 3})
  OBVIOUS
<1>6. blocks' = cs /\ insert' = n + 2 /\ frames' = Append(frames, f) /\ UNCHANGED <<status, live>>
  BY <1>3, <1>4, <1>5 DEF GenerateWhile, Call
<1>7. /\ f \in FrameType /\ f.kind = "while" /\ f.body = "one" /\ f.next = n + 1
      /\ f.end = n + 3
  <2>1. PICK g : g = Frame("while", "one", <<n + 1, n + 1, n + 3>>)
    OBVIOUS
  <2>2. /\ g \in FrameType /\ g.kind = "while" /\ g.body = "one" /\ g.next = n + 1
        /\ g.end = n + 3
    BY <1>2, <2>1, FrameIsTyped, TypeFacts DEF Frame, Loops
  <2> QED
    BY <1>4, <2>1, <2>2 DEF FrameType
<1>8. FramePushed(f)
  BY <1>2, <1>6, <1>7 DEF FramePushed, Top, Height
<1>9. /\ Ids(blocks) = 1..n /\ \A k \in Nat : k > n => k \notin Ids(blocks)
  BY <1>3, NewIds
<1>10. /\ Enters(blocks, cs, n + 2, Waiting(frames) \cup {n + 3}, {n + 1, n + 2, n + 3})
       /\ Repeats(cs, n + 1)
  BY <1>2, <1>3, <1>5, WhileEnters
<1>11. Pending(f) = {n + 3}
  BY <1>7 DEF Pending
<1>12. {n + 1, n + 2, n + 3} \cap Ids(blocks) = {}
  BY <1>9
<1>13. n + 1 \in Paths(cs) /\ n + 3 \in Paths(cs)
  BY <1>10 DEF Enters
<1>14. Begins(f, blocks, cs, n + 2)
  BY <1>7, <1>10, <1>11, <1>12, <1>13 DEF Begins, Repeats
<1>15. Agree(frames', cs, n + 2, TRUE)
  BY <1>2, <1>8, <1>10, <1>11, <1>12, <1>14, PushBlocks
<1> QED
  BY <1>2, <1>6, <1>15 DEF BlocksAgree

LEMMA ForBlocks ==
    ASSUME IInv, BlocksAgree, NEW hasCondition \in BOOLEAN, GenerateFor(hasCondition)
    PROVE  BlocksAgree'
<1>1. StatementDue
  BY DEF GenerateFor, CompoundDue
<1>2. /\ Agree(frames, blocks, insert, TRUE) /\ live = TRUE /\ status = "generating"
      /\ frames[Len(frames)].body # "none"
      /\ Woven(blocks, insert, Waiting(frames)) /\ Goes(blocks, insert) /\ TypeOK
  BY <1>1, Due
<1>3. PICK n \in Nat : n = Len(blocks) /\ n = Created
  BY <1>2, TypeFacts DEF Created
<1>4. PICK head \in Nat : head = IF hasCondition THEN n + 4 ELSE n + 2
  OBVIOUS
<1>5. PICK f : f = [Frame("for", "one", <<head, n + 3, n + 1>>) EXCEPT !.reached = hasCondition]
  OBVIOUS
<1>6. PICK cs : cs = IF hasCondition
                     THEN Branch(Branch(Append(blocks \o <<Detached, Attached, Detached>>,
                                               Attached), insert, {n + 4}),
                                 n + 4, {n + 2, n + 1})
                     ELSE Branch(blocks \o <<Detached, Attached, Detached>>, insert, {n + 2})
  OBVIOUS
<1>7. blocks' = cs /\ insert' = n + 2 /\ frames' = Append(frames, f) /\ UNCHANGED <<status, live>>
  <2>1. CASE hasCondition
    BY <1>3, <1>4, <1>5, <1>6, <2>1 DEF GenerateFor, Call
  <2>2. CASE ~hasCondition
    BY <1>3, <1>4, <1>5, <1>6, <2>2 DEF GenerateFor, Call
  <2> QED
    BY <2>1, <2>2
<1>8. /\ f \in FrameType /\ f.kind = "for" /\ f.body = "one" /\ f.next = n + 3
      /\ f.end = n + 1 /\ f.head = head /\ f.reached = hasCondition
  <2>1. PICK g : g = Frame("for", "one", <<head, n + 3, n + 1>>)
    OBVIOUS
  <2>2. /\ g \in FrameType /\ g.kind = "for" /\ g.body = "one" /\ g.next = n + 3
        /\ g.end = n + 1 /\ g.head = head
    <3>1. PICK next, end \in Nat : next = n + 3 /\ end = n + 1
      OBVIOUS
    <3>2. g = Frame("for", "one", <<head, next, end>>) /\ Depth \in Nat
      BY <1>2, <2>1, <3>1, TypeFacts
    <3>3. g \in FrameType
      BY <3>2, FrameIsTyped DEF Loops
    <3> QED
      BY <3>1, <3>2, <3>3 DEF Frame
  <2> QED
    BY <1>5, <2>1, <2>2 DEF FrameType
<1>9. FramePushed(f)
  BY <1>2, <1>7, <1>8 DEF FramePushed, Top, Height
<1>10. /\ Ids(blocks) = 1..n /\ \A k \in Nat : k > n => k \notin Ids(blocks)
       /\ Paths(blocks) \subseteq Ids(blocks)
  BY <1>3, NewIds
<1>11. PICK P : P = IF hasCondition THEN {n + 4, n + 2, n + 1} ELSE {n + 2}
  OBVIOUS
<1>12. /\ Enters(blocks, cs, n + 2, Waiting(frames) \cup {n + 1, n + 3}, P)
       /\ head \in Ids(cs) /\ cs[head].at = "function"
  <2>1. CASE hasCondition
    <3>1. cs = Branch(Branch(Append(blocks \o <<Detached, Attached, Detached>>, Attached),
                             insert, {n + 4}), n + 4, {n + 2, n + 1})
      BY <1>6, <2>1
    <3>2. /\ Enters(blocks, cs, n + 2, Waiting(frames) \cup {n + 1, n + 3},
                    {n + 4, n + 2, n + 1})
          /\ Repeats(cs, n + 4)
      BY <1>2, <1>3, <3>1, ForEnters
    <3> QED
      BY <1>4, <1>11, <2>1, <3>2 DEF Repeats
  <2>2. CASE ~hasCondition
    <3>1. cs = Branch(blocks \o <<Detached, Attached, Detached>>, insert, {n + 2})
      BY <1>6, <2>2
    <3>2. Enters(blocks, cs, n + 2, Waiting(frames) \cup {n + 1, n + 3}, {n + 2})
      BY <1>2, <1>3, <3>1, ForeverEnters
    <3>3. n + 2 \in Ids(cs) /\ cs[n + 2].at = "function"
      BY <3>2 DEF Enters, Woven
    <3> QED
      BY <1>4, <1>11, <2>2, <3>2, <3>3
  <2> QED
    BY <2>1, <2>2
<1>13. Pending(f) = {n + 1, n + 3}
  BY <1>8 DEF Pending
<1>14. /\ P \cap Ids(blocks) = {} /\ n + 1 # n + 3
       /\ n + 1 \notin Ids(blocks) /\ n + 2 \notin Ids(blocks) /\ n + 3 \notin Ids(blocks)
  BY <1>10, <1>11
<1>15. head \in Paths(cs) /\ (n + 1 \in Paths(cs) <=> hasCondition)
  <2>1. Paths(cs) = Paths(blocks) \cup P
    BY <1>12 DEF Enters
  <2>2. head \in P /\ (n + 1 \in P <=> hasCondition)
    BY <1>4, <1>11
  <2> QED
    BY <1>10, <1>14, <2>1, <2>2
<1>16. Begins(f, blocks, cs, n + 2)
  BY <1>8, <1>12, <1>13, <1>14, <1>15 DEF Begins
<1>17. Agree(frames', cs, n + 2, TRUE)
  BY <1>2, <1>9, <1>12, <1>13, <1>14, <1>16, PushBlocks
<1> QED
  BY <1>2, <1>7, <1>17 DEF BlocksAgree

LEMMA LabeledBlocks ==
    ASSUME IInv, BlocksAgree, NEW label \in Labels, GenerateLabeled(label)
    PROVE  BlocksAgree'
<1>1. StatementDue
  BY DEF GenerateLabeled, CompoundDue
<1>2. /\ Agree(frames, blocks, insert, TRUE) /\ live = TRUE /\ status = "generating"
      /\ frames[Len(frames)].body # "none"
      /\ Woven(blocks, insert, Waiting(frames)) /\ Goes(blocks, insert) /\ TypeOK
  BY <1>1, Due
<1>3. PICK n \in Nat : n = Len(blocks) /\ n = Created
  BY <1>2, TypeFacts DEF Created
<1>4. PICK f : f = [Frame("label", "one", <<0, 0, n + 1>>) EXCEPT !.label = label]
  OBVIOUS
<1>5. PICK cs : cs = Append(blocks, Detached)
  OBVIOUS
<1>6. blocks' = cs /\ frames' = Append(frames, f) /\ UNCHANGED <<insert, status, live>>
  BY <1>3, <1>4, <1>5 DEF GenerateLabeled, Call
<1>7. /\ f \in FrameType /\ f.kind = "label" /\ f.body = "one" /\ f.end = n + 1
      /\ f.reached = FALSE
  <2>1. PICK g : g = Frame("label", "one", <<0, 0, n + 1>>)
    OBVIOUS
  <2>2. /\ g \in FrameType /\ g.kind = "label" /\ g.body = "one" /\ g.end = n + 1
        /\ g.reached = FALSE
    <3>1. PICK end \in Nat : end = n + 1
      OBVIOUS
    <3>2. g = Frame("label", "one", <<0, 0, end>>) /\ Depth \in Nat
      BY <1>2, <2>1, <3>1, TypeFacts
    <3>3. g \in FrameType
      BY <3>2, FrameIsTyped
    <3> QED
      BY <3>1, <3>2, <3>3 DEF Frame
  <2> QED
    BY <1>4, <2>1, <2>2 DEF FrameType
<1>8. FramePushed(f)
  BY <1>2, <1>6, <1>7 DEF FramePushed, Top, Height
<1>9. /\ \A k \in Nat : k > n => k \notin Ids(blocks)
      /\ Paths(blocks) \subseteq Ids(blocks)
  BY <1>3, NewIds
<1>10. Enters(blocks, cs, insert, Waiting(frames) \cup {n + 1}, {})
  BY <1>2, <1>3, <1>5, LabelEnters
<1>11. Pending(f) = {n + 1} /\ ~Opens(f)
  BY <1>7 DEF Pending, Opens
<1>12. n + 1 \notin Ids(blocks)
  BY <1>9
<1>13. n + 1 \notin Paths(cs)
  BY <1>9, <1>10, <1>12 DEF Enters
<1>14. Begins(f, blocks, cs, insert)
  BY <1>7, <1>11, <1>12, <1>13 DEF Begins
<1>15. Agree(frames', cs, insert, TRUE)
  <2>1. Waiting(frames) \cup {n + 1} = Waiting(frames) \cup Pending(f)
    BY <1>11
  <2>2. {} \cap Ids(blocks) = {}
    OBVIOUS
  <2> QED
    BY <1>2, <1>8, <1>10, <1>14, <2>1, <2>2, PushBlocks
<1> QED
  BY <1>2, <1>6, <1>15 DEF BlocksAgree

\* The state in which a construct ends.
LEMMA Ending ==
    ASSUME IInv, BlocksAgree, status = "generating", Top.kind # "block" \/ Height > 1
    PROVE  /\ Agree(frames, blocks, insert, live) /\ live \in BOOLEAN /\ TypeOK
           /\ Top = frames[Len(frames)] /\ Top \in FrameType
           /\ frames' = Return(frames) => Pops(frames, frames')
<1>1. Agree(frames, blocks, insert, live) /\ live \in BOOLEAN /\ TypeOK /\ Shape(frames)
  BY DEF BlocksAgree, IInv, TypeOK, Agree
<1>2. Height > 1
  BY TopFacts
<1>3. Top = frames[Len(frames)] /\ Top \in FrameType
  BY <1>1, TypeFacts DEF Top, Height
<1>4. ASSUME frames' = Return(frames) PROVE Pops(frames, frames')
  BY <1>1, <1>2, <1>4, PopsOf DEF FramePopped
<1> QED
  BY <1>1, <1>3, <1>4

LEMMA LeaveBlocks ==
    ASSUME IInv, BlocksAgree, LeaveBlock
    PROVE  BlocksAgree'
<1>1. /\ status = "generating" /\ Height > 1 /\ Top.kind = "block"
      /\ frames' = Return(frames) /\ UNCHANGED <<blocks, insert, status, live>>
  BY DEF LeaveBlock
<1>2. PICK f : f = Top
  OBVIOUS
<1>3. /\ Agree(frames, blocks, insert, live) /\ live \in BOOLEAN
      /\ f = frames[Len(frames)] /\ f.kind = "block" /\ Pops(frames, frames')
  BY <1>1, <1>2, Ending
<1>4. Agree(frames', blocks, insert, live)
  BY <1>3, EndBlockAgrees
<1> QED
  BY <1>1, <1>4 DEF BlocksAgree

LEMMA ElseBlocks ==
    ASSUME IInv, BlocksAgree, NEW hasElse \in BOOLEAN, GenerateElse(hasElse)
    PROVE  BlocksAgree'
<1>1. status = "generating" /\ Top.kind = "then" /\ Top.body = "none"
  BY DEF GenerateElse, BodyGenerated
<1>2. PICK f : f = Top
  OBVIOUS
<1>3. /\ Agree(frames, blocks, insert, live) /\ live \in BOOLEAN /\ TypeOK
      /\ f = frames[Len(frames)] /\ f.kind = "then" /\ f \in FrameType
  BY <1>1, <1>2, Ending
<1>4. PICK new : new = [f EXCEPT !.kind = "else",
                                 !.body = IF hasElse THEN "one" ELSE "none",
                                 !.reached = live]
  OBVIOUS
<1>5. /\ new \in FrameType /\ new.kind = "else" /\ new.body \in {"one", "none"}
      /\ new.next = f.next /\ new.end = f.end /\ new.head = f.head /\ new.reached = live
  BY <1>3, <1>4 DEF FrameType
<1>6. Height \in 1..Height /\ Height = Len(frames) /\ Spots(frames) = 1..Height
  BY <1>3, TypeFacts DEF Height, Spots
<1>7. frames' = [frames EXCEPT ![Height] = new]
  BY <1>2, <1>3, <1>4, <1>6, FrameFacts DEF GenerateElse, Top
<1>8. /\ frames' \in Seq(FrameType) /\ Len(frames') = Len(frames)
      /\ \A i \in 1..Height : frames'[i] = IF i = Height THEN new ELSE frames[i]
  BY <1>3, <1>5, <1>6, <1>7, ExceptSeq DEF TypeOK, Height
<1>9. /\ \A i \in Spots(frames) : i # Len(frames) => frames'[i] = frames[i]
      /\ new = frames'[Len(frames)]
  BY <1>6, <1>8
<1>10. Agree(frames', AddBasicBlock(BranchUnlessEnded(blocks, insert, f.end), f.next),
             f.next, TRUE)
  BY <1>3, <1>5, <1>8, <1>9, ElseAgrees
<1>11. /\ blocks' = AddBasicBlock(BranchUnlessEnded(blocks, insert, f.end), f.next)
       /\ insert' = f.next /\ live' = TRUE /\ status' = status
  BY <1>2 DEF GenerateElse
<1> QED
  BY <1>1, <1>10, <1>11 DEF BlocksAgree

LEMMA EndIfBlocks ==
    ASSUME IInv, BlocksAgree, EndIf
    PROVE  BlocksAgree'
<1>1. /\ status = "generating" /\ Top.kind = "else" /\ frames' = Return(frames)
      /\ status' = status
  BY DEF EndIf, BodyGenerated
<1>2. PICK f : f = Top
  OBVIOUS
<1>3. /\ Agree(frames, blocks, insert, live) /\ live \in BOOLEAN
      /\ f = frames[Len(frames)] /\ f.kind = "else" /\ Pops(frames, frames')
  BY <1>1, <1>2, Ending
<1>4. Agree(frames',
            AddBasicBlock(IF blocks[insert].holds = "nothing"
                          THEN Free(ReplaceAllUsesWith(blocks, insert, f.end), insert)
                          ELSE BranchUnlessEnded(blocks, insert, f.end), f.end),
            f.end, live \/ f.reached)
  BY <1>3, EndIfAgrees
<1>5. /\ blocks' = AddBasicBlock(IF blocks[insert].holds = "nothing"
                          THEN Free(ReplaceAllUsesWith(blocks, insert, f.end), insert)
                          ELSE BranchUnlessEnded(blocks, insert, f.end), f.end)
      /\ insert' = f.end /\ live' = (live \/ f.reached)
  BY <1>2 DEF EndIf
<1> QED
  BY <1>1, <1>4, <1>5 DEF BlocksAgree

LEMMA EndWhileBlocks ==
    ASSUME IInv, BlocksAgree, EndWhile
    PROVE  BlocksAgree'
<1>1. /\ status = "generating" /\ Top.kind = "while" /\ frames' = Return(frames)
      /\ status' = status
  BY DEF EndWhile, BodyGenerated
<1>2. PICK f : f = Top
  OBVIOUS
<1>3. /\ Agree(frames, blocks, insert, live) /\ live \in BOOLEAN
      /\ f = frames[Len(frames)] /\ f.kind = "while" /\ Pops(frames, frames')
  BY <1>1, <1>2, Ending
<1>4. Agree(frames', AddBasicBlock(BranchUnlessEnded(blocks, insert, f.next), f.end),
            f.end, TRUE)
  BY <1>3, EndWhileAgrees
<1>5. /\ blocks' = AddBasicBlock(BranchUnlessEnded(blocks, insert, f.next), f.end)
      /\ insert' = f.end /\ live' = TRUE
  BY <1>2 DEF EndWhile
<1> QED
  BY <1>1, <1>4, <1>5 DEF BlocksAgree

LEMMA EndForBlocks ==
    ASSUME IInv, BlocksAgree, EndFor
    PROVE  BlocksAgree'
<1>1. /\ status = "generating" /\ Top.kind = "for" /\ frames' = Return(frames)
      /\ status' = status
  BY DEF EndFor, BodyGenerated
<1>2. PICK f : f = Top
  OBVIOUS
<1>3. /\ Agree(frames, blocks, insert, live) /\ live \in BOOLEAN
      /\ f = frames[Len(frames)] /\ f.kind = "for" /\ Pops(frames, frames')
  BY <1>1, <1>2, Ending
<1>4. Agree(frames',
            AddBasicBlock(AddBasicBlock(
                Branch(BranchUnlessEnded(blocks, insert, f.next), f.next, {f.head}), f.next),
                f.end),
            f.end, f.reached)
  BY <1>3, EndForAgrees
<1>5. /\ blocks' = AddBasicBlock(AddBasicBlock(
                Branch(BranchUnlessEnded(blocks, insert, f.next), f.next, {f.head}), f.next),
                f.end)
      /\ insert' = f.end /\ live' = f.reached
  BY <1>2 DEF EndFor
<1> QED
  BY <1>1, <1>4, <1>5 DEF BlocksAgree

LEMMA EndLabeledBlocks ==
    ASSUME IInv, BlocksAgree, EndLabeled
    PROVE  BlocksAgree'
<1>1. /\ status = "generating" /\ Top.kind = "label" /\ Top.body = "none"
      /\ frames' = Return(frames) /\ status' = status
  BY DEF EndLabeled, BodyGenerated
<1>2. PICK f : f = Top
  OBVIOUS
<1>3. /\ Agree(frames, blocks, insert, live) /\ live \in BOOLEAN
      /\ f = frames[Len(frames)] /\ f.kind = "label" /\ f.body = "none"
      /\ Pops(frames, frames')
  BY <1>1, <1>2, Ending
<1>4. /\ UseEmpty(blocks, f.end) =>
            Agree(frames', Free(blocks, f.end), insert, live \/ f.reached)
      /\ ~UseEmpty(blocks, f.end) =>
            Agree(frames', AddBasicBlock(BranchUnlessEnded(blocks, insert, f.end), f.end),
                  f.end, live \/ f.reached)
  BY <1>3, EndLabelAgrees
<1>5. live' = (live \/ f.reached)
  BY <1>2 DEF EndLabeled
<1>6. CASE UseEmpty(blocks, f.end)
  <2>1. blocks' = Free(blocks, f.end) /\ insert' = insert
    BY <1>2, <1>6 DEF EndLabeled
  <2> QED
    BY <1>1, <1>4, <1>5, <1>6, <2>1 DEF BlocksAgree
<1>7. CASE ~UseEmpty(blocks, f.end)
  <2>1. /\ blocks' = AddBasicBlock(BranchUnlessEnded(blocks, insert, f.end), f.end)
        /\ insert' = f.end
    BY <1>2, <1>7 DEF EndLabeled
  <2> QED
    BY <1>1, <1>4, <1>5, <1>7, <2>1 DEF BlocksAgree
<1> QED
  BY <1>6, <1>7

-----------------------------------------------------------------------------
\* Only the block of the returns waits when the body of the function is generated.
LEMMA OneFrameWaits ==
    ASSUME NEW fs, Shape(fs), Len(fs) = 1
    PROVE  Waiting(fs) = {ReturnBlock} /\ \A i \in Spots(fs) : Exits(fs[i]) = {}
<1>1. Spots(fs) = {1}
  BY DEF Spots
<1>2. fs[1].kind = "block"
  BY DEF Shape
<1>3. Pending(fs[1]) = {} /\ Exits(fs[1]) = {}
  BY <1>2 DEF Pending, Exits, Loops
<1> QED
  BY <1>1, <1>3 DEF Waiting

LEMMA EndFunctionBlocks ==
    ASSUME IInv, BlocksAgree, EndFunction
    PROVE  BlocksAgree'
<1>1. status = "generating" /\ Height = 1 /\ status' = "done"
  BY DEF EndFunction
<1>2. Agree(frames, blocks, insert, live)
  BY <1>1 DEF BlocksAgree
<1>3. /\ Woven(blocks, insert, {ReturnBlock})
      /\ \A i \in Spots(frames) : Exits(frames[i]) = {}
  BY <1>1, <1>2, OneFrameWaits DEF Agree, Height
<1>4. blocks \in Blocks /\ insert \in Ids(blocks) /\ insert # ReturnBlock
  BY <1>3, WovenFlows DEF Woven
<1>5. PICK bs : bs = ReplaceAllUsesWith(blocks, ReturnBlock, insert)
  OBVIOUS
<1>6. PICK cs : cs = BranchUnlessEnded(blocks, insert, ReturnBlock)
  OBVIOUS
<1>7. \/ /\ blocks[insert].holds = "nothing"
         /\ blocks' = Branch(Free(bs, ReturnBlock), insert, {})
      \/ /\ blocks[insert].holds # "nothing" /\ UseEmpty(blocks, ReturnBlock)
         /\ blocks' = Branch(Free(blocks, ReturnBlock), insert, {})
      \/ blocks' = Branch(AddBasicBlock(cs, ReturnBlock), ReturnBlock, {})
  BY <1>5, <1>6, Zenon DEF EndFunction
<1>8. {ReturnBlock} \ {ReturnBlock} = {}
  OBVIOUS
<1>9. CASE /\ blocks[insert].holds = "nothing"
           /\ blocks' = Branch(Free(bs, ReturnBlock), insert, {})
  <2>1. blocks[insert].holds # "terminator"
    BY <1>9
  <2>2. /\ Woven(bs, insert, {ReturnBlock}) /\ UseEmpty(bs, ReturnBlock)
        /\ bs[insert].holds = blocks[insert].holds
    BY <1>3, <1>5, <2>1, WovenRedirect
  <2>3. /\ Woven(Free(bs, ReturnBlock), insert, {})
        /\ Free(bs, ReturnBlock)[insert] = bs[insert]
    BY <1>4, <1>8, <2>2, WovenFree
  <2>4. Finished(Branch(Free(bs, ReturnBlock), insert, {}))
    BY <2>1, <2>2, <2>3, GoReturn
  <2> QED
    BY <1>1, <1>9, <2>4 DEF BlocksAgree
<1>10. CASE /\ blocks[insert].holds # "nothing" /\ UseEmpty(blocks, ReturnBlock)
            /\ blocks' = Branch(Free(blocks, ReturnBlock), insert, {})
  <2>1. blocks[insert].holds # "terminator"
    <3> SUFFICES ASSUME blocks[insert].holds = "terminator" PROVE FALSE
      OBVIOUS
    <3>1. InsertEnds(frames, blocks, insert)
      BY <1>2 DEF Agree
    <3>2. /\ blocks[insert].to # {}
          /\ \A c \in blocks[insert].to :
                c = ReturnBlock \/ \E i \in Spots(frames) : c \in Exits(frames[i])
      BY <3>1 DEF InsertEnds
    <3>3. ReturnBlock \in blocks[insert].to
      BY <1>3, <3>2
    <3>4. insert \in DOMAIN blocks
      BY <1>4, BlockFacts
    <3> QED
      BY <1>10, <3>3, <3>4 DEF UseEmpty
  <2>2. /\ Woven(Free(blocks, ReturnBlock), insert, {})
        /\ Free(blocks, ReturnBlock)[insert] = blocks[insert]
    BY <1>3, <1>4, <1>8, <1>10, WovenFree
  <2>3. Finished(Branch(Free(blocks, ReturnBlock), insert, {}))
    BY <2>1, <2>2, GoReturn
  <2> QED
    BY <1>1, <1>10, <2>3 DEF BlocksAgree
<1>11. CASE blocks' = Branch(AddBasicBlock(cs, ReturnBlock), ReturnBlock, {})
  <2>1. ReturnBlock \in {ReturnBlock}
    OBVIOUS
  <2>2. PICK ds : ds = AddBasicBlock(cs, ReturnBlock)
    OBVIOUS
  <2>3. Joins(blocks, AddBasicBlock(BranchUnlessEnded(blocks, insert, ReturnBlock), ReturnBlock),
              insert, {ReturnBlock} \ {ReturnBlock}, ReturnBlock, ReturnBlock)
    BY <1>3, <2>1, GoOut
  <2>4. Joins(blocks, ds, insert, {}, ReturnBlock, ReturnBlock)
    BY <1>6, <1>8, <2>2, <2>3
  <2>5. Woven(ds, ReturnBlock, {}) /\ ds[ReturnBlock].holds # "terminator"
    BY <2>4 DEF Joins
  <2>6. Finished(Branch(ds, ReturnBlock, {}))
    BY <2>5, GoReturn
  <2> QED
    BY <1>1, <1>11, <2>2, <2>6 DEF BlocksAgree
<1> QED
  BY <1>7, <1>9, <1>10, <1>11

\* The blocks agree with the frames at first.
LEMMA InitBlocks == Init => BlocksAgree
<1> SUFFICES ASSUME Init PROVE BlocksAgree
  OBVIOUS
<1>0. TypeOK
  BY InitInv DEF IInv
<1>1. PICK f : f = Frame("block", "list", NoBlocks)
  OBVIOUS
<1>2. f \in FrameType /\ f.kind = "block" /\ f.body = "list"
  BY <1>0, <1>1, FrameIsTyped, TypeFacts DEF NoBlocks, Frame
<1>3. frames = <<f>> /\ live = TRUE /\ status = "generating" /\ insert = 1
      /\ blocks = <<Attached, Detached>>
  BY <1>1 DEF Init, Entry
<1>4. /\ Spots(frames) = {1} /\ Len(frames) = 1 /\ frames[1] = f /\ frames \in Seq(FrameType)
  BY <1>2, <1>3 DEF Spots
<1>5. Shape(frames)
  BY <1>2, <1>4 DEF Shape
<1>6. Waiting(frames) = {2} /\ Pending(f) = {} /\ ~Opens(f)
  <2>1. Waiting(frames) = {ReturnBlock}
    BY <1>4, <1>5, OneFrameWaits
  <2> QED
    BY <1>2, <2>1 DEF ReturnBlock, Pending, Opens
<1>7. /\ Ids(blocks) = 1..2 /\ blocks \in Blocks
      /\ blocks[1] = Attached /\ blocks[2] = Detached
  BY <1>0, <1>3, TypeFacts DEF Ids
<1>8. /\ Attached.at = "function" /\ Attached.holds = "nothing" /\ Attached.to = {}
      /\ Detached.at = "detached" /\ Detached.holds = "nothing" /\ Detached.to = {}
  BY DEF Attached, Detached
<1>9. Woven(blocks, 1, {2})
  <2>1. 1 \in Ids(blocks) /\ {2} \subseteq Ids(blocks) /\ Entry = 1
    BY <1>7 DEF Entry
  <2>2. ASSUME NEW b \in Ids(blocks)
        PROVE  /\ blocks[b].holds = "nothing" /\ blocks[b].to = {}
               /\ blocks[b].at = "function" => b = 1
    <3>1. b = 1 \/ b = 2
      BY <1>7, <2>2
    <3> QED
      BY <1>7, <1>8, <3>1
  <2> QED
    BY <1>7, <1>8, <2>1, <2>2 DEF Woven
<1>10. Goes(blocks, 1)
  <2>1. 1 \in Paths(blocks)
    BY <1>7 DEF Paths, Closed, Entry
  <2> QED
    BY <1>7, <1>8, <2>1 DEF Goes
<1>11. Apart(frames)
  BY <1>2, <1>4, <1>6 DEF Apart
<1>12. InsertEnds(frames, blocks, 1) /\ EntryEnds(frames, blocks)
  BY <1>4, <1>6, <1>7, <1>8 DEF InsertEnds, EntryEnds, Entry
<1>13. \A i \in Spots(frames) : LoopRepeats(frames, blocks, i) /\ PathKept(frames, blocks, i)
  BY <1>2, <1>4 DEF LoopRepeats, PathKept
<1>14. TopAgrees(frames[Len(frames)], blocks, 1, TRUE)
  BY <1>2, <1>4, <1>10 DEF TopAgrees, Bare
<1>15. Agree(frames, blocks, 1, TRUE)
  BY <1>5, <1>6, <1>9, <1>11, <1>12, <1>13, <1>14 DEF Agree
<1> QED
  BY <1>3, <1>15 DEF BlocksAgree

\* Every action keeps that the blocks agree with the frames.
LEMMA NextBlocks ==
    ASSUME ~AnyBody, IInv, BlocksAgree, [Next]_vars
    PROVE  BlocksAgree'
<1>1. ASSUME Straight PROVE BlocksAgree'
  BY <1>1, ExpressionBlocks, EnterBlocks, LeaveBlocks, ThenBlocks, EndIfBlocks, WhileBlocks,
     EndWhileBlocks, EndForBlocks, EndLabeledBlocks, ReturnBlocks, EndFunctionBlocks
     DEF Straight
<1>2. ASSUME NEW hasElse \in BOOLEAN, GenerateElse(hasElse) PROVE BlocksAgree'
  BY <1>2, ElseBlocks
<1>3. ASSUME NEW hasCondition \in BOOLEAN, GenerateFor(hasCondition) PROVE BlocksAgree'
  BY <1>3, ForBlocks
<1>4. ASSUME NEW label \in Labels, GenerateLabeled(label) PROVE BlocksAgree'
  BY <1>4, LabeledBlocks
<1>5. ASSUME NEW label \in Labels \cup {NoLabel}, Break(label) PROVE BlocksAgree'
  BY <1>5, BreakBlocks
<1>6. ASSUME NEW label \in Labels \cup {NoLabel}, Continue(label) PROVE BlocksAgree'
  <2>1. StatementDue /\ Jump("continue", label, 0)
    BY <1>6 DEF Continue, SimpleDue
  <2> QED
    BY <1>6, <2>1, ContinueBlocks, FailedBlocks
<1>7. ASSUME UNCHANGED vars PROVE BlocksAgree'
  BY <1>7 DEF vars, BlocksAgree
<1> QED
  BY <1>1, <1>2, <1>3, <1>4, <1>5, <1>6, <1>7, Zenon DEF Next, Straight, Stopped

\* In such a body, the constructs in progress, the blocks they created, the insert
\* block and the path that the source is on agree after every step of the
\* generators.
THEOREM BlocksAlwaysAgree ==
    ASSUME ~AnyBody
    PROVE  Spec => []BlocksAgree
<1>1. Init => BlocksAgree
  BY InitBlocks
<1>2. IInv /\ BlocksAgree /\ [Next]_vars => BlocksAgree'
  BY NextBlocks
<1> QED
  BY <1>1, <1>2, Invariant, PTL DEF Spec

\* In such a body, nothing is ever generated behind a terminator, and the
\* finished function has terminated blocks only, which branch to each other: the
\* blocks that EndIf erases, EndLabeled releases and EndFunction joins have no
\* branch left to them.
THEOREM FunctionsAlwaysWellFormed ==
    ASSUME ~AnyBody
    PROVE  Spec => []WellFormed
<1>1. ASSUME BlocksAgree, IInv PROVE WellFormed
  <2>1. BlockIds = Ids(blocks)
    BY DEF BlockIds, Ids
  <2>2. CASE status # "done"
    <3>1. Woven(blocks, insert, Waiting(frames))
      BY <1>1, <2>2 DEF BlocksAgree, Agree
    <3> QED
      BY <2>1, <2>2, <3>1 DEF WellFormed, Woven
  <2>3. CASE status = "done"
    <3>1. Finished(blocks)
      BY <1>1, <2>3 DEF BlocksAgree
    <3> QED
      BY <2>1, <3>1 DEF WellFormed, Finished
  <2> QED
    BY <2>2, <2>3
<1> QED
  BY <1>1, Invariant, BlocksAlwaysAgree, PTL

\* In such a body, code that the source can reach is put into a block that the
\* function can reach, and only such code.
THEOREM ReachabilityAlwaysAgrees ==
    ASSUME ~AnyBody
    PROVE  Spec => []ReachabilityAgrees
<1>1. ASSUME BlocksAgree, IInv PROVE ReachabilityAgrees
  <2> SUFFICES ASSUME status = "generating", Top.body # "none"
               PROVE  live <=> insert \in Reached /\ blocks[insert].holds # "terminator"
    BY DEF ReachabilityAgrees
  <2>1. /\ Woven(blocks, insert, Waiting(frames))
        /\ TopAgrees(frames[Len(frames)], blocks, insert, live)
    BY <1>1 DEF BlocksAgree, Agree
  <2>2. Reached = Paths(blocks)
    BY <2>1, WovenFlows, ReachedPaths
  <2>3. ~Bare(frames[Len(frames)])
    BY DEF Bare, Top, Height
  <2> QED
    BY <2>1, <2>2, <2>3 DEF TopAgrees, Goes
<1> QED
  BY <1>1, Invariant, BlocksAlwaysAgree, PTL

=============================================================================
