----------------------------- MODULE WasmMemory -----------------------------
(***************************************************************************)
(* The linear memory of a module loaded by __moduleLoader                  *)
(* (per-file/get-wasm-module-function.ts): where the loader puts static    *)
(* data, the stack and the heap, the sbrk it gives to malloc, and          *)
(* growMemory.  Between two iterations of the growth loop no other code    *)
(* runs; the loop is a sequence of steps so that its end is a property.    *)
(*                                                                         *)
(* Sizes are bytes.  The memory holds one word the loader depends on, the  *)
(* break at DYNAMIC_TOP_PTR; compiled functions write only their frames.   *)
(***************************************************************************)
EXTENDS Integers, Sequences

CONSTANTS SignBit,        \* 2^31
          PageSize,       \* WASM_PAGE_SIZE
          Quantum,        \* the default alignment, 16
          PtrSize,        \* PTR_SIZE
          GlobalBase, StaticBump, TotalStack, InitialMemory,  \* the loader's options
          Increments,     \* what malloc asks sbrk for
          FrameSizes,     \* what compiled functions take from the stack
          Garbage,        \* what a frame may leave in a word it covers
          MaxFrames       \* bound on nested calls

Int32 == -SignBit .. SignBit - 1

ASSUME MemoryAssumption ==
    /\ SignBit \in Nat \ {0} /\ PageSize \in Nat \ {0} /\ Quantum \in Nat \ {0}
    /\ PtrSize \in Nat \ {0}
    /\ GlobalBase \in Nat /\ StaticBump \in Nat /\ TotalStack \in Nat
    /\ InitialMemory \in Nat \ {0} /\ InitialMemory <= SignBit - PageSize
    /\ InitialMemory % PageSize = 0 /\ SignBit % PageSize = 0
    /\ SignBit % Quantum = 0 /\ PageSize % 4 = 0
    /\ Quantum <= SignBit /\ 2 * PageSize <= SignBit
    /\ Increments \subseteq Int32 /\ FrameSizes \subseteq Nat \ {0}
    /\ Garbage \subseteq Int32 /\ MaxFrames \in Nat

(* x | 0                                                                   *)
ToInt32(x) == ((x + SignBit) % (2 * SignBit)) - SignBit

(* Mutated form of Rounded: the increment is rounded down.                 *)
RoundedDown(increment) == LET x == ToInt32(increment) IN x - (x % Quantum)

(* (increment + 15) & -16                                                  *)
Rounded(increment) == LET x == ToInt32(increment + Quantum - 1) IN x - (x % Quantum)

AlignMemory(x) == ((x + Quantum - 1) \div Quantum) * Quantum

(* Mutated form of AlignUp: the rest of the page is dropped.               *)
AlignDown(x, multiple) == x - (x % multiple)

AlignUp(x, multiple) == IF x % multiple > 0 THEN x + (multiple - (x % multiple)) ELSE x

StaticTop == GlobalBase + StaticBump

(* Mutated form of StackBase: the stack starts where the static data ends. *)
StackBaseUnaligned == StaticTop

StackBase == AlignMemory(StaticTop)
StackTop == StackBase + TotalStack
DynamicBase == AlignMemory(StackTop)
DynamicTopPtr == StaticTop

Limit == SignBit - PageSize
FastGrowth == SignBit \div 4      \* 536870912

(* "Needs to be less than total Memory" (speedyjs-compiler-options.ts:51): *)
(* nothing checks it.                                                      *)
ASSUME StackFits == DynamicBase <= InitialMemory

VARIABLES size,           \* memory.buffer.byteLength
          totalMemory,
          dynamicTop,     \* heap32[DYNAMIC_TOP_PTR >> 2]
          pc,             \* "run", or "grow": inside growMemory
          oldSize,        \* growMemory's local
          answer,         \* of the last sbrk: the old break, -1 or an exception
          stackPtr, frames,   \* the stack pointer and what each active call restores
          faults          \* history: "growth" failed, "unwound" frames, "clobbered" break

memVars == <<size, totalMemory, dynamicTop, pc, oldSize, answer>>
stackVars == <<stackPtr, frames>>
vars == <<size, totalMemory, dynamicTop, pc, oldSize, answer,
          stackPtr, frames, faults>>

Init ==
    /\ size = InitialMemory
    /\ totalMemory = InitialMemory
    /\ dynamicTop = DynamicBase
    /\ pc = "run"
    /\ oldSize = InitialMemory
    /\ answer = "none"
    /\ stackPtr = StackTop
    /\ frames = <<>>
    /\ faults = {}
-----------------------------------------------------------------------------
(* sbrk                                                                    *)

NewTop(increment) == ToInt32(dynamicTop + Rounded(increment))

WrapsAround(increment) ==
    \/ Rounded(increment) > 0 /\ NewTop(increment) < dynamicTop
    \/ NewTop(increment) < 0

(* An exception thrown by sbrk takes the calling compiled frames with it.  *)
Throw ==
    /\ answer' = "exception"
    /\ frames' = <<>>
    /\ faults' = faults \cup {"growth"} \cup (IF frames = <<>> THEN {} ELSE {"unwound"})
    /\ UNCHANGED stackPtr

SbrkRefused(increment) ==
    /\ pc = "run"
    /\ WrapsAround(increment)
    /\ answer' = "-1"
    /\ UNCHANGED <<size, totalMemory, dynamicTop, pc, oldSize, stackPtr, frames, faults>>

(* Mutated form of SbrkInPlace: the old break is compared with the size.   *)
SbrkInPlaceStale(increment) ==
    /\ pc = "run"
    /\ ~WrapsAround(increment)
    /\ dynamicTop <= totalMemory
    /\ dynamicTop' = NewTop(increment)
    /\ answer' = "break"
    /\ UNCHANGED <<size, totalMemory, pc, oldSize, stackPtr, frames, faults>>

SbrkInPlace(increment) ==
    /\ pc = "run"
    /\ ~WrapsAround(increment)
    /\ NewTop(increment) <= totalMemory
    /\ dynamicTop' = NewTop(increment)
    /\ answer' = "break"
    /\ UNCHANGED <<size, totalMemory, pc, oldSize, stackPtr, frames, faults>>

(* The break is moved before growMemory is called.                         *)
SbrkGrows(increment) ==
    /\ pc = "run"
    /\ ~WrapsAround(increment)
    /\ NewTop(increment) > totalMemory
    /\ NewTop(increment) <= Limit
    /\ dynamicTop' = NewTop(increment)
    /\ pc' = "grow"
    /\ oldSize' = totalMemory
    /\ answer' = "none"
    /\ UNCHANGED <<size, totalMemory, stackPtr, frames, faults>>

SbrkTooLarge(increment) ==
    /\ pc = "run"
    /\ ~WrapsAround(increment)
    /\ NewTop(increment) > totalMemory
    /\ NewTop(increment) > Limit
    /\ dynamicTop' = NewTop(increment)
    /\ Throw
    /\ UNCHANGED <<size, totalMemory, pc, oldSize>>
-----------------------------------------------------------------------------
(* growMemory                                                              *)

Short == dynamicTop > totalMemory

GrowFast ==
    /\ pc = "grow"
    /\ Short
    /\ totalMemory <= FastGrowth
    /\ totalMemory' = totalMemory * 2
    /\ UNCHANGED <<size, dynamicTop, pc, oldSize, answer, stackPtr, frames, faults>>

GrowSlowly ==
    /\ pc = "grow"
    /\ Short
    /\ totalMemory > FastGrowth
    /\ LET increase == AlignUp((SignBit - totalMemory) \div 4, PageSize)
       IN  totalMemory' = IF totalMemory + increase <= Limit
                          THEN totalMemory + increase ELSE Limit
    /\ UNCHANGED <<size, dynamicTop, pc, oldSize, answer, stackPtr, frames, faults>>

(* memory.grow counts pages and updateHeap replaces the views.             *)
MemoryGrow ==
    /\ pc = "grow"
    /\ ~Short
    /\ size' = size + ((totalMemory - oldSize) \div PageSize) * PageSize
    /\ pc' = "run"
    /\ answer' = "break"
    /\ UNCHANGED <<totalMemory, dynamicTop, oldSize, stackPtr, frames, faults>>

(* The engine has no memory left: memory.grow throws, and neither the      *)
(* break nor totalMemory is taken back.                                    *)
MemoryGrowRefused ==
    /\ pc = "grow"
    /\ ~Short
    /\ pc' = "run"
    /\ Throw
    /\ UNCHANGED <<size, totalMemory, dynamicTop, oldSize>>
-----------------------------------------------------------------------------
(* Compiled functions: the prologue lowers the stack pointer and the       *)
(* epilogue restores it.  The program's own calls fit in TOTAL_STACK; the  *)
(* stack pointer itself is never checked.                                  *)

Outermost == IF frames = <<>> THEN stackPtr ELSE frames[1]

Covers(low, high, cell) == low < cell + PtrSize /\ cell < high

Enter(n) ==
    /\ pc = "run"
    /\ Len(frames) < MaxFrames
    /\ Outermost - (stackPtr - n) <= TotalStack
    /\ stackPtr - n >= 0
    /\ stackPtr' = stackPtr - n
    /\ frames' = Append(frames, stackPtr)
    /\ \/ /\ Covers(stackPtr - n, stackPtr, DynamicTopPtr)
          /\ dynamicTop' \in Garbage
          /\ faults' = faults \cup {"clobbered"}
       \/ UNCHANGED <<dynamicTop, faults>>
    /\ UNCHANGED <<size, totalMemory, pc, oldSize, answer>>

Leave ==
    /\ pc = "run"
    /\ frames # <<>>
    /\ stackPtr' = frames[Len(frames)]
    /\ frames' = SubSeq(frames, 1, Len(frames) - 1)
    /\ UNCHANGED <<memVars, faults>>

(* An import that throws (__cxa_throw and the others, malloc's default)    *)
(* takes the compiled frames with it; their epilogues do not run.          *)
ImportThrows ==
    /\ pc = "run"
    /\ frames # <<>>
    /\ frames' = <<>>
    /\ faults' = faults \cup {"unwound"}
    /\ UNCHANGED <<memVars, stackPtr>>

Sbrk ==
    \E increment \in Increments :
        \/ SbrkRefused(increment)
        \/ SbrkInPlace(increment)
        \/ SbrkGrows(increment)
        \/ SbrkTooLarge(increment)

Growth == GrowFast \/ GrowSlowly \/ MemoryGrow \/ MemoryGrowRefused

Next ==
    \/ Sbrk
    \/ Growth
    \/ \E n \in FrameSizes : Enter(n)
    \/ Leave
    \/ ImportThrows

Spec == Init /\ [][Next]_vars

(* growMemory runs on the caller's stack until it returns or throws.       *)
FairSpec == Spec /\ WF_vars(Growth)
-----------------------------------------------------------------------------
TypeOK ==
    /\ size \in Nat /\ totalMemory \in 1 .. Limit /\ oldSize \in 1 .. Limit
    /\ dynamicTop \in Int32
    /\ pc \in {"run", "grow"}
    /\ answer \in {"none", "break", "-1", "exception"}
    /\ stackPtr \in Nat /\ frames \in Seq(Nat)
    /\ faults \subseteq {"growth", "unwound", "clobbered"}

(* Until a growth fails, totalMemory is what the engine has: the sum of    *)
(* the pages asked for in every growth is the sum of the doublings.        *)
SizesAgree ==
    "growth" \notin faults => size = IF pc = "run" THEN totalMemory ELSE oldSize

Growing ==
    pc = "grow" => /\ dynamicTop > oldSize /\ dynamicTop <= Limit
                   /\ oldSize <= totalMemory
                   /\ oldSize % PageSize = 0

WholePages == totalMemory % PageSize = 0

(* What the active frames restore lies in the stack while nothing has been *)
(* unwound: the outermost restores STACK_TOP.                              *)
StackInPlace ==
    "unwound" \notin faults => Outermost = StackTop

(* The word at DYNAMIC_TOP_PTR is the break sbrk wrote: no chain of calls  *)
(* that fits in TOTAL_STACK reaches it, unless an exception has left the   *)
(* stack pointer low.  "the top of the heap" (line 330).                   *)
BreakIntact == "clobbered" \in faults => "unwound" \in faults

(* Until a growth fails, every byte below the break exists: what sbrk has  *)
(* handed out can be used.                                                 *)
HeapIsBacked ==
    pc = "run" /\ faults \cap {"growth", "clobbered"} = {} => dynamicTop <= size

(* sbrk answers -1 or moves the break by at least what was asked for, for  *)
(* every 32-bit increment, those whose rounding or sum wraps around        *)
(* included; so two grants never overlap.                                  *)
GrantCoversRequest ==
    [][\A increment \in Increments :
          "clobbered" \notin faults /\ (SbrkInPlace(increment) \/ SbrkGrows(increment))
            => dynamicTop' >= dynamicTop + increment]_vars

BreakInRange == "clobbered" \notin faults => dynamicTop >= 0

IInv ==
    /\ TypeOK
    /\ SizesAgree /\ Growing /\ WholePages
    /\ StackInPlace
    /\ BreakInRange /\ HeapIsBacked

(* growMemory returns or throws: the loop reaches every size it is asked   *)
(* for that is within the limit.                                           *)
GrowthEnds == pc = "grow" ~> pc = "run"
=============================================================================
