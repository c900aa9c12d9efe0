-------------------------- MODULE WasmMemoryProofs --------------------------
(***************************************************************************)
(* Proofs about WasmMemory, for every layout, page size, word size and     *)
(* alignment: 32-bit wrap around, the sizes kept by growMemory, what sbrk  *)
(* grants, and the distance between the stack and the break.               *)
(***************************************************************************)
EXTENDS WasmMemory, TLAPS

(* Division with remainder, and its uniqueness.                            *)
LEMMA DivMod ==
    ASSUME NEW x \in Int, NEW q \in Nat \ {0}
    PROVE  /\ x \div q \in Int
           /\ x = q * (x \div q) + (x % q)
           /\ x % q \in 0 .. q - 1
OBVIOUS

LEMMA SmallMultiple ==
    ASSUME NEW q \in Nat \ {0}, NEW a \in Int, q * a < q, q * a > -q
    PROVE  a = 0
<1>1. CASE a >= 1
  <2>1. q * a >= q * 1
    BY <1>1
  <2>2. QED
    BY <2>1
<1>2. CASE a <= -1
  <2>1. q * a <= q * (-1)
    BY <1>2
  <2>2. QED
    BY <2>1
<1>3. QED
  BY <1>1, <1>2

LEMMA DivModUnique ==
    ASSUME NEW q \in Nat \ {0}, NEW k \in Int, NEW r \in 0 .. q - 1
    PROVE  (q * k + r) % q = r /\ (q * k + r) \div q = k
<1> DEFINE x == q * k + r
<1>1. x \in Int /\ x \div q \in Int /\ x % q \in 0 .. q - 1
  BY DivMod
<1>2. q * k + r = q * (x \div q) + (x % q)
  BY DivMod
<1>3. q * (k - (x \div q)) = (x % q) - r
  BY <1>1, <1>2
<1>4. q * (k - (x \div q)) < q /\ q * (k - (x \div q)) > -q
  BY <1>1, <1>3
<1>5. k - (x \div q) = 0
  BY <1>1, <1>4, SmallMultiple
<1>6. QED
  BY <1>1, <1>2, <1>5

(* x | 0 is a signed 32-bit integer, the identity on those, and 2^32 less  *)
(* for what is just above them.                                            *)
LEMMA ToInt32Facts ==
    ASSUME NEW x \in Int
    PROVE  /\ ToInt32(x) \in Int32
           /\ x \in Int32 => ToInt32(x) = x
           /\ x \in SignBit .. 3 * SignBit - 1 => ToInt32(x) = x - 2 * SignBit
<1> DEFINE w == 2 * SignBit
<1>0. SignBit \in Nat \ {0} /\ w \in Nat \ {0}
  BY MemoryAssumption
<1>1. (x + SignBit) % w \in 0 .. w - 1
  BY <1>0, DivMod
<1>2. ToInt32(x) \in Int32
  BY <1>0, <1>1 DEF ToInt32, Int32
<1>3. ASSUME x \in Int32 PROVE ToInt32(x) = x
  <2>1. x + SignBit \in 0 .. w - 1
    BY <1>0, <1>3 DEF Int32
  <2>2. (w * 0 + (x + SignBit)) % w = x + SignBit
    BY <1>0, <2>1, DivModUnique
  <2>3. QED
    BY <1>0, <2>2 DEF ToInt32
<1>4. ASSUME x \in SignBit .. 3 * SignBit - 1 PROVE ToInt32(x) = x - w
  <2>1. x - SignBit \in 0 .. w - 1
    BY <1>0, <1>4
  <2>2. (w * 1 + (x - SignBit)) % w = x - SignBit
    BY <1>0, <2>1, DivModUnique
  <2>3. w * 1 + (x - SignBit) = x + SignBit
    BY <1>0
  <2>4. QED
    BY <1>0, <2>2, <2>3 DEF ToInt32
<1>5. QED
  BY <1>2, <1>3, <1>4

(* Rounding up to the alignment: at least the increment, or, when the sum  *)
(* wraps around, the smallest integer.                                     *)
LEMMA RoundedFacts ==
    ASSUME NEW increment \in Int32
    PROVE  /\ Rounded(increment) \in Int
           /\ \/ Rounded(increment) \in increment .. SignBit - 1
              \/ Rounded(increment) = -SignBit
<1>0. /\ SignBit \in Nat \ {0} /\ Quantum \in Nat \ {0}
      /\ SignBit % Quantum = 0 /\ Quantum <= SignBit
  BY MemoryAssumption
<1>1. increment \in Int /\ increment >= -SignBit /\ increment < SignBit
  BY <1>0 DEF Int32
<1>2. PICK y \in Int : y = increment + Quantum - 1
  BY <1>0, <1>1
<1>3. PICK x : x = ToInt32(y)
  OBVIOUS
<1>4. x \in Int32 /\ (y \in Int32 => x = y)
      /\ (y \in SignBit .. 3 * SignBit - 1 => x = y - 2 * SignBit)
  BY <1>3, ToInt32Facts
<1>5. x \in Int
  BY <1>0, <1>4 DEF Int32
<1>6. x % Quantum \in 0 .. Quantum - 1
  BY <1>0, <1>5, DivMod
<1>7. Rounded(increment) = x - (x % Quantum)
  BY <1>2, <1>3 DEF Rounded
<1>8. CASE y < SignBit
  <2>1. y \in Int32
    BY <1>0, <1>1, <1>2, <1>8 DEF Int32
  <2>2. QED
    BY <1>0, <1>1, <1>2, <1>4, <1>6, <1>7, <1>8, <2>1
<1>9. CASE y >= SignBit
  <2> DEFINE k == SignBit \div Quantum
  <2>1. y \in SignBit .. 3 * SignBit - 1
    BY <1>0, <1>1, <1>2, <1>9
  <2>2. x = y - 2 * SignBit
    BY <1>4, <2>1
  <2>3. PICK r \in 0 .. Quantum - 1 : r = y - SignBit
    BY <1>0, <1>1, <1>2, <1>9
  <2>4. SignBit = Quantum * k /\ k \in Int
    BY <1>0, DivMod
  <2>5. PICK j \in Int : j = -k
    BY <2>4
  <2>6. x = Quantum * j + r
    BY <1>0, <1>2, <2>2, <2>3, <2>4, <2>5
  <2>7. x % Quantum = r
    BY <1>0, <2>3, <2>6, DivModUnique
  <2>8. QED
    BY <1>0, <1>1, <1>2, <1>5, <1>7, <2>2, <2>3, <2>7
<1>10. QED
  BY <1>0, <1>1, <1>2, <1>5, <1>6, <1>7, <1>8, <1>9

(* A break sbrk accepts is at least the increment above the old one, and   *)
(* not negative: no wrap around goes undetected.                           *)
LEMMA AcceptedCovers ==
    ASSUME NEW increment \in Int32,
           dynamicTop \in 0 .. SignBit - 1, ~WrapsAround(increment)
    PROVE  NewTop(increment) \in 0 .. SignBit - 1 /\ NewTop(increment) >= dynamicTop + increment
<1>0. SignBit \in Nat \ {0} /\ increment \in Int /\ increment >= -SignBit /\ increment < SignBit
  BY MemoryAssumption DEF Int32
<1>1. PICK r : r = Rounded(increment)
  OBVIOUS
<1>2. r \in Int /\ (r \in increment .. SignBit - 1 \/ r = -SignBit)
  BY <1>1, RoundedFacts
<1>3. PICK y \in Int : y = dynamicTop + r
  BY <1>0, <1>2
<1>4. PICK top : top = NewTop(increment)
  OBVIOUS
<1>5. top = ToInt32(y)
  BY <1>1, <1>3, <1>4 DEF NewTop
<1>6. top \in Int32 /\ (y \in Int32 => top = y)
      /\ (y \in SignBit .. 3 * SignBit - 1 => top = y - 2 * SignBit)
  BY <1>5, ToInt32Facts
<1>7. top \in Int /\ top >= 0
  BY <1>0, <1>4, <1>6 DEF WrapsAround, Int32
<1>8. top \in 0 .. SignBit - 1
  BY <1>0, <1>6, <1>7 DEF Int32
<1>9. CASE y < SignBit
  <2>1. y \in Int32
    BY <1>0, <1>2, <1>3, <1>9 DEF Int32
  <2>2. top = y /\ y = dynamicTop + r
    BY <1>3, <1>6, <2>1
  <2>3. r # -SignBit
    BY <1>0, <1>7, <2>2
  <2>4. r >= increment
    BY <1>0, <1>2, <2>3
  <2>5. QED
    BY <1>0, <1>2, <1>4, <1>8, <2>2, <2>4
<1>10. CASE y >= SignBit
  <2>1. y \in SignBit .. 3 * SignBit - 1
    BY <1>0, <1>2, <1>3, <1>10
  <2>2. top = y - 2 * SignBit
    BY <1>6, <2>1
  <2>3. y < 2 * SignBit
    BY <1>0, <1>2, <1>3
  <2>4. QED
    BY <1>0, <1>7, <2>2, <2>3
<1>11. QED
  BY <1>0, <1>3, <1>9, <1>10

LEMMA MultipleWitness ==
    ASSUME NEW x \in Int, NEW p \in Nat \ {0}, x % p = 0
    PROVE  \E k \in Int : x = p * k
<1>1. x \div p \in Int /\ x = p * (x \div p) + (x % p)
  BY DivMod
<1>2. x = p * (x \div p)
  BY <1>1
<1>3. QED
  BY <1>1, <1>2

LEMMA WitnessMultiple ==
    ASSUME NEW p \in Nat \ {0}, NEW k \in Int
    PROVE  (p * k) % p = 0 /\ (p * k) \div p = k
<1>1. 0 \in 0 .. p - 1
  OBVIOUS
<1>2. (p * k + 0) % p = 0 /\ (p * k + 0) \div p = k
  BY <1>1, DivModUnique
<1>3. p * k + 0 = p * k
  OBVIOUS
<1>4. QED
  BY <1>2, <1>3

(* Sums and differences of whole pages are whole pages.                    *)
LEMMA SumMultiple ==
    ASSUME NEW p \in Nat \ {0}, NEW x \in Int, NEW y \in Int, x % p = 0, y % p = 0,
           NEW s \in Int, s = x + y
    PROVE  s % p = 0
<1>1. PICK j \in Int : x = p * j
  BY MultipleWitness
<1>2. PICK k \in Int : y = p * k
  BY MultipleWitness
<1>3. PICK a \in Int : a = j + k
  OBVIOUS
<1>4. s = p * a
  BY <1>1, <1>2, <1>3
<1>5. QED
  BY <1>4, WitnessMultiple

LEMMA DifferencePages ==
    ASSUME NEW p \in Nat \ {0}, NEW x \in Int, NEW y \in Int, x % p = 0, y % p = 0,
           NEW d \in Int, d = x - y
    PROVE  d % p = 0 /\ (d \div p) * p = d
<1>1. PICK j \in Int : x = p * j
  BY MultipleWitness
<1>2. PICK k \in Int : y = p * k
  BY MultipleWitness
<1>3. PICK a \in Int : a = j - k
  OBVIOUS
<1>4. d = p * a
  BY <1>1, <1>2, <1>3
<1>5. d % p = 0 /\ d \div p = a
  BY <1>4, WitnessMultiple
<1>6. a * p = p * a
  OBVIOUS
<1>7. QED
  BY <1>4, <1>5, <1>6

LEMMA AlignUpFacts ==
    ASSUME NEW x \in Nat, NEW p \in Nat \ {0}
    PROVE  AlignUp(x, p) \in Nat /\ AlignUp(x, p) >= x /\ AlignUp(x, p) % p = 0
<1>1. PICK m \in 0 .. p - 1 : m = x % p
  BY DivMod
<1>2. CASE m = 0
  BY <1>1, <1>2 DEF AlignUp
<1>3. CASE m > 0
  <2>1. AlignUp(x, p) = x + (p - m)
    BY <1>1, <1>3 DEF AlignUp
  <2>2. x = p * (x \div p) + m /\ x \div p \in Int
    BY <1>1, DivMod
  <2>3. PICK k \in Int : k = (x \div p) + 1
    BY <2>2
  <2>4. x + (p - m) = p * k + 0
    BY <2>2, <2>3
  <2>5. (p * k + 0) % p = 0
    <3>1. 0 \in 0 .. p - 1
      OBVIOUS
    <3>2. QED
      BY <3>1, DivModUnique
  <2>6. QED
    BY <1>3, <2>1, <2>4, <2>5
<1>4. QED
  BY <1>1, <1>2, <1>3

LEMMA AlignMemoryFacts ==
    ASSUME NEW x \in Nat
    PROVE  AlignMemory(x) \in Nat /\ AlignMemory(x) >= x
<1>0. Quantum \in Nat \ {0}
  BY MemoryAssumption
<1>1. PICK k \in Int, m \in 0 .. Quantum - 1 :
         x + Quantum - 1 = Quantum * k + m /\ k = (x + Quantum - 1) \div Quantum
  BY <1>0, DivMod
<1>2. AlignMemory(x) = Quantum * k
  BY <1>0, <1>1 DEF AlignMemory
<1>3. QED
  BY <1>0, <1>1, <1>2

(* The layout: the static data, the stack and the heap in this order.      *)
LEMMA Layout ==
    /\ StaticTop \in Nat /\ StackBase \in Nat /\ StackTop \in Nat /\ DynamicBase \in Nat
    /\ StaticTop <= StackBase /\ StackBase <= StackTop /\ StackTop <= DynamicBase
    /\ StackTop = StackBase + TotalStack
    /\ DynamicBase <= InitialMemory
<1>0. GlobalBase \in Nat /\ StaticBump \in Nat /\ TotalStack \in Nat
  BY MemoryAssumption
<1>1. StaticTop \in Nat
  BY <1>0 DEF StaticTop
<1>2. StackBase \in Nat /\ StackBase >= StaticTop
  BY <1>1, AlignMemoryFacts DEF StackBase
<1>3. StackTop \in Nat /\ StackTop = StackBase + TotalStack
  BY <1>0, <1>2 DEF StackTop
<1>4. DynamicBase \in Nat /\ DynamicBase >= StackTop
  BY <1>3, AlignMemoryFacts DEF DynamicBase
<1>5. QED
  BY <1>0, <1>1, <1>2, <1>3, <1>4, StackFits

(* The constants as the steps below use them.                              *)
LEMMA Sizes ==
    /\ SignBit \in Nat \ {0} /\ PageSize \in Nat \ {0}
    /\ Limit \in Nat \ {0} /\ Limit = SignBit - PageSize /\ Limit % PageSize = 0
    /\ 2 * PageSize <= SignBit
    /\ FastGrowth \in Int /\ 4 * FastGrowth <= SignBit
    /\ InitialMemory \in 1 .. Limit /\ InitialMemory % PageSize = 0
    /\ DynamicBase \in Nat /\ DynamicBase <= InitialMemory /\ StackTop \in Nat
<1>0. /\ SignBit \in Nat \ {0} /\ PageSize \in Nat \ {0} /\ 2 * PageSize <= SignBit
      /\ InitialMemory \in Nat \ {0} /\ InitialMemory <= SignBit - PageSize
      /\ InitialMemory % PageSize = 0 /\ SignBit % PageSize = 0
  BY MemoryAssumption
<1>1. Limit \in Nat \ {0} /\ Limit = SignBit - PageSize /\ InitialMemory \in 1 .. Limit
  BY <1>0 DEF Limit
<1>2. Limit % PageSize = 0
  <2>1. PICK w \in Int : w = SignBit
    BY <1>0
  <2>2. PICK q \in Nat \ {0} : q = PageSize
    BY <1>0
  <2>3. q % q = 0
    <3>1. (q * 1) % q = 0
      BY WitnessMultiple
    <3>2. q * 1 = q
      OBVIOUS
    <3>3. QED
      BY <3>1, <3>2
  <2>4. PICK d \in Int : d = w - q
    OBVIOUS
  <2>5. d % q = 0
    <3>1. w % q = 0 /\ q \in Int
      BY <1>0, <2>1, <2>2
    <3>2. QED
      BY <2>3, <2>4, <3>1, DifferencePages, Zenon
  <2>6. QED
    BY <1>1, <2>1, <2>2, <2>4, <2>5
<1>3. FastGrowth \in Int /\ 4 * FastGrowth <= SignBit
  <2>1. SignBit \div 4 \in Int /\ SignBit = 4 * (SignBit \div 4) + (SignBit % 4)
        /\ SignBit % 4 \in 0 .. 4 - 1
    BY <1>0, DivMod
  <2>2. QED
    BY <1>0, <2>1 DEF FastGrowth
<1>4. QED
  BY <1>0, <1>1, <1>2, <1>3, Layout

(* IInv holds initially.                                                   *)
LEMMA InitInv == Init => IInv
<1> SUFFICES ASSUME Init PROVE IInv
  OBVIOUS
<1>1. TypeOK
  BY Sizes DEF Init, TypeOK, Int32
<1>2. SizesAgree /\ Growing /\ WholePages
  BY Sizes DEF Init, SizesAgree, Growing, WholePages
<1>3. StackInPlace
  BY DEF Init, StackInPlace, Outermost
<1>4. BreakInRange /\ HeapIsBacked
  BY Sizes DEF Init, BreakInRange, HeapIsBacked
<1>5. QED
  BY <1>1, <1>2, <1>3, <1>4 DEF IInv

(* A break that sbrk accepts is a 32-bit integer, not negative.            *)
LEMMA AcceptedRange ==
    ASSUME NEW increment \in Int32, dynamicTop \in Int32, ~WrapsAround(increment)
    PROVE  NewTop(increment) \in Int32 /\ NewTop(increment) \in Nat
<1>1. Rounded(increment) \in Int
  BY RoundedFacts
<1>2. PICK y \in Int : y = dynamicTop + Rounded(increment)
  BY <1>1, Sizes DEF Int32
<1>3. NewTop(increment) = ToInt32(y)
  BY <1>2 DEF NewTop
<1>4. NewTop(increment) \in Int32
  BY <1>3, ToInt32Facts
<1>5. QED
  BY <1>4, Sizes DEF WrapsAround, Int32

(* An exception leaves no frame, and says so.                              *)
LEMMA ThrowFacts ==
    ASSUME TypeOK, Throw
    PROVE  /\ answer' = "exception" /\ frames' = <<>> /\ stackPtr' = stackPtr
           /\ frames' \in Seq(Nat)
           /\ faults' \subseteq {"growth", "unwound", "clobbered"} /\ "growth" \in faults'
           /\ faults \subseteq faults'
           /\ "clobbered" \in faults' => "clobbered" \in faults
           /\ frames # <<>> => "unwound" \in faults'
BY DEF TypeOK, Throw

LEMMA ThrowKeepsStack ==
    ASSUME TypeOK, StackInPlace, Throw
    PROVE  StackInPlace'
<1>1. CASE frames = <<>>
  BY <1>1, ThrowFacts DEF StackInPlace, Outermost
<1>2. CASE frames # <<>>
  BY <1>2, ThrowFacts DEF StackInPlace
<1>3. QED
  BY <1>1, <1>2

LEMMA SbrkKeepsInv == IInv /\ Sbrk => IInv'
<1> SUFFICES ASSUME IInv, NEW increment \in Int32,
                    \/ SbrkRefused(increment)
                    \/ SbrkInPlace(increment)
                    \/ SbrkGrows(increment)
                    \/ SbrkTooLarge(increment)
             PROVE  IInv'
  BY MemoryAssumption DEF Sbrk
<1> USE DEF IInv
<1>1. dynamicTop \in Int32 /\ totalMemory \in 1 .. Limit /\ size \in Nat
  BY DEF TypeOK
<1>2. CASE SbrkRefused(increment)
  <2>1. TypeOK'
    BY <1>2 DEF SbrkRefused, TypeOK
  <2>2. (SizesAgree /\ Growing /\ WholePages /\ BreakInRange /\ HeapIsBacked)'
    BY <1>2 DEF SbrkRefused, SizesAgree, Growing, WholePages, BreakInRange, HeapIsBacked
  <2>3. StackInPlace'
    BY <1>2 DEF SbrkRefused, StackInPlace, Outermost
  <2>4. QED
    BY <2>1, <2>2, <2>3
<1>3. CASE SbrkInPlace(increment)
  <2>0. NewTop(increment) \in Int32 /\ NewTop(increment) \in Nat
    BY <1>1, <1>3, AcceptedRange DEF SbrkInPlace
  <2>1. TypeOK'
    BY <1>3, <2>0 DEF SbrkInPlace, TypeOK
  <2>2. (SizesAgree /\ Growing /\ WholePages)'
    BY <1>3 DEF SbrkInPlace, SizesAgree, Growing, WholePages
  <2>3. (BreakInRange /\ HeapIsBacked)'
    BY <1>1, <1>3, <2>0 DEF SbrkInPlace, SizesAgree, BreakInRange, HeapIsBacked
  <2>4. StackInPlace'
    BY <1>3 DEF SbrkInPlace, StackInPlace, Outermost
  <2>5. QED
    BY <2>1, <2>2, <2>3, <2>4
<1>4. CASE SbrkGrows(increment)
  <2>0. NewTop(increment) \in Int32 /\ NewTop(increment) \in Nat
    BY <1>1, <1>4, AcceptedRange DEF SbrkGrows
  <2>1. TypeOK'
    BY <1>4, <2>0 DEF SbrkGrows, TypeOK
  <2>2. (SizesAgree /\ Growing /\ WholePages)'
    BY <1>1, <1>4, Sizes DEF SbrkGrows, SizesAgree, Growing, WholePages
  <2>3. (BreakInRange /\ HeapIsBacked)'
    BY <1>4, <2>0 DEF SbrkGrows, BreakInRange, HeapIsBacked
  <2>4. StackInPlace'
    BY <1>4 DEF SbrkGrows, StackInPlace, Outermost
  <2>5. QED
    BY <2>1, <2>2, <2>3, <2>4
<1>5. CASE SbrkTooLarge(increment)
  <2>0. NewTop(increment) \in Int32 /\ NewTop(increment) \in Nat
    BY <1>1, <1>5, AcceptedRange DEF SbrkTooLarge
  <2>1. Throw
    BY <1>5 DEF SbrkTooLarge
  <2>2. TypeOK'
    BY <1>5, <2>0, <2>1, ThrowFacts DEF SbrkTooLarge, TypeOK
  <2>3. (SizesAgree /\ Growing /\ WholePages /\ HeapIsBacked)'
    BY <1>5, <2>1, ThrowFacts DEF SbrkTooLarge, SizesAgree, Growing, WholePages, HeapIsBacked
  <2>4. BreakInRange'
    BY <1>5, <2>0 DEF SbrkTooLarge, BreakInRange
  <2>5. StackInPlace'
    BY <2>1, ThrowKeepsStack
  <2>6. QED
    BY <2>2, <2>3, <2>4, <2>5
<1>6. QED
  BY <1>2, <1>3, <1>4, <1>5

LEMMA GrowthKeepsInv == IInv /\ Growth => IInv'
<1> SUFFICES ASSUME IInv, Growth PROVE IInv'
  OBVIOUS
<1> USE DEF IInv
<1>1. /\ totalMemory \in 1 .. Limit /\ oldSize \in 1 .. Limit /\ size \in Nat
      /\ dynamicTop \in Int /\ totalMemory % PageSize = 0 /\ totalMemory \in Nat
  BY Sizes DEF TypeOK, WholePages, Int32
<1>2. CASE GrowFast
  <2>1. totalMemory' = totalMemory + totalMemory /\ totalMemory' \in 1 .. Limit
        /\ totalMemory' >= totalMemory
    BY <1>1, <1>2, Sizes DEF GrowFast
  <2>2. totalMemory' % PageSize = 0
    <3>1. totalMemory' = totalMemory + totalMemory /\ totalMemory' \in Int /\ totalMemory \in Int
      BY <1>1, <2>1, Sizes
    <3>2. QED
      BY <1>1, <3>1, SumMultiple, Sizes, Zenon
  <2>3. TypeOK'
    BY <1>2, <2>1 DEF GrowFast, TypeOK
  <2>4. (Growing /\ WholePages)'
    BY <1>1, <1>2, <2>1, <2>2, Sizes DEF GrowFast, Growing, WholePages
  <2>5. (SizesAgree /\ StackInPlace /\ BreakInRange /\ HeapIsBacked)'
    BY <1>2 DEF GrowFast, SizesAgree, StackInPlace, Outermost, BreakInRange, HeapIsBacked
  <2>6. QED
    BY <2>3, <2>4, <2>5
<1>3. CASE GrowSlowly
  <2> DEFINE d == (SignBit - totalMemory) \div 4
             increase == AlignUp(d, PageSize)
  <2>1. d \in Nat
    <3>1. PICK x \in Nat : x = SignBit - totalMemory
      BY <1>1, Sizes
    <3>2. x \div 4 \in Int /\ x = 4 * (x \div 4) + (x % 4) /\ x % 4 \in 0 .. 4 - 1
      BY DivMod
    <3>3. QED
      BY <3>1, <3>2
  <2>2. increase \in Nat /\ increase % PageSize = 0
    BY <2>1, AlignUpFacts, Sizes
  <2> HIDE DEF increase
  <2>3. (totalMemory + increase) % PageSize = 0
    <3>1. PICK s \in Int : s = totalMemory + increase
      BY <1>1, <2>2
    <3>2. s % PageSize = 0
      <4>1. totalMemory \in Int /\ increase \in Int
        BY <1>1, <2>2
      <4>2. QED
        BY <1>1, <2>2, <3>1, <4>1, SumMultiple, Sizes, Zenon
    <3>3. QED
      BY <3>1, <3>2
  <2>4. totalMemory' = IF totalMemory + increase <= Limit THEN totalMemory + increase ELSE Limit
    BY <1>3 DEF GrowSlowly, increase
  <2>5. totalMemory' \in 1 .. Limit /\ totalMemory' >= totalMemory
    BY <1>1, <2>2, <2>4, Sizes
  <2>6. totalMemory' % PageSize = 0
    BY <2>3, <2>4, Sizes
  <2>7. TypeOK'
    BY <1>3, <2>5 DEF GrowSlowly, TypeOK
  <2>8. (Growing /\ WholePages)'
    BY <1>1, <1>3, <2>5, <2>6, Sizes DEF GrowSlowly, Growing, WholePages
  <2>9. (SizesAgree /\ StackInPlace /\ BreakInRange /\ HeapIsBacked)'
    BY <1>3 DEF GrowSlowly, SizesAgree, StackInPlace, Outermost, BreakInRange, HeapIsBacked
  <2>10. QED
    BY <2>7, <2>8, <2>9
<1>4. CASE MemoryGrow
  <2>1. oldSize <= totalMemory /\ oldSize % PageSize = 0 /\ dynamicTop <= totalMemory
    BY <1>1, <1>4 DEF MemoryGrow, Growing, Short
  <2>2. size' = size + (totalMemory - oldSize)
    <3>1. PICK d \in Int : d = totalMemory - oldSize
      BY <1>1
    <3>2. (d \div PageSize) * PageSize = d
      <4>1. totalMemory \in Int /\ oldSize \in Int
        BY <1>1, Sizes
      <4>2. QED
        BY <1>1, <2>1, <3>1, <4>1, DifferencePages, Sizes, Zenon
    <3>3. QED
      BY <1>4, <3>1, <3>2 DEF MemoryGrow
  <2>3. size' \in Nat
    BY <1>1, <2>1, <2>2
  <2>4. TypeOK'
    BY <1>4, <2>3 DEF MemoryGrow, TypeOK
  <2>5. (SizesAgree /\ HeapIsBacked)'
    BY <1>1, <1>4, <2>1, <2>2 DEF MemoryGrow, SizesAgree, HeapIsBacked
  <2>6. (Growing /\ WholePages /\ BreakInRange /\ StackInPlace)'
    BY <1>4 DEF MemoryGrow, Growing, WholePages, BreakInRange, StackInPlace, Outermost
  <2>7. QED
    BY <2>4, <2>5, <2>6
<1>5. CASE MemoryGrowRefused
  <2>1. Throw
    BY <1>5 DEF MemoryGrowRefused
  <2>2. TypeOK'
    BY <1>5, <2>1, ThrowFacts DEF MemoryGrowRefused, TypeOK
  <2>3. (SizesAgree /\ Growing /\ WholePages /\ BreakInRange /\ HeapIsBacked)'
    BY <1>5, <2>1, ThrowFacts
       DEF MemoryGrowRefused, SizesAgree, Growing, WholePages, BreakInRange, HeapIsBacked
  <2>4. StackInPlace'
    BY <2>1, ThrowKeepsStack
  <2>5. QED
    BY <2>2, <2>3, <2>4
<1>6. QED
  BY <1>2, <1>3, <1>4, <1>5 DEF Growth

(* Compiled code keeps the invariant: the outermost frame keeps the stack  *)
(* pointer its caller started from.                                        *)
LEMMA CallsKeepInv ==
    IInv /\ ((\E n \in FrameSizes : Enter(n)) \/ Leave \/ ImportThrows) => IInv'
<1> SUFFICES ASSUME IInv, (\E n \in FrameSizes : Enter(n)) \/ Leave \/ ImportThrows
             PROVE  IInv'
  OBVIOUS
<1> USE DEF IInv
<1>1. ASSUME NEW n \in FrameSizes, Enter(n) PROVE IInv'
  <2>1. n \in Nat /\ stackPtr \in Nat /\ frames \in Seq(Nat)
    BY MemoryAssumption DEF TypeOK
  <2>2. stackPtr' \in Nat /\ frames' = Append(frames, stackPtr) /\ frames' \in Seq(Nat)
    BY <1>1, <2>1 DEF Enter
  <2>3. dynamicTop' \in Int32 /\ faults \subseteq faults'
        /\ faults' \subseteq {"growth", "unwound", "clobbered"}
    BY <1>1, MemoryAssumption DEF Enter, TypeOK
  <2>4. TypeOK'
    BY <1>1, <2>2, <2>3 DEF Enter, TypeOK
  <2>5. Outermost' = Outermost
    BY <2>1, <2>2 DEF Outermost
  <2>6. \/ "clobbered" \in faults'
        \/ dynamicTop' = dynamicTop /\ faults' = faults
    BY <1>1 DEF Enter
  <2>7. pc = "run" /\ UNCHANGED <<size, totalMemory, pc, oldSize>>
    BY <1>1 DEF Enter
  <2>8. (SizesAgree /\ Growing /\ WholePages)'
    BY <2>3, <2>7 DEF SizesAgree, Growing, WholePages
  <2>9. (StackInPlace /\ BreakInRange /\ HeapIsBacked)'
    BY <2>3, <2>5, <2>6, <2>7 DEF StackInPlace, BreakInRange, HeapIsBacked
  <2>10. QED
    BY <2>4, <2>8, <2>9
<1>2. CASE Leave
  <2>1. frames \in Seq(Nat) /\ frames # <<>> /\ Len(frames) \in Nat \ {0}
    BY <1>2 DEF Leave, TypeOK
  <2>2. stackPtr' = frames[Len(frames)] /\ frames' = SubSeq(frames, 1, Len(frames) - 1)
    BY <1>2 DEF Leave
  <2>3. stackPtr' \in Nat /\ frames' \in Seq(Nat)
    BY <2>1, <2>2
  <2>4. Outermost' = Outermost
    <3>1. CASE Len(frames) = 1
      BY <2>1, <2>2, <3>1 DEF Outermost
    <3>2. CASE Len(frames) > 1
      <4>1. Len(frames') = Len(frames) - 1 /\ frames'[1] = frames[1]
        BY <2>1, <2>2, <3>2
      <4>2. frames' # <<>>
        BY <3>2, <4>1, <2>1
      <4>3. QED
        BY <2>1, <4>1, <4>2 DEF Outermost
    <3>3. Len(frames) = 1 \/ Len(frames) > 1
      <4>1. \A l \in Nat \ {0} : l = 1 \/ l > 1
        OBVIOUS
      <4>2. QED
        BY <2>1, <4>1, Zenon
    <3>4. QED
      BY <3>1, <3>2, <3>3
  <2>5. UNCHANGED memVars /\ UNCHANGED faults
    BY <1>2 DEF Leave
  <2>6. TypeOK'
    BY <2>3, <2>5 DEF memVars, TypeOK
  <2>7. QED
    BY <2>4, <2>5, <2>6
       DEF memVars, SizesAgree, Growing, WholePages, StackInPlace, BreakInRange, HeapIsBacked
<1>3. CASE ImportThrows
  <2>1. frames' = <<>> /\ faults' = faults \cup {"unwound"} /\ UNCHANGED <<memVars, stackPtr>>
    BY <1>3 DEF ImportThrows
  <2>2. TypeOK'
    BY <2>1 DEF memVars, TypeOK
  <2>3. QED
    BY <2>1, <2>2
       DEF memVars, SizesAgree, Growing, WholePages, StackInPlace, BreakInRange, HeapIsBacked
<1>4. QED
  BY <1>1, <1>2, <1>3

LEMMA NextInv == IInv /\ [Next]_vars => IInv'
<1> SUFFICES ASSUME IInv, [Next]_vars PROVE IInv'
  OBVIOUS
<1>1. CASE UNCHANGED vars
  BY <1>1 DEF vars, IInv, TypeOK, SizesAgree, Growing, WholePages, StackInPlace, Outermost,
              BreakInRange, HeapIsBacked
<1>2. QED
  BY <1>1, SbrkKeepsInv, GrowthKeepsInv, CallsKeepInv DEF Next

(* The sizes, the break and the stack pointer keep their invariant in      *)
(* every reachable state.                                                  *)
THEOREM MemoryInvariant == Spec => []IInv
<1>1. QED
  BY InitInv, NextInv, PTL DEF Spec

(* Until a growth fails, what sbrk has handed out is inside the memory:    *)
(* for every word size, page size, layout and sequence of requests.        *)
THEOREM HeapBacked == Spec => []HeapIsBacked
<1>1. IInv => HeapIsBacked
  BY DEF IInv
<1>2. QED
  BY <1>1, MemoryInvariant, PTL

(* Every grant covers its request, whatever wraps around.                  *)
THEOREM GrantsCover == Spec => GrantCoversRequest
<1>1. IInv /\ [Next]_vars =>
        [\A increment \in Increments :
            "clobbered" \notin faults /\ (SbrkInPlace(increment) \/ SbrkGrows(increment))
              => dynamicTop' >= dynamicTop + increment]_vars
  <2> SUFFICES ASSUME IInv, NEW increment \in Increments, "clobbered" \notin faults,
                      SbrkInPlace(increment) \/ SbrkGrows(increment)
               PROVE  dynamicTop' >= dynamicTop + increment
    OBVIOUS
  <2>1. increment \in Int32 /\ dynamicTop \in 0 .. SignBit - 1
    BY MemoryAssumption, Sizes DEF IInv, TypeOK, BreakInRange, Int32
  <2>2. ~WrapsAround(increment) /\ dynamicTop' = NewTop(increment)
    BY DEF SbrkInPlace, SbrkGrows
  <2>3. QED
    BY <2>1, <2>2, AcceptedCovers
<1>2. QED
  BY <1>1, MemoryInvariant, PTL DEF Spec, GrantCoversRequest

(* When the word at DYNAMIC_TOP_PTR ends below the stack, as it does when  *)
(* the global base is not a multiple of the alignment, no chain of calls   *)
(* within TOTAL_STACK overwrites the break.                                *)
THEOREM BreakOutOfReach ==
    ASSUME StaticTop + PtrSize <= StackBase
    PROVE  Spec => []BreakIntact
<1>1. Init => BreakIntact
  BY DEF Init, BreakIntact
<1>2. IInv /\ BreakIntact /\ [Next]_vars => BreakIntact'
  <2> SUFFICES ASSUME IInv, BreakIntact, [Next]_vars, "clobbered" \in faults',
                      "unwound" \notin faults'
               PROVE  FALSE
    BY DEF BreakIntact
  <2>1. PICK n \in FrameSizes : Enter(n) /\ Covers(stackPtr - n, stackPtr, DynamicTopPtr)
    <3>1. "clobbered" \notin faults \/ "unwound" \in faults
      BY DEF BreakIntact
    <3>2. CASE Sbrk
      BY <3>1, <3>2, ThrowFacts
         DEF Sbrk, SbrkRefused, SbrkInPlace, SbrkGrows, SbrkTooLarge, IInv
    <3>3. CASE Growth
      BY <3>1, <3>3, ThrowFacts
         DEF Growth, GrowFast, GrowSlowly, MemoryGrow, MemoryGrowRefused, IInv
    <3>4. CASE Leave \/ ImportThrows \/ UNCHANGED vars
      BY <3>1, <3>4 DEF Leave, ImportThrows, vars
    <3>5. ASSUME NEW n \in FrameSizes, Enter(n)
          PROVE  Covers(stackPtr - n, stackPtr, DynamicTopPtr)
      BY <3>1, <3>5 DEF Enter
    <3>6. QED
      BY <3>2, <3>3, <3>4, <3>5 DEF Next
  <2>2. "unwound" \notin faults /\ Outermost - (stackPtr - n) <= TotalStack
    BY <2>1 DEF Enter
  <2>3. Outermost = StackTop
    BY <2>2 DEF IInv, StackInPlace
  <2>4. n \in Nat /\ stackPtr \in Nat /\ PtrSize \in Nat /\ TotalStack \in Nat
    BY MemoryAssumption DEF IInv, TypeOK
  <2>5. stackPtr - n >= StackBase
    BY <2>2, <2>3, <2>4, Layout
  <2>6. StaticTop + PtrSize <= stackPtr - n
    BY <2>4, <2>5, Layout
  <2>7. QED
    BY <2>1, <2>4, <2>6, Layout DEF Covers, DynamicTopPtr
<1>3. QED
  BY <1>1, <1>2, MemoryInvariant, PTL DEF Spec
=============================================================================
