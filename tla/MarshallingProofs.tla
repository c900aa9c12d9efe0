------------------------- MODULE MarshallingProofs -------------------------
(***************************************************************************)
(* The conversion of the arguments of a call and of its result, for any    *)
(* classes, any graph of objects and any growth of the memory.             *)
(*                                                                         *)
(*   1. Layout: computeObjectSize, the offsets of the loop of jsToWasm and *)
(*      those of LLVM's struct agree (the recursive functions are followed *)
(*      by induction over the index of a field).                           *)
(*   2. Serialisation: the work list of serializeArgumentAndReturnTypes.   *)
(*   3. Memory: blocks and cells, and what a store leaves alone.           *)
(*   4. Objects and frames: how far the conversion of each object is, and  *)
(*      what a push, a return of a value and the end of a frame keep.      *)
(*   5. The actions, the inductive invariant ConversionInv, the theorems.  *)
(*   6. The result: the memory as a typed graph, the frames of wasmToJs.   *)
(*   7. The failures: outdated views, chains of frames, and what follows   *)
(*      from more frames than objects.  What a cycle never reaches.        *)
(***************************************************************************)
EXTENDS Marshalling, SequenceTheorems, FiniteSetTheorems, WellFoundedInduction, TLAPS

-----------------------------------------------------------------------------
(* 1. Layout.                                                              *)

(* Induction over natural numbers, as a fact about sets.                   *)
LEMMA LeastNatural ==
    ASSUME NEW T \in SUBSET Nat, T # {}
    PROVE  \E x \in T : \A y \in T : x <= y
<1> DEFINE F == {1..n : n \in T}
           R == StrictSubsetOrdering(Nat)
<1>1. IsWellFoundedOn(R, FiniteSubsetsOf(Nat))
    BY FS_StrictSubsetOrderingWellFounded
<1>2. F \subseteq FiniteSubsetsOf(Nat) /\ F # {}
  <2>1. \A n \in T : IsFiniteSet(1..n)
      BY FS_Interval
  <2>2. \A n \in T : 1..n \in SUBSET Nat
      OBVIOUS
  <2> QED
      BY <2>1, <2>2 DEF FiniteSubsetsOf
<1>3. PICK I \in F : \A J \in F : <<J, I>> \notin R
  <2> HIDE DEF F, R
  <2> QED
      BY <1>1, <1>2, WFMin
<1>4. PICK x \in T : I = 1..x
    BY <1>3
<1>5. SUFFICES ASSUME NEW y \in T, y < x PROVE FALSE
    OBVIOUS
<1>6. 1..y \subseteq 1..x /\ 1..y # 1..x
  <2>1. x \in 1..x /\ x \notin 1..y
      BY <1>5
  <2> QED
      BY <1>5, <2>1
<1>7. <<1..y, 1..x>> \in R
    BY <1>6 DEF StrictSubsetOrdering
<1>8. 1..y \in F
    OBVIOUS
<1> HIDE DEF F, R
<1> QED
    BY <1>3, <1>4, <1>7, <1>8

(* What holds of the first number of a range and passes on to the next     *)
(* holds of all of them.                                                   *)
LEMMA RangeInduction ==
    ASSUME NEW m \in Nat, NEW n \in Nat, NEW T,
           m \in T, \A i \in m..n : i < n /\ i \in T => i + 1 \in T
    PROVE  \A i \in m..n : i \in T
<1> DEFINE B == {i \in Nat : i \in m..n /\ i \notin T}
<1> SUFFICES ASSUME B # {} PROVE FALSE
    OBVIOUS
<1>1. PICK x \in B : \A y \in B : x <= y
  <2>1. B \in SUBSET Nat
      OBVIOUS
  <2> HIDE DEF B
  <2> QED
      BY <2>1, LeastNatural
<1>2. x # m /\ x \in m..n /\ x \in Nat
    BY <1>1
<1>3. x - 1 \in m..n /\ x - 1 < n /\ x - 1 \in Nat
    BY <1>2
<1>4. x - 1 \in T
  <2>1. x - 1 \notin B
    <3> HIDE DEF B
    <3> QED
        BY <1>1, <1>2, <1>3
  <2> QED
      BY <1>3, <2>1
<1>5. (x - 1) + 1 \in T
    BY <1>3, <1>4
<1> QED
    BY <1>1, <1>3, <1>5

-----------------------------------------------------------------------------
(* Alignment.  A value takes one, four or eight bytes.                     *)
LEMMA SizeType == \A type : SizeOf(type) \in {1, 4, 8}
BY DEF SizeOf

(* alignMemory rounds up, by less than the quantum.                        *)
LEMMA AlignFacts ==
    ASSUME NEW size \in Nat, NEW q \in {1, 4, 8}
    PROVE  /\ AlignTo(size, q) \in Nat
           /\ size <= AlignTo(size, q) /\ AlignTo(size, q) < size + q
           /\ AlignTo(size, q) % q = 0
<1>1. CASE q = 1
    BY <1>1 DEF AlignTo
<1>2. CASE q = 4
    BY <1>2 DEF AlignTo
<1>3. CASE q = 8
    BY <1>3 DEF AlignTo
<1> QED
    BY <1>1, <1>2, <1>3

(* A later end is aligned to a later address.                              *)
LEMMA AlignMonotone ==
    ASSUME NEW a \in Nat, NEW b \in Nat, NEW q \in {1, 4, 8}, a <= b
    PROVE  AlignTo(a, q) <= AlignTo(b, q) /\ AlignTo(b + q, q) = AlignTo(b, q) + q
<1>1. CASE q = 1
    BY <1>1 DEF AlignTo
<1>2. CASE q = 4
    BY <1>2 DEF AlignTo
<1>3. CASE q = 8
    BY <1>3 DEF AlignTo
<1> QED
    BY <1>1, <1>2, <1>3

(* A block holds what it is asked for and keeps the break aligned.         *)
LEMMA BlockSizeFacts ==
    ASSUME NEW size \in Nat
    PROVE  BlockSize(size) \in Nat /\ BlockSize(size) % 8 = 0 /\ BlockSize(size) >= 8 /\ BlockSize(size) >= size
<1>1. CASE size = 0
    BY <1>1 DEF BlockSize
<1>2. CASE size > 0
    BY <1>2 DEF BlockSize, AlignTo
<1> QED
    BY <1>1, <1>2

-----------------------------------------------------------------------------
(* The three recursions of a layout have values.                           *)
IsSizes(fields, n, f) ==
    f = [i \in 0..n |-> IF i = 0 THEN 0 ELSE AlignTo(f[i-1] + SizeOf(fields[i]), SizeOf(fields[i]))]
IsOffsets(fields, n, f) ==
    f = [i \in 1..n |-> IF i = 1 THEN 0
                        ELSE AlignTo(f[i-1] + SizeOf(fields[i-1]), SizeOf(fields[i]))]
Padded(end, quantum) ==
    CHOOSE a \in end..(end + 7) : /\ a % quantum = 0
                                  /\ \A b \in end..(a - 1) : b % quantum # 0
IsStruct(fields, n, f) ==
    f = [i \in 1..n |->
            IF i = 1 THEN 0 ELSE Padded(f[i-1] + SizeOf(fields[i-1]), SizeOf(fields[i]))]

(* The sizes of the prefixes of the fields.                                *)
LEMMA SizesExist ==
    ASSUME NEW fields, NEW n \in Nat
    PROVE  \E f : IsSizes(fields, n, f)
<1> DEFINE T == {m \in Nat : \E f : IsSizes(fields, m, f)}
<1>1. 0 \in T
  <2>1. IsSizes(fields, 0, [i \in 0..0 |-> 0])
      BY DEF IsSizes
  <2> QED
      BY <2>1
<1>2. ASSUME NEW m \in 0..n, m < n /\ m \in T PROVE m + 1 \in T
  <2>1. PICK g : IsSizes(fields, m, g)
      BY <1>2
  <2> DEFINE h == [i \in 0..(m+1) |-> IF i = m + 1 THEN AlignTo(g[m] + SizeOf(fields[m+1]), SizeOf(fields[m+1])) ELSE g[i]]
  <2>2. \A i \in 0..(m+1) :
            h[i] = IF i = 0 THEN 0 ELSE AlignTo(h[i-1] + SizeOf(fields[i]), SizeOf(fields[i]))
    <3> SUFFICES ASSUME NEW i \in 0..(m+1)
                 PROVE h[i] = IF i = 0 THEN 0 ELSE AlignTo(h[i-1] + SizeOf(fields[i]), SizeOf(fields[i]))
        OBVIOUS
    <3>1. \A j \in 0..m : h[j] = g[j]
        OBVIOUS
    <3>2. CASE i = m + 1
      <4>1. h[i] = AlignTo(g[m] + SizeOf(fields[m+1]), SizeOf(fields[m+1])) /\ i - 1 = m /\ i # 0
          BY <3>2
      <4> HIDE DEF h
      <4> QED
          BY <3>1, <3>2, <4>1
    <3>3. CASE i # m + 1
      <4>1. i \in 0..m
          BY <3>3
      <4>2. g[i] = IF i = 0 THEN 0 ELSE AlignTo(g[i-1] + SizeOf(fields[i]), SizeOf(fields[i]))
          BY <2>1, <4>1 DEF IsSizes
      <4>3. i # 0 => i - 1 \in 0..m
          BY <4>1
      <4> HIDE DEF h
      <4> QED
          BY <3>1, <4>1, <4>2, <4>3
    <3> QED
        BY <3>2, <3>3
  <2>3. IsSizes(fields, m + 1, h)
      BY <2>2 DEF IsSizes
  <2> QED
      BY <2>3
<1>3. \A i \in 0..n : i \in T
  <2> HIDE DEF T
  <2> QED
      BY <1>1, <1>2, RangeInduction
<1> QED
    BY <1>3
(* The offsets of the loop of jsToWasm.                                    *)
LEMMA OffsetsExist ==
    ASSUME NEW fields, NEW n \in Nat
    PROVE  \E f : IsOffsets(fields, n, f)
<1> DEFINE T == {m \in Nat : \E f : IsOffsets(fields, m, f)}
<1>1. 0 \in T
  <2>1. IsOffsets(fields, 0, <<>>)
      BY DEF IsOffsets
  <2> QED
      BY <2>1
<1>2. ASSUME NEW m \in 0..n, m < n /\ m \in T PROVE m + 1 \in T
  <2>1. PICK g : IsOffsets(fields, m, g)
      BY <1>2
  <2> DEFINE h == [i \in 1..(m+1) |-> IF i = m + 1 THEN (IF m = 0 THEN 0 ELSE AlignTo(g[m] + SizeOf(fields[m]), SizeOf(fields[m+1]))) ELSE g[i]]
  <2>2. \A i \in 1..(m+1) :
            h[i] = IF i = 1 THEN 0 ELSE AlignTo(h[i-1] + SizeOf(fields[i-1]), SizeOf(fields[i]))
    <3> SUFFICES ASSUME NEW i \in 1..(m+1)
                 PROVE h[i] = IF i = 1 THEN 0 ELSE AlignTo(h[i-1] + SizeOf(fields[i-1]), SizeOf(fields[i]))
        OBVIOUS
    <3>1. \A j \in 1..m : h[j] = g[j]
        OBVIOUS
    <3>2. CASE i = m + 1
      <4>1. h[i] = (IF m = 0 THEN 0 ELSE AlignTo(g[m] + SizeOf(fields[m]), SizeOf(fields[m+1]))) /\ i - 1 = m /\ (i = 1 <=> m = 0)
          BY <3>2
      <4>2. m # 0 => m \in 1..m
          OBVIOUS
      <4> HIDE DEF h
      <4> QED
          BY <3>1, <3>2, <4>1, <4>2
    <3>3. CASE i # m + 1
      <4>1. i \in 1..m
          BY <3>3
      <4>2. g[i] = IF i = 1 THEN 0 ELSE AlignTo(g[i-1] + SizeOf(fields[i-1]), SizeOf(fields[i]))
          BY <2>1, <4>1 DEF IsOffsets
      <4>3. i # 1 => i - 1 \in 1..m
          BY <4>1
      <4> HIDE DEF h
      <4> QED
          BY <3>1, <4>1, <4>2, <4>3
    <3> QED
        BY <3>2, <3>3
  <2>3. IsOffsets(fields, m + 1, h)
      BY <2>2 DEF IsOffsets
  <2> QED
      BY <2>3
<1>3. \A i \in 0..n : i \in T
  <2> HIDE DEF T
  <2> QED
      BY <1>1, <1>2, RangeInduction
<1> QED
    BY <1>3
(* The offsets of LLVM's struct.                                           *)
LEMMA StructsExist ==
    ASSUME NEW fields, NEW n \in Nat
    PROVE  \E f : IsStruct(fields, n, f)
<1> DEFINE T == {m \in Nat : \E f : IsStruct(fields, m, f)}
<1>1. 0 \in T
  <2>1. IsStruct(fields, 0, <<>>)
      BY DEF IsStruct
  <2> QED
      BY <2>1
<1>2. ASSUME NEW m \in 0..n, m < n /\ m \in T PROVE m + 1 \in T
  <2>1. PICK g : IsStruct(fields, m, g)
      BY <1>2
  <2> DEFINE h == [i \in 1..(m+1) |-> IF i = m + 1 THEN (IF m = 0 THEN 0 ELSE Padded(g[m] + SizeOf(fields[m]), SizeOf(fields[m+1]))) ELSE g[i]]
  <2>2. \A i \in 1..(m+1) :
            h[i] = IF i = 1 THEN 0 ELSE Padded(h[i-1] + SizeOf(fields[i-1]), SizeOf(fields[i]))
    <3> SUFFICES ASSUME NEW i \in 1..(m+1)
                 PROVE h[i] = IF i = 1 THEN 0 ELSE Padded(h[i-1] + SizeOf(fields[i-1]), SizeOf(fields[i]))
        OBVIOUS
    <3>1. \A j \in 1..m : h[j] = g[j]
        OBVIOUS
    <3>2. CASE i = m + 1
      <4>1. h[i] = (IF m = 0 THEN 0 ELSE Padded(g[m] + SizeOf(fields[m]), SizeOf(fields[m+1]))) /\ i - 1 = m /\ (i = 1 <=> m = 0)
          BY <3>2
      <4>2. m # 0 => m \in 1..m
          OBVIOUS
      <4> HIDE DEF h
      <4> QED
          BY <3>1, <3>2, <4>1, <4>2
    <3>3. CASE i # m + 1
      <4>1. i \in 1..m
          BY <3>3
      <4>2. g[i] = IF i = 1 THEN 0 ELSE Padded(g[i-1] + SizeOf(fields[i-1]), SizeOf(fields[i]))
          BY <2>1, <4>1 DEF IsStruct
      <4>3. i # 1 => i - 1 \in 1..m
          BY <4>1
      <4> HIDE DEF h
      <4> QED
          BY <3>1, <4>1, <4>2, <4>3
    <3> QED
        BY <3>2, <3>3
  <2>3. IsStruct(fields, m + 1, h)
      BY <2>2 DEF IsStruct
  <2> QED
      BY <2>3
<1>3. \A i \in 0..n : i \in T
  <2> HIDE DEF T
  <2> QED
      BY <1>1, <1>2, RangeInduction
<1> QED
    BY <1>3

(* The functions the three computations choose.                            *)
LEMMA SizesAre ==
    ASSUME NEW fields, NEW n \in Nat, n = Len(fields)
    PROVE  \E f : IsSizes(fields, n, f) /\ ComputeObjectSize(fields) = f[n]
<1>1. PICK g : g = CHOOSE f : IsSizes(fields, n, f)
    OBVIOUS
<1>2. IsSizes(fields, n, g)
    BY <1>1, SizesExist
<1>3. ComputeObjectSize(fields) = g[n]
    BY <1>1 DEF ComputeObjectSize, IsSizes
<1> QED
    BY <1>2, <1>3

(* FieldOffset is one of them.                                             *)
LEMMA OffsetsAre ==
    ASSUME NEW fields, NEW n \in Nat, n = Len(fields)
    PROVE  \E f : IsOffsets(fields, n, f) /\ \A i \in 1..n : FieldOffset(fields, i) = f[i]
<1>1. PICK g : g = CHOOSE f : IsOffsets(fields, n, f)
    OBVIOUS
<1>2. IsOffsets(fields, n, g)
    BY <1>1, OffsetsExist
<1>3. \A i \in 1..n : FieldOffset(fields, i) = g[i]
    BY <1>1 DEF FieldOffset, IsOffsets
<1> QED
    BY <1>2, <1>3

(* StructOffset is one of them.                                            *)
LEMMA StructsAre ==
    ASSUME NEW elements, NEW n \in Nat, n = Len(elements)
    PROVE  \E f : IsStruct(elements, n, f) /\ \A i \in 1..n : StructOffset(elements, i) = f[i]
<1>1. PICK g : g = CHOOSE f : IsStruct(elements, n, f)
    OBVIOUS
<1>2. IsStruct(elements, n, g)
    BY <1>1, StructsExist
<1>3. \A i \in 1..n : StructOffset(elements, i) = g[i]
    BY <1>1 DEF StructOffset, IsStruct, Padded
<1> QED
    BY <1>2, <1>3

(* LLVM's padding is the one of alignMemory.                               *)
LEMMA PaddedAligns ==
    ASSUME NEW end \in Nat, NEW q \in {1, 4, 8}
    PROVE  Padded(end, q) = AlignTo(end, q)
<1> DEFINE P(a) == /\ a % q = 0
                   /\ \A b \in end..(a - 1) : b % q # 0
<1>1. PICK x \in Nat : x = AlignTo(end, q) /\ end <= x /\ x < end + q /\ x % q = 0
    BY AlignFacts
<1>2. x \in end..(end + 7)
    BY <1>1
<1>3. \A b \in end..(x - 1) : b % q # 0
  <2> SUFFICES ASSUME NEW b \in end..(x - 1), b % q = 0 PROVE FALSE
      OBVIOUS
  <2>1. CASE q = 1
      BY <1>1, <2>1
  <2>2. CASE q = 4
      BY <1>1, <2>2
  <2>3. CASE q = 8
      BY <1>1, <2>3
  <2> QED
      BY <2>1, <2>2, <2>3
<1>4. P(x)
    BY <1>1, <1>3
<1>5. ASSUME NEW y \in end..(end + 7), P(y) PROVE y = x
  <2>1. ~(y < x)
    <3> SUFFICES ASSUME y < x PROVE FALSE
        OBVIOUS
    <3>1. y \in end..(x - 1)
        BY <1>1
    <3> QED
        BY <1>3, <1>5, <3>1
  <2>2. ~(x < y)
    <3> SUFFICES ASSUME x < y PROVE FALSE
        OBVIOUS
    <3>1. x \in end..(y - 1)
        BY <1>1
    <3> QED
        BY <1>1, <1>5, <3>1
  <2> QED
      BY <1>1, <2>1, <2>2
<1>6. PICK z : z = Padded(end, q)
    OBVIOUS
<1>7. z \in end..(end + 7) /\ P(z)
    BY <1>2, <1>4, <1>6 DEF Padded
<1> HIDE DEF P
<1> QED
    BY <1>1, <1>5, <1>6, <1>7

(* The loop's offsets leave room for the fields before, the object's size  *)
(* for all of them, and compiled code has the same offsets.                *)
LEMMA LayoutsAgree ==
    ASSUME NEW fields, NEW n \in Nat, n = Len(fields)
    PROVE  /\ ComputeObjectSize(fields) \in Nat
           /\ \A i \in 1..n :
                /\ FieldOffset(fields, i) \in Nat
                /\ FieldOffset(fields, i) % SizeOf(fields[i]) = 0
                /\ FieldOffset(fields, i) + SizeOf(fields[i]) <= ComputeObjectSize(fields)
                /\ StructOffset(fields, i) = FieldOffset(fields, i)
           /\ \A i, j \in 1..n : i < j =>
                FieldOffset(fields, i) + SizeOf(fields[i]) <= FieldOffset(fields, j)
<1>1. PICK f : IsSizes(fields, n, f) /\ ComputeObjectSize(fields) = f[n]
    BY SizesAre
<1>2. PICK g : IsOffsets(fields, n, g) /\ \A i \in 1..n : FieldOffset(fields, i) = g[i]
    BY OffsetsAre
<1>3. PICK h : IsStruct(fields, n, h) /\ \A i \in 1..n : StructOffset(fields, i) = h[i]
    BY StructsAre
<1> DEFINE s(i) == SizeOf(fields[i])
<1>4. \A i : s(i) \in {1, 4, 8}
    BY SizeType
<1>5. f[0] = 0 /\ \A i \in 1..n : f[i] = AlignTo(f[i-1] + s(i), s(i))
    BY <1>1 DEF IsSizes
<1>6. 1 \in 1..n => g[1] = 0 /\ h[1] = 0
    BY <1>2, <1>3 DEF IsOffsets, IsStruct
<1>7. \A i \in 1..n : i # 1 => /\ g[i] = AlignTo(g[i-1] + s(i-1), s(i))
                               /\ h[i] = Padded(h[i-1] + s(i-1), s(i))
    BY <1>2, <1>3 DEF IsOffsets, IsStruct
<1> HIDE DEF s
<1>8. \A i \in 0..n : f[i] \in Nat
  <2> DEFINE T == {i \in Nat : f[i] \in Nat}
  <2>1. 0 \in T
      BY <1>5
  <2>2. ASSUME NEW i \in 0..n, i < n /\ i \in T PROVE i + 1 \in T
    <3>1. f[i+1] = AlignTo(f[i] + s(i+1), s(i+1)) /\ f[i] + s(i+1) \in Nat
        BY <1>4, <1>5, <2>2
    <3>2. s(i+1) \in {1, 4, 8}
        BY <1>4
    <3>3. f[i+1] \in Nat
        BY <3>1, <3>2, AlignFacts
    <3> QED
        BY <2>2, <3>3
  <2>3. \A i \in 0..n : i \in T
    <3> HIDE DEF T
    <3> QED
        BY <2>1, <2>2, RangeInduction
  <2> QED
      BY <2>3
<1>9. \A i \in 1..n : f[i-1] <= f[i] /\ f[i] = AlignTo(f[i-1], s(i)) + s(i)
  <2> TAKE i \in 1..n
  <2>1. i - 1 \in 0..n /\ i \in 0..n
      OBVIOUS
  <2>2. f[i-1] \in Nat /\ f[i] = AlignTo(f[i-1] + s(i), s(i)) /\ s(i) \in {1, 4, 8}
      BY <1>4, <1>5, <1>8, <2>1
  <2>3. f[i-1] <= AlignTo(f[i-1], s(i)) /\ AlignTo(f[i-1], s(i)) \in Nat
      BY <2>2, AlignFacts
  <2>4. AlignTo(f[i-1] + s(i), s(i)) = AlignTo(f[i-1], s(i)) + s(i)
    <3>1. PICK x \in Nat : x = f[i-1] /\ x <= x
        BY <2>2
    <3> QED
        BY <2>2, <3>1, AlignMonotone
  <2> QED
      BY <2>2, <2>3, <2>4
<1> DEFINE Fits(i) == /\ g[i] \in Nat /\ g[i] % s(i) = 0 /\ g[i] + s(i) <= f[i] /\ h[i] = g[i]
<1>10. \A i \in 1..n : Fits(i)
  <2> DEFINE T == {i \in Nat : Fits(i)}
  <2>1. n > 0 => 1 \in T
    <3> SUFFICES ASSUME n > 0 PROVE Fits(1)
        OBVIOUS
    <3>1. 1 \in 1..n /\ 1 - 1 = 0
        OBVIOUS
    <3>2. f[1] = AlignTo(f[0] + s(1), s(1)) /\ f[0] + s(1) \in Nat /\ s(1) \in {1, 4, 8}
        BY <1>4, <1>5, <3>1
    <3>3. f[0] + s(1) <= f[1] /\ f[1] \in Nat
        BY <3>2, AlignFacts
    <3>4. 0 % s(1) = 0
        BY <3>2
    <3> QED
        BY <1>5, <1>6, <3>1, <3>2, <3>3, <3>4
  <2>2. ASSUME NEW i \in 1..n, i < n /\ i \in T PROVE i + 1 \in T
    <3>1. Fits(i)
        BY <2>2
    <3>2. i + 1 \in 1..n /\ (i + 1) - 1 = i /\ i + 1 # 1
        BY <2>2
    <3>3. /\ g[i+1] = AlignTo(g[i] + s(i), s(i+1))
          /\ h[i+1] = Padded(h[i] + s(i), s(i+1))
        BY <1>7, <3>2
    <3>4. PICK e \in Nat : e = g[i] + s(i)
        BY <1>4, <3>1
    <3>5. /\ e <= f[i] /\ f[i] \in Nat
          /\ f[i+1] = AlignTo(f[i], s(i+1)) + s(i+1)
          /\ s(i+1) \in {1, 4, 8}
        BY <1>4, <1>8, <1>9, <3>1, <3>2, <3>4
    <3>6. AlignTo(e, s(i+1)) \in Nat /\ AlignTo(e, s(i+1)) % s(i+1) = 0
        BY <3>5, AlignFacts
    <3>7. AlignTo(f[i], s(i+1)) \in Nat /\ AlignTo(e, s(i+1)) <= AlignTo(f[i], s(i+1))
        BY <3>5, AlignFacts, AlignMonotone
    <3>8. Padded(e, s(i+1)) = AlignTo(e, s(i+1))
        BY <3>5, PaddedAligns
    <3> QED
        BY <3>1, <3>2, <3>3, <3>4, <3>5, <3>6, <3>7, <3>8
  <2>3. \A i \in 1..n : i \in T
    <3>1. CASE n = 0
        BY <3>1
    <3>2. CASE n > 0
      <4> HIDE DEF T
      <4> QED
          BY <2>1, <2>2, <3>2, RangeInduction
    <3> QED
        BY <3>1, <3>2
  <2> HIDE DEF Fits
  <2> QED
      BY <2>3
<1>11. ASSUME NEW i \in 0..n PROVE f[i] <= f[n]
  <2> DEFINE T == {j \in Nat : f[i] <= f[j]}
  <2>1. i \in T
      BY <1>8
  <2>2. ASSUME NEW j \in i..n, j < n /\ j \in T PROVE j + 1 \in T
    <3>1. f[j] <= f[j+1] /\ f[j] \in Nat /\ f[j+1] \in Nat /\ f[i] \in Nat
        BY <1>8, <1>9, <2>2
    <3> QED
        BY <2>2, <3>1
  <2>3. \A j \in i..n : j \in T
    <3>1. i \in Nat
        OBVIOUS
    <3> HIDE DEF T
    <3> QED
        BY <2>1, <2>2, <3>1, RangeInduction
  <2> QED
      BY <2>3
<1>12. ASSUME NEW i \in 1..n, NEW j \in 1..n, i < j PROVE g[i] + s(i) <= g[j]
  <2> DEFINE T == {k \in Nat : g[i] + s(i) <= g[k]}
  <2>1. \A k \in 1..n : g[k] \in Nat
      BY <1>10
  <2>2. \A k \in 1..n : k < n => g[k] + s(k) <= g[k+1]
    <3> SUFFICES ASSUME NEW k \in 1..n, k < n PROVE g[k] + s(k) <= g[k+1]
        OBVIOUS
    <3>2. k + 1 \in 1..n /\ (k + 1) - 1 = k /\ k + 1 # 1
        OBVIOUS
    <3>3. g[k] \in Nat /\ s(k) \in {1, 4, 8}
        BY <1>4, <2>1
    <3>1. g[k+1] = AlignTo(g[k] + s(k), s(k+1)) /\ g[k] + s(k) \in Nat /\ s(k+1) \in {1, 4, 8}
        BY <1>4, <1>7, <3>2, <3>3
    <3> QED
        BY <3>1, AlignFacts
  <2>3. i + 1 \in T /\ i + 1 \in Nat
      BY <1>12, <2>2
  <2>4. ASSUME NEW k \in (i+1)..n, k < n /\ k \in T PROVE k + 1 \in T
    <3>1. k \in 1..n /\ k + 1 \in 1..n /\ s(k) \in {1, 4, 8} /\ s(i) \in {1, 4, 8}
        BY <1>4, <2>4
    <3>3. g[i] \in Nat /\ g[k] \in Nat /\ g[k+1] \in Nat
        BY <2>1, <3>1
    <3>2. g[k] + s(k) <= g[k+1] /\ g[k] \in Nat /\ g[k+1] \in Nat /\ g[i] + s(i) \in Nat
        BY <2>2, <2>4, <3>1, <3>3
    <3> QED
        BY <2>4, <3>1, <3>2
  <2>5. \A k \in (i+1)..n : k \in T
    <3> HIDE DEF T
    <3> QED
        BY <2>3, <2>4, RangeInduction
  <2> QED
      BY <1>12, <2>5
<1>13. ASSUME NEW i \in 1..n PROVE g[i] + s(i) <= f[n]
  <2>1. f[i] <= f[n] /\ f[i] \in Nat /\ f[n] \in Nat /\ g[i] + s(i) <= f[i] /\ g[i] \in Nat /\ s(i) \in {1, 4, 8}
      BY <1>4, <1>8, <1>10, <1>11
  <2> QED
      BY <2>1
<1> QED
    BY <1>1, <1>2, <1>3, <1>8, <1>10, <1>12, <1>13 DEF s

(* With the methods last, the fields of a class are its first members.     *)
LEMMA FieldsFirst ==
    ASSUME NEW c \in Classes
    PROVE  /\ Fields(c) \in Seq(Types)
           /\ \A n \in 1..Len(Fields(c)) : GetFieldOffset(c, n) = n
<1> DEFINE ms == Members[c]
           S == FieldMembers(c)
           R == [type : Types, method : BOOLEAN]
<1>1. ms \in Seq(R)
    BY NamesAssumption
<1>2. Len(ms) \in Nat /\ \A i \in 1..Len(ms) : ms[i].type \in Types
  <2>1. PICK s \in Seq(R) : s = ms
      BY <1>1
  <2>2. Len(s) \in Nat /\ \A i \in 1..Len(s) : s[i] \in R
    <3> HIDE DEF R
    <3> QED
        OBVIOUS
  <2>3. \A r \in R : r.type \in Types
      OBVIOUS
  <2>4. \A i \in 1..Len(s) : s[i].type \in Types
    <3> HIDE DEF R
    <3> QED
        BY <2>2, <2>3
  <2> QED
      BY <2>1, <2>2, <2>4
<1>3. S \subseteq 1..Len(ms)
    BY DEF FieldMembers
<1>4. \A i, j \in 1..Len(ms) : i < j /\ j \in S => i \in S
    BY MethodsLast DEF FieldMembers, IsField
<1>5. PICK k \in Nat : S = 1..k
  <2> DEFINE T == {k \in Nat : S \subseteq 1..k}
  <2>1. Len(ms) \in T
      BY <1>2, <1>3
  <2>2. PICK k \in T : \A y \in T : k <= y
    <3>1. T \in SUBSET Nat
        OBVIOUS
    <3> HIDE DEF T
    <3> QED
        BY <2>1, <3>1, LeastNatural
  <2>3. k \in Nat /\ S \subseteq 1..k
      BY <2>2
  <2>4. CASE k = 0
    <3>1. 1..k = {}
        BY <2>4
    <3> HIDE DEF S
    <3> QED
        BY <2>3, <3>1
  <2>5. CASE k > 0
    <3>1. k - 1 \in Nat /\ k - 1 \notin T
      <4>1. k - 1 \in Nat /\ ~(k <= k - 1)
          BY <2>3, <2>5
      <4> HIDE DEF T
      <4> QED
          BY <2>2, <4>1
    <3>2. k \in S
        BY <2>3, <3>1
    <3>3. 1..k \subseteq S
        BY <1>2, <1>3, <1>4, <2>3, <3>2
    <3> QED
        BY <2>3, <3>3
  <2> QED
      BY <2>3, <2>4, <2>5
<1>6. k <= Len(ms)
    BY <1>2, <1>3, <1>5
<1>7. Cardinality(S) = k /\ IsFiniteSet(S)
    BY <1>5, FS_Interval
<1>8. \A m \in 1..k : Cardinality({i \in S : i <= m}) = m
  <2> TAKE m \in 1..k
  <2>1. {i \in S : i <= m} = 1..m
      BY <1>5
  <2>2. Cardinality(1..m) = m
      BY FS_Interval
  <2> QED
      BY <2>1, <2>2
<1>9. \A n \in 1..k : NthField(c, n) = n
  <2> TAKE n \in 1..k
  <2>1. \A m \in S : Cardinality({i \in S : i <= m}) = n <=> m = n
      BY <1>5, <1>8
  <2>2. NthField(c, n) = CHOOSE m \in S : Cardinality({i \in S : i <= m}) = n
      BY DEF NthField
  <2>3. n \in S
      BY <1>5
  <2> HIDE DEF S
  <2> QED
      BY <2>1, <2>2, <2>3
<1>10. Fields(c) = [n \in 1..k |-> ms[n].type]
    BY <1>7, <1>9 DEF Fields
<1>11. \A n \in 1..k : ms[n].type \in Types
    BY <1>2, <1>6
<1>12. Fields(c) \in Seq(Types) /\ Len(Fields(c)) = k
    BY <1>10, <1>11
<1> QED
    BY <1>9, <1>12 DEF GetFieldOffset

(* Compiled code reads a field where the loop stores it.                   *)
LEMMA ObjectLayout ==
    ASSUME NEW c \in Classes
    PROVE  /\ Fields(c) \in Seq(Types) /\ Len(Fields(c)) \in Nat
           /\ ComputeObjectSize(Fields(c)) \in Nat
           /\ \A n \in 1..Len(Fields(c)) :
                /\ Fields(c)[n] \in Types
                /\ FieldOffset(Fields(c), n) \in Nat
                /\ FieldOffset(Fields(c), n) % SizeOf(Fields(c)[n]) = 0
                /\ FieldOffset(Fields(c), n) + SizeOf(Fields(c)[n]) <= ComputeObjectSize(Fields(c))
                /\ CompiledOffset(c, n) = FieldOffset(Fields(c), n)
           /\ \A i, j \in 1..Len(Fields(c)) : i < j =>
                FieldOffset(Fields(c), i) + SizeOf(Fields(c)[i]) <= FieldOffset(Fields(c), j)
<1>1. PICK fs \in Seq(Types) : fs = Fields(c)
    BY FieldsFirst
<1>2. Len(fs) \in Nat /\ \A n \in 1..Len(fs) : fs[n] \in Types
    OBVIOUS
<1>3. \A n \in 1..Len(fs) : CompiledOffset(c, n) = StructOffset(fs, n)
    BY <1>1, FieldsFirst DEF CompiledOffset
<1>4. PICK n \in Nat : n = Len(fs)
    BY <1>2
<1> QED
    BY <1>1, <1>2, <1>3, <1>4, LayoutsAgree

-----------------------------------------------------------------------------
(* 2. Serialisation.                                                       *)

Pending == DOMAIN types \cup SeqRange(work)

(* The inductive invariant of the list.                                    *)
Serialised ==
    /\ call \in Calls
    /\ work \in Seq(Types \cup {"void"})
    /\ DOMAIN types \subseteq Types
    /\ \A t \in DOMAIN types : types[t] = Descriptor(t)
    /\ \A t \in DOMAIN types : Mentioned(t) \subseteq Pending
    /\ \A i \in 1..Len(call.args) : call.args[i].type \in Pending
    /\ call.result \in Pending \cup {"void"}

-----------------------------------------------------------------------------
(* Sequences and functions.                                                *)

(* What a sequence holds is its last element and what it holds without it. *)
LEMMA RangeOfFront ==
    ASSUME NEW S, NEW s \in Seq(S), s # <<>>
    PROVE  /\ SubSeq(s, 1, Len(s) - 1) \in Seq(S)
           /\ s[Len(s)] \in S
           /\ SeqRange(s) = SeqRange(SubSeq(s, 1, Len(s) - 1)) \cup {s[Len(s)]}
<1>1. Len(s) \in Nat /\ Len(s) # 0
    BY EmptySeq
<1> DEFINE f == SubSeq(s, 1, Len(s) - 1)
<1>2. f \in Seq(S) /\ Len(f) = Len(s) - 1 /\ \A i \in 1..(Len(s) - 1) : f[i] = s[i]
  <2>1. PICK n \in Nat : n = Len(s) - 1
      BY <1>1
  <2>2. \A i \in 1..n : s[i] \in S
      BY <1>1, <2>1
  <2>3. /\ SubSeq(s, 1, n) \in Seq(S)
        /\ Len(SubSeq(s, 1, n)) = IF 1 <= n THEN n - 1 + 1 ELSE 0
        /\ \A i \in 1..(n - 1 + 1) : SubSeq(s, 1, n)[i] = s[1 + i - 1]
      BY <2>2, SubSeqProperties
  <2> QED
      BY <2>1, <2>3
<1>3. SeqRange(f) = {s[i] : i \in 1..(Len(s) - 1)}
    BY <1>2 DEF SeqRange
<1>4. 1..Len(s) = (1..(Len(s) - 1)) \cup {Len(s)}
    BY <1>1
<1>5. SeqRange(s) = SeqRange(f) \cup {s[Len(s)]}
    BY <1>3, <1>4 DEF SeqRange
<1> QED
    BY <1>1, <1>2, <1>5

(* A concatenation holds what its parts hold.                              *)
LEMMA RangeOfConcat ==
    ASSUME NEW S, NEW s \in Seq(S), NEW t \in Seq(S)
    PROVE  s \o t \in Seq(S) /\ SeqRange(s \o t) = SeqRange(s) \cup SeqRange(t)
<1>1. /\ s \o t \in Seq(S) /\ Len(s \o t) = Len(s) + Len(t)
      /\ \A i \in 1..(Len(s) + Len(t)) :
            (s \o t)[i] = IF i <= Len(s) THEN s[i] ELSE t[i - Len(s)]
    BY ConcatProperties
<1>2. Len(s) \in Nat /\ Len(t) \in Nat
    OBVIOUS
<1>3. ASSUME NEW x \in SeqRange(s \o t) PROVE x \in SeqRange(s) \cup SeqRange(t)
  <2>1. PICK i \in 1..(Len(s) + Len(t)) : x = (s \o t)[i]
      BY <1>1 DEF SeqRange
  <2>2. CASE i <= Len(s)
      BY <1>1, <1>2, <2>1, <2>2 DEF SeqRange
  <2>3. CASE i > Len(s)
    <3>1. i - Len(s) \in 1..Len(t) /\ x = t[i - Len(s)]
        BY <1>1, <1>2, <2>1, <2>3
    <3> QED
        BY <3>1 DEF SeqRange
  <2> QED
      BY <1>2, <2>2, <2>3
<1>4. ASSUME NEW x \in SeqRange(s) PROVE x \in SeqRange(s \o t)
  <2>1. PICK i \in 1..Len(s) : x = s[i]
      BY DEF SeqRange
  <2>2. i \in 1..(Len(s) + Len(t)) /\ (s \o t)[i] = x
      BY <1>1, <1>2, <2>1
  <2> QED
      BY <1>1, <2>2 DEF SeqRange
<1>5. ASSUME NEW x \in SeqRange(t) PROVE x \in SeqRange(s \o t)
  <2>1. PICK i \in 1..Len(t) : x = t[i]
      BY DEF SeqRange
  <2>2. /\ Len(s) + i \in 1..(Len(s) + Len(t))
        /\ (s \o t)[Len(s) + i] = x
      BY <1>1, <1>2, <2>1
  <2> QED
      BY <1>1, <2>2 DEF SeqRange
<1> QED
    BY <1>1, <1>3, <1>4, <1>5

(* What a type's descriptor mentions are types.                            *)
LEMMA DescriptorTyped ==
    ASSUME NEW t \in Types
    PROVE  /\ Descriptor(t).fields \in Seq(Types)
           /\ Descriptor(t).typeArguments \in Seq(Types)
<1>1. <<>> \in Seq(Types)
    OBVIOUS
<1>2. t \in Arrays => ElementOf[t] \in Types
    BY NamesAssumption
<1>3. t \in Arrays => <<ElementOf[t]>> \in Seq(Types)
    BY <1>2
<1>4. t \in Classes => Fields(t) \in Seq(Types)
    BY FieldsFirst
<1> QED
    BY <1>1, <1>3, <1>4 DEF Descriptor

(* The arguments of a call have types.                                     *)
LEMMA ArgumentsTyped ==
    ASSUME NEW c \in Calls
    PROVE  Len(c.args) \in Nat /\ \A i \in 1..Len(c.args) : c.args[i].type \in Types
<1> DEFINE R == [type : Types, value : Value]
<1>1. c.args \in Seq(R)
    BY CallsAssumption
<1>2. PICK s \in Seq(R) : s = c.args
    BY <1>1
<1>3. Len(s) \in Nat /\ \A i \in 1..Len(s) : s[i] \in R
  <2> HIDE DEF R
  <2> QED
      BY <1>2
<1>4. \A r \in R : r.type \in Types
    OBVIOUS
<1>5. \A i \in 1..Len(s) : s[i].type \in Types
  <2> HIDE DEF R
  <2> QED
      BY <1>3, <1>4
<1> QED
    BY <1>2, <1>3, <1>5

(* A call starts with its types on the list.                               *)
LEMMA InitSerialised == Init => Serialised
<1> SUFFICES ASSUME Init PROVE Serialised
    OBVIOUS
<1> DEFINE args == ArgumentTypes(call)
           V == Types \cup {"void"}
<1>1. call \in Calls /\ types = <<>> /\ work = Append(args, call.result)
    BY DEF Init
<1>2. call.result \in V /\ call.args \in Seq([type : Types, value : Value])
    BY <1>1, CallsAssumption
<1>3. args \in Seq(V) /\ Len(args) = Len(call.args)
      /\ \A i \in 1..Len(call.args) : args[i] = call.args[i].type
  <2>1. Len(call.args) \in Nat
        /\ \A i \in 1..Len(call.args) : call.args[i].type \in Types
      BY <1>1, ArgumentsTyped
  <2>2. args = [i \in 1..Len(call.args) |-> call.args[i].type]
      BY DEF ArgumentTypes
  <2> QED
      BY <2>1, <2>2
<1>4. work \in Seq(V) /\ Len(work) = Len(args) + 1 /\ work[Len(args) + 1] = call.result
      /\ \A i \in 1..Len(args) : work[i] = args[i]
    BY <1>1, <1>2, <1>3, AppendProperties
<1>5. call.result \in SeqRange(work)
    BY <1>3, <1>4 DEF SeqRange
<1>6. \A i \in 1..Len(call.args) : call.args[i].type \in SeqRange(work)
    BY <1>3, <1>4 DEF SeqRange
<1>7. DOMAIN types = {}
    BY <1>1
<1> QED
    BY <1>1, <1>4, <1>5, <1>6, <1>7 DEF Serialised, Pending

-----------------------------------------------------------------------------
(* A visit takes a type from the list; what it mentions follows.           *)
LEMMA SerializePreserves ==
    ASSUME Serialised, Serialize
    PROVE  Serialised'
<1> DEFINE V == Types \cup {"void"}
           type == work[Len(work)]
           rest == SubSeq(work, 1, Len(work) - 1)
<1>1. work \in Seq(V) /\ work # <<>> /\ UNCHANGED call
    BY DEF Serialised, Serialize
<1>2. rest \in Seq(V) /\ type \in V /\ SeqRange(work) = SeqRange(rest) \cup {type}
    BY <1>1, RangeOfFront
<1>3. CASE type = "void" \/ type \in DOMAIN types
  <2>1. work' = rest /\ types' = types
      BY <1>3 DEF Serialize
  <2>2. Pending \subseteq Pending' \cup {"void"}
      BY <1>2, <1>3, <2>1 DEF Pending
  <2>3. SeqRange(work') = SeqRange(rest)
      BY <2>1 DEF SeqRange
  <2>4. \A t \in DOMAIN types : Mentioned(t) \subseteq Types
      BY DescriptorTyped DEF Serialised, Mentioned, SeqRange
  <2>5. \A i \in 1..Len(call.args) : call.args[i].type \in Types
      BY ArgumentsTyped DEF Serialised
  <2>6. "void" \notin Types
      BY NamesAssumption
  <2>7. \A t \in DOMAIN types : Mentioned(t)' = Mentioned(t)
      BY <2>1 DEF Mentioned, SeqRange
  <2>8. \A t \in DOMAIN types' : Mentioned(t)' \subseteq Pending'
      BY <2>1, <2>2, <2>4, <2>6, <2>7 DEF Serialised
  <2>9. \A i \in 1..Len(call'.args) : call'.args[i].type \in Pending'
      BY <1>1, <2>2, <2>5, <2>6 DEF Serialised
  <2> QED
      BY <1>1, <1>2, <2>1, <2>2, <2>8, <2>9 DEF Serialised
<1>4. CASE ~(type = "void" \/ type \in DOMAIN types)
  <2> DEFINE fields == Descriptor(type).fields
             arguments == Descriptor(type).typeArguments
  <2>1. /\ types' = Put(types, type, Descriptor(type))
        /\ work' = rest \o fields \o arguments
      BY <1>4 DEF Serialize
  <2>2. type \in Types
      BY <1>2, <1>4
  <2>3. fields \in Seq(V) /\ arguments \in Seq(V)
      BY <2>2, DescriptorTyped
  <2>4. PICK r \in Seq(V), f \in Seq(V), a \in Seq(V) :
            r = rest /\ f = fields /\ a = arguments
      BY <1>2, <2>3
  <2>5. /\ work' \in Seq(V)
        /\ SeqRange(work') = SeqRange(rest) \cup SeqRange(fields) \cup SeqRange(arguments)
    <3>1. PICK b \in Seq(V) : b = r \o f /\ SeqRange(b) = SeqRange(r) \cup SeqRange(f)
        BY RangeOfConcat
    <3>2. PICK w \in Seq(V) : w = b \o a /\ SeqRange(w) = SeqRange(b) \cup SeqRange(a)
        BY RangeOfConcat
    <3>3. work' = w
        BY <2>1, <2>4, <3>1, <3>2
    <3>4. SeqRange(work') = SeqRange(w)
        BY <3>3 DEF SeqRange
    <3> QED
        BY <2>4, <3>1, <3>2, <3>3, <3>4
  <2>6. DOMAIN types' = DOMAIN types \cup {type}
      BY <2>1 DEF Put
  <2>7. types'[type] = Descriptor(type) /\ \A t \in DOMAIN types : types'[t] = types[t]
      BY <1>4, <2>1 DEF Put
  <2>8. Pending' = DOMAIN types' \cup SeqRange(work')
      BY DEF Pending, SeqRange
  <2>9. Pending \subseteq Pending'
      BY <1>2, <2>5, <2>6, <2>8 DEF Pending
  <2>10. \A t \in DOMAIN types : Mentioned(t)' = Mentioned(t)
      BY <2>7 DEF Mentioned, SeqRange
  <2>11. \A t : t = type => Mentioned(t)' = SeqRange(fields) \cup SeqRange(arguments)
      BY <2>7 DEF Mentioned, SeqRange
  <2>12. \A t \in DOMAIN types' : Mentioned(t)' \subseteq Pending'
      BY <2>5, <2>6, <2>8, <2>9, <2>10, <2>11 DEF Serialised
  <2>13. \A t \in DOMAIN types' : types'[t] = Descriptor(t)
      BY <2>6, <2>7 DEF Serialised
  <2>14. \A i \in 1..Len(call'.args) : call'.args[i].type \in Pending'
      BY <1>1, <2>9 DEF Serialised
  <2> QED
      BY <1>1, <2>2, <2>5, <2>6, <2>9, <2>12, <2>13, <2>14 DEF Serialised
<1> QED
    BY <1>3, <1>4

(* Nothing else touches the list and the types.                            *)
LEMMA OthersPreserve ==
    ASSUME Serialised, UNCHANGED <<call, serialization>>
    PROVE  Serialised'
BY DEF Serialised, serialization, Pending, Mentioned, SeqRange

(* The list keeps its invariant in every step.                             *)
LEMMA NextPreserves == Serialised /\ [Next]_vars => Serialised'
<1> SUFFICES ASSUME Serialised, [Next]_vars PROVE Serialised'
    OBVIOUS
<1>1. CASE Serialize
    BY <1>1, SerializePreserves
<1>2. ASSUME Begin \/ ConvertImmediate \/ ConvertObject \/ ConvertArray \/ Finish
      PROVE  UNCHANGED <<call, serialization>>
    BY <1>2 DEF Begin, ConvertImmediate, ConvertObject, ConvertArray, Finish
<1>3. ASSUME Reject \/ Overflow \/ Detached PROVE UNCHANGED <<call, serialization>>
    BY <1>3 DEF Reject, Overflow, Detached, Fail
<1>4. ASSUME Call \/ Return \/ Open \/ ReadCell \/ Close
      PROVE  UNCHANGED <<call, serialization>>
    BY <1>4 DEF Call, Return, Open, ReadCell, Close
<1>5. ASSUME Stopped \/ UNCHANGED vars PROVE UNCHANGED <<call, serialization>>
    BY <1>5 DEF Stopped, vars
<1>6. ASSUME ~Serialize PROVE UNCHANGED <<call, serialization>>
    BY <1>2, <1>3, <1>4, <1>5, <1>6 DEF Next
<1> QED
    BY <1>1, <1>6, OthersPreserve

(* serializeArgumentAndReturnTypes never ends with a type missing that a   *)
(* conversion will ask for: jsToWasm and wasmToJs throw "Unknown type" for *)
(* no field, element, argument or result.                                  *)
THEOREM SerializedTypesClosed == Spec => []TypesClosed
<1>1. Serialised => TypesClosed
    BY DEF Serialised, TypesClosed, Pending, SeqRange
<1> QED
    BY <1>1, InitSerialised, NextPreserves, PTL DEF Spec

-----------------------------------------------------------------------------
(* Memory.  The blocks malloc has handed out are aligned, apart from each  *)
(* other and below the break; each is as large as what it is for; what has *)
(* been written lies in them.                                              *)
Laid(bs, br) ==
    /\ br \in Nat /\ br % 8 = 0 /\ br > 0
    /\ \A b \in DOMAIN bs :
         /\ b \in Nat /\ b % 8 = 0 /\ b > 0
         /\ bs[b].size \in Nat /\ b + BlockSize(bs[b].size) <= br
    /\ \A b, c \in DOMAIN bs : b < c => b + BlockSize(bs[b].size) <= c

Sized(bs) ==
    \A b \in DOMAIN bs :
        /\ bs[b].type \in Pointers \cup {"elements"}
        /\ bs[b].type \in Classes => bs[b].size = ComputeObjectSize(Fields(bs[b].type))
        /\ bs[b].type \in Arrays => bs[b].size = 12

Backed(mem, bs) ==
    \A a \in DOMAIN mem :
        /\ a \in Nat /\ mem[a].size \in {1, 4, 8}
        /\ \E b \in DOMAIN bs : b <= a /\ a + mem[a].size <= b + bs[b].size

Layout(bs, br, mem) == Laid(bs, br) /\ Sized(bs) /\ Backed(mem, bs)

(* The address lies in the block.                                          *)
InBlock(a, bs, b) == b <= a /\ a < b + BlockSize(bs[b].size)

(* Only blocks of W have been written to.                                  *)
Writes(mem, mem2, bs, W) ==
    /\ DOMAIN mem \subseteq DOMAIN mem2
    /\ \A a \in DOMAIN mem : mem2[a] # mem[a] => \E b \in W : InBlock(a, bs, b)

At(mem, a, type, v) == a \in DOMAIN mem /\ mem[a] = [size |-> SizeOf(type), v |-> v]

(* What the statement of a conversion stores for a value.                  *)
Rep(rf, value) == IF value.k = "ref" THEN rf[value.v] ELSE value.v

(* A function with one value changed or added.                             *)
LEMMA PutFacts ==
    ASSUME NEW f, NEW x, NEW y
    PROVE  /\ DOMAIN Put(f, x, y) = DOMAIN f \cup {x}
           /\ Put(f, x, y)[x] = y
           /\ \A z \in DOMAIN f : z # x => Put(f, x, y)[z] = f[z]
BY DEF Put

(* An address lies in one block.                                           *)
LEMMA BlocksApart ==
    ASSUME NEW bs, NEW br, Laid(bs, br), NEW b \in DOMAIN bs, NEW c \in DOMAIN bs,
           NEW a \in Nat, InBlock(a, bs, b), InBlock(a, bs, c)
    PROVE  b = c
<1>1. b \in Nat /\ c \in Nat
    BY DEF Laid
<1>2. bs[b].size \in Nat /\ bs[c].size \in Nat
    BY DEF Laid
<1>3. PICK k \in Nat : k = BlockSize(bs[b].size)
    BY <1>2, BlockSizeFacts
<1>4. PICK l \in Nat : l = BlockSize(bs[c].size)
    BY <1>2, BlockSizeFacts
<1>5. b < c => b + k <= c
    BY <1>3 DEF Laid
<1>6. c < b => c + l <= b
    BY <1>4 DEF Laid
<1>7. b <= a /\ a < b + k /\ c <= a /\ a < c + l
    BY <1>3, <1>4 DEF InBlock
<1> QED
    BY <1>1, <1>5, <1>6, <1>7

(* What fits into the size of a block lies in it.                          *)
LEMMA FitsInBlock ==
    ASSUME NEW bs, NEW br, Laid(bs, br), NEW b \in DOMAIN bs, NEW a \in Nat, NEW s \in {1, 4, 8},
           b <= a, a + s <= b + bs[b].size
    PROVE  InBlock(a, bs, b)
<1>1. b \in Nat /\ bs[b].size \in Nat
    BY DEF Laid
<1>2. BlockSize(bs[b].size) \in Nat /\ BlockSize(bs[b].size) >= bs[b].size
    BY <1>1, BlockSizeFacts
<1> QED
    BY <1>1, <1>2 DEF InBlock

Cell(type, v) == [size |-> SizeOf(type), v |-> v]

(* A store at an address of a block.                                       *)
LEMMA StoreKeeps ==
    ASSUME NEW bs, NEW br, NEW mem, NEW mem2, NEW type, NEW v, NEW r, Laid(bs, br), Backed(mem, bs),
           NEW b \in DOMAIN bs, NEW a \in Nat,
           b <= a, a + SizeOf(type) <= b + bs[b].size,
           r = Cell(type, v), mem2 = Put(mem, a, r)
    PROVE  /\ Backed(mem2, bs) /\ Writes(mem, mem2, bs, {b}) /\ At(mem2, a, type, v)
           /\ \A x \in DOMAIN mem : x # a => mem2[x] = mem[x]
<1>1. /\ DOMAIN mem2 = DOMAIN mem \cup {a}
      /\ mem2[a] = r
      /\ \A x \in DOMAIN mem : x # a => mem2[x] = mem[x]
  <2>1. PICK q : q = r
      OBVIOUS
  <2>2. mem2 = Put(mem, a, q)
      BY <2>1
  <2>3. mem2 = [z \in DOMAIN mem \cup {a} |-> IF z = a THEN q ELSE mem[z]]
      BY <2>2 DEF Put
  <2> QED
      BY <2>1, <2>3
<1>2. r.size = SizeOf(type) /\ r.size \in {1, 4, 8}
    BY SizeType DEF Cell
<1>3. InBlock(a, bs, b)
    BY <1>2, SizeType, FitsInBlock
<1>4. Backed(mem2, bs)
    BY <1>1, <1>2 DEF Backed
<1>5. Writes(mem, mem2, bs, {b})
    BY <1>1, <1>3 DEF Writes
<1>6. At(mem2, a, type, v)
    BY <1>1 DEF At, Cell
<1> QED
    BY <1>1, <1>4, <1>5, <1>6

(* Cells of one type in a row.                                             *)
RowIs(mem, mem2, ptr, values, type) ==
    /\ DOMAIN mem2 = DOMAIN mem \cup {ptr + (i - 1) * SizeOf(type) : i \in 1..Len(values)}
    /\ \A i \in 1..Len(values) : At(mem2, ptr + (i - 1) * SizeOf(type), type, values[i])
    /\ \A a \in DOMAIN mem : (\A i \in 1..Len(values) : a # ptr + (i - 1) * SizeOf(type)) => mem2[a] = mem[a]

(* One set of a typed array writes a row.                                  *)
LEMMA StoredRow ==
    ASSUME NEW mem, NEW view, NEW ptr \in Nat, NEW values, NEW type,
           Len(values) \in Nat, ptr % 8 = 0, view = buffer'
    PROVE  RowIs(mem, StoredAll(mem, view, ptr, values, type), ptr, values, type)
<1> DEFINE q == SizeOf(type)
           n == Len(values)
           at(i) == ptr + (i - 1) * q
<1>1. q \in {1, 4, 8}
    BY SizeType
<1>2. \A i \in 1..n : CellOf(at(i), type) = at(i) /\ at(i) \in Nat
  <2> TAKE i \in 1..n
  <2>1. PICK j \in Nat : j = i - 1
      OBVIOUS
  <2>2. (ptr + j * q) % q = 0 /\ ptr + j * q \in Nat
    <3>1. CASE q = 1
        BY <3>1
    <3>2. CASE q = 4
        BY <3>2
    <3>3. CASE q = 8
        BY <3>3
    <3> QED
        BY <1>1, <3>1, <3>2, <3>3
  <2> QED
      BY <2>1, <2>2 DEF CellOf
<1>3. \A i, j \in 1..n : at(i) = at(j) => i = j
    BY <1>1
<1> DEFINE cells == [i \in 1..n |-> CellOf(at(i), type)]
           R == SeqRange(cells)
<1>4. cells = [i \in 1..n |-> at(i)]
    BY <1>2
<1>5. Len(cells) = n /\ \A i \in 1..n : cells[i] = at(i)
  <2> HIDE DEF at
  <2> QED
      BY <1>4
<1>6. R = {at(i) : i \in 1..n}
  <2> HIDE DEF cells, at
  <2> QED
      BY <1>5 DEF SeqRange
<1> DEFINE mem2 == [a \in DOMAIN mem \cup R |->
                      IF a \in R
                      THEN [size |-> q, v |-> values[CHOOSE i \in 1..n : cells[i] = a]]
                      ELSE mem[a]]
<1>7. StoredAll(mem, view, ptr, values, type) = mem2
    BY DEF StoredAll
<1> HIDE DEF R, cells
<1>8. ASSUME NEW i \in 1..n PROVE At(mem2, at(i), type, values[i])
  <2>1. at(i) \in R
      BY <1>6
  <2>2. (CHOOSE k \in 1..n : cells[k] = at(i)) = i
    <3> HIDE DEF at, n
    <3> QED
        BY <1>3, <1>5
  <2>3. mem2[at(i)] = [size |-> q, v |-> values[i]]
      BY <2>1, <2>2
  <2> QED
      BY <2>1, <2>3 DEF At
<1>9. DOMAIN mem2 = DOMAIN mem \cup {at(i) : i \in 1..n}
    BY <1>6
<1>10. ASSUME NEW a \in DOMAIN mem, \A i \in 1..n : a # at(i) PROVE mem2[a] = mem[a]
  <2>1. a \notin R
      BY <1>6, <1>10
  <2> QED
      BY <2>1
<1> HIDE DEF mem2
<1> QED
    BY <1>7, <1>8, <1>9, <1>10 DEF RowIs

(* A row in one block.                                                     *)
LEMMA RowKeeps ==
    ASSUME NEW bs, NEW br, NEW mem, NEW mem2, NEW type, NEW values, NEW n \in Nat,
           Laid(bs, br), Backed(mem, bs), NEW b \in DOMAIN bs,
           n = Len(values), RowIs(mem, mem2, b, values, type), n * SizeOf(type) <= bs[b].size
    PROVE  Backed(mem2, bs) /\ Writes(mem, mem2, bs, {b})
<1> DEFINE q == SizeOf(type)
           at(i) == b + (i - 1) * q
<1>1. q \in {1, 4, 8} /\ b \in Nat /\ bs[b].size \in Nat
    BY SizeType DEF Laid
<1>2. \A i \in 1..n : at(i) \in Nat /\ b <= at(i) /\ at(i) + q <= b + bs[b].size
  <2> TAKE i \in 1..n
  <2>1. PICK s \in Nat : s = bs[b].size /\ n * q <= s
      BY <1>1
  <2>2. CASE q = 1
      BY <1>1, <2>1, <2>2
  <2>3. CASE q = 4
      BY <1>1, <2>1, <2>3
  <2>4. CASE q = 8
      BY <1>1, <2>1, <2>4
  <2> QED
      BY <1>1, <2>2, <2>3, <2>4
<1>3. \A i \in 1..n : InBlock(at(i), bs, b)
  <2> TAKE i \in 1..n
  <2>1. at(i) \in Nat /\ b <= at(i) /\ at(i) + q <= b + bs[b].size
      BY <1>2
  <2> HIDE DEF at, q
  <2> QED
      BY <1>1, <2>1, FitsInBlock
<1>4. /\ DOMAIN mem2 = DOMAIN mem \cup {at(i) : i \in 1..n}
      /\ \A i \in 1..n : at(i) \in DOMAIN mem2 /\ mem2[at(i)].size = q
      /\ \A a \in DOMAIN mem : (\A i \in 1..n : a # at(i)) => mem2[a] = mem[a]
  <2>1. \A i \in 1..n : At(mem2, at(i), type, values[i])
      BY DEF RowIs
  <2>2. \A i \in 1..n : at(i) \in DOMAIN mem2 /\ mem2[at(i)].size = q
    <3>1. \A a, v : At(mem2, a, type, v) => a \in DOMAIN mem2 /\ mem2[a].size = q
        BY DEF At
    <3> HIDE DEF at, q
    <3> QED
        BY <2>1, <3>1
  <2>3. DOMAIN mem2 = DOMAIN mem \cup {at(i) : i \in 1..n}
      BY DEF RowIs
  <2>4. \A a \in DOMAIN mem : (\A i \in 1..n : a # at(i)) => mem2[a] = mem[a]
      BY DEF RowIs
  <2> QED
      BY <2>2, <2>3, <2>4
<1> HIDE DEF at, q
<1>5. ASSUME NEW a \in DOMAIN mem2
      PROVE  /\ a \in Nat /\ mem2[a].size \in {1, 4, 8}
             /\ \E c \in DOMAIN bs : c <= a /\ a + mem2[a].size <= c + bs[c].size
  <2>1. CASE \E i \in 1..n : a = at(i)
      BY <1>1, <1>2, <1>4, <2>1
  <2>2. CASE ~ \E i \in 1..n : a = at(i)
    <3>1. a \in DOMAIN mem /\ mem2[a] = mem[a]
        BY <1>4, <2>2
    <3> QED
        BY <3>1 DEF Backed
  <2> QED
      BY <2>1, <2>2
<1>6. Backed(mem2, bs)
    BY <1>5 DEF Backed
<1>7. Writes(mem, mem2, bs, {b})
    BY <1>3, <1>4 DEF Writes
<1> QED
    BY <1>6, <1>7

-----------------------------------------------------------------------------
(* An object in the memory.  The operators below take the call, the        *)
(* blocks, the memory and objectReferences as arguments: they are used for *)
(* the state before, within and after a step.                              *)
CellsOf(c, o) == c.graph[o].cells

Suits(c, o, type) ==
    /\ o \in 1..Len(c.graph) /\ <<o, type>> \in c.uses
    /\ c.graph[o].ctor = IF type \in Arrays THEN "Array" ELSE type

FieldsAt(mem, ptr, class, cs, k, rf) ==
    \A i \in 1..k : At(mem, ptr + FieldOffset(Fields(class), i), Fields(class)[i], Rep(rf, cs[i]))
HeaderAt(mem, ptr, bytes, n) ==
    At(mem, ptr, "i32", ptr + 16) /\ At(mem, ptr + 4, "i32", ptr + 16 + bytes) /\ At(mem, ptr + 8, "i32", n)
ElementsAt(mem, begin, type, cs, k, rf) ==
    \A i \in 1..k : At(mem, begin + (i - 1) * SizeOf(type), type, Rep(rf, cs[i]))

Referred(cs, k, rf) == \A i \in 1..k : cs[i].k = "ref" => cs[i].v \in DOMAIN rf

(* The first k cells are at ptr, as a value of the type.                   *)
IsAt(type, cs, ptr, k, bs, mem, rf) ==
    /\ ptr \in DOMAIN bs /\ bs[ptr].type = type
    /\ k \in 0..Len(cs)
    /\ Referred(cs, k, rf)
    /\ type \in Classes => FieldsAt(mem, ptr, type, cs, k, rf)
    /\ type \in Arrays =>
          /\ ptr + 16 \in DOMAIN bs
          /\ bs[ptr + 16] = [size |-> SizeOf(ElementOf[type]) * Len(cs), type |-> "elements"]
          /\ HeaderAt(mem, ptr, SizeOf(ElementOf[type]) * Len(cs), Len(cs))
          /\ ElementsAt(mem, ptr + 16, ElementOf[type], cs, k, rf)

(* The first k cells of the object o are there.                            *)
Mirrors(c, o, type, ptr, k, bs, mem, rf) ==
    Suits(c, o, type) /\ IsAt(type, CellsOf(c, o), ptr, k, bs, mem, rf)

Extends(f, g) == DOMAIN f \subseteq DOMAIN g /\ \A x \in DOMAIN f : g[x] = f[x]

(* What the assumption says of an object that suits the type.              *)
LEMMA SuitsFacts ==
    ASSUME NEW c \in Calls, NEW o, NEW type, Suits(c, o, type)
    PROVE  /\ type \in Pointers /\ Len(CellsOf(c, o)) \in Nat
           /\ CellsOf(c, o) \in Seq(Value)
           /\ type \in Arrays => \A i \in 1..Len(CellsOf(c, o)) : HasType(c, CellsOf(c, o)[i], ElementOf[type])
           /\ type \in Classes => /\ Len(CellsOf(c, o)) = Len(Fields(type))
                                  /\ \A i \in 1..Len(CellsOf(c, o)) : HasType(c, CellsOf(c, o)[i], Fields(type)[i])
<1> DEFINE R == [ctor : STRING, cells : Seq(Value)]
           u == <<o, type>>
<1>1. /\ c.graph \in Seq(R)
      /\ c.uses \subseteq (1..Len(c.graph)) \X Pointers
    BY CallsAssumption
<1>2. u \in c.uses /\ u[1] = o /\ u[2] = type /\ o \in 1..Len(c.graph) /\ type \in Pointers
    BY <1>1 DEF Suits
<1>3. c.graph[o] \in R
  <2>1. PICK g \in Seq(R) : g = c.graph
      BY <1>1
  <2> HIDE DEF R
  <2> QED
      BY <1>2, <2>1
<1>4. CellsOf(c, o) \in Seq(Value)
    BY <1>3 DEF CellsOf
<1>5. Len(CellsOf(c, o)) \in Nat
    BY <1>4
<1>6. /\ u[2] \in Arrays /\ c.graph[u[1]].ctor = "Array" =>
            \A i \in 1..Len(c.graph[u[1]].cells) : HasType(c, c.graph[u[1]].cells[i], ElementOf[u[2]])
      /\ u[2] \in Classes /\ c.graph[u[1]].ctor = u[2] =>
            /\ Len(c.graph[u[1]].cells) = Len(Fields(u[2]))
            /\ \A i \in 1..Len(c.graph[u[1]].cells) : HasType(c, c.graph[u[1]].cells[i], Fields(u[2])[i])
  <2> HIDE DEF u
  <2> QED
      BY <1>2, CallsAssumption
<1>7. type \in Classes => type \notin Arrays
    BY NamesAssumption
<1> HIDE DEF u, R
<1> QED
    BY <1>2, <1>4, <1>5, <1>6, <1>7 DEF Suits, CellsOf

(* A cell of a block that is not written to stays.                         *)
LEMMA AtKept ==
    ASSUME NEW bs, NEW br, NEW mem, NEW mem2, NEW W \in SUBSET DOMAIN bs, Laid(bs, br),
           Writes(mem, mem2, bs, W), NEW b \in DOMAIN bs, b \notin W,
           NEW a \in Nat, NEW type, NEW v, b <= a, a + SizeOf(type) <= b + bs[b].size, At(mem, a, type, v)
    PROVE  At(mem2, a, type, v)
<1>1. InBlock(a, bs, b)
    BY SizeType, FitsInBlock
<1>2. ~ \E x \in W : InBlock(a, bs, x)
    BY <1>1, BlocksApart
<1>3. a \in DOMAIN mem /\ a \in DOMAIN mem2 /\ mem2[a] = mem[a]
    BY <1>2 DEF At, Writes
<1> QED
    BY <1>3 DEF At

(* What is stored for a value stays as objectReferences grows.             *)
LEMMA RepKept ==
    ASSUME NEW cs, NEW k, NEW rf, NEW rf2, Extends(rf, rf2), Referred(cs, k, rf)
    PROVE  Referred(cs, k, rf2) /\ \A i \in 1..k : Rep(rf2, cs[i]) = Rep(rf, cs[i])
BY DEF Extends, Referred, Rep

(* An object stays where it is as long as only other blocks are written to.*)
LEMMA MirrorsKept ==
    ASSUME NEW c \in Calls, NEW o, NEW type, NEW ptr, NEW k,
           NEW bs, NEW mem, NEW rf, NEW bs2, NEW br2, NEW mem2, NEW rf2,
           Extends(bs, bs2), Extends(rf, rf2), Laid(bs2, br2), Sized(bs2),
           NEW W \in SUBSET DOMAIN bs2, Writes(mem, mem2, bs2, W),
           ptr \notin W, type \in Arrays => ptr + 16 \notin W,
           Mirrors(c, o, type, ptr, k, bs, mem, rf)
    PROVE  Mirrors(c, o, type, ptr, k, bs2, mem2, rf2)
<1>1. PICK cs : cs = CellsOf(c, o)
    OBVIOUS
<1>2. /\ Suits(c, o, type)
      /\ ptr \in DOMAIN bs /\ bs[ptr].type = type
      /\ k \in 0..Len(cs)
      /\ Referred(cs, k, rf)
    BY <1>1 DEF Mirrors, IsAt
<1>3. /\ type \in Pointers /\ Len(cs) \in Nat
      /\ type \in Classes => Len(cs) = Len(Fields(type))
    BY <1>1, <1>2, SuitsFacts
<1>4. ptr \in DOMAIN bs2 /\ bs2[ptr].type = type /\ bs2[ptr].size \in Nat /\ ptr \in Nat
    BY <1>2 DEF Extends, Laid
<1>5. Referred(cs, k, rf2) /\ \A i \in 1..k : Rep(rf2, cs[i]) = Rep(rf, cs[i])
    BY <1>2, RepKept
<1>6. ASSUME type \in Classes PROVE FieldsAt(mem2, ptr, type, cs, k, rf2)
  <2> SUFFICES ASSUME NEW i \in 1..k
               PROVE At(mem2, ptr + FieldOffset(Fields(type), i), Fields(type)[i], Rep(rf2, cs[i]))
      BY DEF FieldsAt
  <2>1. i \in 1..Len(Fields(type))
      BY <1>2, <1>3, <1>6
  <2>2. PICK off \in Nat : off = FieldOffset(Fields(type), i)
      BY <1>6, <2>1, ObjectLayout
  <2>3. off + SizeOf(Fields(type)[i]) <= bs2[ptr].size
      BY <1>4, <1>6, <2>1, <2>2, ObjectLayout DEF Sized
  <2>4. At(mem, ptr + off, Fields(type)[i], Rep(rf, cs[i]))
      BY <1>1, <1>6, <2>2 DEF Mirrors, IsAt, FieldsAt
  <2>5. /\ ptr + off \in Nat /\ ptr <= ptr + off
        /\ ptr + off + SizeOf(Fields(type)[i]) <= ptr + bs2[ptr].size
      BY <1>4, <2>3, SizeType
  <2>6. At(mem2, ptr + off, Fields(type)[i], Rep(rf, cs[i]))
      BY <1>4, <2>4, <2>5, AtKept
  <2> QED
      BY <1>5, <2>2, <2>6
<1>7. ASSUME type \in Arrays
      PROVE  /\ ptr + 16 \in DOMAIN bs2
             /\ bs2[ptr + 16] = [size |-> SizeOf(ElementOf[type]) * Len(cs), type |-> "elements"]
             /\ HeaderAt(mem2, ptr, SizeOf(ElementOf[type]) * Len(cs), Len(cs))
             /\ ElementsAt(mem2, ptr + 16, ElementOf[type], cs, k, rf2)
  <2> DEFINE q == SizeOf(ElementOf[type])
             begin == ptr + 16
  <2>1. /\ begin \in DOMAIN bs
        /\ bs[begin] = [size |-> q * Len(cs), type |-> "elements"]
        /\ HeaderAt(mem, ptr, q * Len(cs), Len(cs))
        /\ ElementsAt(mem, begin, ElementOf[type], cs, k, rf)
      BY <1>1, <1>7 DEF Mirrors, IsAt
  <2>2. begin \in DOMAIN bs2 /\ bs2[begin] = [size |-> q * Len(cs), type |-> "elements"]
      BY <2>1 DEF Extends
  <2>3. bs2[ptr].size = 12 /\ SizeOf("i32") = 4
      BY <1>4, <1>7 DEF Sized, SizeOf
  <2>4. \A v : At(mem, ptr, "i32", v) => At(mem2, ptr, "i32", v)
    <3>1. ptr <= ptr /\ ptr + SizeOf("i32") <= ptr + bs2[ptr].size
        BY <1>4, <2>3
    <3> QED
        BY <1>4, <3>1, AtKept
  <2>5. \A v : At(mem, ptr + 4, "i32", v) => At(mem2, ptr + 4, "i32", v)
    <3>1. ptr + 4 \in Nat /\ ptr <= ptr + 4 /\ ptr + 4 + SizeOf("i32") <= ptr + bs2[ptr].size
        BY <1>4, <2>3
    <3> QED
        BY <1>4, <3>1, AtKept
  <2>6. \A v : At(mem, ptr + 8, "i32", v) => At(mem2, ptr + 8, "i32", v)
    <3>1. ptr + 8 \in Nat /\ ptr <= ptr + 8 /\ ptr + 8 + SizeOf("i32") <= ptr + bs2[ptr].size
        BY <1>4, <2>3
    <3> QED
        BY <1>4, <3>1, AtKept
  <2>7. HeaderAt(mem2, ptr, q * Len(cs), Len(cs))
      BY <2>1, <2>4, <2>5, <2>6 DEF HeaderAt
  <2>8. ASSUME NEW i \in 1..k
        PROVE  At(mem2, begin + (i - 1) * q, ElementOf[type], Rep(rf2, cs[i]))
    <3>1. At(mem, begin + (i - 1) * q, ElementOf[type], Rep(rf, cs[i]))
        BY <2>1 DEF ElementsAt
    <3>2. PICK n \in Nat : n = Len(cs) /\ i \in 1..n
        BY <1>2, <1>3
    <3>3. bs2[begin].size = q * n
        BY <2>2, <3>2
    <3>4. /\ begin + (i - 1) * q \in Nat /\ begin <= begin + (i - 1) * q
          /\ begin + (i - 1) * q + q <= begin + q * n
      <4>1. q \in {1, 4, 8}
          BY SizeType
      <4>2. CASE q = 1
          BY <1>4, <3>2, <4>2
      <4>3. CASE q = 4
          BY <1>4, <3>2, <4>3
      <4>4. CASE q = 8
          BY <1>4, <3>2, <4>4
      <4> QED
          BY <4>1, <4>2, <4>3, <4>4
    <3>5. begin \notin W
        BY <1>7
    <3>6. PICK a \in Nat : a = begin + (i - 1) * q
        BY <3>4
    <3> HIDE DEF begin
    <3>7. At(mem2, a, ElementOf[type], Rep(rf, cs[i]))
        BY <2>2, <3>1, <3>3, <3>4, <3>5, <3>6, AtKept
    <3> QED
        BY <1>5, <3>6, <3>7
  <2>9. ElementsAt(mem2, begin, ElementOf[type], cs, k, rf2)
      BY <2>8 DEF ElementsAt
  <2> QED
      BY <2>2, <2>7, <2>9
<1> QED
    BY <1>1, <1>2, <1>4, <1>5, <1>6, <1>7 DEF Mirrors, IsAt

-----------------------------------------------------------------------------
(* Frames, and the state of the conversion of the arguments.               *)
FrameSet(c) == [js : 1..Len(c.graph), type : Pointers, ptr : Nat, next : Nat, elements : Seq(Int), view : Nat]
OfObjects(type) == type \in Arrays /\ ElementOf[type] \in Pointers

(* What is converted of the object of a frame is in the memory, or in the  *)
(* Int32Array when it is an array of objects.                              *)
FrameOk(f, c, bs, mem, rf) ==
    LET cs == CellsOf(c, f.js) IN
    /\ f \in FrameSet(c)
    /\ f.next \in 1..(Len(cs) + 1)
    /\ Mirrors(c, f.js, f.type, f.ptr, IF OfObjects(f.type) THEN 0 ELSE f.next - 1, bs, mem, rf)
    /\ OfObjects(f.type) =>
          /\ Len(f.elements) = f.next - 1
          /\ Referred(cs, f.next - 1, rf)
          /\ \A i \in 1..(f.next - 1) : f.elements[i] = Rep(rf, cs[i])
    /\ f.type \in Arrays /\ ~OfObjects(f.type) => f.next = Len(cs) + 1

ObjectsThere(c, bs, mem, rf) ==
    /\ \A o \in DOMAIN rf : Mirrors(c, o, bs[rf[o]].type, rf[o], Len(CellsOf(c, o)), bs, mem, rf)
    /\ \A o, p \in DOMAIN rf : rf[o] = rf[p] => o = p

FramesThere(c, s, bs, mem, rf) ==
    /\ s \in Seq(FrameSet(c))
    /\ \A i \in 1..Len(s) : /\ FrameOk(s[i], c, bs, mem, rf)
                            /\ s[i].js \notin DOMAIN rf
                            /\ \A o \in DOMAIN rf : rf[o] # s[i].ptr
    /\ \A i, j \in 1..Len(s) : s[i].ptr = s[j].ptr => i = j

(* A frame waits for the object of the next one, an argument for the first.*)
Awaits(c, f, o) ==
    /\ f.next <= Len(CellsOf(c, f.js))
    /\ CellsOf(c, f.js)[f.next].k = "ref" /\ CellsOf(c, f.js)[f.next].v = o
Chained(c, s, wa) ==
    /\ \A i \in 1..Len(s) : i < Len(s) => Awaits(c, s[i], s[i+1].js)
    /\ s # <<>> => /\ Len(wa) < Len(c.args)
                   /\ c.args[Len(wa)+1].value.k = "ref" /\ c.args[Len(wa)+1].value.v = s[1].js

ArgumentsThere(c, wa, rf) ==
    /\ wa \in Seq(Int) /\ Len(wa) <= Len(c.args)
    /\ \A i \in 1..Len(wa) : /\ c.args[i].value.k = "ref" => c.args[i].value.v \in DOMAIN rf
                             /\ wa[i] = Rep(rf, c.args[i].value)

(* Every block is an object's or holds the elements of one.                *)
BlocksUsed(s, bs, rf) ==
    \A b \in DOMAIN bs : \/ bs[b].type = "elements"
                         \/ \E o \in DOMAIN rf : rf[o] = b
                         \/ \E i \in 1..Len(s) : s[i].ptr = b

Outbound(c, s, wa, bs, mem, rf) ==
    /\ ObjectsThere(c, bs, mem, rf) /\ FramesThere(c, s, bs, mem, rf) /\ Chained(c, s, wa)
    /\ ArgumentsThere(c, wa, rf) /\ BlocksUsed(s, bs, rf)

(* The value that is converted next.                                       *)
Wants(c, s, wa) ==
    IF s = <<>> THEN Len(wa) < Len(c.args)
    ELSE s[Len(s)].next <= Len(CellsOf(c, s[Len(s)].js))
NextValue(c, s, wa) ==
    IF s = <<>> THEN c.args[Len(wa) + 1].value
    ELSE CellsOf(c, s[Len(s)].js)[s[Len(s)].next]

-----------------------------------------------------------------------------
(* The stack below its top.                                                *)
LEMMA FrontFacts ==
    ASSUME NEW S, NEW s \in Seq(S), s # <<>>
    PROVE  /\ Below(s) \in Seq(S) /\ Len(s) \in Nat /\ Len(s) > 0 /\ s[Len(s)] \in S
           /\ Len(Below(s)) = Len(s) - 1
           /\ \A i \in 1..(Len(s) - 1) : Below(s)[i] = s[i]
<1>1. Len(s) \in Nat /\ Len(s) # 0
    BY EmptySeq
<1>2. PICK n \in Nat : n = Len(s) - 1
    BY <1>1
<1>3. \A i \in 1..n : s[i] \in S
    BY <1>1, <1>2
<1>4. /\ SubSeq(s, 1, n) \in Seq(S)
      /\ Len(SubSeq(s, 1, n)) = IF 1 <= n THEN n - 1 + 1 ELSE 0
      /\ \A i \in 1..(n - 1 + 1) : SubSeq(s, 1, n)[i] = s[1 + i - 1]
    BY <1>3, SubSeqProperties
<1> QED
    BY <1>1, <1>2, <1>4 DEF Below

(* A sequence with a value appended.                                       *)
LEMMA AppendFacts ==
    ASSUME NEW S, NEW s \in Seq(S), NEW x \in S
    PROVE  /\ Append(s, x) \in Seq(S) /\ Len(s) \in Nat
           /\ Len(Append(s, x)) = Len(s) + 1
           /\ Append(s, x)[Len(s) + 1] = x
           /\ \A i \in 1..Len(s) : Append(s, x)[i] = s[i]
BY AppendProperties

(* A frame keeps while only other blocks are written to.                   *)
LEMMA FrameKept ==
    ASSUME NEW c \in Calls, NEW f,
           NEW bs, NEW mem, NEW rf, NEW bs2, NEW br2, NEW mem2, NEW rf2,
           Extends(bs, bs2), Extends(rf, rf2), Laid(bs2, br2), Sized(bs2),
           NEW W \in SUBSET DOMAIN bs2, Writes(mem, mem2, bs2, W),
           f.ptr \notin W, f.type \in Arrays => f.ptr + 16 \notin W,
           FrameOk(f, c, bs, mem, rf)
    PROVE  FrameOk(f, c, bs2, mem2, rf2)
<1>1. PICK k : k = IF OfObjects(f.type) THEN 0 ELSE f.next - 1
    OBVIOUS
<1>2. Mirrors(c, f.js, f.type, f.ptr, k, bs, mem, rf)
    BY <1>1 DEF FrameOk
<1>3. Mirrors(c, f.js, f.type, f.ptr, k, bs2, mem2, rf2)
    BY <1>2, MirrorsKept
<1>4. OfObjects(f.type) =>
          /\ Referred(CellsOf(c, f.js), f.next - 1, rf2)
          /\ \A i \in 1..(f.next - 1) : f.elements[i] = Rep(rf2, CellsOf(c, f.js)[i])
  <2> SUFFICES ASSUME OfObjects(f.type)
               PROVE  /\ Referred(CellsOf(c, f.js), f.next - 1, rf2)
                      /\ \A i \in 1..(f.next - 1) : f.elements[i] = Rep(rf2, CellsOf(c, f.js)[i])
      OBVIOUS
  <2>1. /\ Referred(CellsOf(c, f.js), f.next - 1, rf)
        /\ \A i \in 1..(f.next - 1) : f.elements[i] = Rep(rf, CellsOf(c, f.js)[i])
      BY DEF FrameOk
  <2>2. /\ Referred(CellsOf(c, f.js), f.next - 1, rf2)
        /\ \A i \in 1..(f.next - 1) : Rep(rf2, CellsOf(c, f.js)[i]) = Rep(rf, CellsOf(c, f.js)[i])
    <3>1. PICK cs, m : cs = CellsOf(c, f.js) /\ m = f.next - 1
        OBVIOUS
    <3>2. Referred(cs, m, rf)
        BY <2>1, <3>1
    <3>3. Referred(cs, m, rf2) /\ \A i \in 1..m : Rep(rf2, cs[i]) = Rep(rf, cs[i])
        BY <3>2, RepKept
    <3> QED
        BY <3>1, <3>3
  <2> QED
      BY <2>1, <2>2
<1> QED
    BY <1>1, <1>3, <1>4 DEF FrameOk

(* The blocks of an object of the memory.                                  *)
LEMMA MirrorsBlocks ==
    ASSUME NEW c, NEW o, NEW type, NEW ptr, NEW k, NEW bs, NEW mem, NEW rf,
           Mirrors(c, o, type, ptr, k, bs, mem, rf)
    PROVE  /\ Suits(c, o, type) /\ ptr \in DOMAIN bs /\ bs[ptr].type = type
           /\ k \in 0..Len(CellsOf(c, o)) /\ Referred(CellsOf(c, o), k, rf)
           /\ type \in Arrays => ptr + 16 \in DOMAIN bs /\ bs[ptr + 16].type = "elements"
BY DEF Mirrors, IsAt

(* So do the objects that are complete.                                    *)
LEMMA ObjectsKept ==
    ASSUME NEW c \in Calls,
           NEW bs, NEW mem, NEW rf, NEW bs2, NEW br2, NEW mem2,
           Extends(bs, bs2), Laid(bs2, br2), Sized(bs2),
           NEW W \in SUBSET DOMAIN bs2, Writes(mem, mem2, bs2, W),
           \A o \in DOMAIN rf : rf[o] \notin W /\ (bs[rf[o]].type \in Arrays => rf[o] + 16 \notin W),
           NEW rf2, Extends(rf, rf2), NEW o \in DOMAIN rf, ObjectsThere(c, bs, mem, rf)
    PROVE  Mirrors(c, o, bs2[rf2[o]].type, rf2[o], Len(CellsOf(c, o)), bs2, mem2, rf2)
<1>1. PICK type, ptr, k : type = bs[rf[o]].type /\ ptr = rf[o] /\ k = Len(CellsOf(c, o))
    OBVIOUS
<1>2. Mirrors(c, o, type, ptr, k, bs, mem, rf)
    BY <1>1 DEF ObjectsThere
<1>3. ptr \notin W /\ (type \in Arrays => ptr + 16 \notin W)
    BY <1>1
<1>4. Mirrors(c, o, type, ptr, k, bs2, mem2, rf2)
    BY <1>2, <1>3, MirrorsKept
<1>5. rf2[o] = ptr /\ bs2[ptr].type = type
    BY <1>1, <1>2, MirrorsBlocks DEF Extends
<1> QED
    BY <1>1, <1>4, <1>5

(* jsToWasm begins with an object: blocks are added, the frame joins.      *)
LEMMA PushKeeps ==
    ASSUME NEW c \in Calls, NEW s, NEW wa, NEW bs, NEW mem, NEW rf, NEW bs2, NEW br2, NEW mem2, NEW f,
           Outbound(c, s, wa, bs, mem, rf),
           Extends(bs, bs2), Laid(bs2, br2), Sized(bs2),
           NEW W \in SUBSET DOMAIN bs2, W \cap DOMAIN bs = {}, Writes(mem, mem2, bs2, W),
           FrameOk(f, c, bs2, mem2, rf), f.ptr \notin DOMAIN bs, f.js \notin DOMAIN rf,
           \A b \in DOMAIN bs2 \ DOMAIN bs : b = f.ptr \/ bs2[b].type = "elements",
           Wants(c, s, wa), NextValue(c, s, wa).k = "ref", NextValue(c, s, wa).v = f.js
    PROVE  Outbound(c, Append(s, f), wa, bs2, mem2, rf)
<1>1. PICK S : S = FrameSet(c)
    OBVIOUS
<1>2. s \in Seq(S) /\ f \in S
    BY <1>1 DEF Outbound, FramesThere, FrameOk
<1>3. PICK t \in Seq(S) : t = Append(s, f)
    BY <1>2, AppendFacts
<1>4. PICK n \in Nat : n = Len(s)
    BY <1>2
<1>5. /\ Len(t) = n + 1 /\ t[n + 1] = f
      /\ \A i \in 1..n : t[i] = s[i]
    BY <1>2, <1>3, <1>4, AppendFacts
<1>6. Extends(rf, rf)
    BY DEF Extends
<1>7. \A o \in DOMAIN rf : rf[o] \in DOMAIN bs /\ (bs[rf[o]].type \in Arrays => rf[o] + 16 \in DOMAIN bs)
  <2> TAKE o \in DOMAIN rf
  <2>1. PICK type, ptr, k : type = bs[rf[o]].type /\ ptr = rf[o] /\ k = Len(CellsOf(c, o))
      OBVIOUS
  <2>2. Mirrors(c, o, type, ptr, k, bs, mem, rf)
      BY <2>1 DEF Outbound, ObjectsThere
  <2> QED
      BY <2>1, <2>2, MirrorsBlocks
<1>8. ObjectsThere(c, bs2, mem2, rf)
  <2>1. \A o \in DOMAIN rf : rf[o] \notin W /\ (bs[rf[o]].type \in Arrays => rf[o] + 16 \notin W)
      BY <1>7
  <2>2. ObjectsThere(c, bs, mem, rf)
      BY DEF Outbound
  <2>3. ASSUME NEW o \in DOMAIN rf
        PROVE  Mirrors(c, o, bs2[rf[o]].type, rf[o], Len(CellsOf(c, o)), bs2, mem2, rf)
      BY <1>6, <2>1, <2>2, ObjectsKept
  <2> QED
      BY <2>2, <2>3 DEF ObjectsThere
<1>9. ASSUME NEW i \in 1..n
      PROVE  /\ FrameOk(s[i], c, bs2, mem2, rf) /\ s[i].ptr \in DOMAIN bs
             /\ s[i].js \notin DOMAIN rf /\ \A o \in DOMAIN rf : rf[o] # s[i].ptr
  <2>1. PICK g : g = s[i]
      OBVIOUS
  <2>2. FrameOk(g, c, bs, mem, rf) /\ g.js \notin DOMAIN rf /\ \A o \in DOMAIN rf : rf[o] # g.ptr
      BY <1>4, <2>1 DEF Outbound, FramesThere
  <2>3. PICK k : Mirrors(c, g.js, g.type, g.ptr, k, bs, mem, rf)
      BY <2>2 DEF FrameOk
  <2>4. g.ptr \in DOMAIN bs /\ (g.type \in Arrays => g.ptr + 16 \in DOMAIN bs)
      BY <2>3, MirrorsBlocks
  <2>5. g.ptr \notin W /\ (g.type \in Arrays => g.ptr + 16 \notin W)
      BY <2>4
  <2>6. FrameOk(g, c, bs2, mem2, rf)
      BY <1>6, <2>2, <2>5, FrameKept
  <2> QED
      BY <2>1, <2>2, <2>4, <2>6
<1>10. FramesThere(c, t, bs2, mem2, rf)
  <2>1. ASSUME NEW i \in 1..(n + 1)
        PROVE  FrameOk(t[i], c, bs2, mem2, rf) /\ t[i].js \notin DOMAIN rf /\ \A o \in DOMAIN rf : rf[o] # t[i].ptr
    <3>1. CASE i = n + 1
        BY <1>5, <1>7, <3>1
    <3>2. CASE i # n + 1
      <4>1. i \in 1..n
          BY <3>2
      <4> QED
          BY <1>5, <1>9, <4>1
    <3> QED
        BY <3>1, <3>2
  <2>2. ASSUME NEW i \in 1..(n + 1), NEW j \in 1..(n + 1), t[i].ptr = t[j].ptr
        PROVE  i = j
    <3>1. \A x, y \in 1..n : s[x].ptr = s[y].ptr => x = y
        BY <1>4 DEF Outbound, FramesThere
    <3>2. CASE i \in 1..n /\ j \in 1..n
        BY <1>5, <2>2, <3>1, <3>2
    <3>3. CASE i \in 1..n /\ j = n + 1
        BY <1>5, <1>9, <2>2, <3>3
    <3>4. CASE i = n + 1 /\ j \in 1..n
        BY <1>5, <1>9, <2>2, <3>4
    <3> QED
        BY <3>2, <3>3, <3>4
  <2>3. t \in Seq(FrameSet(c))
      BY <1>1
  <2> QED
      BY <1>5, <2>1, <2>2, <2>3 DEF FramesThere
<1>11. Chained(c, t, wa)
  <2>1. ASSUME NEW i \in 1..(n + 1), i < n + 1 PROVE Awaits(c, t[i], t[i+1].js)
    <3>1. CASE i < n
      <4>1. i \in 1..n /\ i + 1 \in 1..n
          BY <3>1
      <4>2. Awaits(c, s[i], s[i+1].js)
          BY <1>4, <3>1, <4>1 DEF Outbound, Chained
      <4> QED
          BY <1>5, <4>1, <4>2
    <3>2. CASE i = n
      <4>1. s # <<>> /\ i \in 1..n
          BY <1>4, <2>1, <3>2
      <4>2. Awaits(c, s[n], f.js)
          BY <1>4, <4>1 DEF Wants, NextValue, Awaits
      <4>3. t[i] = s[n] /\ t[i+1] = f
          BY <1>5, <3>2, <4>1
      <4> QED
          BY <4>2, <4>3
    <3> QED
        BY <2>1, <3>1, <3>2
  <2>2. /\ Len(wa) < Len(c.args)
        /\ c.args[Len(wa)+1].value.k = "ref" /\ c.args[Len(wa)+1].value.v = t[1].js
    <3>1. CASE s = <<>>
      <4>1. t[1] = f
          BY <1>4, <1>5, <3>1
      <4> QED
          BY <3>1, <4>1 DEF Wants, NextValue
    <3>2. CASE s # <<>>
      <4>1. 1 \in 1..n
          BY <1>2, <1>4, <3>2, EmptySeq
      <4>2. t[1] = s[1]
          BY <1>5, <4>1
      <4> QED
          BY <3>2, <4>2 DEF Outbound, Chained
    <3> QED
        BY <3>1, <3>2
  <2> QED
      BY <1>5, <2>1, <2>2 DEF Chained
<1>12. BlocksUsed(t, bs2, rf)
  <2> SUFFICES ASSUME NEW b \in DOMAIN bs2
               PROVE  \/ bs2[b].type = "elements"
                      \/ \E o \in DOMAIN rf : rf[o] = b
                      \/ \E i \in 1..Len(t) : t[i].ptr = b
      BY DEF BlocksUsed
  <2>1. CASE b \in DOMAIN bs
    <3>1. bs2[b] = bs[b]
        BY <2>1 DEF Extends
    <3>2. \/ bs[b].type = "elements"
          \/ \E o \in DOMAIN rf : rf[o] = b
          \/ \E i \in 1..n : s[i].ptr = b
        BY <1>4, <2>1 DEF Outbound, BlocksUsed
    <3>3. ASSUME NEW i \in 1..n PROVE i \in 1..Len(t) /\ t[i] = s[i]
        BY <1>5
    <3> QED
        BY <3>1, <3>2, <3>3
  <2>2. CASE b \notin DOMAIN bs
    <3>1. n + 1 \in 1..Len(t)
        BY <1>5
    <3> QED
        BY <1>5, <2>2, <3>1
  <2> QED
      BY <2>1, <2>2
<1> QED
    BY <1>3, <1>8, <1>10, <1>11, <1>12 DEF Outbound

(* The frame on top is complete: the object enters objectReferences.       *)
Finished(c, f, bs, mem, mem2) ==
    /\ f.next = Len(CellsOf(c, f.js)) + 1
    /\ IF OfObjects(f.type) THEN RowIs(mem, mem2, f.ptr + 16, f.elements, ElementOf[f.type])
       ELSE mem2 = mem

(* The object is where the frame has it.                                   *)
LEMMA FinishedMirrors ==
    ASSUME NEW c \in Calls, NEW f, NEW bs, NEW br, NEW mem, NEW mem2, NEW rf, NEW rf2,
           Layout(bs, br, mem), FrameOk(f, c, bs, mem, rf), Finished(c, f, bs, mem, mem2), Extends(rf, rf2)
    PROVE  /\ Mirrors(c, f.js, f.type, f.ptr, Len(CellsOf(c, f.js)), bs, mem2, rf2)
           /\ Backed(mem2, bs)
           /\ \E W \in SUBSET DOMAIN bs :
                /\ Writes(mem, mem2, bs, W)
                /\ \A b \in W : b = f.ptr + 16 /\ bs[b].type = "elements"
           /\ Referred(CellsOf(c, f.js), Len(CellsOf(c, f.js)), rf)
<1>1. PICK cs : cs = CellsOf(c, f.js)
    OBVIOUS
<1>2. PICK type, ptr, o : type = f.type /\ ptr = f.ptr /\ o = f.js
    OBVIOUS
<1>3. PICK k : k = IF OfObjects(type) THEN 0 ELSE f.next - 1
    OBVIOUS
<1>4. Mirrors(c, o, type, ptr, k, bs, mem, rf)
    BY <1>2, <1>3 DEF FrameOk
<1>9. Suits(c, o, type) /\ IsAt(type, cs, ptr, k, bs, mem, rf)
    BY <1>1, <1>2, <1>4 DEF Mirrors
<1>5. type \in Pointers /\ Len(cs) \in Nat /\ ptr \in DOMAIN bs
    BY <1>1, <1>2, <1>4, MirrorsBlocks, SuitsFacts
<1>6. PICK n \in Nat : n = Len(cs) /\ f.next = n + 1 /\ f.next - 1 = n
    BY <1>1, <1>5 DEF Finished
<1>7. CASE ~OfObjects(type)
  <2>1. k = n /\ mem2 = mem
      BY <1>2, <1>3, <1>6, <1>7 DEF Finished
  <2>2. Writes(mem, mem, bs, {})
      BY DEF Writes
  <2>3. Extends(bs, bs)
      BY DEF Extends
  <2>4. Mirrors(c, o, type, ptr, n, bs, mem, rf2)
    <3>1. Mirrors(c, o, type, ptr, n, bs, mem, rf)
        BY <1>4, <2>1
    <3>2. PICK W \in SUBSET DOMAIN bs : W = {}
        OBVIOUS
    <3>3. Writes(mem, mem, bs, W) /\ ptr \notin W /\ ptr + 16 \notin W
        BY <2>2, <3>2
    <3> QED
        BY <2>3, <3>1, <3>3, MirrorsKept DEF Layout
  <2>5. Referred(cs, n, rf)
      BY <1>9, <2>1 DEF IsAt
  <2>6. Backed(mem2, bs)
      BY <2>1 DEF Layout
  <2> QED
      BY <1>1, <1>2, <1>6, <2>1, <2>2, <2>4, <2>5, <2>6
<1>8. CASE OfObjects(type)
  <2>1. k = 0 /\ RowIs(mem, mem2, ptr + 16, f.elements, ElementOf[type])
      BY <1>2, <1>3, <1>8 DEF Finished
  <2>2. /\ Len(f.elements) = n /\ Referred(cs, n, rf)
        /\ \A i \in 1..n : f.elements[i] = Rep(rf, cs[i])
      BY <1>1, <1>2, <1>6, <1>8 DEF FrameOk
  <2>3. PICK begin : begin = ptr + 16
      OBVIOUS
  <2>4. type \in Arrays
      BY <1>8 DEF OfObjects
  <2>5. /\ begin \in DOMAIN bs
        /\ bs[begin] = [size |-> SizeOf(ElementOf[type]) * n, type |-> "elements"]
      BY <1>6, <1>9, <2>3, <2>4 DEF IsAt
  <2>6. bs[begin].size = SizeOf(ElementOf[type]) * n /\ bs[begin].type = "elements"
      BY <2>5
  <2>7. n * SizeOf(ElementOf[type]) <= bs[begin].size
    <3>1. PICK q \in Nat : q = SizeOf(ElementOf[type])
        BY SizeType
    <3>2. n * q = q * n /\ n * q \in Nat
        OBVIOUS
    <3>3. n * q <= n * q
        BY <3>2
    <3> QED
        BY <2>6, <3>1, <3>2, <3>3
  <2>8. RowIs(mem, mem2, begin, f.elements, ElementOf[type])
      BY <2>1, <2>3
  <2>9. Backed(mem2, bs) /\ Writes(mem, mem2, bs, {begin})
      BY <2>2, <2>5, <2>7, <2>8, RowKeeps DEF Layout
  <2>10. HeaderAt(mem2, ptr, SizeOf(ElementOf[type]) * Len(cs), Len(cs))
    <3>1. HeaderAt(mem, ptr, SizeOf(ElementOf[type]) * Len(cs), Len(cs)) /\ bs[ptr].type = type
        BY <1>9, <2>4 DEF IsAt
    <3>2. ptr \in Nat /\ bs[ptr].size = 12 /\ SizeOf("i32") = 4
        BY <1>5, <2>4, <3>1 DEF Layout, Laid, Sized, SizeOf
    <3>3. PICK W \in SUBSET DOMAIN bs : W = {begin}
        BY <2>5
    <3>4. Writes(mem, mem2, bs, W) /\ ptr \notin W /\ Laid(bs, br)
        BY <2>3, <2>9, <3>2, <3>3 DEF Layout
    <3>5. \A a \in {ptr, ptr + 4, ptr + 8} : a \in Nat /\ ptr <= a /\ a + SizeOf("i32") <= ptr + bs[ptr].size
        BY <3>2
    <3>6. \A a \in {ptr, ptr + 4, ptr + 8} : \A v : At(mem, a, "i32", v) => At(mem2, a, "i32", v)
        BY <1>5, <3>4, <3>5, AtKept
    <3> QED
        BY <3>1, <3>6 DEF HeaderAt
  <2>11. Referred(cs, n, rf2) /\ \A i \in 1..n : Rep(rf2, cs[i]) = Rep(rf, cs[i])
    <3>1. Referred(cs, n, rf)
        BY <2>2
    <3> QED
        BY <3>1, RepKept
  <2>12. ElementsAt(mem2, ptr + 16, ElementOf[type], cs, n, rf2)
    <3> SUFFICES ASSUME NEW i \in 1..n
                 PROVE At(mem2, ptr + 16 + (i - 1) * SizeOf(ElementOf[type]), ElementOf[type], Rep(rf2, cs[i]))
        BY DEF ElementsAt
    <3>1. At(mem2, ptr + 16 + (i - 1) * SizeOf(ElementOf[type]), ElementOf[type], f.elements[i])
        BY <2>1, <2>2 DEF RowIs
    <3> QED
        BY <2>2, <2>11, <3>1
  <2>13. type \notin Classes
      BY <2>4, NamesAssumption
  <2>14. IsAt(type, cs, ptr, n, bs, mem2, rf2)
    <3>1. n \in 0..Len(cs)
        BY <1>6
    <3>2. /\ ptr + 16 \in DOMAIN bs
          /\ bs[ptr + 16] = [size |-> SizeOf(ElementOf[type]) * Len(cs), type |-> "elements"]
          /\ bs[ptr].type = type
        BY <1>9, <2>4 DEF IsAt
    <3> QED
        BY <1>5, <2>4, <2>10, <2>11, <2>12, <2>13, <3>1, <3>2 DEF IsAt
  <2>15. Mirrors(c, o, type, ptr, n, bs, mem2, rf2)
      BY <1>1, <1>2, <1>9, <2>14 DEF Mirrors
  <2> QED
      BY <1>1, <1>2, <1>6, <2>2, <2>3, <2>5, <2>6, <2>9, <2>15
<1> QED
    BY <1>7, <1>8

(* jsToWasm returns the pointer of an object.                              *)
LEMMA FinishKeeps ==
    ASSUME NEW c \in Calls, NEW s, NEW wa, NEW bs, NEW br, NEW mem, NEW rf, NEW mem2, NEW f,
           Outbound(c, s, wa, bs, mem, rf), Layout(bs, br, mem),
           s # <<>>, f = s[Len(s)], Finished(c, f, bs, mem, mem2)
    PROVE  LET rf2 == Put(rf, f.js, f.ptr)
               t == Below(s)
           IN  /\ Outbound(c, t, wa, bs, mem2, rf2)
               /\ Layout(bs, br, mem2)
               /\ Wants(c, t, wa) /\ NextValue(c, t, wa).k = "ref" /\ NextValue(c, t, wa).v = f.js
<1>1. PICK S : S = FrameSet(c)
    OBVIOUS
<1>2. s \in Seq(S)
    BY <1>1 DEF Outbound, FramesThere
<1>3. PICK t \in Seq(S) : t = Below(s)
    BY <1>2, FrontFacts
<1>4. PICK n \in Nat : n = Len(s) /\ n > 0
    BY <1>2, FrontFacts
<1>5. /\ Len(t) = n - 1 /\ f = s[n]
      /\ \A i \in 1..(n - 1) : t[i] = s[i]
    BY <1>2, <1>3, <1>4, FrontFacts
<1>6. PICK m \in Nat : m = n - 1
    BY <1>4
<1>7. PICK rf2 : rf2 = Put(rf, f.js, f.ptr)
    OBVIOUS
<1>8. FrameOk(f, c, bs, mem, rf) /\ f.js \notin DOMAIN rf /\ \A o \in DOMAIN rf : rf[o] # f.ptr
    BY <1>4, <1>5 DEF Outbound, FramesThere
<1>9. /\ DOMAIN rf2 = DOMAIN rf \cup {f.js} /\ rf2[f.js] = f.ptr
      /\ \A o \in DOMAIN rf : rf2[o] = rf[o]
    BY <1>7, <1>8 DEF Put
<1>10. Extends(rf, rf2) /\ Extends(bs, bs)
    BY <1>9 DEF Extends
<1>11. /\ Mirrors(c, f.js, f.type, f.ptr, Len(CellsOf(c, f.js)), bs, mem2, rf2)
       /\ Backed(mem2, bs)
       /\ \E W \in SUBSET DOMAIN bs :
            /\ Writes(mem, mem2, bs, W)
            /\ \A b \in W : b = f.ptr + 16 /\ bs[b].type = "elements"
       /\ Referred(CellsOf(c, f.js), Len(CellsOf(c, f.js)), rf)
    BY <1>8, <1>10, FinishedMirrors
<1>12. PICK W \in SUBSET DOMAIN bs : /\ Writes(mem, mem2, bs, W)
                                     /\ \A b \in W : b = f.ptr + 16 /\ bs[b].type = "elements"
    BY <1>11
<1>13. /\ Laid(bs, br) /\ Sized(bs)
       /\ \A b \in DOMAIN bs : b \in Nat
    BY DEF Layout, Laid
<1>14. f.ptr \in DOMAIN bs /\ f.type \in Pointers /\ bs[f.ptr].type = f.type
  <2>1. PICK k : Mirrors(c, f.js, f.type, f.ptr, k, bs, mem2, rf2)
      BY <1>11
  <2>2. f.ptr \in DOMAIN bs /\ bs[f.ptr].type = f.type /\ Suits(c, f.js, f.type)
      BY <2>1, MirrorsBlocks
  <2> QED
      BY <2>2, SuitsFacts
<1>15. "elements" \notin Pointers
    BY NamesAssumption DEF Types, Pointers
\* Nobody else's block is written to.
<1>16. ASSUME NEW ptr \in DOMAIN bs, ptr # f.ptr, bs[ptr].type \in Pointers
       PROVE  ptr \notin W /\ (ptr + 16 \notin W)
  <2>1. ptr \notin W
      BY <1>12, <1>15, <1>16
  <2>2. ptr + 16 \notin W
    <3>1. ptr \in Nat /\ f.ptr \in Nat
        BY <1>13, <1>14
    <3>2. ptr + 16 # f.ptr + 16
        BY <1>16, <3>1
    <3> QED
        BY <1>12, <3>2
  <2> QED
      BY <2>1, <2>2
<1>17. ASSUME NEW o \in DOMAIN rf
       PROVE  Mirrors(c, o, bs[rf2[o]].type, rf2[o], Len(CellsOf(c, o)), bs, mem2, rf2)
  <2>1. \A p \in DOMAIN rf : rf[p] \in DOMAIN bs /\ bs[rf[p]].type \in Pointers
    <3> TAKE p \in DOMAIN rf
    <3>1. PICK type, ptr, k : type = bs[rf[p]].type /\ ptr = rf[p] /\ k = Len(CellsOf(c, p))
        OBVIOUS
    <3>2. Mirrors(c, p, type, ptr, k, bs, mem, rf)
        BY <3>1 DEF Outbound, ObjectsThere
    <3>3. Suits(c, p, type) /\ ptr \in DOMAIN bs
        BY <3>2, MirrorsBlocks
    <3>4. type \in Pointers
        BY <3>3, SuitsFacts
    <3> QED
        BY <3>1, <3>3, <3>4
  <2>2. \A p \in DOMAIN rf : rf[p] \notin W /\ (bs[rf[p]].type \in Arrays => rf[p] + 16 \notin W)
    <3> TAKE p \in DOMAIN rf
    <3>1. PICK ptr : ptr = rf[p]
        OBVIOUS
    <3>2. ptr \in DOMAIN bs /\ ptr # f.ptr /\ bs[ptr].type \in Pointers
        BY <1>8, <2>1, <3>1
    <3> QED
        BY <1>16, <3>1, <3>2
  <2>3. ObjectsThere(c, bs, mem, rf)
      BY DEF Outbound
  <2> QED
      BY <1>10, <1>12, <1>13, <2>2, <2>3, ObjectsKept
<1>18. ObjectsThere(c, bs, mem2, rf2)
  <2>1. ASSUME NEW o \in DOMAIN rf2
        PROVE  Mirrors(c, o, bs[rf2[o]].type, rf2[o], Len(CellsOf(c, o)), bs, mem2, rf2)
    <3>1. CASE o \in DOMAIN rf
        BY <1>17, <3>1
    <3>2. CASE o = f.js
        BY <1>9, <1>11, <1>14, <3>2
    <3> QED
        BY <1>9, <3>1, <3>2
  <2>2. \A o, p \in DOMAIN rf2 : rf2[o] = rf2[p] => o = p
    <3>1. \A o, p \in DOMAIN rf : rf[o] = rf[p] => o = p
        BY DEF Outbound, ObjectsThere
    <3> QED
        BY <1>8, <1>9, <3>1
  <2> QED
      BY <2>1, <2>2 DEF ObjectsThere
<1>19. ASSUME NEW i \in 1..m
       PROVE  /\ FrameOk(s[i], c, bs, mem2, rf2) /\ s[i].js \notin DOMAIN rf2
              /\ \A o \in DOMAIN rf2 : rf2[o] # s[i].ptr
  <2>1. PICK g : g = s[i]
      OBVIOUS
  <2>2. i \in 1..n /\ i < n /\ i + 1 \in 1..n
      BY <1>6
  <2>3. FrameOk(g, c, bs, mem, rf) /\ g.js \notin DOMAIN rf /\ \A o \in DOMAIN rf : rf[o] # g.ptr
      BY <1>4, <2>1, <2>2 DEF Outbound, FramesThere
  <2>4. g.ptr # f.ptr
      BY <1>4, <1>5, <2>1, <2>2 DEF Outbound, FramesThere
  <2>5. g.ptr \in DOMAIN bs /\ bs[g.ptr].type \in Pointers
    <3>1. PICK k : Mirrors(c, g.js, g.type, g.ptr, k, bs, mem, rf)
        BY <2>3 DEF FrameOk
    <3>2. g.ptr \in DOMAIN bs /\ bs[g.ptr].type = g.type /\ Suits(c, g.js, g.type)
        BY <3>1, MirrorsBlocks
    <3> QED
        BY <3>2, SuitsFacts
  <2>6. g.ptr \notin W /\ g.ptr + 16 \notin W
      BY <1>16, <2>4, <2>5
  <2>7. FrameOk(g, c, bs, mem2, rf2)
      BY <1>10, <1>12, <1>13, <2>3, <2>6, FrameKept
  \* A frame of the same object waits for one that a complete frame has.
  <2>8. g.js # f.js
    <3> SUFFICES ASSUME g.js = f.js PROVE FALSE
        OBVIOUS
    <3>1. PICK cs : cs = CellsOf(c, f.js)
        OBVIOUS
    <3>2. Awaits(c, g, s[i+1].js)
        BY <1>4, <2>1, <2>2 DEF Outbound, Chained
    <3>3. g.next <= Len(cs) /\ cs[g.next].k = "ref" /\ cs[g.next].v = s[i+1].js
        BY <3>1, <3>2 DEF Awaits
    <3>4. g.next \in 1..Len(cs)
      <4>1. g.next \in 1..(Len(cs) + 1)
          BY <2>3, <3>1 DEF FrameOk
      <4>2. Suits(c, f.js, f.type)
          BY <1>11 DEF Mirrors
      <4>3. Len(cs) \in Nat
          BY <3>1, <4>2, SuitsFacts
      <4> QED
          BY <3>3, <4>1, <4>3
    <3>5. s[i+1].js \in DOMAIN rf
        BY <1>11, <3>1, <3>3, <3>4 DEF Referred
    <3>6. s[i+1].js \notin DOMAIN rf
        BY <1>4, <2>2 DEF Outbound, FramesThere
    <3> QED
        BY <3>5, <3>6
  <2> QED
      BY <1>9, <2>1, <2>3, <2>4, <2>7, <2>8
<1>20. Len(t) = m /\ \A i \in 1..m : t[i] = s[i]
    BY <1>5, <1>6
<1>21. FramesThere(c, t, bs, mem2, rf2)
  <2>1. \A i, j \in 1..n : s[i].ptr = s[j].ptr => i = j
      BY <1>4 DEF Outbound, FramesThere
  <2>2. \A i \in 1..m : i \in 1..n
      BY <1>6
  <2>3. \A i, j \in 1..m : t[i].ptr = t[j].ptr => i = j
      BY <1>20, <2>1, <2>2
  <2>4. \A i \in 1..m : /\ FrameOk(t[i], c, bs, mem2, rf2) /\ t[i].js \notin DOMAIN rf2
                        /\ \A o \in DOMAIN rf2 : rf2[o] # t[i].ptr
      BY <1>19, <1>20
  <2> QED
      BY <1>1, <1>20, <2>3, <2>4 DEF FramesThere
<1>22. Chained(c, t, wa)
  <2>1. ASSUME NEW i \in 1..m, i < m PROVE Awaits(c, t[i], t[i+1].js)
    <3>1. i \in 1..n /\ i < n /\ i + 1 \in 1..m
        BY <1>6, <2>1
    <3>2. Awaits(c, s[i], s[i+1].js)
        BY <1>4, <3>1 DEF Outbound, Chained
    <3> QED
        BY <1>20, <2>1, <3>1, <3>2
  <2>2. ASSUME t # <<>>
        PROVE  /\ Len(wa) < Len(c.args)
               /\ c.args[Len(wa)+1].value.k = "ref" /\ c.args[Len(wa)+1].value.v = t[1].js
    <3>1. 1 \in 1..m
        BY <1>20, <2>2, EmptySeq
    <3>2. t[1] = s[1]
        BY <1>20, <3>1
    <3> QED
        BY <3>2 DEF Outbound, Chained
  <2> QED
      BY <1>20, <2>1, <2>2 DEF Chained
<1>23. ArgumentsThere(c, wa, rf2)
  <2>1. ArgumentsThere(c, wa, rf)
      BY DEF Outbound
  <2>2. \A i \in 1..Len(wa) : /\ c.args[i].value.k = "ref" => c.args[i].value.v \in DOMAIN rf2
                              /\ wa[i] = Rep(rf2, c.args[i].value)
      BY <1>9, <2>1 DEF ArgumentsThere, Rep
  <2> QED
      BY <2>1, <2>2 DEF ArgumentsThere
<1>24. BlocksUsed(t, bs, rf2)
  <2> SUFFICES ASSUME NEW b \in DOMAIN bs, bs[b].type # "elements", ~ \E o \in DOMAIN rf2 : rf2[o] = b
               PROVE  \E i \in 1..m : t[i].ptr = b
      BY <1>20 DEF BlocksUsed
  <2>1. ~ \E o \in DOMAIN rf : rf[o] = b
      BY <1>9
  <2>2. PICK i \in 1..n : s[i].ptr = b
      BY <1>4, <2>1 DEF Outbound, BlocksUsed
  <2>3. i # n
      BY <1>5, <1>9, <2>2
  <2>4. i \in 1..m
      BY <1>6, <2>3
  <2> QED
      BY <1>20, <2>2, <2>4
<1>25. Wants(c, t, wa) /\ NextValue(c, t, wa).k = "ref" /\ NextValue(c, t, wa).v = f.js
  <2>1. CASE m = 0
    <3>1. t = <<>> /\ n = 1
        BY <1>6, <1>20, <2>1, EmptySeq
    <3>2. s[1] = f
        BY <1>5, <3>1
    <3> QED
        BY <3>1, <3>2 DEF Wants, NextValue, Outbound, Chained
  <2>2. CASE m > 0
    <3>1. t # <<>> /\ m \in 1..n /\ m < n /\ m + 1 = n
        BY <1>6, <1>20, <2>2
    <3>2. Awaits(c, s[m], s[m+1].js)
        BY <1>4, <3>1 DEF Outbound, Chained
    <3>3. t[Len(t)] = s[m] /\ s[m+1] = f
        BY <1>5, <1>20, <2>2, <3>1
    <3> QED
        BY <3>1, <3>2, <3>3 DEF Wants, NextValue, Awaits
  <2> QED
      BY <2>1, <2>2
<1>26. Layout(bs, br, mem2)
    BY <1>11 DEF Layout
<1> QED
    BY <1>3, <1>7, <1>18, <1>21, <1>22, <1>23, <1>24, <1>25, <1>26 DEF Outbound

Advanced(f, v) == [f EXCEPT !.next = @ + 1, !.elements = Append(@, v)]
FieldStored(f, mem, v) ==
    Put(mem, f.ptr + FieldOffset(Fields(f.type), f.next),
        [size |-> SizeOf(Fields(f.type)[f.next]), v |-> v])

(* A value reaches what asked for it.                                      *)
Delivers(s, wa, mem, v, s2, wa2, mem2) ==
    IF s = <<>> THEN s2 = s /\ wa2 = Append(wa, v) /\ mem2 = mem
    ELSE LET f == s[Len(s)] IN
         /\ s2 = Append(Below(s), Advanced(f, v)) /\ wa2 = wa
         /\ mem2 = IF f.type \in Arrays THEN mem ELSE FieldStored(f, mem, v)

(* The frame that has received a value.                                    *)
LEMMA AdvancedFacts ==
    ASSUME NEW c \in Calls, NEW f \in FrameSet(c), NEW v \in Int
    PROVE  /\ Advanced(f, v) \in FrameSet(c)
           /\ Advanced(f, v).js = f.js /\ Advanced(f, v).type = f.type /\ Advanced(f, v).ptr = f.ptr
           /\ Advanced(f, v).next = f.next + 1
           /\ Len(Advanced(f, v).elements) = Len(f.elements) + 1 /\ Len(f.elements) \in Nat
           /\ Advanced(f, v).elements[Len(f.elements) + 1] = v
           /\ \A i \in 1..Len(f.elements) : Advanced(f, v).elements[i] = f.elements[i]
<1>1. f.next \in Nat /\ f.elements \in Seq(Int)
    BY DEF FrameSet
<1>2. PICK e \in Seq(Int) : e = f.elements
    BY <1>1
<1>3. /\ Append(e, v) \in Seq(Int) /\ Len(e) \in Nat
      /\ Len(Append(e, v)) = Len(e) + 1
      /\ Append(e, v)[Len(e) + 1] = v
      /\ \A i \in 1..Len(e) : Append(e, v)[i] = e[i]
    BY AppendFacts
<1>4. PICK e2 \in Seq(Int) : e2 = Append(e, v)
    BY <1>3
<1>5. PICK n \in Nat : n = f.next + 1
    BY <1>1
<1>6. Advanced(f, v) = [f EXCEPT !.next = n, !.elements = e2]
    BY <1>2, <1>4, <1>5 DEF Advanced
<1>7. /\ Advanced(f, v) \in FrameSet(c)
      /\ Advanced(f, v).js = f.js /\ Advanced(f, v).type = f.type /\ Advanced(f, v).ptr = f.ptr
      /\ Advanced(f, v).next = n /\ Advanced(f, v).elements = e2
    BY <1>6 DEF FrameSet
<1> QED
    BY <1>2, <1>3, <1>4, <1>5, <1>7

Fits(a, type, b, bs) == a \in Nat /\ b <= a /\ a + SizeOf(type) <= b + bs[b].size
Stores(mem, mem2, a, type, v) == mem2 = Put(mem, a, Cell(type, v))

Elsewhere(mem, mem2, a) == \A x \in DOMAIN mem : x # a => mem2[x] = mem[x]

(* A store, with its hypotheses and its effect named.                      *)
LEMMA StoresKeep ==
    ASSUME NEW bs, NEW br, NEW mem, NEW mem2, NEW type, NEW v, NEW b, NEW a,
           Laid(bs, br), Backed(mem, bs), b \in DOMAIN bs,
           Fits(a, type, b, bs), Stores(mem, mem2, a, type, v)
    PROVE  /\ Backed(mem2, bs) /\ Writes(mem, mem2, bs, {b}) /\ At(mem2, a, type, v)
           /\ Elsewhere(mem, mem2, a)
<1>1. a \in Nat /\ b <= a /\ a + SizeOf(type) <= b + bs[b].size
    BY DEF Fits
<1>2. PICK r : r = Cell(type, v)
    OBVIOUS
<1>3. mem2 = Put(mem, a, r)
    BY <1>2 DEF Stores
<1> QED
    BY <1>1, <1>2, <1>3, StoreKeeps DEF Elsewhere

(* The value is what the next cell of the frame's object is to be.         *)
Answers(c, f, rf, v) ==
    /\ f.next <= Len(CellsOf(c, f.js))
    /\ CellsOf(c, f.js)[f.next].k = "ref" => CellsOf(c, f.js)[f.next].v \in DOMAIN rf
    /\ v = Rep(rf, CellsOf(c, f.js)[f.next])
Takes(f, mem, v, mem2) == mem2 = IF f.type \in Arrays THEN mem ELSE FieldStored(f, mem, v)
WritesObjectOf(f, bs, mem, mem2) ==
    \E W \in SUBSET DOMAIN bs :
        /\ Writes(mem, mem2, bs, W)
        /\ \A b \in W : b = f.ptr /\ f.type \in Classes

(* The frame on top stores a field or takes an element.                    *)
LEMMA AdvancedOk ==
    ASSUME NEW c \in Calls, NEW f, NEW bs, NEW br, NEW mem, NEW rf, NEW v \in Int, NEW mem2,
           Layout(bs, br, mem), FrameOk(f, c, bs, mem, rf), Answers(c, f, rf, v), Takes(f, mem, v, mem2)
    PROVE  /\ FrameOk(Advanced(f, v), c, bs, mem2, rf) /\ Backed(mem2, bs)
           /\ WritesObjectOf(f, bs, mem, mem2)
<1>0. /\ f.next <= Len(CellsOf(c, f.js))
      /\ CellsOf(c, f.js)[f.next].k = "ref" => CellsOf(c, f.js)[f.next].v \in DOMAIN rf
      /\ v = Rep(rf, CellsOf(c, f.js)[f.next])
      /\ mem2 = IF f.type \in Arrays THEN mem ELSE FieldStored(f, mem, v)
    BY DEF Answers, Takes
<1>1. PICK cs : cs = CellsOf(c, f.js)
    OBVIOUS
<1>2. PICK type, ptr, o : type = f.type /\ ptr = f.ptr /\ o = f.js
    OBVIOUS
<1>3. PICK g : g = Advanced(f, v)
    OBVIOUS
<1>4. f \in FrameSet(c)
    BY DEF FrameOk
<1>5. /\ g \in FrameSet(c) /\ g.js = o /\ g.type = type /\ g.ptr = ptr /\ g.next = f.next + 1
      /\ Len(g.elements) = Len(f.elements) + 1 /\ Len(f.elements) \in Nat
      /\ g.elements[Len(f.elements) + 1] = v
      /\ \A i \in 1..Len(f.elements) : g.elements[i] = f.elements[i]
    BY <1>2, <1>3, <1>4, AdvancedFacts
<1>6. PICK k0 : k0 = (IF OfObjects(type) THEN 0 ELSE f.next - 1) /\ Mirrors(c, o, type, ptr, k0, bs, mem, rf)
    BY <1>2 DEF FrameOk
<1>7. Suits(c, o, type) /\ IsAt(type, cs, ptr, k0, bs, mem, rf)
    BY <1>1, <1>2, <1>6 DEF Mirrors
<1>8. type \in Pointers /\ Len(cs) \in Nat /\ (type \in Classes => Len(cs) = Len(Fields(type)))
    BY <1>1, <1>2, <1>7, SuitsFacts
<1>9. PICK k \in Nat : k = f.next - 1 /\ f.next = k + 1 /\ k < Len(cs) /\ f.next \in 1..Len(cs)
    BY <1>0, <1>1, <1>8 DEF FrameOk
<1>10. \A i \in 1..(k + 1) : i \in 1..k \/ i = k + 1
    OBVIOUS
<1>11. CASE type \in Arrays
  <2>1. OfObjects(type)
      BY <1>1, <1>2, <1>8, <1>9, <1>11 DEF FrameOk
  <2>2. k0 = 0 /\ mem2 = mem
      BY <1>0, <1>2, <1>6, <1>11, <2>1
  <2>3. /\ Len(f.elements) = k /\ Referred(cs, k, rf)
        /\ \A i \in 1..k : f.elements[i] = Rep(rf, cs[i])
      BY <1>1, <1>2, <1>9, <2>1 DEF FrameOk
  <2>4. /\ Len(g.elements) = k + 1
        /\ \A i \in 1..(k + 1) : g.elements[i] = Rep(rf, cs[i])
      BY <1>0, <1>1, <1>5, <1>9, <1>10, <2>3
  <2>5. Referred(cs, k + 1, rf)
      BY <1>0, <1>1, <1>9, <1>10, <2>3 DEF Referred
  <2>6. g.next - 1 = k + 1 /\ g.next \in 1..(Len(cs) + 1)
      BY <1>5, <1>8, <1>9
  <2>7. Mirrors(c, g.js, g.type, g.ptr, 0, bs, mem2, rf)
      BY <1>5, <1>6, <2>2
  <2>8. FrameOk(g, c, bs, mem2, rf)
      BY <1>1, <1>2, <1>5, <2>1, <2>4, <2>5, <2>6, <2>7 DEF FrameOk
  <2>9. Backed(mem2, bs) /\ Writes(mem, mem2, bs, {})
      BY <2>2 DEF Layout, Writes
  <2> QED
      BY <1>3, <2>8, <2>9 DEF WritesObjectOf
<1>12. CASE type \in Classes
  <2>1. type \notin Arrays /\ ~OfObjects(type) /\ k0 = k
      BY <1>6, <1>9, <1>12, NamesAssumption DEF OfObjects
  <2>2. PICK t : t = Fields(type)[k + 1]
      OBVIOUS
  <2>3. k + 1 \in 1..Len(Fields(type))
      BY <1>8, <1>9, <1>12
  <2>4. PICK off \in Nat : off = FieldOffset(Fields(type), k + 1) /\ off + SizeOf(t) <= ComputeObjectSize(Fields(type))
      BY <1>12, <2>2, <2>3, ObjectLayout
  <2>5. /\ ptr \in DOMAIN bs /\ bs[ptr].type = type /\ Referred(cs, k, rf)
        /\ FieldsAt(mem, ptr, type, cs, k, rf)
      BY <1>7, <1>12, <2>1 DEF IsAt
  <2>6. ptr \in Nat /\ bs[ptr].size = ComputeObjectSize(Fields(type)) /\ bs[ptr].size \in Nat
      BY <1>12, <2>5 DEF Layout, Laid, Sized
  <2>7. PICK a \in Nat : a = ptr + off /\ ptr <= a /\ a + SizeOf(t) <= ptr + bs[ptr].size
    <3>1. SizeOf(t) \in {1, 4, 8}
        BY SizeType
    <3> QED
        BY <2>4, <2>6, <3>1
  <2>8. mem2 = Put(mem, a, [size |-> SizeOf(t), v |-> v])
      BY <1>0, <1>2, <1>9, <2>1, <2>2, <2>4, <2>7 DEF FieldStored
  <2>9. /\ Backed(mem2, bs) /\ Writes(mem, mem2, bs, {ptr}) /\ At(mem2, a, t, v)
        /\ \A x \in DOMAIN mem : x # a => mem2[x] = mem[x]
    <3>1. Laid(bs, br) /\ Backed(mem, bs) /\ ptr \in DOMAIN bs
        BY <2>5 DEF Layout
    <3>2. PICK x, y : x = a /\ y = v
        OBVIOUS
    <3>3. Fits(x, t, ptr, bs) /\ Stores(mem, mem2, x, t, y)
        BY <2>7, <2>8, <3>2 DEF Fits, Cell, Stores
    <3>4. Backed(mem2, bs)
        BY <3>1, <3>3, StoresKeep
    <3>5. Writes(mem, mem2, bs, {ptr}) /\ At(mem2, x, t, y)
        BY <3>1, <3>3, StoresKeep
    <3>6. Elsewhere(mem, mem2, x)
        BY <3>1, <3>3, StoresKeep
    <3> QED
        BY <3>2, <3>4, <3>5, <3>6 DEF Elsewhere
  <2>10. FieldsAt(mem2, ptr, type, cs, k + 1, rf)
    <3> SUFFICES ASSUME NEW i \in 1..(k + 1)
                 PROVE  At(mem2, ptr + FieldOffset(Fields(type), i), Fields(type)[i], Rep(rf, cs[i]))
        BY DEF FieldsAt
    <3>1. CASE i = k + 1
        BY <1>0, <1>1, <1>9, <2>2, <2>4, <2>7, <2>9, <3>1
    <3>2. CASE i \in 1..k
      <4>1. At(mem, ptr + FieldOffset(Fields(type), i), Fields(type)[i], Rep(rf, cs[i]))
          BY <2>5, <3>2 DEF FieldsAt
      <4>2. i \in 1..Len(Fields(type)) /\ i < k + 1
          BY <2>3, <3>2
      <4>3. PICK off2 \in Nat : off2 = FieldOffset(Fields(type), i) /\ off2 + SizeOf(Fields(type)[i]) <= off
          BY <1>12, <2>3, <2>4, <4>2, ObjectLayout
      <4>4. ptr + off2 # a
        <5>1. SizeOf(Fields(type)[i]) \in {1, 4, 8}
            BY SizeType
        <5> QED
            BY <2>6, <2>7, <4>3, <5>1
      <4>5. PICK x : x = ptr + off2
          OBVIOUS
      <4>6. x # a /\ At(mem, x, Fields(type)[i], Rep(rf, cs[i]))
          BY <4>1, <4>3, <4>4, <4>5
      <4>7. x \in DOMAIN mem2 /\ mem2[x] = mem[x]
          BY <2>9, <4>6 DEF At, Writes
      <4>8. At(mem2, x, Fields(type)[i], Rep(rf, cs[i]))
          BY <4>6, <4>7 DEF At
      <4> QED
          BY <4>3, <4>5, <4>8
    <3> QED
        BY <1>10, <3>1, <3>2
  <2>11. Referred(cs, k + 1, rf)
      BY <1>0, <1>1, <1>9, <1>10, <2>5 DEF Referred
  <2>12. IsAt(type, cs, ptr, k + 1, bs, mem2, rf)
    <3>1. k + 1 \in 0..Len(cs)
        BY <1>9
    <3> QED
        BY <2>1, <2>5, <2>10, <2>11, <3>1 DEF IsAt
  <2>13. g.next - 1 = k + 1 /\ g.next \in 1..(Len(cs) + 1)
      BY <1>5, <1>8, <1>9
  <2>14. Mirrors(c, g.js, g.type, g.ptr, g.next - 1, bs, mem2, rf)
      BY <1>1, <1>2, <1>5, <1>7, <2>12, <2>13 DEF Mirrors
  <2>15. FrameOk(g, c, bs, mem2, rf)
      BY <1>1, <1>2, <1>5, <2>1, <2>13, <2>14 DEF FrameOk
  <2> QED
      BY <1>2, <1>3, <1>12, <2>5, <2>9, <2>15 DEF WritesObjectOf
<1> QED
    BY <1>8, <1>11, <1>12 DEF Pointers

(* An argument is complete.                                                *)
LEMMA ArgumentDelivered ==
    ASSUME NEW c \in Calls, NEW wa, NEW wa2, NEW bs, NEW mem, NEW rf, NEW v \in Int,
           Outbound(c, <<>>, wa, bs, mem, rf), Len(wa) < Len(c.args),
           c.args[Len(wa) + 1].value.k = "ref" => c.args[Len(wa) + 1].value.v \in DOMAIN rf,
           v = Rep(rf, c.args[Len(wa) + 1].value), wa2 = Append(wa, v)
    PROVE  Outbound(c, <<>>, wa2, bs, mem, rf)
<1>1. wa \in Seq(Int) /\ Len(wa) <= Len(c.args)
    BY DEF Outbound, ArgumentsThere
<1>2. PICK n \in Nat : n = Len(wa)
    BY <1>1
<1>3. /\ wa2 \in Seq(Int) /\ Len(wa2) = n + 1 /\ wa2[n + 1] = v
      /\ \A i \in 1..n : wa2[i] = wa[i]
    BY <1>1, <1>2, AppendFacts
<1>4. Len(wa2) <= Len(c.args)
  <2>1. c.args \in Seq([type : Types, value : Value])
      BY CallsAssumption
  <2>2. Len(c.args) \in Nat
      BY <2>1
  <2> QED
      BY <1>2, <1>3, <2>2
<1>5. \A i \in 1..(n + 1) : i \in 1..n \/ i = n + 1
    BY <1>2
<1>6. \A i \in 1..n : /\ c.args[i].value.k = "ref" => c.args[i].value.v \in DOMAIN rf
                      /\ wa[i] = Rep(rf, c.args[i].value)
    BY <1>2 DEF Outbound, ArgumentsThere
<1>7. \A i \in 1..(n + 1) : /\ c.args[i].value.k = "ref" => c.args[i].value.v \in DOMAIN rf
                            /\ wa2[i] = Rep(rf, c.args[i].value)
    BY <1>2, <1>3, <1>5, <1>6
<1>8. ArgumentsThere(c, wa2, rf)
    BY <1>3, <1>4, <1>7 DEF ArgumentsThere
<1>9. Chained(c, <<>>, wa2)
    BY DEF Chained
<1> QED
    BY <1>8, <1>9 DEF Outbound

OnTop(s, f) == s # <<>> /\ f = s[Len(s)]
Moves(s, f, v, s2) == s2 = Append(Below(s), Advanced(f, v))

(* A field or an element of the object of the frame on top is complete.    *)
LEMMA CellDelivered ==
    ASSUME NEW c \in Calls, NEW s, NEW wa, NEW bs, NEW br, NEW mem, NEW rf, NEW v \in Int,
           NEW s2, NEW mem2, NEW f,
           Outbound(c, s, wa, bs, mem, rf), Layout(bs, br, mem), OnTop(s, f),
           Answers(c, f, rf, v), Takes(f, mem, v, mem2), Moves(s, f, v, s2)
    PROVE  Outbound(c, s2, wa, bs, mem2, rf) /\ Layout(bs, br, mem2)
<1>0. s # <<>> /\ f = s[Len(s)] /\ s2 = Append(Below(s), Advanced(f, v))
    BY DEF OnTop, Moves
<1>1. PICK S : S = FrameSet(c)
    OBVIOUS
<1>2. s \in Seq(S)
    BY <1>1 DEF Outbound, FramesThere
<1>3. PICK t \in Seq(S) : t = Below(s)
    BY <1>0, <1>2, FrontFacts
<1>4. PICK n \in Nat : n = Len(s) /\ n > 0
    BY <1>0, <1>2, FrontFacts
<1>5. PICK m \in Nat : m = n - 1 /\ n = m + 1
    BY <1>4
<1>6. Len(t) = m /\ f = s[n] /\ \A i \in 1..m : t[i] = s[i]
    BY <1>0, <1>2, <1>3, <1>4, <1>5, FrontFacts
<1>7. FrameOk(f, c, bs, mem, rf) /\ f.js \notin DOMAIN rf /\ \A o \in DOMAIN rf : rf[o] # f.ptr
    BY <1>4, <1>6 DEF Outbound, FramesThere
<1>8. PICK g : g = Advanced(f, v)
    OBVIOUS
<1>9. g \in S /\ g.js = f.js /\ g.type = f.type /\ g.ptr = f.ptr
  <2>1. f \in FrameSet(c)
      BY <1>7 DEF FrameOk
  <2> QED
      BY <1>1, <1>8, <2>1, AdvancedFacts
<1>10. FrameOk(g, c, bs, mem2, rf) /\ Backed(mem2, bs) /\ WritesObjectOf(f, bs, mem, mem2)
    BY <1>7, <1>8, AdvancedOk
<1>11. PICK W \in SUBSET DOMAIN bs : /\ Writes(mem, mem2, bs, W)
                                     /\ \A b \in W : b = f.ptr /\ f.type \in Classes
    BY <1>10 DEF WritesObjectOf
<1>12. Laid(bs, br) /\ Sized(bs) /\ Extends(bs, bs) /\ Extends(rf, rf)
    BY DEF Layout, Extends
<1>13. bs[f.ptr].type = f.type
  <2>1. PICK k : Mirrors(c, f.js, f.type, f.ptr, k, bs, mem, rf)
      BY <1>7 DEF FrameOk
  <2> QED
      BY <2>1, MirrorsBlocks
<1>14. \A b \in W : bs[b].type # "elements"
  <2>1. "elements" \notin Classes
      BY NamesAssumption DEF Types
  <2> QED
      BY <1>11, <1>13, <2>1
<1>15. \A o \in DOMAIN rf : rf[o] \notin W /\ (bs[rf[o]].type \in Arrays => rf[o] + 16 \notin W)
  <2> TAKE o \in DOMAIN rf
  <2>1. PICK type, ptr, k : type = bs[rf[o]].type /\ ptr = rf[o] /\ k = Len(CellsOf(c, o))
      OBVIOUS
  <2>2. Mirrors(c, o, type, ptr, k, bs, mem, rf)
      BY <2>1 DEF Outbound, ObjectsThere
  <2>3. type \in Arrays => bs[ptr + 16].type = "elements"
      BY <2>2, MirrorsBlocks
  <2> QED
      BY <1>7, <1>11, <1>14, <2>1, <2>3
<1>16. ObjectsThere(c, bs, mem2, rf)
  <2>1. ObjectsThere(c, bs, mem, rf)
      BY DEF Outbound
  <2>2. ASSUME NEW o \in DOMAIN rf
        PROVE  Mirrors(c, o, bs[rf[o]].type, rf[o], Len(CellsOf(c, o)), bs, mem2, rf)
      BY <1>11, <1>12, <1>15, <2>1, ObjectsKept
  <2> QED
      BY <2>1, <2>2 DEF ObjectsThere
<1>17. ASSUME NEW i \in 1..m
       PROVE  /\ FrameOk(s[i], c, bs, mem2, rf) /\ s[i].js \notin DOMAIN rf
              /\ \A o \in DOMAIN rf : rf[o] # s[i].ptr
  <2>1. PICK e : e = s[i]
      OBVIOUS
  <2>2. i \in 1..n /\ i # n /\ n \in 1..n
      BY <1>5
  <2>3. FrameOk(e, c, bs, mem, rf) /\ e.js \notin DOMAIN rf /\ \A o \in DOMAIN rf : rf[o] # e.ptr
      BY <1>4, <2>1, <2>2 DEF Outbound, FramesThere
  <2>4. e.ptr # f.ptr
      BY <1>4, <1>6, <2>1, <2>2 DEF Outbound, FramesThere
  <2>5. PICK k : Mirrors(c, e.js, e.type, e.ptr, k, bs, mem, rf)
      BY <2>3 DEF FrameOk
  <2>6. e.type \in Arrays => bs[e.ptr + 16].type = "elements"
      BY <2>5, MirrorsBlocks
  <2>7. e.ptr \notin W /\ (e.type \in Arrays => e.ptr + 16 \notin W)
      BY <1>11, <1>14, <2>4, <2>6
  <2>8. FrameOk(e, c, bs, mem2, rf)
      BY <1>11, <1>12, <2>3, <2>7, FrameKept
  <2> QED
      BY <2>1, <2>3, <2>8
<1>18. /\ s2 \in Seq(S) /\ Len(s2) = n /\ s2[n] = g
       /\ \A i \in 1..m : s2[i] = s[i]
  <2>1. s2 = Append(t, g)
      BY <1>0, <1>3, <1>8
  <2>2. /\ s2 \in Seq(S) /\ Len(s2) = m + 1 /\ s2[m + 1] = g
        /\ \A i \in 1..m : s2[i] = t[i]
    <3>1. PICK l \in Nat : l = Len(t) /\ l = m
        BY <1>6
    <3>2. /\ Append(t, g) \in Seq(S) /\ Len(Append(t, g)) = Len(t) + 1 /\ Append(t, g)[Len(t) + 1] = g
          /\ \A i \in 1..Len(t) : Append(t, g)[i] = t[i]
        BY <1>9, AppendFacts
    <3> QED
        BY <2>1, <3>1, <3>2
  <2> QED
      BY <1>5, <1>6, <2>2
<1>19. \A i \in 1..n : i \in 1..m \/ i = n
    BY <1>5
<1>20. \A i \in 1..n : s2[i].ptr = s[i].ptr /\ s2[i].js = s[i].js
    BY <1>6, <1>9, <1>18, <1>19
<1>21. FramesThere(c, s2, bs, mem2, rf)
  <2>1. \A i \in 1..n : /\ FrameOk(s2[i], c, bs, mem2, rf) /\ s2[i].js \notin DOMAIN rf
                        /\ \A o \in DOMAIN rf : rf[o] # s2[i].ptr
    <3> TAKE i \in 1..n
    <3>1. CASE i \in 1..m
        BY <1>17, <1>18, <3>1
    <3>2. CASE i = n
        BY <1>7, <1>9, <1>10, <1>18, <3>2
    <3> QED
        BY <1>19, <3>1, <3>2
  <2>2. \A i, j \in 1..n : s[i].ptr = s[j].ptr => i = j
      BY <1>4 DEF Outbound, FramesThere
  <2>3. \A i, j \in 1..n : s2[i].ptr = s2[j].ptr => i = j
      BY <1>20, <2>2
  <2> QED
      BY <1>1, <1>18, <2>1, <2>3 DEF FramesThere
<1>22. Chained(c, s2, wa)
  <2>1. ASSUME NEW i \in 1..n, i < n PROVE Awaits(c, s2[i], s2[i+1].js)
    <3>1. i \in 1..m /\ i + 1 \in 1..n
        BY <1>5, <2>1
    <3>2. Awaits(c, s[i], s[i+1].js)
        BY <1>4, <2>1 DEF Outbound, Chained
    <3> QED
        BY <1>18, <1>20, <3>1, <3>2
  <2>2. /\ Len(wa) < Len(c.args)
        /\ c.args[Len(wa)+1].value.k = "ref" /\ c.args[Len(wa)+1].value.v = s2[1].js
    <3>1. 1 \in 1..n
        BY <1>4
    <3>2. s2[1].js = s[1].js
        BY <1>20, <3>1
    <3> QED
        BY <1>0, <3>2 DEF Outbound, Chained
  <2> QED
      BY <1>18, <2>1, <2>2 DEF Chained
<1>23. BlocksUsed(s2, bs, rf)
  <2> SUFFICES ASSUME NEW b \in DOMAIN bs, bs[b].type # "elements", ~ \E o \in DOMAIN rf : rf[o] = b
               PROVE  \E i \in 1..n : s2[i].ptr = b
      BY <1>18 DEF BlocksUsed
  <2>1. PICK i \in 1..n : s[i].ptr = b
      BY <1>4 DEF Outbound, BlocksUsed
  <2> QED
      BY <1>20, <2>1
<1>24. Layout(bs, br, mem2)
    BY <1>10 DEF Layout
<1> QED
    BY <1>16, <1>21, <1>22, <1>23, <1>24 DEF Outbound

(* The return of a value to what asked for it.                             *)
LEMMA DeliverKeeps ==
    ASSUME NEW c \in Calls, NEW s, NEW wa, NEW bs, NEW br, NEW mem, NEW rf, NEW v \in Int,
           NEW s2, NEW wa2, NEW mem2,
           Outbound(c, s, wa, bs, mem, rf), Layout(bs, br, mem), Wants(c, s, wa),
           NextValue(c, s, wa).k = "ref" => NextValue(c, s, wa).v \in DOMAIN rf,
           v = Rep(rf, NextValue(c, s, wa)), Delivers(s, wa, mem, v, s2, wa2, mem2)
    PROVE  Outbound(c, s2, wa2, bs, mem2, rf) /\ Layout(bs, br, mem2)
<1>1. CASE s = <<>>
  <2>1. s2 = <<>> /\ wa2 = Append(wa, v) /\ mem2 = mem
      BY <1>1 DEF Delivers
  <2>2. /\ Len(wa) < Len(c.args)
        /\ c.args[Len(wa) + 1].value.k = "ref" => c.args[Len(wa) + 1].value.v \in DOMAIN rf
        /\ v = Rep(rf, c.args[Len(wa) + 1].value)
      BY <1>1 DEF Wants, NextValue
  <2>3. Outbound(c, <<>>, wa, bs, mem, rf)
      BY <1>1
  <2>4. Outbound(c, <<>>, wa2, bs, mem, rf)
      BY <2>1, <2>2, <2>3, ArgumentDelivered
  <2> QED
      BY <2>1, <2>4
<1>2. CASE s # <<>>
  <2>1. PICK f : f = s[Len(s)]
      OBVIOUS
  <2>2. s2 = Append(Below(s), Advanced(f, v)) /\ wa2 = wa /\ Takes(f, mem, v, mem2)
      BY <1>2, <2>1 DEF Delivers, Takes
  <2>3. Answers(c, f, rf, v)
      BY <1>2, <2>1 DEF Wants, NextValue, Answers
  <2>4. Outbound(c, s2, wa, bs, mem2, rf) /\ Layout(bs, br, mem2)
    <3>1. OnTop(s, f) /\ Moves(s, f, v, s2)
        BY <1>2, <2>1, <2>2 DEF OnTop, Moves
    <3> QED
        BY <2>2, <2>3, <3>1, CellDelivered
  <2> QED
      BY <2>2, <2>4
<1> QED
    BY <1>1, <1>2

-----------------------------------------------------------------------------
(* From the state to the operators above.                                  *)
FramesSerialised == \A i \in 1..Len(stack) : stack[i].type \in DOMAIN types

(* Cells of a pointer and an offset that is aligned.                       *)
LEMMA Aligned ==
    ASSUME NEW p \in Nat, NEW off \in Nat, NEW type, p % 8 = 0, off % SizeOf(type) = 0
    PROVE  CellOf(p + off, type) = p + off
<1> DEFINE q == SizeOf(type)
<1>1. q \in {1, 4, 8}
    BY SizeType
<1>2. (p + off) % q = 0
  <2> HIDE DEF q
  <2>0. off % q = 0
      BY DEF q
  <2>1. CASE q = 1
      BY <2>1
  <2>2. CASE q = 4
      BY <2>0, <2>2
  <2>3. CASE q = 8
      BY <2>0, <2>3
  <2> QED
      BY <1>1, <2>1, <2>2, <2>3
<1> QED
    BY <1>2 DEF CellOf

(* The types a conversion looks up are those of the declarations.          *)
LEMMA Lookups ==
    ASSUME Serialised, NEW type \in DOMAIN types
    PROVE  /\ type \in Types
           /\ type \in Classes => /\ type \notin Arrays /\ types[type].fields = Fields(type)
                                  /\ \A n : CellType(type, n) = Fields(type)[n]
           /\ type \in Arrays => /\ types[type].typeArguments[1] = ElementOf[type]
                                 /\ \A n : CellType(type, n) = ElementOf[type]
<1>1. type \in Types /\ types[type] = Descriptor(type)
    BY DEF Serialised
<1>2. type \in Classes => type \notin Arrays
    BY NamesAssumption
<1> QED
    BY <1>1, <1>2 DEF Descriptor, CellType

(* Deliver stores what Delivers says, where it says.                       *)
LEMMA DeliverIs ==
    ASSUME Serialised, views' = buffer', NEW s, NEW mem, NEW v \in Int, NEW bs, NEW br, NEW rf,
           Laid(bs, br), Deliver(s, mem, v),
           s # <<>> => /\ FrameOk(s[Len(s)], call, bs, mem, rf)
                       /\ s[Len(s)].type \in DOMAIN types
                       /\ s[Len(s)].next <= Len(CellsOf(call, s[Len(s)].js))
    PROVE  Delivers(s, wasmArgs, mem, v, stack', wasmArgs', heap')
<1>1. CASE s = <<>>
    BY <1>1 DEF Deliver, Delivers
<1>2. CASE s # <<>>
  <2>1. PICK f : f = s[Len(s)]
      OBVIOUS
  <2>2. /\ stack' = Append(Below(s), Advanced(f, v)) /\ wasmArgs' = wasmArgs
        /\ heap' = IF f.type \in Arrays THEN mem
                   ELSE Stored(mem, views', f.ptr + FieldOffset(types[f.type].fields, f.next), v,
                               CellType(f.type, f.next))
      BY <1>2, <2>1 DEF Deliver, Advanced
  <2>3. ASSUME f.type \notin Arrays PROVE heap' = FieldStored(f, mem, v)
    <3>1. PICK cs, type, ptr, n, k : /\ cs = CellsOf(call, f.js) /\ type = f.type /\ ptr = f.ptr /\ n = f.next
                                     /\ k = IF OfObjects(f.type) THEN 0 ELSE f.next - 1
        OBVIOUS
    <3>2. Mirrors(call, f.js, type, ptr, k, bs, mem, rf) /\ n \in 1..(Len(cs) + 1) /\ n <= Len(cs)
        BY <1>2, <2>1, <3>1 DEF FrameOk
    <3>3. Suits(call, f.js, type) /\ ptr \in DOMAIN bs
        BY <3>2, MirrorsBlocks
    <3>4. type \in Pointers /\ Len(cs) \in Nat /\ (type \in Classes => Len(cs) = Len(Fields(type)))
        BY <3>1, <3>3, SuitsFacts DEF Serialised
    <3>5. type \in Classes
        BY <2>3, <3>1, <3>4 DEF Pointers
    <3>6. n \in 1..Len(Fields(type))
        BY <3>2, <3>4, <3>5
    <3>7. types[type].fields = Fields(type) /\ CellType(type, n) = Fields(type)[n]
        BY <1>2, <2>1, <3>1, <3>5, Lookups
    <3>13. PICK t : t = Fields(type)[n]
        OBVIOUS
    <3>8. PICK off \in Nat : off = FieldOffset(Fields(type), n) /\ off % SizeOf(t) = 0
        BY <3>5, <3>6, <3>13, ObjectLayout
    <3>9. ptr \in Nat /\ ptr % 8 = 0
        BY <3>3 DEF Laid
    <3>10. CellOf(ptr + off, t) = ptr + off
        BY <3>8, <3>9, Aligned
    <3>11. heap' = Stored(mem, views', ptr + off, v, t)
        BY <2>2, <2>3, <3>1, <3>7, <3>8, <3>13
    <3>12. heap' = Put(mem, ptr + off, [size |-> SizeOf(t), v |-> v])
        BY <3>10, <3>11 DEF Stored
    <3> QED
        BY <3>1, <3>8, <3>12, <3>13 DEF FieldStored
  <2>4. heap' = IF f.type \in Arrays THEN mem ELSE FieldStored(f, mem, v)
      BY <2>2, <2>3
  <2> QED
      BY <1>2, <2>1, <2>2, <2>4 DEF Delivers
<1> QED
    BY <1>1, <1>2

(* What is converted next, and the type it has.                            *)
LEMMA WantedIs ==
    ASSUME Serialised, Converting, FramesSerialised,
           Outbound(call, stack, wasmArgs, blocks, heap, refs), NEW w, w = Wanted
    PROVE  /\ Wants(call, stack, wasmArgs) /\ w.value = NextValue(call, stack, wasmArgs)
           /\ w.type \in Types /\ w.value \in Value /\ HasType(call, w.value, w.type)
<1>1. call \in Calls
    BY DEF Serialised
<1>2. CASE stack = <<>>
  <2> DEFINE R == [type : Types, value : Value]
  <2>1. call.args \in Seq(R) /\ wasmArgs \in Seq(Int) /\ Len(wasmArgs) < Len(call.args)
      BY <1>1, <1>2, CallsAssumption DEF Outbound, ArgumentsThere, Converting
  <2>2. PICK i \in Nat, args \in Seq(R) : i = Len(wasmArgs) + 1 /\ args = call.args
      BY <2>1
  <2>3. i \in 1..Len(args)
      BY <2>1, <2>2
  <2>4. args[i] \in R
    <3> HIDE DEF R
    <3> QED
        BY <2>3
  <2>5. w = args[i]
      BY <1>2, <2>2 DEF Wanted
  <2>6. HasType(call, args[i].value, args[i].type)
      BY <1>1, <2>2, <2>3, CallsAssumption
  <2>7. w.type \in Types /\ w.value \in Value
      BY <2>4, <2>5
  <2> QED
      BY <1>2, <2>1, <2>2, <2>5, <2>6, <2>7 DEF Wants, NextValue
<1>3. CASE stack # <<>>
  <2>1. PICK f : f = Top
      OBVIOUS
  <2>2. stack \in Seq(FrameSet(call))
      BY DEF Outbound, FramesThere
  <2>3. Len(stack) \in Nat /\ Len(stack) \in 1..Len(stack)
      BY <1>3, <2>2, EmptySeq
  <2>4. FrameOk(f, call, blocks, heap, refs) /\ f.type \in DOMAIN types
      BY <2>1, <2>3 DEF Outbound, FramesThere, FramesSerialised, Top
  <2>5. PICK cs, type, n, k : /\ cs = CellsOf(call, f.js) /\ type = f.type /\ n = f.next
                              /\ k = IF OfObjects(f.type) THEN 0 ELSE f.next - 1
      OBVIOUS
  <2>6. Suits(call, f.js, type) /\ n \in 1..(Len(cs) + 1)
      BY <2>4, <2>5, MirrorsBlocks DEF FrameOk
  <2>7. /\ type \in Pointers /\ Len(cs) \in Nat /\ cs \in Seq(Value)
        /\ type \in Arrays => \A i \in 1..Len(cs) : HasType(call, cs[i], ElementOf[type])
        /\ type \in Classes => /\ Len(cs) = Len(Fields(type))
                               /\ \A i \in 1..Len(cs) : HasType(call, cs[i], Fields(type)[i])
      BY <1>1, <2>5, <2>6, SuitsFacts
  <2>8. PICK l \in Nat : l = Len(cs) /\ l = Length(f) /\ n \in 1..(l + 1)
    <3>1. CASE type \in Arrays
        BY <2>5, <2>6, <2>7, <3>1 DEF Length, CellsOf, Graph
    <3>2. CASE type \in Classes
        BY <2>4, <2>5, <2>6, <2>7, <3>2, Lookups DEF Length
    <3> QED
        BY <2>7, <3>1, <3>2 DEF Pointers
  <2>9. n <= l /\ n \in 1..l
      BY <1>3, <2>1, <2>5, <2>8 DEF Converting, Complete
  <2>10. w.value = cs[n] /\ w.type = CellType(type, n)
      BY <1>3, <2>1, <2>5 DEF Wanted, CellsOf, Graph
  <2>11. w.type \in Types /\ HasType(call, cs[n], w.type)
    <3>1. CASE type \in Arrays
      <4>1. w.type = ElementOf[type]
          BY <2>4, <2>5, <2>10, <3>1, Lookups
      <4> QED
          BY <2>7, <2>8, <2>9, <3>1, <4>1, NamesAssumption
    <3>2. CASE type \in Classes
      <4>1. w.type = Fields(type)[n]
          BY <2>4, <2>5, <2>10, <3>2, Lookups
      <4>2. n \in 1..Len(Fields(type))
          BY <2>7, <2>8, <2>9, <3>2
      <4> QED
          BY <2>7, <2>8, <2>9, <3>2, <4>1, <4>2, ObjectLayout
    <3> QED
        BY <2>7, <3>1, <3>2 DEF Pointers
  <2>12. cs[n] \in Value
      BY <2>7, <2>8, <2>9, ElementOfSeq
  <2> QED
      BY <1>3, <2>1, <2>5, <2>8, <2>9, <2>10, <2>11, <2>12 DEF Wants, NextValue, Top
<1> QED
    BY <1>2, <1>3

(* The frames stay those of the same objects.                              *)
SameFrames(s, s2) == Len(s2) = Len(s) /\ \A i \in 1..Len(s) : s2[i].type = s[i].type /\ s2[i].js = s[i].js

(* A value that is returned leaves the frames on their objects.            *)
LEMMA DeliversSame ==
    ASSUME NEW c \in Calls, NEW s \in Seq(FrameSet(c)), NEW wa, NEW mem, NEW v \in Int,
           NEW s2, NEW wa2, NEW mem2, Delivers(s, wa, mem, v, s2, wa2, mem2)
    PROVE  SameFrames(s, s2)
<1>1. CASE s = <<>>
    BY <1>1 DEF Delivers, SameFrames
<1>2. CASE s # <<>>
  <2>1. PICK S : S = FrameSet(c)
      OBVIOUS
  <2>2. PICK n \in Nat : n = Len(s) /\ n > 0
      BY <1>2, FrontFacts
  <2>3. PICK f : f = s[n] /\ f \in S
      BY <2>1, <2>2, <1>2, FrontFacts
  <2>4. PICK m \in Nat : m = n - 1
      BY <2>2
  <2>5. PICK t \in Seq(S) : t = Below(s) /\ Len(t) = m /\ \A i \in 1..m : t[i] = s[i]
      BY <1>2, <2>1, <2>2, <2>4, FrontFacts
  <2>6. PICK g \in S : g = Advanced(f, v) /\ g.type = f.type /\ g.js = f.js
      BY <2>1, <2>3, AdvancedFacts
  <2>7. s2 = Append(t, g)
      BY <1>2, <2>2, <2>3, <2>5, <2>6 DEF Delivers
  <2>8. Len(s2) = m + 1 /\ s2[m + 1] = g /\ \A i \in 1..m : s2[i] = t[i]
    <3>1. /\ Len(Append(t, g)) = Len(t) + 1 /\ Append(t, g)[Len(t) + 1] = g
          /\ \A i \in 1..Len(t) : Append(t, g)[i] = t[i]
        BY AppendFacts
    <3> QED
        BY <2>5, <2>7, <3>1
  <2>9. ASSUME NEW i \in 1..n PROVE s2[i].type = s[i].type /\ s2[i].js = s[i].js
    <3>1. CASE i \in 1..m
        BY <2>5, <2>8, <3>1
    <3>2. CASE i = n
        BY <2>3, <2>4, <2>6, <2>8, <3>2
    <3> QED
        BY <2>4, <3>1, <3>2
  <2>10. Len(s2) = n
      BY <2>4, <2>8
  <2> QED
      BY <2>2, <2>9, <2>10 DEF SameFrames
<1> QED
    BY <1>1, <1>2

(* objectReferences leads to blocks of objects.                            *)
LEMMA RefsAre ==
    ASSUME NEW c \in Calls, NEW bs, NEW br, NEW mem, NEW rf, ObjectsThere(c, bs, mem, rf), Laid(bs, br)
    PROVE  \A o \in DOMAIN rf : rf[o] \in DOMAIN bs /\ rf[o] \in Nat /\ bs[rf[o]].type \in Pointers
                                /\ Suits(c, o, bs[rf[o]].type)
<1> TAKE o \in DOMAIN rf
<1>1. PICK type, ptr, k : type = bs[rf[o]].type /\ ptr = rf[o] /\ k = Len(CellsOf(c, o))
    OBVIOUS
<1>2. Mirrors(c, o, type, ptr, k, bs, mem, rf)
    BY <1>1 DEF ObjectsThere
<1>3. Suits(c, o, type) /\ ptr \in DOMAIN bs
    BY <1>2, MirrorsBlocks
<1>4. type \in Pointers
    BY <1>3, SuitsFacts
<1> QED
    BY <1>1, <1>3, <1>4 DEF Laid

-----------------------------------------------------------------------------
(* The objects that have been visited are ones the arguments lead to.      *)
Visited ==
    /\ DOMAIN refs \subseteq Reachable
    /\ \A i \in 1..Len(stack) : stack[i].js \in Reachable

Sound == Layout(blocks, brk, heap) /\ views = buffer /\ buffer \in Nat
Underway ==
    /\ Outbound(call, stack, wasmArgs, blocks, heap, refs)
    /\ FramesSerialised /\ Visited

(* An early return of jsToWasm.                                            *)
LEMMA ImmediateKeeps ==
    ASSUME Serialised, Sound, Underway, ConvertImmediate
    PROVE  Sound' /\ Underway'
<1>1. PICK w : w = Wanted
    OBVIOUS
<1>2. call \in Calls
    BY DEF Serialised
<1>3. /\ Wants(call, stack, wasmArgs) /\ w.value = NextValue(call, stack, wasmArgs)
      /\ w.type \in Types /\ w.value \in Value /\ HasType(call, w.value, w.type)
    BY <1>1, WantedIs DEF ConvertImmediate, Underway
<1>4. PICK v : v = IF w.value.k = "ref" THEN refs[w.value.v] ELSE w.value.v
    OBVIOUS
<1>5. /\ UNCHANGED <<buffer, views, call, phase, types, work, blocks, brk, refs>>
      /\ Deliver(stack, heap, v)
    BY <1>1, <1>4 DEF ConvertImmediate, serialization
<1>6. w.value.k = "ref" => w.value.v \in DOMAIN refs
    BY <1>1, <1>3 DEF ConvertImmediate, HasType, Unset, Known
<1>7. Laid(blocks, brk) /\ Layout(blocks, brk, heap) /\ views' = buffer'
    BY <1>5 DEF Sound, Layout
<1>8. ObjectsThere(call, blocks, heap, refs) /\ stack \in Seq(FrameSet(call))
    BY DEF Underway, Outbound, FramesThere
<1>9. v \in Int /\ v = Rep(refs, w.value)
  <2>1. w.value.v \in Int
      BY <1>3 DEF Value
  <2>2. \A o \in DOMAIN refs : refs[o] \in Nat
      BY <1>2, <1>7, <1>8, RefsAre
  <2> QED
      BY <1>4, <1>6, <2>1, <2>2 DEF Rep
<1>10. stack # <<>> => /\ FrameOk(stack[Len(stack)], call, blocks, heap, refs)
                       /\ stack[Len(stack)].type \in DOMAIN types
                       /\ stack[Len(stack)].next <= Len(CellsOf(call, stack[Len(stack)].js))
  <2> SUFFICES ASSUME stack # <<>> PROVE /\ FrameOk(stack[Len(stack)], call, blocks, heap, refs)
                       /\ stack[Len(stack)].type \in DOMAIN types
                       /\ stack[Len(stack)].next <= Len(CellsOf(call, stack[Len(stack)].js))
      OBVIOUS
  <2>1. Len(stack) \in 1..Len(stack)
      BY <1>8, EmptySeq
  <2> QED
      BY <1>3, <2>1 DEF Underway, Outbound, FramesThere, FramesSerialised, Wants
<1>11. Delivers(stack, wasmArgs, heap, v, stack', wasmArgs', heap')
    BY <1>5, <1>7, <1>9, <1>10, DeliverIs
<1>12. Outbound(call, stack', wasmArgs', blocks, heap', refs) /\ Layout(blocks, brk, heap')
  <2>1. /\ NextValue(call, stack, wasmArgs).k = "ref" => NextValue(call, stack, wasmArgs).v \in DOMAIN refs
        /\ v = Rep(refs, NextValue(call, stack, wasmArgs))
      BY <1>3, <1>6, <1>9
  <2>2. Outbound(call, stack, wasmArgs, blocks, heap, refs)
      BY DEF Underway
  <2> QED
      BY <1>2, <1>3, <1>7, <1>9, <1>11, <2>1, <2>2, DeliverKeeps
<1>13. SameFrames(stack, stack')
    BY <1>2, <1>8, <1>9, <1>11, DeliversSame
<1>14. FramesSerialised' /\ Visited'
  <2>1. Reachable' = Reachable
      BY <1>5 DEF Reachable, Given, Closed, References, Graph, SeqRange
  <2> QED
      BY <1>5, <1>13, <2>1 DEF Underway, FramesSerialised, Visited, SameFrames
<1> QED
    BY <1>5, <1>7, <1>12, <1>14 DEF Sound, Underway

(* jsToWasm returns the pointer of the object of the frame on top.         *)
LEMMA FinishRuns ==
    ASSUME Serialised, Sound, Underway, Finish
    PROVE  Sound' /\ Underway'
<1>1. PICK f : f = Top
    OBVIOUS
<1>2. call \in Calls
    BY DEF Serialised
<1>3. PICK t, p : t = Below(stack) /\ p = f.ptr
    OBVIOUS
<1>4. PICK objects \in BOOLEAN : objects = (f.type \in Arrays /\ CellType(f.type, 1) \in Pointers)
    OBVIOUS
<1>5. PICK mem : mem = IF objects THEN StoredAll(heap, f.view, Loaded(f.ptr, "i32"), f.elements, CellType(f.type, 1))
                       ELSE heap
    OBVIOUS
<1>6. /\ phase = "convert" /\ stack # <<>> /\ Complete(f)
      /\ ~(objects /\ f.view # buffer)
      /\ UNCHANGED <<buffer, views, call, phase, types, work, blocks, brk>>
      /\ refs' = Put(refs, f.js, p)
      /\ Deliver(t, mem, p)
    BY <1>1, <1>3, <1>4, <1>5 DEF Finish, serialization
<1>7. Laid(blocks, brk) /\ Layout(blocks, brk, heap) /\ views' = buffer' /\ Outbound(call, stack, wasmArgs, blocks, heap, refs)
    BY <1>6 DEF Sound, Layout, Underway
<1>8. PICK S : S = FrameSet(call)
    OBVIOUS
<1>9. stack \in Seq(S)
    BY <1>7, <1>8 DEF Outbound, FramesThere
<1>10. PICK n \in Nat : n = Len(stack) /\ n > 0 /\ n \in 1..n /\ f = stack[n]
    BY <1>1, <1>6, <1>9, FrontFacts DEF Top
<1>11. FrameOk(f, call, blocks, heap, refs) /\ f.type \in DOMAIN types /\ f.js \in Reachable
    BY <1>7, <1>10 DEF Outbound, FramesThere, Underway, FramesSerialised, Visited
<1>12. PICK cs, type, k : /\ cs = CellsOf(call, f.js) /\ type = f.type
                          /\ k = IF OfObjects(f.type) THEN 0 ELSE f.next - 1
    OBVIOUS
<1>13. /\ Mirrors(call, f.js, type, p, k, blocks, heap, refs) /\ f.next \in 1..(Len(cs) + 1)
       /\ OfObjects(type) => Len(f.elements) = f.next - 1
    BY <1>3, <1>11, <1>12 DEF FrameOk
<1>14. Suits(call, f.js, type) /\ p \in DOMAIN blocks
    BY <1>13, MirrorsBlocks
<1>15. type \in Pointers /\ Len(cs) \in Nat /\ (type \in Classes => Len(cs) = Len(Fields(type)))
    BY <1>2, <1>12, <1>14, SuitsFacts
<1>16. p \in Nat /\ p % 8 = 0
    BY <1>7, <1>14 DEF Laid
<1>17. f.next = Len(cs) + 1
  <2>1. Length(f) = Len(cs)
    <3>1. CASE type \in Arrays
        BY <1>12, <3>1 DEF Length, CellsOf, Graph
    <3>2. CASE type \in Classes
        BY <1>11, <1>12, <1>15, <3>2, Lookups DEF Length
    <3> QED
        BY <1>15, <3>1, <3>2 DEF Pointers
  <2>2. PICK l \in Nat : l = Len(cs) /\ l = Length(f)
      BY <1>15, <2>1
  <2> QED
      BY <1>6, <1>13, <2>2 DEF Complete
<1>18. objects = OfObjects(type)
    BY <1>4, <1>11, <1>12, Lookups DEF OfObjects
<1>19. Finished(call, f, blocks, heap, mem)
  <2>1. CASE ~objects
      BY <1>5, <1>12, <1>17, <1>18, <2>1 DEF Finished
  <2>2. CASE objects
    <3>1. type \in Arrays /\ CellType(type, 1) = ElementOf[type]
        BY <1>11, <1>12, <1>18, <2>2, Lookups DEF OfObjects
    <3>2. Loaded(p, "i32") = p + 16
      <4>1. At(heap, p, "i32", p + 16)
          BY <1>12, <1>13, <3>1 DEF Mirrors, IsAt, HeaderAt
      <4>2. SizeOf("i32") = 4
          BY DEF SizeOf
      <4>3. CellOf(p, "i32") = p
          BY <1>16, <4>2 DEF CellOf
      <4> QED
          BY <4>1, <4>3 DEF Loaded, At
    <3>3. PICK begin \in Nat : begin = p + 16 /\ begin % 8 = 0
        BY <1>16
    <3>4. PICK elements, e : elements = f.elements /\ e = ElementOf[type]
        OBVIOUS
    <3>5. Len(elements) \in Nat
        BY <1>13, <1>15, <1>17, <1>18, <2>2, <3>4
    <3>6. PICK view : view = buffer' /\ view = f.view
        BY <1>6, <2>2
    <3>7. RowIs(heap, StoredAll(heap, view, begin, elements, e), begin, elements, e)
        BY <3>3, <3>5, <3>6, StoredRow
    <3>8. mem = StoredAll(heap, view, begin, elements, e)
        BY <1>3, <1>5, <1>12, <2>2, <3>1, <3>2, <3>3, <3>4, <3>6
    <3>9. RowIs(heap, mem, p + 16, f.elements, ElementOf[f.type])
        BY <1>12, <3>3, <3>4, <3>7, <3>8
    <3> QED
        BY <1>3, <1>12, <1>17, <1>18, <2>2, <3>9 DEF Finished
  <2> QED
      BY <2>1, <2>2
<1>20. PICK rf2 : rf2 = Put(refs, f.js, f.ptr)
    OBVIOUS
<1>21. /\ Outbound(call, t, wasmArgs, blocks, mem, rf2) /\ Layout(blocks, brk, mem)
       /\ Wants(call, t, wasmArgs)
       /\ NextValue(call, t, wasmArgs).k = "ref" /\ NextValue(call, t, wasmArgs).v = f.js
  <2>1. f = stack[Len(stack)]
      BY <1>10
  <2> QED
      BY <1>2, <1>3, <1>6, <1>7, <1>19, <1>20, <2>1, FinishKeeps
<1>22. refs' = rf2 /\ DOMAIN rf2 = DOMAIN refs \cup {f.js} /\ rf2[f.js] = p
    BY <1>3, <1>6, <1>20 DEF Put
<1>23. p \in Int /\ p = Rep(rf2, NextValue(call, t, wasmArgs)) /\ NextValue(call, t, wasmArgs).v \in DOMAIN rf2
    BY <1>16, <1>21, <1>22 DEF Rep
<1>24. /\ t \in Seq(S) /\ Len(t) = n - 1 /\ \A i \in 1..(n - 1) : t[i] = stack[i]
    BY <1>3, <1>6, <1>9, <1>10, FrontFacts
<1>25. \A i \in 1..(n - 1) : i \in 1..n
    OBVIOUS
<1>26. t # <<>> => /\ FrameOk(t[Len(t)], call, blocks, mem, rf2)
                   /\ t[Len(t)].type \in DOMAIN types
                   /\ t[Len(t)].next <= Len(CellsOf(call, t[Len(t)].js))
  <2> SUFFICES ASSUME t # <<>> PROVE /\ FrameOk(t[Len(t)], call, blocks, mem, rf2)
                   /\ t[Len(t)].type \in DOMAIN types
                   /\ t[Len(t)].next <= Len(CellsOf(call, t[Len(t)].js))
      OBVIOUS
  <2>1. PICK m \in Nat : m = Len(t) /\ m \in 1..m /\ m \in 1..n /\ t[m] = stack[m]
    <3>1. Len(t) \in Nat /\ Len(t) > 0
        BY <1>24, FrontFacts
    <3> QED
        BY <1>24, <3>1
  <2>2. t[m].type \in DOMAIN types
      BY <1>10, <2>1 DEF Underway, FramesSerialised
  <2>3. FrameOk(t[m], call, blocks, mem, rf2)
      BY <1>21, <2>1 DEF Outbound, FramesThere
  <2> QED
      BY <1>21, <2>1, <2>2, <2>3 DEF Wants
<1>27. Delivers(t, wasmArgs, mem, p, stack', wasmArgs', heap')
    BY <1>6, <1>7, <1>23, <1>26, DeliverIs
<1>28. Outbound(call, stack', wasmArgs', blocks, heap', rf2) /\ Layout(blocks, brk, heap')
    BY <1>2, <1>21, <1>23, <1>27, DeliverKeeps
<1>29. SameFrames(t, stack')
    BY <1>2, <1>8, <1>23, <1>24, <1>27, DeliversSame
<1>30. FramesSerialised' /\ Visited'
  <2>1. Reachable' = Reachable
      BY <1>6 DEF Reachable, Given, Closed, References, Graph, SeqRange
  <2>2. Len(stack') = n - 1 /\ \A i \in 1..(n - 1) : stack'[i].type = stack[i].type /\ stack'[i].js = stack[i].js
      BY <1>24, <1>29 DEF SameFrames
  <2>3. \A i \in 1..(n - 1) : stack'[i].type \in DOMAIN types /\ stack'[i].js \in Reachable
      BY <1>10, <1>25, <2>2 DEF Underway, FramesSerialised, Visited
  <2>4. DOMAIN refs' \subseteq Reachable
      BY <1>11, <1>22 DEF Underway, Visited
  <2> QED
      BY <1>6, <2>1, <2>2, <2>3, <2>4 DEF FramesSerialised, Visited
<1> QED
    BY <1>6, <1>7, <1>22, <1>28, <1>30 DEF Sound, Underway

-----------------------------------------------------------------------------
(* malloc hands out a block at the break.                                  *)
Mallocs(bs, br, size, type, bs2, br2) ==
    /\ bs2 = Put(bs, br, [size |-> size, type |-> type])
    /\ br2 = br + BlockSize(size)
SizeFits(size, type) ==
    /\ size \in Nat /\ type \in Pointers \cup {"elements"}
    /\ type \in Classes => size = ComputeObjectSize(Fields(type))
    /\ type \in Arrays => size = 12

(* The new block is apart from the others and below the new break.         *)
LEMMA Allocated ==
    ASSUME NEW bs, NEW br, NEW bs2, NEW br2, NEW size, NEW type,
           Laid(bs, br), Sized(bs), SizeFits(size, type), Mallocs(bs, br, size, type, bs2, br2)
    PROVE  /\ Laid(bs2, br2) /\ Sized(bs2) /\ Extends(bs, bs2)
           /\ DOMAIN bs2 = DOMAIN bs \cup {br} /\ br \notin DOMAIN bs
           /\ bs2[br].size = size /\ bs2[br].type = type
<1>0. /\ bs2 = Put(bs, br, [size |-> size, type |-> type]) /\ br2 = br + BlockSize(size)
      /\ size \in Nat /\ type \in Pointers \cup {"elements"}
      /\ type \in Classes => size = ComputeObjectSize(Fields(type))
      /\ type \in Arrays => size = 12
    BY DEF Mallocs, SizeFits
<1>1. br \in Nat /\ br % 8 = 0 /\ br > 0
    BY DEF Laid
<1>2. PICK k \in Nat : k = BlockSize(size) /\ k % 8 = 0 /\ k > 0
    BY <1>0, BlockSizeFacts
<1>3. \A b \in DOMAIN bs : b \in Nat /\ b % 8 = 0 /\ b > 0 /\ bs[b].size \in Nat /\ b + BlockSize(bs[b].size) <= br
    BY DEF Laid
<1>4. \A b \in DOMAIN bs : b < br
  <2> TAKE b \in DOMAIN bs
  <2>1. PICK l \in Nat : l = BlockSize(bs[b].size) /\ l > 0
      BY <1>3, BlockSizeFacts
  <2> QED
      BY <1>1, <1>3, <2>1
<1>5. br \notin DOMAIN bs
    BY <1>1, <1>4
<1>14. PICK r : r = [size |-> size, type |-> type]
    OBVIOUS
<1>6. r = [size |-> size, type |-> type] /\ r.size = size /\ r.type = type
    BY <1>14
<1>7. DOMAIN bs2 = DOMAIN bs \cup {br} /\ bs2[br] = r /\ \A b \in DOMAIN bs : bs2[b] = bs[b]
  <2>1. bs2 = Put(bs, br, r)
      BY <1>0, <1>6
  <2> QED
      BY <1>5, <2>1 DEF Put
<1>8. br2 \in Nat /\ br2 % 8 = 0 /\ br2 > br
    BY <1>0, <1>1, <1>2
<1>9. ASSUME NEW b \in DOMAIN bs2
      PROVE  /\ b \in Nat /\ b % 8 = 0 /\ b > 0
             /\ bs2[b].size \in Nat /\ b + BlockSize(bs2[b].size) <= br2
  <2>1. CASE b = br
      BY <1>0, <1>1, <1>2, <1>6, <1>7, <2>1
  <2>2. CASE b \in DOMAIN bs
    <3>1. PICK l \in Nat : l = BlockSize(bs[b].size)
        BY <1>3, <2>2, BlockSizeFacts
    <3>2. bs2[b] = bs[b] /\ b + l <= br /\ b \in Nat
        BY <1>3, <1>7, <2>2, <3>1
    <3>3. b + l <= br2
        BY <1>1, <1>8, <3>1, <3>2
    <3> QED
        BY <1>3, <2>2, <3>1, <3>2, <3>3
  <2> QED
      BY <1>7, <2>1, <2>2
<1>10. ASSUME NEW b \in DOMAIN bs2, NEW c \in DOMAIN bs2, b < c PROVE b + BlockSize(bs2[b].size) <= c
  <2>1. b # br
    <3> SUFFICES ASSUME b = br PROVE FALSE
        OBVIOUS
    <3>1. br < c
        BY <1>10
    <3>2. CASE c = br
        BY <1>1, <3>1, <3>2
    <3>3. CASE c \in DOMAIN bs
        BY <1>1, <1>3, <1>4, <3>1, <3>3
    <3> QED
        BY <1>7, <3>2, <3>3
  <2>2. b \in DOMAIN bs /\ bs2[b] = bs[b]
      BY <1>7, <2>1
  <2>3. CASE c = br
      BY <1>3, <2>2, <2>3
  <2>4. CASE c \in DOMAIN bs
      BY <1>10, <2>2, <2>4 DEF Laid
  <2> QED
      BY <1>7, <2>3, <2>4
<1>11. Laid(bs2, br2)
    BY <1>1, <1>8, <1>9, <1>10 DEF Laid
<1>12. Sized(bs2)
    BY <1>0, <1>6, <1>7 DEF Sized
<1>13. Extends(bs, bs2)
    BY <1>7 DEF Extends
<1> QED
    BY <1>5, <1>6, <1>7, <1>11, <1>12, <1>13

(* What has been written stays inside the blocks there were.               *)
LEMMA BackedKept ==
    ASSUME NEW mem, NEW bs, NEW bs2, Backed(mem, bs), Extends(bs, bs2)
    PROVE  Backed(mem, bs2)
BY DEF Backed, Extends

(* jsToWasm of an object that is new to the call.                          *)
ObjectThere(c, o, type, bs, br, mem, rf, bs2, br2) ==
    /\ Layout(bs2, br2, mem) /\ Extends(bs, bs2)
    /\ DOMAIN bs2 = DOMAIN bs \cup {br} /\ br \notin DOMAIN bs
    /\ Mirrors(c, o, type, br, 0, bs2, mem, rf)

(* Its block is there and none of its fields.                              *)
LEMMA ObjectBegun ==
    ASSUME NEW c \in Calls, NEW o, NEW type \in Classes, NEW bs, NEW br, NEW mem, NEW rf, NEW bs2, NEW br2,
           NEW size, Layout(bs, br, mem), Suits(c, o, type), size = ComputeObjectSize(Fields(type)),
           Mallocs(bs, br, size, type, bs2, br2)
    PROVE  ObjectThere(c, o, type, bs, br, mem, rf, bs2, br2)
<1>1. size \in Nat
    BY ObjectLayout
<1>2. type \in Pointers \cup {"elements"} /\ type \notin Arrays
    BY NamesAssumption DEF Pointers
<1>3. Laid(bs, br) /\ Sized(bs) /\ Backed(mem, bs)
    BY DEF Layout
<1>4. /\ Laid(bs2, br2) /\ Sized(bs2) /\ Extends(bs, bs2)
      /\ DOMAIN bs2 = DOMAIN bs \cup {br} /\ br \notin DOMAIN bs
      /\ bs2[br].size = size /\ bs2[br].type = type
  <2>1. SizeFits(size, type)
      BY <1>1, <1>2 DEF SizeFits
  <2> QED
      BY <1>3, <2>1, Allocated
<1>5. Backed(mem, bs2)
    BY <1>3, <1>4, BackedKept
<1>6. PICK cs : cs = CellsOf(c, o) /\ Len(cs) \in Nat
    BY SuitsFacts
<1>7. 0 \in 0..Len(cs) /\ 1..0 = {}
    BY <1>6
<1>8. br \in DOMAIN bs2 /\ bs2[br].type = type
    BY <1>4
<1>9. IsAt(type, cs, br, 0, bs2, mem, rf)
    BY <1>2, <1>7, <1>8 DEF IsAt, FieldsAt, Referred
<1> QED
    BY <1>4, <1>5, <1>6, <1>9 DEF Layout, Mirrors, ObjectThere

(* RuntimeArray.from: the header, and the elements unless they are objects.*)
Header(h, begin, bytes, n) == Len(h) = 3 /\ h[1] = begin /\ h[2] = begin + bytes /\ h[3] = n
Filled(type, cs, mem, mem2, begin, numbers) ==
    IF OfObjects(type) THEN mem2 = mem
    ELSE /\ RowIs(mem, mem2, begin, numbers, ElementOf[type])
         /\ Len(numbers) = Len(cs) /\ \A i \in 1..Len(cs) : numbers[i] = cs[i].v

(* begin, back and capacity of an array.                                   *)
LEMMA HeaderWritten ==
    ASSUME NEW bs, NEW br, NEW mem, NEW mem2, NEW ptr \in DOMAIN bs, NEW h, NEW bytes, NEW n,
           Laid(bs, br), Backed(mem, bs), bs[ptr].size = 12,
           Header(h, ptr + 16, bytes, n), RowIs(mem, mem2, ptr, h, "i32")
    PROVE  HeaderAt(mem2, ptr, bytes, n) /\ Backed(mem2, bs) /\ Writes(mem, mem2, bs, {ptr})
<1>1. SizeOf("i32") = 4
    BY DEF SizeOf
<1>2. PICK t : t = "i32"
    OBVIOUS
<1>3. PICK l \in Nat : l = Len(h) /\ l = 3
    BY DEF Header
<1>4. Backed(mem2, bs) /\ Writes(mem, mem2, bs, {ptr})
  <2>1. l * SizeOf(t) <= bs[ptr].size
      BY <1>1, <1>2, <1>3
  <2>2. RowIs(mem, mem2, ptr, h, t)
      BY <1>2
  <2> QED
      BY <1>3, <2>1, <2>2, RowKeeps
<1>5. ptr \in Nat
    BY DEF Laid
<1>6. \A i \in 1..3 : At(mem2, ptr + (i - 1) * 4, "i32", h[i])
    BY <1>1, <1>3 DEF RowIs
<1>7. At(mem2, ptr, "i32", h[1]) /\ At(mem2, ptr + 4, "i32", h[2]) /\ At(mem2, ptr + 8, "i32", h[3])
  <2>1. At(mem2, ptr + (1 - 1) * 4, "i32", h[1])
      BY <1>6
  <2>2. At(mem2, ptr + (2 - 1) * 4, "i32", h[2])
      BY <1>6
  <2>3. At(mem2, ptr + (3 - 1) * 4, "i32", h[3])
      BY <1>6
  <2>4. ptr + (1 - 1) * 4 = ptr /\ ptr + (2 - 1) * 4 = ptr + 4 /\ ptr + (3 - 1) * 4 = ptr + 8
      BY <1>5
  <2> QED
      BY <2>1, <2>2, <2>3, <2>4
<1> QED
    BY <1>4, <1>7 DEF HeaderAt, Header

MallocsArray(bs, br, type, bytes, bs2, br2) ==
    \E bs1 : Mallocs(bs, br, 12, type, bs1, br + 16) /\ Mallocs(bs1, br + 16, bytes, "elements", bs2, br2)

ArrayBlocks(bs, br, type, bytes, bs2, br2) ==
    /\ Laid(bs2, br2) /\ Sized(bs2) /\ Extends(bs, bs2)
    /\ DOMAIN bs2 = DOMAIN bs \cup {br, br + 16} /\ br \notin DOMAIN bs /\ br + 16 \notin DOMAIN bs
    /\ bs2[br].type = type /\ bs2[br].size = 12
    /\ bs2[br + 16] = [size |-> bytes, type |-> "elements"]

(* The two blocks of an array.                                             *)
LEMMA ArrayAllocated ==
    ASSUME NEW type \in Arrays, NEW bs, NEW br, NEW bs2, NEW br2, NEW bytes,
           bytes \in Nat, Laid(bs, br), Sized(bs), MallocsArray(bs, br, type, bytes, bs2, br2)
    PROVE  ArrayBlocks(bs, br, type, bytes, bs2, br2)
<1>1. PICK bs1 : Mallocs(bs, br, 12, type, bs1, br + 16) /\ Mallocs(bs1, br + 16, bytes, "elements", bs2, br2)
    BY DEF MallocsArray
<1>2. type \notin Classes /\ type \in Pointers /\ "elements" \notin Classes /\ "elements" \notin Arrays
    BY NamesAssumption DEF Pointers, Types
<1>3. SizeFits(12, type) /\ SizeFits(bytes, "elements")
    BY <1>2 DEF SizeFits
<1>4. PICK begin, el, sz, len : begin = br + 16 /\ el = "elements" /\ sz = 12 /\ len = bytes
    OBVIOUS
<1>5. /\ Laid(bs1, begin) /\ Sized(bs1) /\ Extends(bs, bs1)
      /\ DOMAIN bs1 = DOMAIN bs \cup {br} /\ br \notin DOMAIN bs
      /\ bs1[br].size = sz /\ bs1[br].type = type
  <2>1. Mallocs(bs, br, sz, type, bs1, begin) /\ SizeFits(sz, type)
      BY <1>1, <1>3, <1>4
  <2> QED
      BY <2>1, Allocated
<1>6. /\ Laid(bs2, br2) /\ Sized(bs2) /\ Extends(bs1, bs2)
      /\ DOMAIN bs2 = DOMAIN bs1 \cup {begin} /\ begin \notin DOMAIN bs1
      /\ bs2[begin].size = len /\ bs2[begin].type = el
  <2>1. Mallocs(bs1, begin, len, el, bs2, br2) /\ SizeFits(len, el)
      BY <1>1, <1>3, <1>4
  <2> QED
    <3>1. Laid(bs1, begin) /\ Sized(bs1)
        BY <1>5
    <3>2. Laid(bs2, br2) /\ Sized(bs2) /\ Extends(bs1, bs2)
        BY <2>1, <3>1, Allocated
    <3>3. DOMAIN bs2 = DOMAIN bs1 \cup {begin} /\ begin \notin DOMAIN bs1
        BY <2>1, <3>1, Allocated
    <3>4. bs2[begin].size = len /\ bs2[begin].type = el
        BY <2>1, <3>1, Allocated
    <3> QED
        BY <3>2, <3>3, <3>4
<1>7. bs2[begin] = [size |-> bytes, type |-> "elements"]
  <2>1. PICK r : r = [size |-> bytes, type |-> "elements"]
      OBVIOUS
  <2>2. bs2 = Put(bs1, begin, r)
      BY <1>1, <1>4, <2>1 DEF Mallocs
  <2>3. bs2[begin] = r
      BY <2>2 DEF Put
  <2> QED
      BY <2>1, <2>3
<1>8. Extends(bs, bs2) /\ bs2[br] = bs1[br]
    BY <1>5, <1>6 DEF Extends
<1> QED
    BY <1>4, <1>5, <1>6, <1>7, <1>8 DEF ArrayBlocks

(* jsToWasm of an array that is new to the call.                           *)
ArrayMade(type, cs, n, bytes, h, numbers, bs, br, mem, mem1, bs2, br2, mem2) ==
    /\ bytes = SizeOf(ElementOf[type]) * n /\ MallocsArray(bs, br, type, bytes, bs2, br2)
    /\ Header(h, br + 16, bytes, n) /\ RowIs(mem, mem1, br, h, "i32")
    /\ Filled(type, cs, mem1, mem2, br + 16, numbers)
ArrayThere(c, o, type, bs, br, mem, rf, bs2, br2, mem2, n) ==
    /\ Layout(bs2, br2, mem2) /\ Extends(bs, bs2)
    /\ DOMAIN bs2 = DOMAIN bs \cup {br, br + 16} /\ br \notin DOMAIN bs /\ br + 16 \notin DOMAIN bs
    /\ bs2[br + 16].type = "elements"
    /\ Writes(mem, mem2, bs2, {br, br + 16})
    /\ Mirrors(c, o, type, br, IF OfObjects(type) THEN 0 ELSE n, bs2, mem2, rf)

(* Its two blocks are there, and its elements if they are primitive.       *)
LEMMA ArrayBegun ==
    ASSUME NEW c \in Calls, NEW o, NEW type \in Arrays, NEW bs, NEW br, NEW mem, NEW rf, NEW bs2, NEW br2,
           NEW mem1, NEW mem2, NEW cs, NEW n, NEW bytes, NEW h, NEW numbers,
           Layout(bs, br, mem), Suits(c, o, type), cs = CellsOf(c, o), n = Len(cs),
           ArrayMade(type, cs, n, bytes, h, numbers, bs, br, mem, mem1, bs2, br2, mem2)
    PROVE  ArrayThere(c, o, type, bs, br, mem, rf, bs2, br2, mem2, n)
<1>0. /\ bytes = SizeOf(ElementOf[type]) * n /\ MallocsArray(bs, br, type, bytes, bs2, br2)
      /\ Header(h, br + 16, bytes, n) /\ RowIs(mem, mem1, br, h, "i32")
      /\ Filled(type, cs, mem1, mem2, br + 16, numbers)
    BY DEF ArrayMade
<1>1. PICK q, e : q = SizeOf(e) /\ e = ElementOf[type] /\ q \in {1, 4, 8} /\ e \in Types
    BY SizeType, NamesAssumption
<1>2. n \in Nat /\ \A i \in 1..n : HasType(c, cs[i], e)
    BY <1>1, SuitsFacts
<1>3. bytes \in Nat /\ bytes = n * q
    BY <1>0, <1>1, <1>2
<1>4. Laid(bs, br) /\ Sized(bs) /\ Backed(mem, bs)
    BY DEF Layout
<1>5. /\ Laid(bs2, br2) /\ Sized(bs2) /\ Extends(bs, bs2)
      /\ DOMAIN bs2 = DOMAIN bs \cup {br, br + 16} /\ br \notin DOMAIN bs /\ br + 16 \notin DOMAIN bs
      /\ bs2[br].type = type /\ bs2[br].size = 12
      /\ bs2[br + 16] = [size |-> bytes, type |-> "elements"]
  <2>1. PICK len : len = bytes
      OBVIOUS
  <2>2. len \in Nat /\ MallocsArray(bs, br, type, len, bs2, br2)
      BY <1>0, <1>3, <2>1
  <2>3. ArrayBlocks(bs, br, type, len, bs2, br2)
      BY <1>4, <2>2, ArrayAllocated
  <2> QED
      BY <2>1, <2>3 DEF ArrayBlocks
<1>6. PICK begin \in Nat : begin = br + 16
    BY <1>4 DEF Laid
<1>7. /\ br \in DOMAIN bs2 /\ begin \in DOMAIN bs2 /\ begin # br /\ bs2[begin].size = bytes
      /\ bs2[begin].type = "elements" /\ br \in Nat
    BY <1>4, <1>5, <1>6 DEF Laid
<1>8. Backed(mem, bs2)
    BY <1>4, <1>5, BackedKept
<1>9. HeaderAt(mem1, br, bytes, n) /\ Backed(mem1, bs2) /\ Writes(mem, mem1, bs2, {br})
    BY <1>0, <1>5, <1>7, <1>8, HeaderWritten
<1>10. Backed(mem2, bs2) /\ Writes(mem1, mem2, bs2, {begin})
  <2>1. CASE OfObjects(type)
    <3>1. mem2 = mem1
        BY <1>0, <2>1 DEF Filled
    <3> QED
        BY <1>9, <3>1 DEF Writes
  <2>2. CASE ~OfObjects(type)
    <3>1. RowIs(mem1, mem2, begin, numbers, e) /\ n = Len(numbers)
        BY <1>0, <1>1, <1>6, <2>2 DEF Filled
    <3>2. n * SizeOf(e) <= bs2[begin].size
        BY <1>1, <1>3, <1>7
    <3> QED
        BY <1>2, <1>5, <1>7, <1>9, <3>1, <3>2, RowKeeps
  <2> QED
      BY <2>1, <2>2
<1>11. Writes(mem, mem2, bs2, {br, begin})
  <2>1. DOMAIN mem \subseteq DOMAIN mem2
      BY <1>9, <1>10 DEF Writes
  <2>2. ASSUME NEW a \in DOMAIN mem, mem2[a] # mem[a] PROVE \E b \in {br, begin} : InBlock(a, bs2, b)
    <3>1. a \in DOMAIN mem1
        BY <1>9 DEF Writes
    <3>2. CASE mem1[a] # mem[a]
        BY <1>9, <3>2 DEF Writes
    <3>3. CASE mem2[a] # mem1[a]
        BY <1>10, <3>1, <3>3 DEF Writes
    <3> QED
        BY <2>2, <3>2, <3>3
  <2> QED
      BY <2>1, <2>2 DEF Writes
<1>12. HeaderAt(mem2, br, bytes, n)
  <2>1. SizeOf("i32") = 4
      BY DEF SizeOf
  <2>2. PICK t, W : t = "i32" /\ W = {begin}
      OBVIOUS
  <2>3. \A a \in Nat : \A v : br <= a /\ a + 4 <= br + 12 /\ At(mem1, a, t, v) => At(mem2, a, t, v)
    <3> SUFFICES ASSUME NEW a \in Nat, NEW v, br <= a, a + 4 <= br + 12, At(mem1, a, t, v)
                 PROVE  At(mem2, a, t, v)
        OBVIOUS
    <3>1. a + SizeOf(t) <= br + bs2[br].size
        BY <1>5, <2>1, <2>2
    <3>2. br \notin W /\ W \in SUBSET DOMAIN bs2 /\ Writes(mem1, mem2, bs2, W)
        BY <1>7, <1>10, <2>2
    <3> QED
        BY <1>5, <1>7, <3>1, <3>2, AtKept
  <2>4. /\ br <= br /\ br + 4 <= br + 12
        /\ br <= br + 4 /\ br + 4 + 4 <= br + 12 /\ br + 4 \in Nat
        /\ br <= br + 8 /\ br + 8 + 4 <= br + 12 /\ br + 8 \in Nat
      BY <1>7
  <2> QED
      BY <1>7, <1>9, <2>2, <2>3, <2>4 DEF HeaderAt
<1>13. PICK k : k = IF OfObjects(type) THEN 0 ELSE n
    OBVIOUS
<1>14. k \in 0..n
    BY <1>2, <1>13
<1>15. Referred(cs, k, rf) /\ ElementsAt(mem2, begin, e, cs, k, rf)
  <2>1. CASE OfObjects(type)
    <3>1. 1..k = {}
        BY <1>13, <2>1
    <3> QED
        BY <3>1 DEF Referred, ElementsAt
  <2>2. CASE ~OfObjects(type)
    <3>1. e \in Primitives
        BY <1>1, <2>2 DEF OfObjects, Types, Pointers
    <3>2. \A i \in 1..n : cs[i].k # "ref"
        BY <1>2, <3>1 DEF HasType, Unset
    <3>3. /\ RowIs(mem1, mem2, begin, numbers, e)
          /\ Len(numbers) = n /\ \A i \in 1..n : numbers[i] = cs[i].v
        BY <1>0, <1>1, <1>6, <2>2 DEF Filled
    <3>4. \A i \in 1..n : At(mem2, begin + (i - 1) * SizeOf(e), e, numbers[i])
        BY <3>3 DEF RowIs
    <3>5. \A i \in 1..n : Rep(rf, cs[i]) = numbers[i]
        BY <3>2, <3>3 DEF Rep
    <3>6. k = n
        BY <1>13, <2>2
    <3> QED
        BY <3>2, <3>4, <3>5, <3>6 DEF Referred, ElementsAt
  <2> QED
      BY <2>1, <2>2
<1>16. type \notin Classes
    BY NamesAssumption
<1>17. IsAt(type, cs, br, k, bs2, mem2, rf)
  <2>1. SizeOf(ElementOf[type]) * Len(cs) = bytes
      BY <1>0
  <2> QED
      BY <1>1, <1>5, <1>6, <1>7, <1>12, <1>14, <1>15, <1>16, <2>1 DEF IsAt
<1> QED
    BY <1>5, <1>6, <1>7, <1>10, <1>11, <1>13, <1>17 DEF Layout, Mirrors, ArrayThere

-----------------------------------------------------------------------------
(* What the arguments lead to.                                             *)
LEMMA GivenReachable ==
    ASSUME NEW i \in 1..Len(call.args), call.args[i].value.k = "ref",
           call.args[i].value.v \in DOMAIN Graph
    PROVE  call.args[i].value.v \in Reachable
<1>1. call.args[i] \in SeqRange(call.args)
    BY DEF SeqRange
<1>2. call.args[i].value.v \in Given
    BY <1>1 DEF Given
<1> QED
    BY <1>2 DEF Reachable

(* What a reachable object refers to is reachable.                         *)
LEMMA ReferredReachable ==
    ASSUME NEW o \in Reachable, NEW p \in References(o), p \in DOMAIN Graph
    PROVE  p \in Reachable
<1> SUFFICES ASSUME NEW objects \in SUBSET DOMAIN Graph, Given \subseteq objects, Closed(objects)
             PROVE  p \in objects
    BY DEF Reachable
<1>1. o \in objects
    BY DEF Reachable
<1> QED
    BY <1>1 DEF Closed

(* A cell of an object is one of its references.                           *)
LEMMA CellReferred ==
    ASSUME NEW o, NEW i \in 1..Len(CellsOf(call, o)), CellsOf(call, o)[i].k = "ref"
    PROVE  CellsOf(call, o)[i].v \in References(o)
<1>1. CellsOf(call, o)[i] \in SeqRange(Graph[o].cells)
    BY DEF CellsOf, Graph, SeqRange
<1> QED
    BY <1>1 DEF References

(* An object that a conversion is about to begin with.                     *)
LEMMA NewcomerIs ==
    ASSUME Serialised, Underway, Converting, NEW w, w = Wanted, Fresh(w), Accepted(w)
    PROVE  /\ Wants(call, stack, wasmArgs)
           /\ NextValue(call, stack, wasmArgs).k = "ref" /\ NextValue(call, stack, wasmArgs).v = w.value.v
           /\ Suits(call, w.value.v, w.type) /\ w.value.v \in 1..Len(call.graph)
           /\ w.value.v \notin DOMAIN refs /\ w.type \in DOMAIN types
           /\ w.value.v \in Reachable
<1>1. call \in Calls
    BY DEF Serialised
<1>2. /\ Wants(call, stack, wasmArgs) /\ w.value = NextValue(call, stack, wasmArgs)
      /\ HasType(call, w.value, w.type)
    BY WantedIs DEF Underway
<1>3. /\ w.type \in DOMAIN types /\ w.type \notin Primitives /\ w.value.k = "ref"
      /\ w.value.v \notin DOMAIN refs
    BY DEF Fresh, Known
<1>4. PICK o, type : o = w.value.v /\ type = w.type
    OBVIOUS
<1>5. <<o, type>> \in call.uses
    BY <1>2, <1>3, <1>4 DEF HasType
<1>6. o \in 1..Len(call.graph)
    BY <1>1, <1>5, CallsAssumption
<1>7. Suits(call, o, type)
    BY <1>4, <1>5, <1>6 DEF Accepted, Graph, Suits
<1>8. o \in DOMAIN Graph
  <2>1. call.graph \in Seq([ctor : STRING, cells : Seq(Value)])
      BY <1>1, CallsAssumption
  <2> QED
      BY <1>6, <2>1 DEF Graph
<1>9. o \in Reachable
  <2>1. CASE stack = <<>>
    <3>1. wasmArgs \in Seq(Int) /\ Len(wasmArgs) < Len(call.args)
        BY <1>2, <2>1 DEF Wants, Underway, Outbound, ArgumentsThere
    <3>2. call.args \in Seq([type : Types, value : Value])
        BY <1>1, CallsAssumption
    <3>3. PICK i \in 1..Len(call.args) : i = Len(wasmArgs) + 1
        BY <3>1, <3>2
    <3>4. call.args[i].value = w.value
        BY <1>2, <2>1, <3>3 DEF NextValue
    <3> QED
        BY <1>3, <1>4, <1>8, <3>4, GivenReachable
  <2>2. CASE stack # <<>>
    <3>1. stack \in Seq(FrameSet(call))
        BY DEF Underway, Outbound, FramesThere
    <3>2. Len(stack) \in 1..Len(stack)
        BY <2>2, <3>1, EmptySeq
    <3>3. PICK f : f = stack[Len(stack)] /\ f.js \in Reachable /\ FrameOk(f, call, blocks, heap, refs)
        BY <3>2 DEF Underway, Visited, Outbound, FramesThere
    <3>4. PICK n, p : n = f.next /\ p = f.js
        OBVIOUS
    <3>5. n \in 1..(Len(CellsOf(call, p)) + 1) /\ n <= Len(CellsOf(call, p))
        BY <1>2, <2>2, <3>3, <3>4 DEF FrameOk, Wants
    <3>6. n \in 1..Len(CellsOf(call, p))
      <4>1. PICK l : l = Len(CellsOf(call, p)) /\ l \in Nat
        <5>1. Suits(call, p, f.type)
            BY <3>3, <3>4, MirrorsBlocks DEF FrameOk
        <5> QED
            BY <1>1, <5>1, SuitsFacts
      <4> QED
          BY <3>5, <4>1
    <3>7. CellsOf(call, p)[n] = w.value
        BY <1>2, <2>2, <3>3, <3>4 DEF NextValue
    <3>8. o \in References(p)
        BY <1>3, <1>4, <3>6, <3>7, CellReferred
    <3> QED
        BY <1>8, <3>3, <3>4, <3>8, ReferredReachable
  <2> QED
      BY <2>1, <2>2
<1> QED
    BY <1>2, <1>3, <1>4, <1>6, <1>7, <1>9

-----------------------------------------------------------------------------
NewFrame(f, o, type, ptr, next) ==
    f.js = o /\ f.type = type /\ f.ptr = ptr /\ f.next = next /\ Len(f.elements) = 0
BegunWith(c, o, type) == IF type \in Arrays /\ ~OfObjects(type) THEN Len(CellsOf(c, o)) ELSE 0

(* The frame of an object that has just been begun.                        *)
LEMMA FrameBegun ==
    ASSUME NEW c \in Calls, NEW f, NEW o, NEW type, NEW ptr, NEW bs, NEW mem, NEW rf,
           f \in FrameSet(c), NewFrame(f, o, type, ptr, BegunWith(c, o, type) + 1),
           Mirrors(c, o, type, ptr, BegunWith(c, o, type), bs, mem, rf)
    PROVE  FrameOk(f, c, bs, mem, rf)
<1>1. PICK cs : cs = CellsOf(c, o)
    OBVIOUS
<1>2. Suits(c, o, type)
    BY MirrorsBlocks
<1>3. PICK l \in Nat : l = Len(cs)
    BY <1>1, <1>2, SuitsFacts
<1>4. PICK k \in Nat : k = BegunWith(c, o, type) /\ k <= l
    BY <1>1, <1>3 DEF BegunWith
<1>5. /\ f.js = o /\ f.type = type /\ f.ptr = ptr /\ f.next = k + 1 /\ Len(f.elements) = 0
    BY <1>4 DEF NewFrame
<1>6. f.next - 1 = k /\ f.next \in 1..(l + 1)
    BY <1>3, <1>4, <1>5
<1>7. OfObjects(type) => k = 0 /\ 1..k = {}
    BY <1>4 DEF BegunWith
<1>8. (IF OfObjects(type) THEN 0 ELSE f.next - 1) = k
    BY <1>6, <1>7
<1>9. type \in Arrays /\ ~OfObjects(type) => f.next = l + 1
    BY <1>1, <1>3, <1>4, <1>5 DEF BegunWith
<1>10. OfObjects(type) =>
          /\ Len(f.elements) = f.next - 1
          /\ Referred(cs, f.next - 1, rf)
          /\ \A i \in 1..(f.next - 1) : f.elements[i] = Rep(rf, cs[i])
    BY <1>5, <1>6, <1>7 DEF Referred
<1>11. Mirrors(c, o, type, ptr, IF OfObjects(type) THEN 0 ELSE f.next - 1, bs, mem, rf)
    BY <1>4, <1>8
<1> QED
    BY <1>1, <1>3, <1>5, <1>6, <1>9, <1>10, <1>11 DEF FrameOk

(* The new frame is on an object that the arguments lead to.               *)
LEMMA FramesPushed ==
    ASSUME Underway, NEW f, f \in FrameSet(call), stack' = Append(stack, f),
           UNCHANGED <<call, types, refs>>, f.type \in DOMAIN types, f.js \in Reachable
    PROVE  FramesSerialised' /\ Visited'
<1>1. PICK S : S = FrameSet(call)
    OBVIOUS
<1>2. stack \in Seq(S)
    BY <1>1 DEF Underway, Outbound, FramesThere
<1>3. PICK n \in Nat : n = Len(stack)
    BY <1>2
<1>4. Len(stack') = n + 1 /\ stack'[n + 1] = f /\ \A i \in 1..n : stack'[i] = stack[i]
    BY <1>1, <1>2, <1>3, AppendFacts
<1>5. \A i \in 1..(n + 1) : i \in 1..n \/ i = n + 1
    BY <1>3
<1>6. Reachable' = Reachable
    BY DEF Reachable, Given, Closed, References, Graph, SeqRange
<1>7. \A i \in 1..n : stack[i].type \in DOMAIN types /\ stack[i].js \in Reachable
    BY <1>3 DEF Underway, FramesSerialised, Visited
<1>8. \A i \in 1..(n + 1) : stack'[i].type \in DOMAIN types /\ stack'[i].js \in Reachable
    BY <1>4, <1>5, <1>7
<1> QED
    BY <1>4, <1>6, <1>8 DEF Underway, FramesSerialised, Visited

(* jsToWasm begins with an object.                                         *)
LEMMA ObjectRuns ==
    ASSUME Serialised, Sound, Underway, ConvertObject
    PROVE  Sound' /\ Underway'
<1>1. PICK w : w = Wanted
    OBVIOUS
<1>2. PICK o, type, size : o = w.value.v /\ type = w.type /\ size = ComputeObjectSize(types[w.type].fields)
    OBVIOUS
<1>3. /\ Converting /\ Fresh(w) /\ Accepted(w) /\ type \in Classes /\ Grow
      /\ blocks' = Put(blocks, brk, [size |-> size, type |-> type])
      /\ brk' = brk + BlockSize(size)
      /\ stack' = Append(stack, Frame(w, brk))
      /\ UNCHANGED <<call, phase, types, work, heap, refs, wasmArgs>>
    BY <1>1, <1>2 DEF ConvertObject, serialization, outbound
<1>4. call \in Calls
    BY DEF Serialised
<1>5. /\ Wants(call, stack, wasmArgs)
      /\ NextValue(call, stack, wasmArgs).k = "ref" /\ NextValue(call, stack, wasmArgs).v = o
      /\ Suits(call, o, type) /\ o \in 1..Len(call.graph)
      /\ o \notin DOMAIN refs /\ type \in DOMAIN types /\ o \in Reachable
    BY <1>1, <1>2, <1>3, NewcomerIs
<1>6. size = ComputeObjectSize(Fields(type))
    BY <1>2, <1>3, <1>5, Lookups
<1>7. Layout(blocks, brk, heap) /\ Laid(blocks, brk) /\ brk \in Nat
    BY DEF Sound, Layout, Laid
<1>8. Mallocs(blocks, brk, size, type, blocks', brk')
    BY <1>3 DEF Mallocs
<1>9. /\ Layout(blocks', brk', heap) /\ Extends(blocks, blocks')
      /\ DOMAIN blocks' = DOMAIN blocks \cup {brk} /\ brk \notin DOMAIN blocks
      /\ Mirrors(call, o, type, brk, 0, blocks', heap, refs)
  <2>1. PICK bs2, br, br2 : bs2 = blocks' /\ br = brk /\ br2 = brk'
      OBVIOUS
  <2>2. Mallocs(blocks, br, size, type, bs2, br2) /\ Layout(blocks, br, heap)
      BY <1>7, <1>8, <2>1
  <2>3. ObjectThere(call, o, type, blocks, br, heap, refs, bs2, br2)
      BY <1>3, <1>4, <1>5, <1>6, <2>2, ObjectBegun
  <2> QED
      BY <2>1, <2>3 DEF ObjectThere
<1>10. views' = buffer' /\ buffer' \in Nat
    BY <1>3 DEF Grow, Sound
<1>11. PICK f : f = Frame(w, brk)
    OBVIOUS
<1>12. f = [js |-> o, type |-> type, ptr |-> brk, next |-> 1, elements |-> <<>>, view |-> views']
    BY <1>2, <1>11 DEF Frame
<1>13. f \in FrameSet(call) /\ f.js = o /\ f.type = type /\ f.ptr = brk /\ f.next = 1 /\ f.elements = <<>>
  <2>1. type \in Pointers /\ <<>> \in Seq(Int)
      BY <1>3 DEF Pointers
  <2> QED
      BY <1>5, <1>7, <1>10, <1>12, <2>1 DEF FrameSet
<1>14. BegunWith(call, o, type) = 0
    BY <1>3, NamesAssumption DEF BegunWith
<1>15. FrameOk(f, call, blocks', heap, refs)
  <2>1. NewFrame(f, o, type, brk, BegunWith(call, o, type) + 1)
      BY <1>13, <1>14 DEF NewFrame
  <2>2. Mirrors(call, o, type, brk, BegunWith(call, o, type), blocks', heap, refs)
      BY <1>9, <1>14
  <2> QED
      BY <1>4, <1>13, <2>1, <2>2, FrameBegun
<1>16. Outbound(call, stack', wasmArgs, blocks', heap, refs)
  <2>1. PICK W : W = {}
      OBVIOUS
  <2>2. W \in SUBSET DOMAIN blocks' /\ W \cap DOMAIN blocks = {} /\ Writes(heap, heap, blocks', W)
      BY <2>1 DEF Writes
  <2>3. Laid(blocks', brk') /\ Sized(blocks')
      BY <1>9 DEF Layout
  <2>4. f.ptr \notin DOMAIN blocks /\ f.js \notin DOMAIN refs
      BY <1>5, <1>9, <1>13
  <2>5. \A b \in DOMAIN blocks' \ DOMAIN blocks : b = f.ptr \/ blocks'[b].type = "elements"
      BY <1>9, <1>13
  <2>6. Outbound(call, stack, wasmArgs, blocks, heap, refs)
      BY DEF Underway
  <2>7. NextValue(call, stack, wasmArgs).v = f.js
      BY <1>5, <1>13
  <2>8. Outbound(call, Append(stack, f), wasmArgs, blocks', heap, refs)
      BY <1>4, <1>5, <1>9, <1>15, <2>2, <2>3, <2>4, <2>5, <2>6, <2>7, PushKeeps
  <2> QED
      BY <1>3, <1>11, <2>8
<1>17. FramesSerialised' /\ Visited'
  <2>1. stack' = Append(stack, f) /\ f.type \in DOMAIN types /\ f.js \in Reachable
      BY <1>3, <1>5, <1>11, <1>13
  <2> QED
      BY <1>3, <1>13, <2>1, FramesPushed
<1> QED
    BY <1>3, <1>9, <1>10, <1>16, <1>17 DEF Sound, Underway

(* jsToWasm begins with an array.                                          *)
LEMMA ArrayRuns ==
    ASSUME Serialised, Sound, Underway, ConvertArray
    PROVE  Sound' /\ Underway'
<1>1. PICK w : w = Wanted
    OBVIOUS
<1>2. PICK o, type, element : o = w.value.v /\ type = w.type /\ element = types[w.type].typeArguments[1]
    OBVIOUS
<1>3. PICK cs : cs = CellsOf(call, o) /\ cs = Graph[o].cells
    BY DEF CellsOf, Graph
<1>4. PICK n, bytes, begin : n = Len(cs) /\ bytes = SizeOf(element) * n /\ begin = brk + 16
    OBVIOUS
<1>5. PICK h : h = <<begin, begin + bytes, n>>
    OBVIOUS
<1>6. PICK mem1, numbers : mem1 = StoredAll(heap, views', brk, h, "i32") /\ numbers = [i \in 1..n |-> cs[i].v]
    OBVIOUS
<1>7. /\ Converting /\ Fresh(w) /\ Accepted(w) /\ type \in Arrays /\ Grow
      /\ blocks' = Put(Put(blocks, brk, [size |-> 12, type |-> type]), begin, [size |-> bytes, type |-> "elements"])
      /\ brk' = begin + BlockSize(bytes)
      /\ IF element \in Primitives
         THEN /\ heap' = StoredAll(mem1, views', begin, numbers, element)
              /\ stack' = Append(stack, [Frame(w, brk) EXCEPT !.next = n + 1])
         ELSE heap' = mem1 /\ stack' = Append(stack, Frame(w, brk))
      /\ UNCHANGED <<call, phase, types, work, refs, wasmArgs>>
    BY <1>1, <1>2, <1>3, <1>4, <1>5, <1>6 DEF ConvertArray, serialization, outbound
<1>8. call \in Calls
    BY DEF Serialised
<1>9. /\ Wants(call, stack, wasmArgs)
      /\ NextValue(call, stack, wasmArgs).k = "ref" /\ NextValue(call, stack, wasmArgs).v = o
      /\ Suits(call, o, type) /\ o \in 1..Len(call.graph)
      /\ o \notin DOMAIN refs /\ type \in DOMAIN types /\ o \in Reachable
    BY <1>1, <1>2, <1>7, NewcomerIs
<1>10. element = ElementOf[type] /\ element \in Types
    BY <1>2, <1>7, <1>9, Lookups, NamesAssumption
<1>11. n \in Nat
    BY <1>3, <1>4, <1>8, <1>9, SuitsFacts
<1>12. Layout(blocks, brk, heap) /\ Laid(blocks, brk) /\ brk \in Nat /\ brk % 8 = 0
    BY DEF Sound, Layout, Laid
<1>13. bytes \in Nat /\ begin \in Nat /\ begin % 8 = 0
    BY <1>4, <1>11, <1>12, SizeType
<1>14. views' = buffer' /\ buffer' \in Nat
    BY <1>7 DEF Grow, Sound
<1>15. Header(h, brk + 16, bytes, n)
    BY <1>4, <1>5 DEF Header
<1>16. RowIs(heap, mem1, brk, h, "i32")
  <2>1. PICK t, view : t = "i32" /\ view = views'
      OBVIOUS
  <2>2. Len(h) \in Nat /\ view = buffer'
      BY <1>5, <1>14, <2>1
  <2>3. RowIs(heap, StoredAll(heap, view, brk, h, t), brk, h, t)
      BY <1>12, <2>2, StoredRow
  <2> QED
      BY <1>6, <2>1, <2>3
<1>17. OfObjects(type) <=> element \notin Primitives
    BY <1>7, <1>10, NamesAssumption DEF OfObjects, Types, Pointers
<1>18. Filled(type, cs, mem1, heap', brk + 16, numbers)
  <2>1. CASE OfObjects(type)
      BY <1>7, <1>17, <2>1 DEF Filled
  <2>2. CASE ~OfObjects(type)
    <3>1. Len(numbers) = n /\ \A i \in 1..n : numbers[i] = cs[i].v
        BY <1>6, <1>11
    <3>2. PICK view : view = views' /\ view = buffer'
        BY <1>14
    <3>3. Len(numbers) \in Nat
        BY <1>11, <3>1
    <3>4. RowIs(mem1, StoredAll(mem1, view, begin, numbers, element), begin, numbers, element)
        BY <1>13, <3>2, <3>3, StoredRow
    <3>5. heap' = StoredAll(mem1, view, begin, numbers, element)
        BY <1>7, <1>17, <2>2, <3>2
    <3>6. RowIs(mem1, heap', brk + 16, numbers, ElementOf[type])
        BY <1>4, <1>10, <3>4, <3>5
    <3> QED
        BY <1>4, <2>2, <3>1, <3>6 DEF Filled
  <2> QED
      BY <2>1, <2>2
<1>19. MallocsArray(blocks, brk, type, bytes, blocks', brk')
  <2>1. PICK bs1 : bs1 = Put(blocks, brk, [size |-> 12, type |-> type])
      OBVIOUS
  <2>2. brk + 16 = brk + BlockSize(12)
      BY DEF BlockSize, AlignTo
  <2>3. Mallocs(blocks, brk, 12, type, bs1, brk + 16)
      BY <2>1, <2>2 DEF Mallocs
  <2>4. Mallocs(bs1, brk + 16, bytes, "elements", blocks', brk')
      BY <1>4, <1>7, <2>1 DEF Mallocs
  <2> QED
      BY <2>3, <2>4 DEF MallocsArray
<1>20. PICK bs2, br2, mem2 : bs2 = blocks' /\ br2 = brk' /\ mem2 = heap'
    OBVIOUS
<1>21. /\ Layout(bs2, br2, mem2) /\ Extends(blocks, bs2)
       /\ DOMAIN bs2 = DOMAIN blocks \cup {brk, begin} /\ brk \notin DOMAIN blocks /\ begin \notin DOMAIN blocks
       /\ bs2[begin].type = "elements"
       /\ Writes(heap, mem2, bs2, {brk, begin})
       /\ Mirrors(call, o, type, brk, IF OfObjects(type) THEN 0 ELSE n, bs2, mem2, refs)
  <2>1. PICK br, len : br = brk /\ len = bytes
      OBVIOUS
  <2>2. ArrayMade(type, cs, n, len, h, numbers, blocks, br, heap, mem1, bs2, br2, mem2)
      BY <1>4, <1>10, <1>15, <1>16, <1>18, <1>19, <1>20, <2>1 DEF ArrayMade
  <2>3. Layout(blocks, br, heap)
      BY <1>12, <2>1
  <2>4. ArrayThere(call, o, type, blocks, br, heap, refs, bs2, br2, mem2, n)
      BY <1>3, <1>4, <1>7, <1>8, <1>9, <2>2, <2>3, ArrayBegun
  <2> QED
      BY <1>4, <2>1, <2>4 DEF ArrayThere
<1>22. PICK k \in Nat : k = BegunWith(call, o, type) /\ k = IF OfObjects(type) THEN 0 ELSE n
    BY <1>3, <1>4, <1>7, <1>11 DEF BegunWith
<1>23. PICK f : stack' = Append(stack, f) /\ f = [Frame(w, brk) EXCEPT !.next = k + 1]
  <2>1. CASE OfObjects(type)
    <3>1. k + 1 = 1
        BY <1>22, <2>1
    <3>2. Frame(w, brk) = [Frame(w, brk) EXCEPT !.next = k + 1]
        BY <3>1 DEF Frame
    <3> QED
        BY <1>7, <1>17, <2>1, <3>2
  <2>2. CASE ~OfObjects(type)
      BY <1>7, <1>17, <1>22, <2>2
  <2> QED
      BY <2>1, <2>2
<1>24. f = [js |-> o, type |-> type, ptr |-> brk, next |-> k + 1, elements |-> <<>>, view |-> views']
    BY <1>2, <1>23 DEF Frame
<1>25. f \in FrameSet(call) /\ f.js = o /\ f.type = type /\ f.ptr = brk /\ f.next = k + 1 /\ f.elements = <<>>
  <2>1. type \in Pointers /\ <<>> \in Seq(Int) /\ views' \in Nat
      BY <1>7, <1>14 DEF Pointers
  <2> QED
      BY <1>9, <1>12, <1>24, <2>1 DEF FrameSet
<1>26. FrameOk(f, call, bs2, mem2, refs)
  <2>1. NewFrame(f, o, type, brk, BegunWith(call, o, type) + 1)
      BY <1>22, <1>25 DEF NewFrame
  <2>2. Mirrors(call, o, type, brk, BegunWith(call, o, type), bs2, mem2, refs)
      BY <1>21, <1>22
  <2> QED
      BY <1>8, <1>25, <2>1, <2>2, FrameBegun
<1>27. Outbound(call, stack', wasmArgs, bs2, mem2, refs)
  <2>1. PICK W : W = {brk, begin}
      OBVIOUS
  <2>2. W \in SUBSET DOMAIN bs2 /\ W \cap DOMAIN blocks = {} /\ Writes(heap, mem2, bs2, W)
      BY <1>21, <2>1
  <2>3. Laid(bs2, br2) /\ Sized(bs2)
      BY <1>21 DEF Layout
  <2>4. f.ptr \notin DOMAIN blocks /\ f.js \notin DOMAIN refs
      BY <1>9, <1>21, <1>25
  <2>5. \A b \in DOMAIN bs2 \ DOMAIN blocks : b = f.ptr \/ bs2[b].type = "elements"
      BY <1>21, <1>25
  <2>6. Outbound(call, stack, wasmArgs, blocks, heap, refs)
      BY DEF Underway
  <2>7. NextValue(call, stack, wasmArgs).v = f.js
      BY <1>9, <1>25
  <2>8. Outbound(call, Append(stack, f), wasmArgs, bs2, mem2, refs)
      BY <1>8, <1>9, <1>21, <1>26, <2>2, <2>3, <2>4, <2>5, <2>6, <2>7, PushKeeps
  <2> QED
      BY <1>23, <2>8
<1>28. FramesSerialised' /\ Visited'
  <2>1. f.type \in DOMAIN types /\ f.js \in Reachable
      BY <1>9, <1>25
  <2> QED
      BY <1>7, <1>23, <1>25, <2>1, FramesPushed
<1> QED
    BY <1>7, <1>14, <1>20, <1>21, <1>27, <1>28 DEF Sound, Underway

-----------------------------------------------------------------------------
(* The inductive invariant of the call up to the compiled function, and of *)
(* the memory until its end.                                               *)
ConversionInv ==
    /\ Serialised /\ Sound
    /\ phase \in {"serialize", "convert", "run"} => Underway
    /\ phase \in {"serialize", "run"} => stack = <<>>
    /\ phase = "run" => Len(wasmArgs) = Len(call.args)

(* Before the call nothing is converted and nothing allocated.             *)
LEMMA InitConversion == Init => ConversionInv
<1> SUFFICES ASSUME Init PROVE ConversionInv
    OBVIOUS
<1>1. PICK e : e = <<>>
    OBVIOUS
<1>2. DOMAIN e = {} /\ e \in Seq(Int) /\ Len(e) = 0 /\ e \in Seq(FrameSet(call))
    BY <1>1
<1>3. /\ call \in Calls /\ phase = "serialize" /\ buffer = 0 /\ views = 0 /\ heap = e /\ blocks = e /\ brk = 16
      /\ refs = e /\ wasmArgs = e /\ stack = e
    BY <1>1 DEF Init
<1>4. Sound
  <2>1. Laid(e, 16) /\ Sized(e) /\ Backed(e, e)
      BY <1>2 DEF Laid, Sized, Backed
  <2> QED
      BY <1>3, <2>1 DEF Sound, Layout
<1>5. Outbound(call, e, e, e, e, e)
  <2>1. ObjectsThere(call, e, e, e) /\ BlocksUsed(e, e, e)
      BY <1>2 DEF ObjectsThere, BlocksUsed
  <2>2. FramesThere(call, e, e, e, e)
      BY <1>2 DEF FramesThere
  <2>3. Chained(call, e, e)
      BY <1>1, <1>2 DEF Chained
  <2>4. ArgumentsThere(call, e, e)
    <3>1. Len(call.args) \in Nat
        BY <1>3, ArgumentsTyped
    <3> QED
        BY <1>2, <3>1 DEF ArgumentsThere
  <2> QED
      BY <2>1, <2>2, <2>3, <2>4 DEF Outbound
<1>6. Underway
    BY <1>2, <1>3, <1>5 DEF Underway, FramesSerialised, Visited
<1> QED
    BY <1>1, <1>3, <1>4, <1>6, InitSerialised DEF ConversionInv

(* A store of the compiled function to a field of an object.               *)
LEMMA ReturnSound ==
    ASSUME Sound, Return
    PROVE  Sound'
<1>1. UNCHANGED <<buffer, views, blocks, brk>>
    BY DEF Return
<1>2. Laid(blocks, brk) /\ Sized(blocks) /\ Backed(heap, blocks)
    BY DEF Sound, Layout
<1>3. Backed(heap', blocks)
  <2>1. CASE UNCHANGED heap
      BY <1>2, <2>1
  <2>2. CASE \E class \in Classes : \E n \in 1..Len(Fields(class)) :
               LET t == Fields(class)[n] IN
               /\ t \in Classes
               /\ \E p \in PointersOf(class), q \in PointersOf(t) :
                    heap' = Put(heap, p + CompiledOffset(class, n), [size |-> 4, v |-> q])
    <3>1. PICK class \in Classes, n \in Nat, p \in DOMAIN blocks, q \in DOMAIN blocks :
               /\ n \in 1..Len(Fields(class))
               /\ Fields(class)[n] \in Classes /\ blocks[p].type = class
               /\ heap' = Put(heap, p + CompiledOffset(class, n), [size |-> 4, v |-> q])
        BY <2>2 DEF PointersOf
    <3>2. PICK t : t = Fields(class)[n]
        OBVIOUS
    <3>3. SizeOf(t) = 4
        BY <3>1, <3>2, NamesAssumption DEF SizeOf, Primitives, Pointers
    <3>4. PICK off \in Nat : /\ off = FieldOffset(Fields(class), n)
                             /\ off + SizeOf(t) <= ComputeObjectSize(Fields(class))
                             /\ CompiledOffset(class, n) = off
        BY <3>1, <3>2, ObjectLayout
    <3>5. p \in Nat /\ blocks[p].size \in Nat /\ blocks[p].size = ComputeObjectSize(Fields(class))
        BY <1>2, <3>1 DEF Laid, Sized
    <3>6. PICK a, v, mem2 : a = p + off /\ v = q /\ mem2 = heap'
        OBVIOUS
    <3>7. Fits(a, t, p, blocks)
        BY <3>3, <3>4, <3>5, <3>6 DEF Fits
    <3>8. Stores(heap, mem2, a, t, v)
        BY <3>1, <3>3, <3>4, <3>6 DEF Stores, Cell
    <3>9. Backed(mem2, blocks)
        BY <1>2, <3>1, <3>7, <3>8, StoresKeep
    <3> QED
        BY <3>6, <3>9
  <2> QED
      BY <2>1, <2>2 DEF Return
<1> QED
    BY <1>1, <1>2, <1>3 DEF Sound, Layout

(* Every step keeps the invariant.                                         *)
LEMMA ConversionPreserved == ConversionInv /\ [Next]_vars => ConversionInv'
<1> SUFFICES ASSUME ConversionInv, [Next]_vars PROVE ConversionInv'
    OBVIOUS
<1>1. Serialised /\ Sound /\ Serialised'
    BY NextPreserves DEF ConversionInv
<1>2. CASE ConvertImmediate \/ ConvertObject \/ ConvertArray \/ Finish
  <2>1. phase = "convert" /\ phase' = "convert"
      BY <1>2 DEF ConvertImmediate, ConvertObject, ConvertArray, Finish, Converting
  <2>2. Underway
      BY <2>1 DEF ConversionInv
  <2>3. Sound' /\ Underway'
      BY <1>1, <1>2, <2>2, ImmediateKeeps, ObjectRuns, ArrayRuns, FinishRuns
  <2> QED
      BY <1>1, <2>1, <2>3 DEF ConversionInv
<1>3. CASE Serialize
  <2>1. /\ phase = "serialize" /\ phase' = "serialize"
        /\ UNCHANGED <<call, phase, buffer, views, heap, blocks, brk, refs, wasmArgs, stack>>
      BY <1>3 DEF Serialize, memory, outbound
  <2>2. Underway /\ stack = <<>>
      BY <2>1 DEF ConversionInv
  <2>3. Sound'
      BY <1>1, <2>1 DEF Sound
  <2>4. FramesSerialised'
      BY <2>1, <2>2 DEF FramesSerialised
  <2>5. Visited'
      BY <2>1, <2>2 DEF Underway, Visited, Reachable, Given, Closed, References, Graph, SeqRange
  <2>6. Underway'
      BY <2>1, <2>2, <2>4, <2>5 DEF Underway
  <2> QED
      BY <1>1, <2>1, <2>2, <2>3, <2>6 DEF ConversionInv
<1>4. CASE Begin \/ Call
  <2>1. /\ phase \in {"serialize", "convert"} /\ phase' \in {"convert", "run"}
        /\ UNCHANGED <<call, types, buffer, views, heap, blocks, brk, refs, wasmArgs, stack>>
        /\ phase' = "run" => stack = <<>> /\ Len(wasmArgs) = Len(call.args)
      BY <1>4 DEF Begin, Call, memory, outbound, serialization
  <2>2. Underway
      BY <2>1 DEF ConversionInv
  <2>3. Sound'
      BY <1>1, <2>1 DEF Sound
  <2>4. Underway'
      BY <2>1, <2>2 DEF Underway, FramesSerialised, Visited, Reachable, Given, Closed, References, Graph, SeqRange
  <2> QED
      BY <1>1, <2>1, <2>3, <2>4 DEF ConversionInv
<1>5. CASE Return
  <2>1. phase' = "result"
      BY <1>5 DEF Return
  <2> QED
      BY <1>1, <1>5, <2>1, ReturnSound DEF ConversionInv
<1>6. CASE Reject \/ Overflow \/ Detached
  <2>1. phase' = "failed" /\ UNCHANGED <<buffer, views, heap, blocks, brk>>
      BY <1>6 DEF Reject, Overflow, Detached, Fail, memory
  <2> QED
      BY <1>1, <2>1 DEF ConversionInv, Sound
<1>7. CASE Open \/ ReadCell \/ Close
  <2>1. phase' \notin {"serialize", "convert", "run"} /\ UNCHANGED <<buffer, views, heap, blocks, brk>>
    <3>1. UNCHANGED <<buffer, views, heap, blocks, brk>> /\ phase = "result" /\ phase' \in {phase, "done"}
      <4>1. CASE Open
          BY <4>1 DEF Open, memory
      <4>2. CASE ReadCell
          BY <4>2 DEF ReadCell, memory
      <4>3. CASE Close
          BY <4>3 DEF Close, memory
      <4> QED
          BY <1>7, <4>1, <4>2, <4>3
    <3> QED
        BY <3>1
  <2> QED
      BY <1>1, <2>1 DEF ConversionInv, Sound
<1>8. CASE Stopped \/ UNCHANGED vars
  <2>1. UNCHANGED <<call, phase, types, buffer, views, heap, blocks, brk, refs, wasmArgs, stack>>
      BY <1>8 DEF Stopped, vars, memory, outbound, serialization
  <2>2. Sound'
      BY <1>1, <2>1 DEF Sound
  <2>3. Underway => Underway'
      BY <2>1 DEF Underway, FramesSerialised, Visited, Reachable, Given, Closed, References, Graph, SeqRange
  <2> QED
      BY <1>1, <2>1, <2>2, <2>3 DEF ConversionInv
<1> QED
    BY <1>2, <1>3, <1>4, <1>5, <1>6, <1>7, <1>8 DEF Next

(* Whatever is converted and however often the memory grows, each cell that*)
(* jsToWasm, RuntimeArray.from and the compiled function write lies in a   *)
(* block that malloc has handed out: the offsets of the loop of jsToWasm   *)
(* and of LLVM's struct stay below what computeObjectSize asks for.        *)
THEOREM StoresStayInside == Spec => []InsideAllocations
<1>1. ConversionInv => InsideAllocations
    BY DEF ConversionInv, Sound, Layout, Backed, InsideAllocations
<1> QED
    BY <1>1, InitConversion, ConversionPreserved, PTL DEF Spec

-----------------------------------------------------------------------------
(* When every argument is there, so is what it leads to, and nothing else. *)
LEMMA AllThere ==
    ASSUME Serialised, Sound, Underway, stack = <<>>, Len(wasmArgs) = Len(call.args)
    PROVE  DOMAIN refs = Reachable /\ DOMAIN refs \subseteq 1..Len(Graph)
<1>1. call \in Calls
    BY DEF Serialised
<1>2. /\ ObjectsThere(call, blocks, heap, refs) /\ Laid(blocks, brk)
      /\ ArgumentsThere(call, wasmArgs, refs) /\ DOMAIN refs \subseteq Reachable
    BY DEF Sound, Layout, Underway, Outbound, Visited
<1>3. call.graph \in Seq([ctor : STRING, cells : Seq(Value)])
    BY <1>1, CallsAssumption
<1>4. DOMAIN Graph = 1..Len(Graph)
    BY <1>3 DEF Graph
<1>5. DOMAIN refs \subseteq DOMAIN Graph
  <2>1. \A o \in DOMAIN refs : Suits(call, o, blocks[refs[o]].type)
      BY <1>1, <1>2, RefsAre
  <2> QED
      BY <1>4, <2>1 DEF Suits, Graph
<1>6. Given \subseteq DOMAIN refs
  <2> SUFFICES ASSUME NEW b \in SeqRange(call.args), b.value.k = "ref" PROVE b.value.v \in DOMAIN refs
      BY DEF Given
  <2>1. PICK i \in 1..Len(call.args) : b = call.args[i]
      BY DEF SeqRange
  <2> QED
      BY <1>2, <2>1 DEF ArgumentsThere
<1>7. Closed(DOMAIN refs)
  <2> SUFFICES ASSUME NEW o \in DOMAIN refs, NEW d \in SeqRange(Graph[o].cells), d.k = "ref" PROVE d.v \in DOMAIN refs
      BY DEF Closed, References
  <2>1. PICK type, ptr, cs : type = blocks[refs[o]].type /\ ptr = refs[o] /\ cs = CellsOf(call, o)
      OBVIOUS
  <2>2. Mirrors(call, o, type, ptr, Len(cs), blocks, heap, refs)
      BY <1>2, <2>1 DEF ObjectsThere
  <2>3. Referred(cs, Len(cs), refs)
      BY <2>1, <2>2, MirrorsBlocks
  <2>4. PICK i \in 1..Len(cs) : d = cs[i]
      BY <2>1 DEF SeqRange, CellsOf, Graph
  <2> QED
      BY <2>3, <2>4 DEF Referred
<1>8. Reachable \subseteq DOMAIN refs
    BY <1>5, <1>6, <1>7 DEF Reachable
<1> QED
    BY <1>2, <1>4, <1>5, <1>8

(* An object of the memory is where compiled code looks for it.            *)
LEMMA MirroredWhole ==
    ASSUME Serialised, Sound, Underway, NEW o \in DOMAIN refs
    PROVE  ObjectMirrored(o)
<1>1. call \in Calls
    BY DEF Serialised
<1>2. PICK type, ptr, cs : type = blocks[refs[o]].type /\ ptr = refs[o] /\ cs = CellsOf(call, o) /\ cs = Graph[o].cells
    BY DEF CellsOf, Graph
<1>3. Mirrors(call, o, type, ptr, Len(cs), blocks, heap, refs)
    BY <1>2 DEF Underway, Outbound, ObjectsThere
<1>4. Suits(call, o, type) /\ IsAt(type, cs, ptr, Len(cs), blocks, heap, refs)
    BY <1>2, <1>3 DEF Mirrors
<1>5. type \in Pointers /\ Len(cs) \in Nat /\ (type \in Classes => Len(cs) = Len(Fields(type)))
    BY <1>1, <1>2, <1>4, SuitsFacts
<1>6. \A v : Representation(v) = Rep(refs, v)
    BY DEF Representation, Rep
<1>7. \A a, t, v : Holds(a, t, v) <=> At(heap, a, t, v)
    BY DEF Holds, At
<1>8. CASE type \in Arrays
  <2>1. PICK e, begin : e = ElementOf[type] /\ begin = ptr + 16
      OBVIOUS
  <2>2. HeaderAt(heap, ptr, SizeOf(e) * Len(cs), Len(cs)) /\ ElementsAt(heap, begin, e, cs, Len(cs), refs)
      BY <1>4, <1>8, <2>1 DEF IsAt
  <2>3. heap[ptr].v = begin
      BY <2>1, <2>2 DEF HeaderAt, At
  <2>4. /\ Holds(ptr + 4, "i32", begin + SizeOf(e) * Len(cs))
        /\ Holds(ptr + 8, "i32", Len(cs))
      BY <1>7, <2>1, <2>2 DEF HeaderAt
  <2>5. \A i \in 1..Len(cs) : Holds(begin + (i - 1) * SizeOf(e), e, Representation(cs[i]))
      BY <1>6, <1>7, <2>2 DEF ElementsAt
  <2> QED
      BY <1>2, <1>8, <2>1, <2>3, <2>4, <2>5 DEF ObjectMirrored
<1>9. CASE type \notin Arrays
  <2>1. type \in Classes
      BY <1>5, <1>9 DEF Pointers
  <2>2. FieldsAt(heap, ptr, type, cs, Len(cs), refs)
      BY <1>4, <2>1 DEF IsAt
  <2>3. ASSUME NEW n \in 1..Len(cs)
        PROVE  Holds(ptr + CompiledOffset(type, n), Fields(type)[n], Representation(cs[n]))
    <3>1. CompiledOffset(type, n) = FieldOffset(Fields(type), n)
      <4>1. n \in 1..Len(Fields(type))
          BY <1>5, <2>1
      <4> QED
          BY <2>1, <4>1, ObjectLayout
    <3> QED
        BY <1>6, <1>7, <2>2, <3>1 DEF FieldsAt
  <2> QED
      BY <1>2, <1>9, <2>3 DEF ObjectMirrored
<1> QED
    BY <1>8, <1>9

(* The numbers up to m.                                                    *)
LEMMA IntervalSize ==
    ASSUME NEW m \in Nat
    PROVE  IsFiniteSet(1..m) /\ Cardinality(1..m) = m
BY FS_Interval

(* There are finitely many objects, and a block for each.                  *)
LEMMA ReachableFinite ==
    ASSUME call \in Calls
    PROVE  /\ IsFiniteSet(Reachable) /\ Len(Graph) \in Nat
           /\ Cardinality(Reachable) \in Nat /\ Cardinality(Reachable) <= Len(Graph)
<1>1. call.graph \in Seq([ctor : STRING, cells : Seq(Value)])
    BY CallsAssumption
<1>2. PICK m \in Nat : m = Len(Graph) /\ DOMAIN Graph = 1..m
    BY <1>1 DEF Graph
<1>3. PICK S, T : S = Reachable /\ T = 1..m
    OBVIOUS
<1>4. IsFiniteSet(T) /\ Cardinality(T) = m
    BY <1>3, IntervalSize
<1>5. S \in SUBSET T
    BY <1>2, <1>3 DEF Reachable
<1>6. IsFiniteSet(S) /\ Cardinality(S) <= m
    BY <1>4, <1>5, FS_Subset
<1> QED
    BY <1>2, <1>3, <1>6, FS_CardinalityType

(* The objects and arrays of the memory.                                   *)
Records == {b \in DOMAIN blocks : blocks[b].type # "elements"}

(* They are what objectReferences leads to.                                *)
LEMMA RecordsAre ==
    ASSUME Serialised, Sound, Underway, stack = <<>>, Len(wasmArgs) = Len(call.args)
    PROVE  Records = {refs[o] : o \in Reachable}
<1>1. call \in Calls
    BY DEF Serialised
<1>2. ObjectsThere(call, blocks, heap, refs) /\ Laid(blocks, brk) /\ BlocksUsed(stack, blocks, refs)
    BY DEF Sound, Layout, Underway, Outbound
<1>3. DOMAIN refs = Reachable
    BY AllThere
<1>4. Len(stack) = 0
    OBVIOUS
<1>5. \A b \in Records : \E o \in DOMAIN refs : refs[o] = b
    BY <1>2, <1>4 DEF BlocksUsed, Records
<1>6. \A o \in DOMAIN refs : refs[o] \in Records
  <2>1. "elements" \notin Pointers
      BY NamesAssumption DEF Types, Pointers
  <2>2. \A o \in DOMAIN refs : refs[o] \in DOMAIN blocks /\ blocks[refs[o]].type \in Pointers
      BY <1>1, <1>2, RefsAre
  <2> QED
      BY <2>1, <2>2 DEF Records
<1> QED
    BY <1>3, <1>5, <1>6

(* Each object has one block.                                              *)
LEMMA OneBlockEach ==
    ASSUME Serialised, Sound, Underway, stack = <<>>, Len(wasmArgs) = Len(call.args)
    PROVE  SharingPreserved /\ IsFiniteSet(Records)
<1>1. call \in Calls
    BY DEF Serialised
<1>2. ObjectsThere(call, blocks, heap, refs)
    BY DEF Underway, Outbound
<1>3. \A o, p \in DOMAIN refs : refs[o] = refs[p] => o = p
    BY <1>2 DEF ObjectsThere
<1>4. DOMAIN refs = Reachable
    BY AllThere
<1> DEFINE B == {b \in DOMAIN blocks : blocks[b].type # "elements"}
           f == [o \in Reachable |-> refs[o]]
<1>5. B = {refs[o] : o \in Reachable}
    BY RecordsAre DEF Records
<1>6. IsFiniteSet(Reachable)
    BY <1>1, ReachableFinite
<1>7. f \in Bijection(Reachable, B)
  <2> HIDE DEF B
  <2>1. f \in [Reachable -> B]
      BY <1>5
  <2>2. \A o, p \in Reachable : f[o] = f[p] => o = p
      BY <1>3, <1>4
  <2>3. \A b \in B : \E o \in Reachable : f[o] = b
      BY <1>5
  <2> QED
      BY <2>1, <2>2, <2>3 DEF Bijection, Injection, Surjection, IsInjective
<1>8. IsFiniteSet(B) /\ Cardinality(B) = Cardinality(Reachable)
  <2> HIDE DEF B, f
  <2>1. ExistsBijection(Reachable, B)
      BY <1>7 DEF ExistsBijection
  <2> QED
      BY <1>6, <2>1, FS_Bijection
<1> QED
    BY <1>3, <1>8 DEF SharingPreserved, Records

(* "Used to ensure reference equality across the boundary"                 *)
(* (get-wasm-module-function.ts:46): when the compiled function starts, the*)
(* memory holds each object that the arguments lead to once, with its      *)
(* fields and elements where compiled code reads them, and equal references*)
(* are equal pointers, for every graph of objects, cyclic or not, and      *)
(* whenever the memory grows.                                              *)
THEOREM HeapAlwaysMirrors == Spec => []HeapMirrorsArguments
<1>1. ConversionInv => HeapMirrorsArguments
  <2> SUFFICES ASSUME ConversionInv, phase = "run" PROVE HeapMirrorsArguments
      BY DEF HeapMirrorsArguments
  <2>1. Serialised /\ Sound /\ Underway /\ stack = <<>> /\ Len(wasmArgs) = Len(call.args)
      BY DEF ConversionInv
  <2>2. DOMAIN refs = Reachable /\ SharingPreserved
      BY <2>1, AllThere, OneBlockEach
  <2>3. \A o \in Reachable : ObjectMirrored(o)
      BY <2>1, <2>2, MirroredWhole
  <2>4. \A i \in 1..Len(call.args) : wasmArgs[i] = Representation(call.args[i].value)
      BY <2>1 DEF Underway, Outbound, ArgumentsThere, Representation, Rep
  <2> QED
      BY <2>2, <2>3, <2>4 DEF HeapMirrorsArguments
<1> QED
    BY <1>1, InitConversion, ConversionPreserved, PTL DEF Spec

-----------------------------------------------------------------------------
(* 6. The result.  Every cell of an object in the memory holds a value of  *)
(* the type compiled code reads it with, and every pointer leads to an     *)
(* object of the type it is declared with.                                 *)
Points(bs, v, t) == v = 0 \/ (v \in DOMAIN bs /\ bs[v].type = t)
Slot(bs, mem, a, t) == \E v \in Int : At(mem, a, t, v) /\ (t \in Pointers => Points(bs, v, t))

FieldsTyped(bs, mem, p, class) ==
    \A n \in 1..Len(Fields(class)) : Slot(bs, mem, p + FieldOffset(Fields(class), n), Fields(class)[n])
ElementsTyped(bs, mem, p, e, k) ==
    /\ k \in Nat /\ p + 16 \in DOMAIN bs
    /\ bs[p + 16] = [size |-> SizeOf(e) * k, type |-> "elements"]
    /\ HeaderAt(mem, p, SizeOf(e) * k, k)
    /\ \A i \in 1..k : Slot(bs, mem, p + 16 + (i - 1) * SizeOf(e), e)
Typed(bs, mem) ==
    \A p \in DOMAIN bs :
        /\ bs[p].type \in Classes => FieldsTyped(bs, mem, p, bs[p].type)
        /\ bs[p].type \in Arrays => \E k : ElementsTyped(bs, mem, p, ElementOf[bs[p].type], k)

(* What is stored for a value of a type is of that type.                   *)
LEMMA RepPoints ==
    ASSUME OneTypeEach, NEW c \in Calls, NEW bs, NEW br, NEW mem, NEW rf,
           ObjectsThere(c, bs, mem, rf), Laid(bs, br),
           NEW v \in Value, NEW t, HasType(c, v, t), v.k = "ref" => v.v \in DOMAIN rf
    PROVE  Rep(rf, v) \in Int /\ (t \in Pointers => Points(bs, Rep(rf, v), t))
<1>1. v.v \in Int
    BY DEF Value
<1>2. CASE v.k = "ref"
  <2>1. /\ rf[v.v] \in DOMAIN bs /\ rf[v.v] \in Nat /\ Suits(c, v.v, bs[rf[v.v]].type)
      BY <1>2, RefsAre
  <2>2. Rep(rf, v) = rf[v.v]
      BY <1>2 DEF Rep
  <2>3. ASSUME t \in Pointers PROVE bs[rf[v.v]].type = t
    <3>1. t \notin Primitives
        BY <2>3, NamesAssumption
    <3>2. <<v.v, t>> \in c.uses
        BY <1>2, <3>1 DEF HasType
    <3>3. PICK T : T = bs[rf[v.v]].type /\ <<v.v, T>> \in c.uses
        BY <2>1 DEF Suits
    <3> QED
        BY <3>2, <3>3 DEF OneTypeEach
  <2> QED
      BY <2>1, <2>2, <2>3 DEF Points
<1>3. CASE v.k # "ref"
  <2>1. Rep(rf, v) = v.v
      BY <1>3 DEF Rep
  <2>2. ASSUME t \in Pointers PROVE v.v = 0
    <3>1. t \notin Primitives
        BY <2>2, NamesAssumption
    <3> QED
        BY <1>3, <3>1 DEF HasType
  <2> QED
      BY <1>1, <2>1, <2>2 DEF Points
<1> QED
    BY <1>2, <1>3

(* When the arguments are converted, the memory is typed.                  *)
LEMMA TypedAtStart ==
    ASSUME OneTypeEach, Serialised, Sound, Underway, stack = <<>>
    PROVE  Typed(blocks, heap)
<1>1. call \in Calls
    BY DEF Serialised
<1>2. /\ ObjectsThere(call, blocks, heap, refs) /\ Laid(blocks, brk) /\ BlocksUsed(stack, blocks, refs)
    BY DEF Sound, Layout, Underway, Outbound
<1> SUFFICES ASSUME NEW p \in DOMAIN blocks
             PROVE  /\ blocks[p].type \in Classes => FieldsTyped(blocks, heap, p, blocks[p].type)
                    /\ blocks[p].type \in Arrays => \E k : ElementsTyped(blocks, heap, p, ElementOf[blocks[p].type], k)
    BY DEF Typed
<1>3. PICK type : type = blocks[p].type
    OBVIOUS
<1> SUFFICES ASSUME type \in Pointers
             PROVE  /\ type \in Classes => FieldsTyped(blocks, heap, p, type)
                    /\ type \in Arrays => \E k : ElementsTyped(blocks, heap, p, ElementOf[type], k)
    BY <1>3 DEF Pointers
<1>4. PICK o \in DOMAIN refs : refs[o] = p
  <2>1. type # "elements"
      BY NamesAssumption DEF Types, Pointers
  <2>2. Len(stack) = 0
      OBVIOUS
  <2> QED
      BY <1>2, <1>3, <2>1, <2>2 DEF BlocksUsed
<1>5. PICK cs : cs = CellsOf(call, o)
    OBVIOUS
<1>6. Suits(call, o, type) /\ IsAt(type, cs, p, Len(cs), blocks, heap, refs)
    BY <1>2, <1>3, <1>4, <1>5 DEF ObjectsThere, Mirrors
<1>7. /\ Len(cs) \in Nat /\ \A i \in 1..Len(cs) : cs[i] \in Value
      /\ type \in Arrays => \A i \in 1..Len(cs) : HasType(call, cs[i], ElementOf[type])
      /\ type \in Classes => /\ Len(cs) = Len(Fields(type))
                             /\ \A i \in 1..Len(cs) : HasType(call, cs[i], Fields(type)[i])
  <2>1. cs \in Seq(Value)
      BY <1>1, <1>5, <1>6, SuitsFacts
  <2> QED
      BY <1>1, <1>5, <1>6, <2>1, SuitsFacts
<1>8. ASSUME NEW i \in 1..Len(cs), NEW t, NEW a, HasType(call, cs[i], t), At(heap, a, t, Rep(refs, cs[i]))
      PROVE  Slot(blocks, heap, a, t)
  <2>1. cs[i].k = "ref" => cs[i].v \in DOMAIN refs
      BY <1>6, <1>8 DEF IsAt, Referred
  <2>2. PICK v \in Value : v = cs[i]
      BY <1>7
  <2>3. Rep(refs, v) \in Int /\ (t \in Pointers => Points(blocks, Rep(refs, v), t))
      BY <1>1, <1>2, <1>8, <2>1, <2>2, RepPoints
  <2> QED
      BY <1>8, <2>2, <2>3 DEF Slot
<1>9. ASSUME type \in Classes PROVE FieldsTyped(blocks, heap, p, type)
  <2>1. ASSUME NEW n \in 1..Len(Fields(type))
        PROVE  Slot(blocks, heap, p + FieldOffset(Fields(type), n), Fields(type)[n])
    <3>1. n \in 1..Len(cs) /\ HasType(call, cs[n], Fields(type)[n])
        BY <1>7, <1>9
    <3>2. At(heap, p + FieldOffset(Fields(type), n), Fields(type)[n], Rep(refs, cs[n]))
        BY <1>6, <1>9, <3>1 DEF IsAt, FieldsAt
    <3> QED
        BY <1>8, <3>1, <3>2
  <2> QED
      BY <2>1 DEF FieldsTyped
<1>10. ASSUME type \in Arrays PROVE ElementsTyped(blocks, heap, p, ElementOf[type], Len(cs))
  <2>1. PICK e : e = ElementOf[type]
      OBVIOUS
  <2>2. /\ p + 16 \in DOMAIN blocks
        /\ blocks[p + 16] = [size |-> SizeOf(e) * Len(cs), type |-> "elements"]
        /\ HeaderAt(heap, p, SizeOf(e) * Len(cs), Len(cs))
        /\ ElementsAt(heap, p + 16, e, cs, Len(cs), refs)
      BY <1>6, <1>10, <2>1 DEF IsAt
  <2>3. ASSUME NEW i \in 1..Len(cs) PROVE Slot(blocks, heap, p + 16 + (i - 1) * SizeOf(e), e)
    <3>1. HasType(call, cs[i], e)
        BY <1>7, <1>10, <2>1
    <3>2. At(heap, p + 16 + (i - 1) * SizeOf(e), e, Rep(refs, cs[i]))
        BY <2>2 DEF ElementsAt
    <3> QED
        BY <1>8, <3>1, <3>2
  <2> QED
      BY <1>7, <2>1, <2>2, <2>3 DEF ElementsTyped
<1> QED
    BY <1>9, <1>10

(* A cell keeps its type while only other blocks are written to.           *)
LEMMA SlotKept ==
    ASSUME NEW bs, NEW br, NEW mem, NEW mem2, NEW W \in SUBSET DOMAIN bs, Laid(bs, br),
           Writes(mem, mem2, bs, W), NEW b \in DOMAIN bs, b \notin W,
           NEW a \in Nat, NEW t, b <= a, a + SizeOf(t) <= b + bs[b].size, Slot(bs, mem, a, t)
    PROVE  Slot(bs, mem2, a, t)
<1>1. PICK v \in Int : At(mem, a, t, v) /\ (t \in Pointers => Points(bs, v, t))
    BY DEF Slot
<1>2. At(mem2, a, t, v)
    BY <1>1, AtKept
<1> QED
    BY <1>1, <1>2 DEF Slot

(* A store to a field of one object keeps the others typed.                *)
LEMMA OthersTyped ==
    ASSUME NEW bs, NEW br, NEW mem, NEW mem2, NEW p0 \in DOMAIN bs, Laid(bs, br), Sized(bs),
           Writes(mem, mem2, bs, {p0}), bs[p0].type \in Classes, NEW p \in DOMAIN bs, p # p0
    PROVE  /\ bs[p].type \in Classes /\ FieldsTyped(bs, mem, p, bs[p].type) => FieldsTyped(bs, mem2, p, bs[p].type)
           /\ \A e, k : bs[p].type \in Arrays /\ ElementsTyped(bs, mem, p, e, k) => ElementsTyped(bs, mem2, p, e, k)
<1>1. p \in Nat /\ bs[p].size \in Nat
    BY DEF Laid
<1>2. PICK W \in SUBSET DOMAIN bs : W = {p0}
    OBVIOUS
<1>3. ASSUME bs[p].type \in Classes, FieldsTyped(bs, mem, p, bs[p].type)
      PROVE  FieldsTyped(bs, mem2, p, bs[p].type)
  <2>1. PICK c \in Classes : c = bs[p].type
      BY <1>3
  <2>2. ASSUME NEW n \in 1..Len(Fields(c))
        PROVE  Slot(bs, mem2, p + FieldOffset(Fields(c), n), Fields(c)[n])
    <3>1. PICK off \in Nat : /\ off = FieldOffset(Fields(c), n)
                             /\ off + SizeOf(Fields(c)[n]) <= ComputeObjectSize(Fields(c))
        BY ObjectLayout
    <3>2. bs[p].size = ComputeObjectSize(Fields(c))
        BY <2>1 DEF Sized
    <3>3. PICK a, t : a \in Nat /\ a = p + off /\ t = Fields(c)[n]
        BY <1>1
    <3>4. SizeOf(t) \in Nat
        BY SizeType
    <3>5. p <= a /\ a + SizeOf(t) <= p + bs[p].size
        BY <1>1, <3>1, <3>2, <3>3, <3>4
    <3>6. Slot(bs, mem, a, t)
        BY <1>3, <2>1, <3>1, <3>3 DEF FieldsTyped
    <3>7. Slot(bs, mem2, a, t)
        BY <1>2, <3>3, <3>5, <3>6, SlotKept
    <3> QED
        BY <3>1, <3>3, <3>7
  <2> QED
      BY <2>1, <2>2 DEF FieldsTyped
<1>4. ASSUME NEW e, NEW k, bs[p].type \in Arrays, ElementsTyped(bs, mem, p, e, k)
      PROVE  ElementsTyped(bs, mem2, p, e, k)
  <2>1. /\ k \in Nat /\ p + 16 \in DOMAIN bs /\ HeaderAt(mem, p, SizeOf(e) * k, k)
        /\ bs[p + 16] = [size |-> SizeOf(e) * k, type |-> "elements"]
        /\ \A i \in 1..k : Slot(bs, mem, p + 16 + (i - 1) * SizeOf(e), e)
      BY <1>4 DEF ElementsTyped
  <2>2. bs[p].size = 12
      BY <1>4 DEF Sized
  <2>3. p + 16 # p0
    <3>1. bs[p + 16].type \notin Classes
        BY <2>1, NamesAssumption DEF Types
    <3> QED
        BY <3>1
  <2>4. SizeOf("i32") = 4
      BY DEF SizeOf
  <2>5. ASSUME NEW d \in {0, 4, 8}, NEW v, At(mem, p + d, "i32", v) PROVE At(mem2, p + d, "i32", v)
    <3>1. PICK a, t : a \in Nat /\ a = p + d /\ t = "i32"
        BY <1>1
    <3>2. p <= a /\ a + SizeOf(t) <= p + bs[p].size
        BY <1>1, <2>2, <2>4, <3>1
    <3> QED
        BY <1>2, <2>5, <3>1, <3>2, AtKept
  <2>6. HeaderAt(mem2, p, SizeOf(e) * k, k)
    <3>1. p + 0 = p
        BY <1>1
    <3> QED
        BY <2>1, <2>5, <3>1 DEF HeaderAt
  <2>7. ASSUME NEW i \in 1..k PROVE Slot(bs, mem2, p + 16 + (i - 1) * SizeOf(e), e)
    <3>1. PICK q \in {1, 4, 8} : q = SizeOf(e)
        BY SizeType
    <3>2. PICK b \in DOMAIN bs : b = p + 16
        BY <2>1
    <3>3. b \in Nat /\ bs[b].size = q * k
        BY <1>1, <2>1, <3>1, <3>2
    <3>4. PICK a \in Nat : a = p + 16 + (i - 1) * q
        BY <1>1, <2>1
    <3>5. b <= a /\ a + q <= b + q * k
      <4>1. CASE q = 1
          BY <1>1, <2>1, <3>2, <3>4, <4>1
      <4>2. CASE q = 4
          BY <1>1, <2>1, <3>2, <3>4, <4>2
      <4>3. CASE q = 8
          BY <1>1, <2>1, <3>2, <3>4, <4>3
      <4> QED
          BY <4>1, <4>2, <4>3
    <3>6. Slot(bs, mem, a, e)
        BY <2>1, <3>1, <3>4
    <3>7. Slot(bs, mem2, a, e)
        BY <1>2, <2>3, <3>1, <3>2, <3>3, <3>5, <3>6, SlotKept
    <3> QED
        BY <3>1, <3>4, <3>7
  <2> QED
      BY <2>1, <2>6, <2>7 DEF ElementsTyped
<1> QED
    BY <1>3, <1>4

(* The compiled function leaves the memory typed.                          *)
LEMMA TypedAfterReturn ==
    ASSUME Sound, Typed(blocks, heap), Return
    PROVE  Typed(blocks', heap')
<1>1. blocks' = blocks
    BY DEF Return
<1>2. Laid(blocks, brk) /\ Sized(blocks) /\ Backed(heap, blocks)
    BY DEF Sound, Layout
<1>3. CASE UNCHANGED heap
    BY <1>1, <1>3
<1>4. CASE \E class \in Classes : \E n \in 1..Len(Fields(class)) :
               LET t == Fields(class)[n] IN
               /\ t \in Classes
               /\ \E p \in PointersOf(class), q \in PointersOf(t) :
                    heap' = Put(heap, p + CompiledOffset(class, n), [size |-> 4, v |-> q])
  <2>1. PICK class \in Classes, n \in Nat, p \in DOMAIN blocks, q \in DOMAIN blocks :
               /\ n \in 1..Len(Fields(class))
               /\ Fields(class)[n] \in Classes /\ blocks[p].type = class /\ blocks[q].type = Fields(class)[n]
               /\ heap' = Put(heap, p + CompiledOffset(class, n), [size |-> 4, v |-> q])
      BY <1>4 DEF PointersOf
  <2>2. PICK t : t = Fields(class)[n]
      OBVIOUS
  <2>3. SizeOf(t) = 4
      BY <2>1, <2>2, NamesAssumption DEF SizeOf, Primitives, Pointers
  <2>4. PICK off \in Nat : /\ off = FieldOffset(Fields(class), n)
                           /\ off + SizeOf(t) <= ComputeObjectSize(Fields(class))
                           /\ CompiledOffset(class, n) = off
      BY <2>1, <2>2, ObjectLayout
  <2>5. p \in Nat /\ blocks[p].size \in Nat /\ blocks[p].size = ComputeObjectSize(Fields(class)) /\ q \in Nat
      BY <1>2, <2>1 DEF Laid, Sized
  <2>6. PICK a, v, mem2 : a = p + off /\ v = q /\ mem2 = heap'
      OBVIOUS
  <2>7. Fits(a, t, p, blocks)
      BY <2>3, <2>4, <2>5, <2>6 DEF Fits
  <2>8. Stores(heap, mem2, a, t, v)
      BY <2>1, <2>3, <2>4, <2>6 DEF Stores, Cell
  <2>9. Writes(heap, mem2, blocks, {p}) /\ At(mem2, a, t, v) /\ Elsewhere(heap, mem2, a) /\ DOMAIN heap \subseteq DOMAIN mem2
    <3>1. Writes(heap, mem2, blocks, {p}) /\ At(mem2, a, t, v) /\ Elsewhere(heap, mem2, a)
        BY <1>2, <2>1, <2>7, <2>8, StoresKeep
    <3> QED
        BY <3>1 DEF Writes
  <2>10. FieldsTyped(blocks, mem2, p, class)
    <3>1. ASSUME NEW m \in 1..Len(Fields(class))
          PROVE  Slot(blocks, mem2, p + FieldOffset(Fields(class), m), Fields(class)[m])
      <4>1. CASE m = n
        <5>1. Slot(blocks, mem2, a, t)
            BY <2>1, <2>2, <2>5, <2>6, <2>9 DEF Slot, Points
        <5> QED
            BY <2>2, <2>4, <2>6, <4>1, <5>1
      <4>2. CASE m # n
        <5>1. PICK off2 \in Nat : off2 = FieldOffset(Fields(class), m)
            BY ObjectLayout
        <5>2. Len(Fields(class)) \in Nat
            BY ObjectLayout
        <5>3. off2 # off
          <6>1. SizeOf(t) \in Nat /\ SizeOf(t) > 0 /\ SizeOf(Fields(class)[m]) \in Nat /\ SizeOf(Fields(class)[m]) > 0
              BY SizeType
          <6>2. m < n => off2 + SizeOf(Fields(class)[m]) <= off
              BY <2>1, <2>4, <5>1, ObjectLayout
          <6>3. n < m => off + SizeOf(t) <= off2
              BY <2>1, <2>2, <2>4, <5>1, ObjectLayout
          <6> QED
              BY <2>1, <4>2, <5>2, <6>1, <6>2, <6>3
        <5>4. Slot(blocks, heap, p + off2, Fields(class)[m])
            BY <2>1, <5>1 DEF Typed, FieldsTyped
        <5>5. p + off2 # a
            BY <2>5, <2>6, <5>3
        <5>6. PICK v2 \in Int : /\ At(heap, p + off2, Fields(class)[m], v2)
                                /\ Fields(class)[m] \in Pointers => Points(blocks, v2, Fields(class)[m])
            BY <5>4 DEF Slot
        <5>7. At(mem2, p + off2, Fields(class)[m], v2)
            BY <2>9, <5>5, <5>6 DEF At, Elsewhere
        <5> QED
            BY <5>1, <5>6, <5>7 DEF Slot
      <4> QED
          BY <4>1, <4>2
    <3> QED
        BY <3>1 DEF FieldsTyped
  <2>11. ASSUME NEW r \in DOMAIN blocks
         PROVE  /\ blocks[r].type \in Classes => FieldsTyped(blocks, mem2, r, blocks[r].type)
                /\ blocks[r].type \in Arrays => \E k : ElementsTyped(blocks, mem2, r, ElementOf[blocks[r].type], k)
    <3>1. CASE r = p
        BY <2>1, <2>10, <3>1, NamesAssumption
    <3>2. CASE r # p
      <4>1. /\ blocks[r].type \in Classes => FieldsTyped(blocks, heap, r, blocks[r].type)
            /\ blocks[r].type \in Arrays => \E k : ElementsTyped(blocks, heap, r, ElementOf[blocks[r].type], k)
          BY DEF Typed
      <4>2. /\ blocks[r].type \in Classes /\ FieldsTyped(blocks, heap, r, blocks[r].type)
                  => FieldsTyped(blocks, mem2, r, blocks[r].type)
            /\ \A e, k : blocks[r].type \in Arrays /\ ElementsTyped(blocks, heap, r, e, k)
                  => ElementsTyped(blocks, mem2, r, e, k)
          BY <1>2, <2>1, <2>9, <3>2, OthersTyped
      <4> QED
          BY <4>1, <4>2
    <3> QED
        BY <3>1, <3>2
  <2> QED
      BY <1>1, <2>6, <2>11 DEF Typed
<1> QED
    BY <1>3, <1>4 DEF Return

-----------------------------------------------------------------------------
(* The memory as a graph: each pointer with what the cells of its object   *)
(* hold, and their types.                                                  *)
TypeAt(type, n) == IF type \in Arrays THEN ElementOf[type] ELSE Fields(type)[n]
LoadedFrom(mem, ptr, type) ==
    LET a == CellOf(ptr, type)
    IN IF a \in DOMAIN mem /\ mem[a].size = SizeOf(type) THEN mem[a].v ELSE 0
ElementsFrom(mem, ptr, type) ==
    LET size == SizeOf(type)
        begin == LoadedFrom(mem, ptr, "i32")
        back == LoadedFrom(mem, ptr + 4, "i32")
    IN [i \in 1..((back \div size) - (begin \div size)) |-> begin + (i - 1) * size]
CellsFrom(mem, ptr, type) ==
    IF type \in Arrays THEN ElementsFrom(mem, ptr, ElementOf[type])
    ELSE [n \in 1..Len(Fields(type)) |-> ptr + FieldOffset(Fields(type), n)]
Content(mem, ptr, type) ==
    [n \in 1..Len(CellsFrom(mem, ptr, type)) |->
        [v |-> LoadedFrom(mem, CellsFrom(mem, ptr, type)[n], TypeAt(type, n)), type |-> TypeAt(type, n)]]
Contents(bs, mem) ==
    [p \in {b \in DOMAIN bs : bs[b].type \in Pointers} |-> Content(mem, p, bs[p].type)]

CellSet == [v : Int, type : Types]
IsGraph(C, bs) ==
    \A p \in DOMAIN C :
        /\ p \in Nat /\ p > 0 /\ p \in DOMAIN bs /\ bs[p].type \in Pointers
        /\ C[p] \in Seq(CellSet)
        /\ \A n \in 1..Len(C[p]) : C[p][n].type \in Pointers =>
              \/ C[p][n].v = 0
              \/ C[p][n].v \in DOMAIN C /\ bs[C[p][n].v].type = C[p][n].type

(* A cell is read as what it holds.                                        *)
LEMMA SlotRead ==
    ASSUME NEW bs, NEW mem, NEW p \in Nat, NEW off \in Nat, NEW t, p % 8 = 0, off % SizeOf(t) = 0,
           Slot(bs, mem, p + off, t)
    PROVE  /\ LoadedFrom(mem, p + off, t) \in Int
           /\ t \in Pointers => Points(bs, LoadedFrom(mem, p + off, t), t)
<1>1. CellOf(p + off, t) = p + off
    BY Aligned
<1>2. PICK v \in Int : At(mem, p + off, t, v) /\ (t \in Pointers => Points(bs, v, t))
    BY DEF Slot
<1>3. LoadedFrom(mem, p + off, t) = v
    BY <1>1, <1>2 DEF LoadedFrom, At
<1> QED
    BY <1>2, <1>3

Row(begin, e, k) == [i \in 1..k |-> begin + (i - 1) * SizeOf(e)]

(* The elements of an array, from its header.                              *)
LEMMA ElementsRead ==
    ASSUME NEW bs, NEW mem, NEW p \in Nat, p % 8 = 0, NEW e, NEW k, ElementsTyped(bs, mem, p, e, k)
    PROVE  ElementsFrom(mem, p, e) = Row(p + 16, e, k)
<1>0. k \in Nat /\ HeaderAt(mem, p, SizeOf(e) * k, k)
    BY DEF ElementsTyped
<1>1. PICK q \in {1, 4, 8} : q = SizeOf(e)
    BY SizeType
<1>2. SizeOf("i32") = 4
    BY DEF SizeOf
<1>3. CellOf(p, "i32") = p /\ CellOf(p + 4, "i32") = p + 4
    BY <1>2 DEF CellOf
<1>4. /\ LoadedFrom(mem, p, "i32") = p + 16
      /\ LoadedFrom(mem, p + 4, "i32") = p + 16 + q * k
    BY <1>0, <1>1, <1>3 DEF HeaderAt, At, LoadedFrom
<1>5. ((p + 16 + q * k) \div q) - ((p + 16) \div q) = k
  <2>1. CASE q = 1
      BY <1>0, <2>1
  <2>2. CASE q = 4
      BY <1>0, <2>2
  <2>3. CASE q = 8
      BY <1>0, <2>3
  <2> QED
      BY <2>1, <2>2, <2>3
<1> QED
    BY <1>1, <1>4, <1>5 DEF ElementsFrom, Row

(* What an object holds is typed.                                          *)
LEMMA ContentTyped ==
    ASSUME NEW bs, NEW br, NEW mem, Laid(bs, br), Typed(bs, mem),
           NEW p \in DOMAIN bs, NEW type \in Pointers, bs[p].type = type
    PROVE  /\ Content(mem, p, type) \in Seq(CellSet)
           /\ Len(Content(mem, p, type)) = Len(CellsFrom(mem, p, type))
           /\ \A n \in 1..Len(Content(mem, p, type)) : Content(mem, p, type)[n].type \in Pointers =>
                 Points(bs, Content(mem, p, type)[n].v, Content(mem, p, type)[n].type)
<1>1. p \in Nat /\ p % 8 = 0
    BY DEF Laid
<1>2. \E k \in Nat : /\ Len(CellsFrom(mem, p, type)) = k
                     /\ \A n \in 1..k : LET v == LoadedFrom(mem, CellsFrom(mem, p, type)[n], TypeAt(type, n)) IN
                           /\ v \in Int /\ TypeAt(type, n) \in Types
                           /\ TypeAt(type, n) \in Pointers => Points(bs, v, TypeAt(type, n))
  <2>1. CASE type \in Arrays
    <3>1. PICK e \in Types : e = ElementOf[type]
        BY <2>1, NamesAssumption
    <3>2. PICK k : ElementsTyped(bs, mem, p, e, k)
        BY <2>1, <3>1 DEF Typed
    <3>3. k \in Nat /\ HeaderAt(mem, p, SizeOf(e) * k, k)
        BY <3>2 DEF ElementsTyped
    <3>4. CellsFrom(mem, p, type) = [i \in 1..k |-> p + 16 + (i - 1) * SizeOf(e)]
      <4>1. ElementsFrom(mem, p, e) = Row(p + 16, e, k)
          BY <1>1, <3>2, ElementsRead
      <4> QED
          BY <2>1, <3>1, <4>1 DEF CellsFrom, Row
    <3>5. ASSUME NEW n \in 1..k
          PROVE  LET v == LoadedFrom(mem, CellsFrom(mem, p, type)[n], TypeAt(type, n)) IN
                           /\ v \in Int /\ TypeAt(type, n) \in Types
                           /\ TypeAt(type, n) \in Pointers => Points(bs, v, TypeAt(type, n))
      <4>1. TypeAt(type, n) = e
          BY <2>1, <3>1 DEF TypeAt
      <4>2. PICK q \in {1, 4, 8} : q = SizeOf(e)
          BY SizeType
      <4>3. PICK off \in Nat : off = 16 + (n - 1) * q /\ off % q = 0
        <5>1. CASE q = 1
            BY <3>3, <5>1
        <5>2. CASE q = 4
            BY <3>3, <5>2
        <5>3. CASE q = 8
            BY <3>3, <5>3
        <5> QED
            BY <5>1, <5>2, <5>3
      <4>4. PICK a : a = p + off
          OBVIOUS
      <4>5. a = p + 16 + (n - 1) * q
          BY <1>1, <3>3, <4>3, <4>4
      <4>6. CellsFrom(mem, p, type)[n] = a
          BY <3>4, <4>2, <4>5
      <4>7. Slot(bs, mem, a, e)
          BY <3>2, <4>2, <4>5 DEF ElementsTyped
      <4>8. Slot(bs, mem, p + off, e)
          BY <4>4, <4>7
      <4>9. /\ LoadedFrom(mem, p + off, e) \in Int
            /\ e \in Pointers => Points(bs, LoadedFrom(mem, p + off, e), e)
          BY <1>1, <4>2, <4>3, <4>8, SlotRead
      <4> QED
          BY <3>1, <4>1, <4>4, <4>6, <4>9
    <3>6. Len(CellsFrom(mem, p, type)) = k
        BY <3>3, <3>4
    <3> QED
        BY <3>3, <3>5, <3>6
  <2>2. CASE type \notin Arrays
    <3>1. type \in Classes
        BY <2>2 DEF Pointers
    <3>2. PICK k \in Nat : k = Len(Fields(type))
        BY <3>1, ObjectLayout
    <3>3. CellsFrom(mem, p, type) = [n \in 1..k |-> p + FieldOffset(Fields(type), n)]
        BY <2>2, <3>2 DEF CellsFrom
    <3>4. ASSUME NEW n \in 1..k
          PROVE  LET v == LoadedFrom(mem, CellsFrom(mem, p, type)[n], TypeAt(type, n)) IN
                           /\ v \in Int /\ TypeAt(type, n) \in Types
                           /\ TypeAt(type, n) \in Pointers => Points(bs, v, TypeAt(type, n))
      <4>1. PICK t \in Types : t = Fields(type)[n] /\ TypeAt(type, n) = t
          BY <2>2, <3>1, <3>2, ObjectLayout DEF TypeAt
      <4>2. PICK off \in Nat : off = FieldOffset(Fields(type), n) /\ off % SizeOf(t) = 0
          BY <3>1, <3>2, <4>1, ObjectLayout
      <4>3. Slot(bs, mem, p + off, t)
          BY <3>1, <3>2, <4>1, <4>2 DEF Typed, FieldsTyped
      <4>4. /\ LoadedFrom(mem, p + off, t) \in Int
            /\ t \in Pointers => Points(bs, LoadedFrom(mem, p + off, t), t)
          BY <1>1, <4>2, <4>3, SlotRead
      <4>5. CellsFrom(mem, p, type)[n] = p + off
          BY <3>3, <4>2
      <4> QED
          BY <4>1, <4>4, <4>5
    <3>5. Len(CellsFrom(mem, p, type)) = k
        BY <3>2, <3>3
    <3> QED
        BY <3>2, <3>4, <3>5
  <2> QED
      BY <2>1, <2>2
<1>3. PICK k \in Nat : /\ Len(CellsFrom(mem, p, type)) = k
                     /\ \A n \in 1..k : LET v == LoadedFrom(mem, CellsFrom(mem, p, type)[n], TypeAt(type, n)) IN
                           /\ v \in Int /\ TypeAt(type, n) \in Types
                           /\ TypeAt(type, n) \in Pointers => Points(bs, v, TypeAt(type, n))
    BY <1>2
<1>4. PICK g : /\ g = [n \in 1..k |-> [v |-> LoadedFrom(mem, CellsFrom(mem, p, type)[n], TypeAt(type, n)),
                                       type |-> TypeAt(type, n)]]
               /\ Content(mem, p, type) = g
    BY <1>3 DEF Content
<1>5. \A n \in 1..k : /\ g[n].v = LoadedFrom(mem, CellsFrom(mem, p, type)[n], TypeAt(type, n))
                      /\ g[n].type = TypeAt(type, n) /\ g[n] \in CellSet
    BY <1>3, <1>4 DEF CellSet
<1>6. g \in Seq(CellSet) /\ Len(g) = k
    BY <1>4, <1>5
<1> QED
    BY <1>3, <1>4, <1>5, <1>6

(* The memory is a graph of objects.                                       *)
LEMMA ContentsTyped ==
    ASSUME NEW bs, NEW br, NEW mem, Laid(bs, br), Typed(bs, mem)
    PROVE  IsGraph(Contents(bs, mem), bs)
<1>1. PICK C : C = Contents(bs, mem)
    OBVIOUS
<1> SUFFICES ASSUME NEW p \in DOMAIN C
             PROVE /\ p \in Nat /\ p > 0 /\ p \in DOMAIN bs /\ bs[p].type \in Pointers
                   /\ C[p] \in Seq(CellSet)
                   /\ \A n \in 1..Len(C[p]) : C[p][n].type \in Pointers =>
                         \/ C[p][n].v = 0
                         \/ C[p][n].v \in DOMAIN C /\ bs[C[p][n].v].type = C[p][n].type
    BY <1>1 DEF IsGraph
<1>2. DOMAIN C = {b \in DOMAIN bs : bs[b].type \in Pointers}
    BY <1>1 DEF Contents
<1>3. PICK type \in Pointers : type = bs[p].type /\ C[p] = Content(mem, p, type)
    BY <1>1, <1>2 DEF Contents
<1>4. PICK g : g = C[p] /\ g \in Seq(CellSet)
               /\ \A n \in 1..Len(g) : g[n].type \in Pointers => Points(bs, g[n].v, g[n].type)
    BY <1>2, <1>3, ContentTyped
<1>5. \A n \in 1..Len(g) : g[n].type \in Pointers =>
                         \/ g[n].v = 0
                         \/ g[n].v \in DOMAIN C /\ bs[g[n].v].type = g[n].type
    BY <1>2, <1>4 DEF Points
<1> QED
    BY <1>2, <1>4, <1>5 DEF Laid

(* wasmToJs reads the graph.                                               *)
LEMMA ReadsContents ==
    ASSUME Serialised, work = <<>>, Laid(blocks, brk), Typed(blocks, heap),
           NEW C, C = Contents(blocks, heap), NEW p \in DOMAIN C, NEW type \in DOMAIN types, blocks[p].type = type
    PROVE  /\ Len(CellsAt(p, type)) = Len(C[p])
           /\ \A n \in 1..Len(C[p]) : /\ CellType(type, n) = C[p][n].type
                                      /\ Loaded(CellsAt(p, type)[n], CellType(type, n)) = C[p][n].v
                                      /\ C[p][n].type \in DOMAIN types
<1>1. DOMAIN C = {b \in DOMAIN blocks : blocks[b].type \in Pointers}
    BY DEF Contents
<1>2. type \in Pointers /\ C[p] = Content(heap, p, type)
    BY <1>1 DEF Contents
<1>3. /\ type \in Classes => types[type].fields = Fields(type)
      /\ type \in Arrays => types[type].typeArguments[1] = ElementOf[type]
      /\ \A n : CellType(type, n) = TypeAt(type, n)
  <2>1. type \in Classes \/ type \in Arrays
      BY <1>2 DEF Pointers
  <2> QED
      BY <2>1, Lookups DEF TypeAt
<1>4. \A a, t : Loaded(a, t) = LoadedFrom(heap, a, t)
    BY DEF Loaded, LoadedFrom
<1>5. \A a, t : Elements(a, t) = ElementsFrom(heap, a, t)
    BY <1>4 DEF Elements, ElementsFrom
<1>6. CellsAt(p, type) = CellsFrom(heap, p, type)
  <2>1. CASE type \in Arrays
      BY <1>3, <1>5, <2>1 DEF CellsAt, CellsFrom
  <2>2. CASE type \notin Arrays
    <3>1. type \in Classes
        BY <1>2, <2>2 DEF Pointers
    <3> QED
        BY <1>3, <2>2, <3>1 DEF CellsAt, CellsFrom
  <2> QED
      BY <2>1, <2>2
<1>7. Len(Content(heap, p, type)) = Len(CellsFrom(heap, p, type)) /\ Content(heap, p, type) \in Seq(CellSet)
    BY <1>1, <1>2, ContentTyped
<1>8. ASSUME NEW n \in 1..Len(C[p])
      PROVE  /\ CellType(type, n) = C[p][n].type
             /\ Loaded(CellsAt(p, type)[n], CellType(type, n)) = C[p][n].v
             /\ C[p][n].type \in DOMAIN types
  <2>1. n \in 1..Len(CellsFrom(heap, p, type))
      BY <1>2, <1>7
  <2>2. /\ C[p][n].type = TypeAt(type, n)
        /\ C[p][n].v = LoadedFrom(heap, CellsFrom(heap, p, type)[n], TypeAt(type, n))
      BY <1>2, <2>1 DEF Content
  <2>3. TypeAt(type, n) \in DOMAIN types
    <3>1. Pending = DOMAIN types
      <4>1. Len(work) = 0
          OBVIOUS
      <4>2. SeqRange(work) = {}
          BY <4>1 DEF SeqRange
      <4> QED
          BY <4>2 DEF Pending
    <3>2. Mentioned(type) \subseteq DOMAIN types
        BY <3>1 DEF Serialised
    <3>3. CASE type \in Arrays
      <4>1. types[type].typeArguments = <<ElementOf[type]>>
          BY <3>3 DEF Serialised, Descriptor
      <4> QED
          BY <3>2, <3>3, <4>1 DEF Mentioned, SeqRange, TypeAt
    <3>4. CASE type \notin Arrays
      <4>1. types[type].fields = Fields(type) /\ type \in Classes
          BY <1>2, <1>3, <3>4 DEF Pointers
      <4>2. n \in 1..Len(Fields(type))
        <5>1. CellsFrom(heap, p, type) = [m \in 1..Len(Fields(type)) |-> p + FieldOffset(Fields(type), m)]
            BY <3>4 DEF CellsFrom
        <5>2. PICK k \in Nat : k = Len(Fields(type))
            BY <4>1, ObjectLayout
        <5> QED
            BY <2>1, <5>1, <5>2
      <4>3. TypeAt(type, n) = types[type].fields[n]
          BY <3>4, <4>1 DEF TypeAt
      <4> QED
          BY <3>2, <4>1, <4>2, <4>3 DEF Mentioned, SeqRange
    <3> QED
        BY <3>3, <3>4
  <2> QED
      BY <1>3, <1>4, <1>6, <2>2, <2>3
<1> QED
    BY <1>2, <1>6, <1>7, <1>8

-----------------------------------------------------------------------------
(* The frames of wasmToJs and what they have made, over the graph of the   *)
(* memory.  What is read of a cell does not change once the object it      *)
(* refers to is in returnedObjects.                                        *)
See(ret, x) ==
    CASE x.type \in Primitives -> Scalar(x.v, x.type)
      [] x.type \in Pointers /\ x.v = 0 -> Undefined
      [] OTHER -> Ref(ret[x.v])
There(ret, x) == x.type \in Pointers => x.v = 0 \/ x.v \in DOMAIN ret
View(C, ret, p, k) == [n \in 1..k |-> See(ret, C[p][n])]
AllThereOf(C, ret, p, k) == \A n \in 1..k : There(ret, C[p][n])

ValuesSeen == [k : {"bool", "int", "ref", "undefined"}, v : Int]
ReadingSet == [ptr : Nat, type : Pointers, cells : Seq(ValuesSeen)]
FrameReads(C, bs, ret, f) ==
    /\ f \in ReadingSet /\ f.ptr \in DOMAIN C /\ bs[f.ptr].type = f.type /\ f.ptr \notin DOMAIN ret
    /\ Len(f.cells) <= Len(C[f.ptr])
    /\ f.cells = View(C, ret, f.ptr, Len(f.cells))
    /\ AllThereOf(C, ret, f.ptr, Len(f.cells))

(* A frame waits for the object of the next one at its next cell.          *)
Follows(C, f, g) ==
    /\ Len(f.cells) + 1 <= Len(C[f.ptr])
    /\ C[f.ptr][Len(f.cells) + 1].v = g.ptr /\ C[f.ptr][Len(f.cells) + 1].type = g.type
FramesRead(C, bs, ret, s) ==
    /\ s \in Seq(ReadingSet)
    /\ \A i \in 1..Len(s) : FrameReads(C, bs, ret, s[i])
    /\ \A i \in 1..Len(s) : i < Len(s) => Follows(C, s[i], s[i+1])

MadeSet == [ctor : Classes \cup {"Array"}, cells : Seq(ValuesSeen)]
MadeFor(C, bs, ret, p) ==
    [ctor |-> IF bs[p].type \in Arrays THEN "Array" ELSE bs[p].type, cells |-> View(C, ret, p, Len(C[p]))]
Returns(C, bs, ret, md) ==
    /\ md \in Seq(MadeSet)
    /\ DOMAIN ret \subseteq DOMAIN C
    /\ IsFiniteSet(DOMAIN ret) /\ Cardinality(DOMAIN ret) = Len(md)
    /\ \A p \in DOMAIN ret : /\ ret[p] \in 1..Len(md)
                             /\ AllThereOf(C, ret, p, Len(C[p]))
                             /\ md[ret[p]] = MadeFor(C, bs, ret, p)
    /\ \A p, q \in DOMAIN ret : ret[p] = ret[q] => p = q

(* What is seen of a cell stays.                                           *)
LEMMA SeeStays ==
    ASSUME NEW ret, NEW ret2, NEW x, x \in CellSet, There(ret, x), Extends(ret, ret2)
    PROVE  See(ret2, x) = See(ret, x) /\ There(ret2, x)
<1>1. x.type \in Primitives \/ x.type \in Pointers
    BY DEF CellSet, Types, Pointers
<1>2. CASE x.type \in Primitives
    BY <1>2, NamesAssumption DEF See, There
<1>3. CASE x.type \in Pointers /\ x.type \notin Primitives /\ x.v = 0
    BY <1>3 DEF See, There
<1>4. CASE x.type \in Pointers /\ x.type \notin Primitives /\ x.v # 0
  <2>1. x.v \in DOMAIN ret /\ x.v \in DOMAIN ret2 /\ ret2[x.v] = ret[x.v]
      BY <1>4 DEF There, Extends
  <2>2. See(ret, x) = Ref(ret[x.v]) /\ See(ret2, x) = Ref(ret2[x.v])
      BY <1>4 DEF See
  <2> QED
      BY <2>1, <2>2 DEF There
<1> QED
    BY <1>1, <1>2, <1>3, <1>4

(* What is seen is a JavaScript value.                                     *)
LEMMA SeeTyped ==
    ASSUME NEW ret, NEW x, x \in CellSet, There(ret, x), \A p \in DOMAIN ret : ret[p] \in Int
    PROVE  See(ret, x) \in ValuesSeen
<1>1. x.v \in Int /\ (x.type \in Primitives \/ x.type \in Pointers)
    BY DEF CellSet, Types, Pointers
<1>0. ASSUME NEW i \in Int, NEW s \in {"bool", "int", "ref", "undefined"} PROVE [k |-> s, v |-> i] \in ValuesSeen
    BY DEF ValuesSeen
<1>2. CASE x.type \in Primitives
  <2>1. See(ret, x) = Scalar(x.v, x.type)
      BY <1>2, NamesAssumption DEF See
  <2>2. PICK i \in Int : i = IF x.v # 0 THEN 1 ELSE 0
      OBVIOUS
  <2>3. Scalar(x.v, x.type) = [k |-> "bool", v |-> i] \/ Scalar(x.v, x.type) = [k |-> "int", v |-> x.v]
      BY <2>2 DEF Scalar
  <2> QED
      BY <1>0, <1>1, <2>1, <2>3
<1>3. CASE x.type \in Pointers /\ x.type \notin Primitives /\ x.v = 0
  <2>1. See(ret, x) = Undefined
      BY <1>3 DEF See
  <2> QED
      BY <2>1 DEF Undefined, ValuesSeen
<1>4. CASE x.type \in Pointers /\ x.type \notin Primitives /\ x.v # 0
  <2>1. PICK i \in Int : i = ret[x.v]
      BY <1>4 DEF There
  <2>2. See(ret, x) = Ref(i)
      BY <1>4, <2>1 DEF See
  <2> QED
      BY <1>0, <2>2 DEF Ref
<1> QED
    BY <1>1, <1>2, <1>3, <1>4

(* One more cell is seen.                                                  *)
LEMMA ViewGrows ==
    ASSUME NEW C, NEW ret, NEW p, NEW k, k \in Nat
    PROVE  /\ Len(View(C, ret, p, k)) = k
           /\ Append(View(C, ret, p, k), See(ret, C[p][k + 1])) = View(C, ret, p, k + 1)
<1>1. PICK g : g = [n \in 1..(k + 1) |-> See(ret, C[p][n])]
    OBVIOUS
<1>2. PICK f : f = [n \in 1..k |-> g[n]]
    OBVIOUS
<1>3. View(C, ret, p, k) = f /\ View(C, ret, p, k + 1) = g /\ See(ret, C[p][k + 1]) = g[k + 1]
    BY <1>1, <1>2 DEF View
<1>4. PICK S : S = {g[n] : n \in 1..(k + 1)}
    OBVIOUS
<1>5. f \in Seq(S) /\ Len(f) = k /\ g \in Seq(S) /\ Len(g) = k + 1 /\ g[k + 1] \in S
  <2>1. f \in [1..k -> S] /\ g \in [1..(k + 1) -> S] /\ g[k + 1] \in S
    <3>1. \A n \in 1..(k + 1) : g[n] \in S
        BY <1>4
    <3> QED
        BY <1>1, <1>2, <3>1
  <2> QED
      BY <2>1
<1>6. PICK h : h = Append(f, g[k + 1])
    OBVIOUS
<1>7. h \in Seq(S) /\ Len(h) = k + 1 /\ h[k + 1] = g[k + 1] /\ \A i \in 1..k : h[i] = f[i]
    BY <1>5, <1>6, AppendFacts
<1>8. \A i \in 1..(k + 1) : h[i] = g[i]
    BY <1>2, <1>7
<1>9. h = g
    BY <1>5, <1>7, <1>8, SeqEqual
<1> QED
    BY <1>3, <1>5, <1>6, <1>9

(* The cells of a view stay as returnedObjects grows.                      *)
LEMMA ViewStays ==
    ASSUME NEW C, NEW bs, NEW ret, NEW ret2, IsGraph(C, bs), Extends(ret, ret2),
           NEW p, p \in DOMAIN C, NEW k, k \in Nat, k <= Len(C[p]), AllThereOf(C, ret, p, k)
    PROVE  AllThereOf(C, ret2, p, k) /\ View(C, ret2, p, k) = View(C, ret, p, k)
<1>1. PICK cs \in Seq(CellSet) : cs = C[p]
    BY DEF IsGraph
<1>2. ASSUME NEW n \in 1..k PROVE See(ret2, C[p][n]) = See(ret, C[p][n]) /\ There(ret2, C[p][n])
  <2>1. n \in 1..Len(cs)
      BY <1>1
  <2>2. PICK x : x = C[p][n] /\ x \in CellSet
      BY <1>1, <2>1
  <2>3. There(ret, x)
      BY <2>2 DEF AllThereOf
  <2> QED
      BY <2>2, <2>3, SeeStays
<1> QED
    BY <1>2 DEF AllThereOf, View

(* A frame stays as other objects are completed.                           *)
LEMMA FrameStays ==
    ASSUME NEW C, NEW bs, NEW ret, NEW ret2, NEW f, IsGraph(C, bs), Extends(ret, ret2),
           FrameReads(C, bs, ret, f), f.ptr \notin DOMAIN ret2
    PROVE  FrameReads(C, bs, ret2, f)
<1>1. PICK p, k : p = f.ptr /\ k = Len(f.cells)
    OBVIOUS
<1>2. p \in DOMAIN C /\ k \in Nat /\ k <= Len(C[p]) /\ AllThereOf(C, ret, p, k) /\ f.cells = View(C, ret, p, k)
  <2>1. f.cells \in Seq(ValuesSeen)
      BY DEF FrameReads, ReadingSet
  <2> QED
      BY <1>1, <2>1 DEF FrameReads
<1>3. AllThereOf(C, ret2, p, k) /\ View(C, ret2, p, k) = View(C, ret, p, k)
    BY <1>2, ViewStays
<1> QED
    BY <1>1, <1>2, <1>3 DEF FrameReads

ReadsNext(C, ret, f, g) ==
    /\ Len(f.cells) + 1 <= Len(C[f.ptr])
    /\ There(ret, C[f.ptr][Len(f.cells) + 1])
    /\ g = [f EXCEPT !.cells = Append(@, See(ret, C[f.ptr][Len(f.cells) + 1]))]

(* The frame has read its next cell.                                       *)
LEMMA FrameAdvances ==
    ASSUME NEW C, NEW bs, NEW ret, NEW f, NEW g, IsGraph(C, bs), \A p \in DOMAIN ret : ret[p] \in Int,
           FrameReads(C, bs, ret, f), ReadsNext(C, ret, f, g)
    PROVE  FrameReads(C, bs, ret, g) /\ g.ptr = f.ptr /\ g.type = f.type
<1>1. f \in ReadingSet
    BY DEF FrameReads
<1>2. PICK p, cells : p = f.ptr /\ cells = f.cells /\ cells \in Seq(ValuesSeen) /\ p \in DOMAIN C
    BY <1>1 DEF ReadingSet, FrameReads
<1>3. PICK k \in Nat : k = Len(cells)
    BY <1>2
<1>4. /\ cells = View(C, ret, p, k) /\ AllThereOf(C, ret, p, k) /\ k + 1 <= Len(C[p])
      /\ There(ret, C[p][k + 1])
    BY <1>2, <1>3 DEF FrameReads, ReadsNext
<1>5. PICK cs \in Seq(CellSet) : cs = C[p]
    BY <1>2 DEF IsGraph
<1>6. C[p][k + 1] \in CellSet
    BY <1>3, <1>4, <1>5
<1>7. PICK x : x = See(ret, C[p][k + 1]) /\ x \in ValuesSeen
  <2>1. PICK y : y = C[p][k + 1]
      OBVIOUS
  <2> QED
      BY <1>4, <1>6, <2>1, SeeTyped
<1>8. PICK d : d = Append(cells, x)
    OBVIOUS
<1>9. d = View(C, ret, p, k + 1) /\ Len(d) = k + 1 /\ d \in Seq(ValuesSeen)
  <2>1. d = View(C, ret, p, k + 1)
      BY <1>3, <1>4, <1>7, <1>8, ViewGrows
  <2>2. Len(d) = k + 1 /\ d \in Seq(ValuesSeen)
      BY <1>2, <1>3, <1>7, <1>8, AppendFacts
  <2> QED
      BY <2>1, <2>2
<1>10. AllThereOf(C, ret, p, k + 1)
    BY <1>3, <1>4 DEF AllThereOf
<1>11. g = [f EXCEPT !.cells = d]
    BY <1>2, <1>3, <1>7, <1>8 DEF ReadsNext
<1>12. g \in ReadingSet /\ g.ptr = p /\ g.type = f.type /\ g.cells = d
    BY <1>1, <1>2, <1>9, <1>11 DEF ReadingSet
<1> QED
    BY <1>2, <1>4, <1>9, <1>10, <1>12 DEF FrameReads

(* A frame that begins.                                                    *)
LEMMA ReadingBegun ==
    ASSUME NEW C, NEW bs, NEW ret, NEW p, NEW t, IsGraph(C, bs), p \in DOMAIN C, bs[p].type = t, p \notin DOMAIN ret
    PROVE  FrameReads(C, bs, ret, Reading(p, t))
<1>1. PICK e : e = <<>>
    OBVIOUS
<1>2. e \in Seq(ValuesSeen) /\ Len(e) = 0 /\ e = [n \in 1..0 |-> See(ret, C[p][n])]
    BY <1>1
<1>3. p \in Nat /\ t \in Pointers /\ Len(C[p]) \in Nat
  <2>1. C[p] \in Seq(CellSet)
      BY DEF IsGraph
  <2> QED
      BY <2>1 DEF IsGraph
<1>4. Reading(p, t) = [ptr |-> p, type |-> t, cells |-> e]
    BY <1>1 DEF Reading
<1>5. Reading(p, t) \in ReadingSet /\ Reading(p, t).ptr = p /\ Reading(p, t).type = t /\ Reading(p, t).cells = e
    BY <1>2, <1>3, <1>4 DEF ReadingSet
<1> QED
    BY <1>2, <1>3, <1>5 DEF FrameReads, View, AllThereOf

(* A frame is pushed.                                                      *)
LEMMA ReadingPushed ==
    ASSUME NEW C, NEW bs, NEW ret, NEW s, NEW g, FramesRead(C, bs, ret, s), FrameReads(C, bs, ret, g),
           s # <<>> => Follows(C, s[Len(s)], g)
    PROVE  FramesRead(C, bs, ret, Append(s, g))
<1>1. PICK S : S = ReadingSet
    OBVIOUS
<1>2. s \in Seq(S) /\ g \in S
    BY <1>1 DEF FramesRead, FrameReads
<1>3. PICK n, s2 : n = Len(s) /\ s2 = Append(s, g)
    OBVIOUS
<1>4. /\ s2 \in Seq(S) /\ n \in Nat /\ Len(s2) = n + 1 /\ s2[n + 1] = g /\ \A i \in 1..n : s2[i] = s[i]
    BY <1>2, <1>3, AppendFacts
<1>5. ASSUME NEW i \in 1..(n + 1) PROVE FrameReads(C, bs, ret, s2[i])
  <2>1. CASE i = n + 1
      BY <1>4, <2>1
  <2>2. CASE i # n + 1
      BY <1>3, <1>4, <2>2 DEF FramesRead
  <2> QED
      BY <2>1, <2>2
<1>6. ASSUME NEW i \in 1..(n + 1), i < n + 1 PROVE Follows(C, s2[i], s2[i+1])
  <2>1. CASE i = n
    <3>1. s # <<>>
        BY <1>3, <1>4, <1>6, <2>1
    <3> QED
        BY <1>3, <1>4, <1>6, <2>1, <3>1
  <2>2. CASE i # n
    <3>1. i \in 1..n /\ i < n /\ i + 1 \in 1..n
        BY <1>4, <1>6, <2>2
    <3> QED
        BY <1>3, <1>4, <3>1 DEF FramesRead
  <2> QED
      BY <2>1, <2>2
<1> QED
    BY <1>1, <1>3, <1>4, <1>5, <1>6 DEF FramesRead

(* The frames below the top.                                               *)
LEMMA ReadingBelow ==
    ASSUME NEW C, NEW bs, NEW ret, NEW s, FramesRead(C, bs, ret, s), s # <<>>
    PROVE  /\ FramesRead(C, bs, ret, Below(s)) /\ FrameReads(C, bs, ret, s[Len(s)])
           /\ Below(s) # <<>> => Follows(C, Below(s)[Len(Below(s))], s[Len(s)])
           /\ \A i \in 1..Len(Below(s)) : i \in 1..Len(s) /\ i < Len(s) /\ Below(s)[i] = s[i]
<1>1. PICK S : S = ReadingSet
    OBVIOUS
<1>2. s \in Seq(S)
    BY <1>1 DEF FramesRead
<1>3. PICK n, t : n = Len(s) /\ t = Below(s)
    OBVIOUS
<1>4. /\ t \in Seq(S) /\ n \in Nat /\ n > 0 /\ Len(t) = n - 1 /\ \A i \in 1..(n - 1) : t[i] = s[i]
    BY <1>2, <1>3, FrontFacts
<1>5. \A i \in 1..(n - 1) : FrameReads(C, bs, ret, t[i])
    BY <1>3, <1>4 DEF FramesRead
<1>6. ASSUME NEW i \in 1..(n - 1) PROVE Follows(C, s[i], s[i+1])
    BY <1>3, <1>4 DEF FramesRead
<1>7. \A i \in 1..(n - 1) : i < n - 1 => Follows(C, t[i], t[i+1])
  <2> TAKE i \in 1..(n - 1)
  <2> HAVE i < n - 1
  <2>1. i + 1 \in 1..(n - 1) /\ t[i] = s[i] /\ t[i+1] = s[i+1]
      BY <1>4
  <2> QED
      BY <1>6, <2>1
<1>8. t # <<>> => Follows(C, t[n - 1], s[n])
  <2> SUFFICES ASSUME t # <<>> PROVE Follows(C, t[n - 1], s[n])
      OBVIOUS
  <2>1. n - 1 # 0
      BY <1>4, EmptySeq
  <2>2. PICK m \in 1..(n - 1) : m = n - 1 /\ m + 1 = n
      BY <1>4, <2>1
  <2> QED
      BY <1>4, <1>6, <2>2
<1>9. FrameReads(C, bs, ret, s[n])
    BY <1>3, <1>4 DEF FramesRead
<1> QED
    BY <1>1, <1>3, <1>4, <1>5, <1>7, <1>8, <1>9 DEF FramesRead

(* The frame on top reads its next cell.                                   *)
LEMMA TopReads ==
    ASSUME NEW C, NEW bs, NEW ret, NEW s, NEW g, IsGraph(C, bs), \A p \in DOMAIN ret : ret[p] \in Int,
           FramesRead(C, bs, ret, s), s # <<>>, ReadsNext(C, ret, s[Len(s)], g)
    PROVE  FramesRead(C, bs, ret, Append(Below(s), g))
<1>1. PICK t, f : t = Below(s) /\ f = s[Len(s)]
    OBVIOUS
<1>2. /\ FramesRead(C, bs, ret, t) /\ FrameReads(C, bs, ret, f)
      /\ t # <<>> => Follows(C, t[Len(t)], f)
    BY <1>1, ReadingBelow
<1>3. FrameReads(C, bs, ret, g) /\ g.ptr = f.ptr /\ g.type = f.type
    BY <1>1, <1>2, FrameAdvances
<1>4. t # <<>> => Follows(C, t[Len(t)], g)
    BY <1>2, <1>3 DEF Follows
<1> QED
    BY <1>1, <1>2, <1>3, <1>4, ReadingPushed

(* A frame whose cells are all read is the only one of its object: another *)
(* one of the same object would wait for an object that is not completed.  *)
LEMMA CompleteApart ==
    ASSUME NEW C, NEW bs, NEW ret, NEW s, IsGraph(C, bs), FramesRead(C, bs, ret, s), s # <<>>,
           NEW f, f = s[Len(s)], Len(f.cells) = Len(C[f.ptr])
    PROVE  \A i \in 1..Len(s) : i < Len(s) => s[i].ptr # f.ptr
<1> SUFFICES ASSUME NEW i \in 1..Len(s), i < Len(s), s[i].ptr = f.ptr PROVE FALSE
    OBVIOUS
<1>1. PICK g, h : g = s[i] /\ h = s[i+1]
    OBVIOUS
<1>2. Len(s) \in Nat
    BY DEF FramesRead
<1>3. i + 1 \in 1..Len(s) /\ Len(s) \in 1..Len(s)
    BY <1>2
<1>4. Follows(C, g, h) /\ FrameReads(C, bs, ret, g) /\ FrameReads(C, bs, ret, h) /\ FrameReads(C, bs, ret, f)
    BY <1>1, <1>3 DEF FramesRead
<1>5. PICK p, k : p = f.ptr /\ k = Len(g.cells)
    OBVIOUS
<1>6. k \in Nat /\ g.ptr = p
  <2>1. g.cells \in Seq(ValuesSeen)
      BY <1>4 DEF FrameReads, ReadingSet
  <2> QED
      BY <1>1, <1>5, <2>1
<1>7. p \in DOMAIN C /\ AllThereOf(C, ret, p, Len(C[p]))
    BY <1>4, <1>5 DEF FrameReads
<1>8. PICK cs \in Seq(CellSet) : cs = C[p]
    BY <1>7 DEF IsGraph
<1>9. k + 1 <= Len(cs) /\ cs[k + 1].v = h.ptr /\ cs[k + 1].type = h.type
    BY <1>4, <1>5, <1>6, <1>8 DEF Follows
<1>10. k + 1 \in 1..Len(cs)
    BY <1>6, <1>8, <1>9
<1>11. There(ret, cs[k + 1])
    BY <1>7, <1>8, <1>10 DEF AllThereOf
<1>12. h.type \in Pointers /\ h.ptr \in DOMAIN C /\ h.ptr \notin DOMAIN ret
    BY <1>4 DEF FrameReads, ReadingSet
<1>13. h.ptr # 0
    BY <1>12 DEF IsGraph
<1> QED
    BY <1>9, <1>11, <1>12, <1>13 DEF There

(* The other frames stay when an object is completed.                      *)
LEMMA FramesStay ==
    ASSUME NEW C, NEW bs, NEW ret, NEW ret2, NEW s, IsGraph(C, bs), Extends(ret, ret2),
           FramesRead(C, bs, ret, s), \A i \in 1..Len(s) : s[i].ptr \notin DOMAIN ret2
    PROVE  FramesRead(C, bs, ret2, s)
<1>1. ASSUME NEW i \in 1..Len(s) PROVE FrameReads(C, bs, ret2, s[i])
  <2>1. PICK f : f = s[i]
      OBVIOUS
  <2>2. FrameReads(C, bs, ret, f) /\ f.ptr \notin DOMAIN ret2
      BY <2>1 DEF FramesRead
  <2> QED
      BY <2>1, <2>2, FrameStays
<1> QED
    BY <1>1 DEF FramesRead

Completes(ret, md, f, ret2, md2) ==
    /\ ret2 = Put(ret, f.ptr, Len(md) + 1)
    /\ md2 = Append(md, [ctor |-> IF f.type \in Arrays THEN "Array" ELSE f.type, cells |-> f.cells])
Enters(ret, md, p, ret2) ==
    Extends(ret, ret2) /\ DOMAIN ret2 = DOMAIN ret \cup {p} /\ ret2[p] = Len(md) + 1

(* The object of a frame is complete and enters returnedObjects.           *)
LEMMA ObjectCompleted ==
    ASSUME NEW C, NEW bs, NEW ret, NEW md, NEW ret2, NEW md2, NEW f, IsGraph(C, bs),
           Returns(C, bs, ret, md), FrameReads(C, bs, ret, f), Len(f.cells) = Len(C[f.ptr]),
           Completes(ret, md, f, ret2, md2)
    PROVE  Returns(C, bs, ret2, md2) /\ Enters(ret, md, f.ptr, ret2)
<1>1. PICK p, m, cells, type : p = f.ptr /\ m = Len(md) /\ cells = f.cells /\ type = f.type
    OBVIOUS
<1>2. f \in ReadingSet /\ p \in DOMAIN C /\ p \notin DOMAIN ret /\ bs[p].type = type
    BY <1>1 DEF FrameReads
<1>3. cells \in Seq(ValuesSeen) /\ type \in Pointers
    BY <1>1, <1>2 DEF ReadingSet
<1>4. md \in Seq(MadeSet) /\ m \in Nat
    BY <1>1 DEF Returns
<1>5. PICK k : k = Len(C[p]) /\ k \in Nat /\ k = Len(cells) /\ k <= Len(C[p])
    BY <1>1, <1>3
<1>6. cells = View(C, ret, p, k) /\ AllThereOf(C, ret, p, k)
    BY <1>1, <1>5 DEF FrameReads
<1>7. /\ DOMAIN ret2 = DOMAIN ret \cup {p} /\ ret2[p] = m + 1
      /\ \A q \in DOMAIN ret : q # p => ret2[q] = ret[q]
  <2>1. PICK o : o = m + 1
      OBVIOUS
  <2>2. ret2 = Put(ret, p, o)
      BY <1>1, <2>1 DEF Completes
  <2>3. /\ DOMAIN Put(ret, p, o) = DOMAIN ret \cup {p}
        /\ Put(ret, p, o)[p] = o
        /\ \A z \in DOMAIN ret : z # p => Put(ret, p, o)[z] = ret[z]
      BY DEF Put
  <2> QED
      BY <2>1, <2>2, <2>3
<1>8. Extends(ret, ret2)
    BY <1>2, <1>7 DEF Extends
<1>9. PICK r : r = [ctor |-> IF type \in Arrays THEN "Array" ELSE type, cells |-> cells]
    OBVIOUS
<1>10. r \in MadeSet
  <2>1. PICK ct : ct = (IF type \in Arrays THEN "Array" ELSE type) /\ ct \in Classes \cup {"Array"}
      BY <1>3 DEF Pointers
  <2> QED
      BY <1>3, <1>9, <2>1 DEF MadeSet
<1>11. /\ md2 \in Seq(MadeSet) /\ Len(md2) = m + 1 /\ md2[m + 1] = r /\ \A i \in 1..m : md2[i] = md[i]
  <2>1. PICK S : S = MadeSet
      OBVIOUS
  <2>2. md2 = Append(md, r)
      BY <1>1, <1>9 DEF Completes
  <2> QED
      BY <1>1, <1>4, <1>10, <2>1, <2>2, AppendFacts
<1>12. IsFiniteSet(DOMAIN ret2) /\ Cardinality(DOMAIN ret2) = m + 1
  <2>1. IsFiniteSet(DOMAIN ret) /\ Cardinality(DOMAIN ret) = m
      BY <1>1 DEF Returns
  <2> QED
      BY <1>2, <1>7, <2>1, FS_AddElement
<1>13. ASSUME NEW q \in DOMAIN ret2
       PROVE  /\ ret2[q] \in 1..(m + 1) /\ AllThereOf(C, ret2, q, Len(C[q]))
              /\ md2[ret2[q]] = MadeFor(C, bs, ret2, q)
  <2>1. CASE q = p
    <3>1. AllThereOf(C, ret2, p, k) /\ View(C, ret2, p, k) = View(C, ret, p, k)
      <4>1. p \in DOMAIN C /\ k \in Nat /\ k <= Len(C[p]) /\ AllThereOf(C, ret, p, k) /\ Extends(ret, ret2)
          BY <1>2, <1>5, <1>6, <1>8
      <4> QED
          BY <4>1, ViewStays
    <3>2. md2[m + 1] = MadeFor(C, bs, ret2, p)
        BY <1>2, <1>5, <1>6, <1>9, <1>11, <3>1 DEF MadeFor
    <3> QED
      <4>1. ret2[q] = m + 1 /\ m + 1 \in 1..(m + 1)
          BY <1>4, <1>7, <2>1
      <4>2. AllThereOf(C, ret2, q, Len(C[q]))
          BY <1>5, <2>1, <3>1
      <4> QED
          BY <2>1, <3>2, <4>1, <4>2
  <2>2. CASE q # p
    <3>1. q \in DOMAIN ret /\ ret2[q] = ret[q]
        BY <1>7, <2>2
    <3>2. ret[q] \in 1..m /\ AllThereOf(C, ret, q, Len(C[q])) /\ md[ret[q]] = MadeFor(C, bs, ret, q) /\ q \in DOMAIN C
        BY <1>1, <3>1 DEF Returns
    <3>3. Len(C[q]) \in Nat
      <4>1. C[q] \in Seq(CellSet)
          BY <3>2 DEF IsGraph
      <4> QED
          BY <4>1
    <3>4. PICK l : l = Len(C[q]) /\ l \in Nat /\ l <= Len(C[q])
        BY <3>3
    <3>5. AllThereOf(C, ret2, q, l) /\ View(C, ret2, q, l) = View(C, ret, q, l)
        BY <1>8, <3>2, <3>4, ViewStays
    <3>6. MadeFor(C, bs, ret2, q) = MadeFor(C, bs, ret, q)
        BY <3>4, <3>5 DEF MadeFor
    <3> QED
        BY <1>4, <1>11, <3>1, <3>2, <3>4, <3>5, <3>6
  <2> QED
      BY <2>1, <2>2
<1>14. ASSUME NEW q \in DOMAIN ret2, NEW q2 \in DOMAIN ret2, ret2[q] = ret2[q2] PROVE q = q2
  <2>1. \A x \in DOMAIN ret : ret[x] \in 1..m
      BY <1>1 DEF Returns
  <2>2. \A x \in DOMAIN ret : ret2[x] = ret[x] /\ ret2[x] # m + 1
      BY <1>2, <1>4, <1>7, <2>1
  <2>3. CASE q = p \/ q2 = p
      BY <1>7, <1>14, <2>2, <2>3
  <2>4. CASE q # p /\ q2 # p
      BY <1>7, <1>14, <2>2, <2>4 DEF Returns
  <2> QED
      BY <2>3, <2>4
<1>15. DOMAIN ret2 \subseteq DOMAIN C
    BY <1>2, <1>7 DEF Returns
<1>16. Returns(C, bs, ret2, md2)
    BY <1>11, <1>12, <1>13, <1>14, <1>15 DEF Returns
<1> QED
    BY <1>1, <1>7, <1>8, <1>16 DEF Enters

-----------------------------------------------------------------------------
(* From the state to the graph.                                            *)
TypesIn(D, s) == \A i \in 1..Len(s) : s[i].type \in D

(* The types of the frames are serialised as frames come and go.           *)
LEMMA TypesInFrames ==
    ASSUME NEW D, NEW S, NEW s \in Seq(S), NEW g \in S, TypesIn(D, s), g.type \in D
    PROVE  TypesIn(D, Append(s, g)) /\ (s # <<>> => TypesIn(D, Below(s)))
<1>1. PICK n, s2 : n = Len(s) /\ s2 = Append(s, g)
    OBVIOUS
<1>2. n \in Nat /\ Len(s2) = n + 1 /\ s2[n + 1] = g /\ \A i \in 1..n : s2[i] = s[i]
    BY <1>1, AppendFacts
<1>3. \A i \in 1..(n + 1) : s2[i].type \in D
    BY <1>1, <1>2 DEF TypesIn
<1>4. ASSUME s # <<>> PROVE TypesIn(D, Below(s))
  <2>1. PICK t : t = Below(s)
      OBVIOUS
  <2>2. Len(t) = n - 1 /\ \A i \in 1..(n - 1) : t[i] = s[i]
      BY <1>1, <1>4, <2>1, FrontFacts
  <2> QED
      BY <1>1, <1>2, <2>1, <2>2 DEF TypesIn
<1> QED
    BY <1>1, <1>2, <1>3, <1>4 DEF TypesIn

(* wasmToJs's early returns are what is seen.                              *)
LEMMA ImmediateSeen ==
    ASSUME NEW x, x \in CellSet, 0 \notin DOMAIN returned, ReadImmediate(x.v, x.type)
    PROVE  There(returned, x) /\ ReadAs(x.v, x.type) = See(returned, x)
<1>1. (x.type \in Primitives \/ x.type \in Pointers) /\ ~(x.type \in Primitives /\ x.type \in Pointers)
    BY NamesAssumption DEF CellSet, Types, Pointers
<1>2. CASE x.type \in Primitives
    BY <1>1, <1>2 DEF There, ReadAs, See
<1>3. CASE x.type \in Pointers /\ x.v = 0
    BY <1>1, <1>3 DEF There, ReadAs, See
<1>4. CASE x.type \in Pointers /\ x.v # 0
  <2>1. x.v \in DOMAIN returned
      BY <1>1, <1>4 DEF ReadImmediate
  <2> QED
      BY <1>1, <1>4, <2>1 DEF There, ReadAs, See
<1> QED
    BY <1>1, <1>2, <1>3, <1>4

Reads(C) ==
    /\ FramesRead(C, blocks, returned, stack) /\ Returns(C, blocks, returned, made)
    /\ TypesIn(DOMAIN types, stack)
Inbound == Typed(blocks, heap) /\ Reads(Contents(blocks, heap))

(* The result is what is in the memory.                                    *)
ResultInv ==
    /\ phase # "serialize" => work = <<>>
    /\ phase \in {"serialize", "convert", "run"} => returned = <<>> /\ made = <<>>
    /\ phase \in {"result", "done"} => Inbound
    /\ phase = "result" /\ call.result \in Pointers => Points(blocks, result.v, call.result)

(* The pointers in returnedObjects.                                        *)
LEMMA ReturnedAre ==
    ASSUME NEW C, NEW bs, NEW ret, NEW md, IsGraph(C, bs), Returns(C, bs, ret, md)
    PROVE  0 \notin DOMAIN ret /\ \A p \in DOMAIN ret : ret[p] \in Int
<1>1. \A p \in DOMAIN ret : ret[p] \in 1..Len(md) /\ p \in DOMAIN C
    BY DEF Returns
<1>2. Len(md) \in Nat
    BY DEF Returns
<1> QED
    BY <1>1, <1>2 DEF IsGraph

(* Before anything is read.                                                *)
LEMMA NothingRead ==
    ASSUME NEW C, NEW bs, NEW e, e = <<>>
    PROVE  FramesRead(C, bs, e, e) /\ Returns(C, bs, e, e) /\ TypesIn(DOMAIN types, e)
<1>1. Len(e) = 0 /\ DOMAIN e = {} /\ e \in Seq(ReadingSet) /\ e \in Seq(MadeSet)
    OBVIOUS
<1>2. IsFiniteSet(DOMAIN e) /\ Cardinality(DOMAIN e) = Len(e)
    BY <1>1, FS_EmptySet
<1> QED
    BY <1>1, <1>2 DEF FramesRead, Returns, TypesIn

(* The compiled function returns.                                          *)
LEMMA ReturnReads ==
    ASSUME OneTypeEach, ConversionInv, phase = "run", returned = <<>>, made = <<>>, Return
    PROVE  Inbound' /\ (call'.result \in Pointers => Points(blocks', result'.v, call'.result))
<1>1. Serialised /\ Sound /\ Underway /\ stack = <<>>
    BY DEF ConversionInv
<1>2. Typed(blocks', heap')
    BY <1>1, TypedAtStart, TypedAfterReturn
<1>3. stack' = <<>> /\ returned' = <<>> /\ made' = <<>> /\ types' = types /\ blocks' = blocks /\ call' = call
    BY <1>1 DEF Return, serialization
<1>4. PICK C : C = Contents(blocks', heap')
    OBVIOUS
<1>5. FramesRead(C, blocks, <<>>, <<>>) /\ Returns(C, blocks, <<>>, <<>>) /\ TypesIn(DOMAIN types, <<>>)
    BY NothingRead
<1>6. Inbound'
    BY <1>2, <1>3, <1>4, <1>5 DEF Inbound, Reads
<1>7. ASSUME call.result \in Pointers PROVE Points(blocks, result'.v, call.result)
  <2>1. call.result # "void" /\ call.result \notin Primitives
      BY <1>7, NamesAssumption DEF Types, Pointers
  <2>2. ResultValues = PointersOf(call.result) \cup {0}
      BY <2>1 DEF ResultValues
  <2>3. PICK x \in ResultValues : result' = [k |-> "wasm", v |-> x]
      BY DEF Return
  <2>4. result'.v = x
      BY <2>3
  <2> QED
      BY <2>2, <2>4 DEF Points, PointersOf
<1> QED
    BY <1>3, <1>6, <1>7

(* The result is given to toJSObject.                                      *)
LEMMA OpenReads ==
    ASSUME Serialised, work = <<>>, NEW C, IsGraph(C, blocks), DOMAIN C = {b \in DOMAIN blocks : blocks[b].type \in Pointers},
           Reads(C), call.result \in Pointers => Points(blocks, result.v, call.result), Open
    PROVE  Reads(C)'
<1>1. UNCHANGED <<blocks, types, returned, made>>
    BY DEF Open, memory, serialization
<1>2. CASE stack' = stack
    BY <1>1, <1>2 DEF Reads
<1>3. CASE stack' # stack
  <2>1. /\ stack = <<>> /\ call.result \in Types /\ ~ReadImmediate(result.v, call.result)
        /\ stack' = <<Reading(result.v, call.result)>>
      BY <1>3 DEF Open
  <2>2. PICK p, t : p = result.v /\ t = call.result
      OBVIOUS
  <2>3. t \in Pointers /\ p \notin DOMAIN returned /\ p # 0
      BY <2>1, <2>2 DEF ReadImmediate, Types, Pointers
  <2>4. p \in DOMAIN C /\ blocks[p].type = t
      BY <2>2, <2>3 DEF Points
  <2>5. PICK g : g = Reading(p, t)
      OBVIOUS
  <2>6. FrameReads(C, blocks, returned, g)
      BY <2>3, <2>4, <2>5, ReadingBegun
  <2>7. stack' = Append(stack, g)
      BY <2>1, <2>2, <2>5
  <2>8. FramesRead(C, blocks, returned, Append(stack, g))
      BY <2>1, <2>6, ReadingPushed DEF Reads
  <2>9. t \in DOMAIN types
    <3>1. Len(work) = 0
        OBVIOUS
    <3>2. SeqRange(work) = {}
        BY <3>1 DEF SeqRange
    <3>3. Pending = DOMAIN types
        BY <3>2 DEF Pending
    <3>4. t # "void"
        BY <2>3, NamesAssumption DEF Types, Pointers
    <3> QED
        BY <2>2, <3>3, <3>4 DEF Serialised
  <2>10. g.type = t
      BY <2>5 DEF Reading
  <2>11. TypesIn(DOMAIN types, Append(stack, g))
    <3>1. stack \in Seq(ReadingSet) /\ g \in ReadingSet
        BY <2>6 DEF Reads, FramesRead, FrameReads
    <3>2. PICK S, D : S = ReadingSet /\ D = DOMAIN types
        OBVIOUS
    <3> QED
        BY <2>9, <2>10, <3>1, <3>2, TypesInFrames DEF Reads
  <2> QED
      BY <1>1, <2>7, <2>8, <2>11 DEF Reads
<1> QED
    BY <1>2, <1>3

(* The frame on top and what it reads.                                     *)
LEMMA TopOfGraph ==
    ASSUME Serialised, work = <<>>, Laid(blocks, brk), Typed(blocks, heap), NEW C, C = Contents(blocks, heap),
           Reads(C), stack # <<>>, NEW f, f = Top
    PROVE  /\ FrameReads(C, blocks, returned, f) /\ f = stack[Len(stack)] /\ f.type \in DOMAIN types
           /\ Len(CellsAt(f.ptr, f.type)) = Len(C[f.ptr]) /\ Len(C[f.ptr]) \in Nat /\ Len(f.cells) \in Nat
           /\ \A n \in 1..Len(C[f.ptr]) :
                /\ C[f.ptr][n] \in CellSet
                /\ CellType(f.type, n) = C[f.ptr][n].type
                /\ Loaded(CellsAt(f.ptr, f.type)[n], CellType(f.type, n)) = C[f.ptr][n].v
                /\ C[f.ptr][n].type \in DOMAIN types
<1>1. IsGraph(C, blocks)
    BY ContentsTyped
<1>2. f = stack[Len(stack)] /\ FrameReads(C, blocks, returned, f)
    BY ReadingBelow DEF Top, Reads
<1>3. f.type \in DOMAIN types
  <2>1. Len(stack) \in Nat /\ Len(stack) > 0
    <3>1. stack \in Seq(ReadingSet)
        BY DEF Reads, FramesRead
    <3> QED
        BY <3>1, FrontFacts
  <2> QED
      BY <1>2, <2>1 DEF Reads, TypesIn
<1>4. PICK p, type : p = f.ptr /\ type = f.type
    OBVIOUS
<1>5. p \in DOMAIN C /\ blocks[p].type = type /\ f.cells \in Seq(ValuesSeen)
    BY <1>2, <1>4 DEF FrameReads, ReadingSet
<1>6. C[p] \in Seq(CellSet)
    BY <1>1, <1>5 DEF IsGraph
<1>7. /\ Len(CellsAt(p, type)) = Len(C[p])
      /\ \A n \in 1..Len(C[p]) : /\ CellType(type, n) = C[p][n].type
                                 /\ Loaded(CellsAt(p, type)[n], CellType(type, n)) = C[p][n].v
                                 /\ C[p][n].type \in DOMAIN types
    BY <1>3, <1>4, <1>5, ReadsContents
<1> QED
    BY <1>2, <1>3, <1>4, <1>5, <1>6, <1>7

(* A cell is read: a value, or a frame for the object it refers to.        *)
LEMMA CellReads ==
    ASSUME Serialised, work = <<>>, Laid(blocks, brk), Typed(blocks, heap), NEW C, C = Contents(blocks, heap),
           Reads(C), ReadCell
    PROVE  Reads(C)'
<1>1. UNCHANGED <<blocks, types, returned, made>> /\ stack # <<>>
    BY DEF ReadCell, memory, serialization, inbound
<1>2. IsGraph(C, blocks)
    BY ContentsTyped
<1>3. PICK f : f = Top
    OBVIOUS
<1>4. PICK n, x : n = Len(f.cells) + 1 /\ x = C[f.ptr][n]
    OBVIOUS
<1>5. /\ n <= Len(CellsAt(f.ptr, f.type))
      /\ stack' = IF ReadImmediate(Loaded(CellsAt(f.ptr, f.type)[n], CellType(f.type, n)), CellType(f.type, n))
                  THEN Append(Below(stack), [f EXCEPT !.cells = Append(@,
                           ReadAs(Loaded(CellsAt(f.ptr, f.type)[n], CellType(f.type, n)), CellType(f.type, n)))])
                  ELSE Append(stack, Reading(Loaded(CellsAt(f.ptr, f.type)[n], CellType(f.type, n)), CellType(f.type, n)))
    BY <1>3, <1>4 DEF ReadCell
<1>6. /\ FrameReads(C, blocks, returned, f) /\ f = stack[Len(stack)] /\ f.type \in DOMAIN types
      /\ n \in 1..Len(C[f.ptr]) /\ x \in CellSet /\ x.type \in DOMAIN types
      /\ CellType(f.type, n) = x.type /\ Loaded(CellsAt(f.ptr, f.type)[n], CellType(f.type, n)) = x.v
  <2>1. /\ FrameReads(C, blocks, returned, f) /\ f = stack[Len(stack)] /\ f.type \in DOMAIN types
        /\ Len(CellsAt(f.ptr, f.type)) = Len(C[f.ptr]) /\ Len(C[f.ptr]) \in Nat /\ Len(f.cells) \in Nat
        /\ \A m \in 1..Len(C[f.ptr]) :
             /\ C[f.ptr][m] \in CellSet
             /\ CellType(f.type, m) = C[f.ptr][m].type
             /\ Loaded(CellsAt(f.ptr, f.type)[m], CellType(f.type, m)) = C[f.ptr][m].v
             /\ C[f.ptr][m].type \in DOMAIN types
      BY <1>1, <1>3, TopOfGraph
  <2>2. n \in 1..Len(C[f.ptr])
      BY <1>4, <1>5, <2>1
  <2> QED
      BY <1>4, <2>1, <2>2
<1>7. stack' = IF ReadImmediate(x.v, x.type)
               THEN Append(Below(stack), [f EXCEPT !.cells = Append(@, ReadAs(x.v, x.type))])
               ELSE Append(stack, Reading(x.v, x.type))
    BY <1>5, <1>6
<1>8. 0 \notin DOMAIN returned /\ \A p \in DOMAIN returned : returned[p] \in Int
    BY <1>2, ReturnedAre DEF Reads
<1>9. stack \in Seq(ReadingSet) /\ Below(stack) \in Seq(ReadingSet)
    BY <1>1, FrontFacts DEF Reads, FramesRead
<1>10. PICK S, D : S = ReadingSet /\ D = DOMAIN types
    OBVIOUS
<1>11. TypesIn(D, stack) /\ TypesIn(D, Below(stack))
  <2>1. f \in S
      BY <1>6, <1>10 DEF FrameReads
  <2> QED
      BY <1>1, <1>6, <1>9, <1>10, <2>1, TypesInFrames DEF Reads
<1>12. CASE ReadImmediate(x.v, x.type)
  <2>1. There(returned, x) /\ ReadAs(x.v, x.type) = See(returned, x)
      BY <1>6, <1>8, <1>12, ImmediateSeen
  <2>2. PICK g : g = [f EXCEPT !.cells = Append(@, ReadAs(x.v, x.type))]
      OBVIOUS
  <2>3. ReadsNext(C, returned, f, g)
    <3>1. Len(f.cells) + 1 <= Len(C[f.ptr])
        BY <1>4, <1>6
    <3> QED
        BY <1>4, <2>1, <2>2, <3>1 DEF ReadsNext
  <2>4. FramesRead(C, blocks, returned, Append(Below(stack), g))
      BY <1>1, <1>2, <1>6, <1>8, <2>3, TopReads DEF Reads
  <2>5. g \in S /\ g.type \in D
    <3>1. FrameReads(C, blocks, returned, g) /\ g.type = f.type
        BY <1>2, <1>6, <1>8, <2>3, FrameAdvances
    <3> QED
        BY <1>6, <1>10, <3>1 DEF FrameReads
  <2>6. TypesIn(D, Append(Below(stack), g))
      BY <1>9, <1>10, <1>11, <2>5, TypesInFrames
  <2> QED
      BY <1>1, <1>7, <1>10, <1>12, <2>2, <2>4, <2>6 DEF Reads
<1>13. CASE ~ReadImmediate(x.v, x.type)
  <2>1. x.type \in Pointers /\ x.v \notin DOMAIN returned /\ x.v # 0
      BY <1>6, <1>13 DEF ReadImmediate, CellSet, Types, Pointers
  <2>2. x.v \in DOMAIN C /\ blocks[x.v].type = x.type
    <3>1. f.ptr \in DOMAIN C
        BY <1>6 DEF FrameReads
    <3> QED
        BY <1>2, <1>4, <1>6, <2>1, <3>1 DEF IsGraph
  <2>3. PICK g, p, t : g = Reading(p, t) /\ p = x.v /\ t = x.type
      OBVIOUS
  <2>4. FrameReads(C, blocks, returned, g) /\ g.ptr = p /\ g.type = t
    <3>1. FrameReads(C, blocks, returned, g)
        BY <1>2, <2>1, <2>2, <2>3, ReadingBegun
    <3> QED
        BY <2>3, <3>1 DEF Reading
  <2>5. Follows(C, f, g)
      BY <1>4, <1>6, <2>3, <2>4 DEF Follows
  <2>6. FramesRead(C, blocks, returned, Append(stack, g))
      BY <1>6, <2>4, <2>5, ReadingPushed DEF Reads
  <2>7. g \in S /\ g.type \in D
      BY <1>6, <1>10, <2>3, <2>4 DEF FrameReads
  <2>8. TypesIn(D, Append(stack, g))
      BY <1>9, <1>10, <1>11, <2>7, TypesInFrames
  <2> QED
      BY <1>1, <1>7, <1>10, <1>13, <2>3, <2>6, <2>8 DEF Reads
<1> QED
    BY <1>12, <1>13

(* An object is complete and returned to the frame below.                  *)
LEMMA CloseReads ==
    ASSUME Serialised, work = <<>>, Laid(blocks, brk), Typed(blocks, heap), NEW C, C = Contents(blocks, heap),
           Reads(C), Close
    PROVE  Reads(C)'
<1>1. UNCHANGED <<blocks, types>> /\ stack # <<>>
    BY DEF Close, memory, serialization
<1>2. IsGraph(C, blocks)
    BY ContentsTyped
<1>3. PICK f, rest, o : f = Top /\ rest = Below(stack) /\ o = Len(made) + 1
    OBVIOUS
<1>4. /\ Len(f.cells) = Len(CellsAt(f.ptr, f.type))
      /\ made' = Append(made, [ctor |-> IF f.type \in Arrays THEN "Array" ELSE f.type, cells |-> f.cells])
      /\ returned' = Put(returned, f.ptr, o)
      /\ rest = <<>> => stack' = <<>>
      /\ rest # <<>> => stack' = Append(Below(rest), [rest[Len(rest)] EXCEPT !.cells = Append(@, Ref(o))])
    BY <1>3 DEF Close
<1>5. FrameReads(C, blocks, returned, f) /\ f = stack[Len(stack)] /\ f.type \in DOMAIN types
      /\ Len(f.cells) = Len(C[f.ptr])
    BY <1>1, <1>3, <1>4, TopOfGraph
<1>6. PICK ret2, md2 : ret2 = returned' /\ md2 = made'
    OBVIOUS
<1>7. Completes(returned, made, f, ret2, md2)
    BY <1>3, <1>4, <1>6 DEF Completes
<1>8. /\ Returns(C, blocks, ret2, md2) /\ Extends(returned, ret2)
      /\ DOMAIN ret2 = DOMAIN returned \cup {f.ptr} /\ ret2[f.ptr] = o
  <2>1. Returns(C, blocks, returned, made)
      BY DEF Reads
  <2>2. Returns(C, blocks, ret2, md2) /\ Enters(returned, made, f.ptr, ret2)
      BY <1>2, <1>5, <1>7, <2>1, ObjectCompleted
  <2> QED
      BY <1>3, <2>2 DEF Enters
<1>9. /\ FramesRead(C, blocks, returned, rest)
      /\ rest # <<>> => Follows(C, rest[Len(rest)], f)
      /\ \A i \in 1..Len(rest) : i \in 1..Len(stack) /\ i < Len(stack) /\ rest[i] = stack[i]
    BY <1>1, <1>3, <1>5, ReadingBelow DEF Reads
<1>10. \A i \in 1..Len(stack) : i < Len(stack) => stack[i].ptr # f.ptr
    BY <1>1, <1>2, <1>5, CompleteApart DEF Reads
<1>11. FramesRead(C, blocks, ret2, rest)
  <2>1. ASSUME NEW i \in 1..Len(rest) PROVE rest[i].ptr \notin DOMAIN ret2
    <3>1. FrameReads(C, blocks, returned, rest[i])
        BY <1>9 DEF FramesRead
    <3> QED
        BY <1>8, <1>9, <1>10, <3>1 DEF FrameReads
  <2> QED
      BY <1>2, <1>8, <1>9, <2>1, FramesStay
<1>12. PICK S, D : S = ReadingSet /\ D = DOMAIN types
    OBVIOUS
<1>13. rest \in Seq(S) /\ TypesIn(D, rest)
  <2>1. f \in S /\ stack \in Seq(S)
      BY <1>5, <1>12 DEF FrameReads, Reads, FramesRead
  <2>2. TypesIn(D, Below(stack))
      BY <1>1, <1>5, <1>12, <2>1, TypesInFrames DEF Reads
  <2> QED
      BY <1>3, <1>9, <1>12, <2>2 DEF FramesRead
<1>14. CASE rest = <<>>
  <2>1. stack' = rest
      BY <1>4, <1>14
  <2> QED
      BY <1>1, <1>6, <1>8, <1>11, <1>12, <1>13, <2>1 DEF Reads
<1>15. CASE rest # <<>>
  <2>1. PICK h, g : h = rest[Len(rest)] /\ g = [h EXCEPT !.cells = Append(@, Ref(o))]
      OBVIOUS
  <2>2. FrameReads(C, blocks, ret2, h) /\ Follows(C, h, f)
      BY <1>9, <1>11, <1>15, <2>1, ReadingBelow
  <2>3. PICK x : x = C[h.ptr][Len(h.cells) + 1]
      OBVIOUS
  <2>4. x.v = f.ptr /\ x.type = f.type /\ Len(h.cells) + 1 <= Len(C[h.ptr])
      BY <2>2, <2>3 DEF Follows
  <2>5. f.type \in Pointers /\ f.ptr # 0
      BY <1>2, <1>5 DEF FrameReads, ReadingSet, IsGraph
  <2>6. f.type \notin Primitives
      BY <2>5, NamesAssumption
  <2>7. There(ret2, x) /\ See(ret2, x) = Ref(o)
      BY <1>8, <2>4, <2>5, <2>6 DEF There, See
  <2>8. ReadsNext(C, ret2, h, g)
      BY <2>1, <2>3, <2>4, <2>7 DEF ReadsNext
  <2>9. \A p \in DOMAIN ret2 : ret2[p] \in Int
      BY <1>2, <1>8, ReturnedAre
  <2>10. FramesRead(C, blocks, ret2, Append(Below(rest), g))
      BY <1>2, <1>11, <1>15, <2>1, <2>8, <2>9, TopReads
  <2>11. g \in S /\ g.type \in D /\ h \in S /\ h.type \in D
    <3>1. FrameReads(C, blocks, ret2, g) /\ g.type = h.type
        BY <1>2, <2>2, <2>8, <2>9, FrameAdvances
    <3>2. h.type \in D
      <4>1. Len(rest) \in Nat /\ Len(rest) > 0
          BY <1>13, <1>15, FrontFacts
      <4> QED
          BY <1>13, <2>1, <4>1 DEF TypesIn
    <3> QED
        BY <1>12, <2>2, <3>1, <3>2 DEF FrameReads
  <2>12. TypesIn(D, Append(Below(rest), g))
    <3>1. Below(rest) \in Seq(S)
        BY <1>13, <1>15, FrontFacts
    <3>2. TypesIn(D, Below(rest))
        BY <1>13, <1>15, <2>11, TypesInFrames
    <3> QED
        BY <2>11, <3>1, <3>2, TypesInFrames
  <2>13. stack' = Append(Below(rest), g)
      BY <1>4, <1>15, <2>1
  <2> QED
      BY <1>1, <1>6, <1>8, <1>12, <2>10, <2>12, <2>13 DEF Reads
<1> QED
    BY <1>14, <1>15

-----------------------------------------------------------------------------
(* The invariant of the result.                                            *)
LEMMA InitResult == Init => ResultInv
BY DEF Init, ResultInv

(* Every step keeps it.                                                    *)
LEMMA ResultPreserved == OneTypeEach /\ ConversionInv /\ ResultInv /\ [Next]_vars => ResultInv'
<1> SUFFICES ASSUME OneTypeEach, ConversionInv, ResultInv, [Next]_vars PROVE ResultInv'
    OBVIOUS
<1>1. Serialised /\ Laid(blocks, brk)
    BY DEF ConversionInv, Sound, Layout
<1>2. CASE Serialize \/ Begin \/ Call \/ ConvertImmediate \/ ConvertObject \/ ConvertArray \/ Finish
  <2>1. /\ phase \in {"serialize", "convert"} /\ phase' \in {"serialize", "convert", "run"}
        /\ returned' = returned /\ made' = made
        /\ phase' # "serialize" => work' = <<>>
    <3>1. CASE Serialize
        BY <3>1 DEF Serialize, inbound
    <3>2. CASE Begin
        BY <3>2 DEF Begin, inbound, serialization
    <3>3. CASE Call
        BY <3>3 DEF Call, inbound, serialization, ResultInv
    <3>4. CASE ConvertImmediate \/ ConvertObject \/ ConvertArray \/ Finish
        BY <3>4 DEF ConvertImmediate, ConvertObject, ConvertArray, Finish, Converting, inbound, serialization, ResultInv
    <3> QED
        BY <1>2, <3>1, <3>2, <3>3, <3>4
  <2> QED
      BY <2>1 DEF ResultInv
<1>3. CASE Return
  <2>1. phase = "run" /\ phase' = "result" /\ work' = work
      BY <1>3 DEF Return, serialization
  <2>2. Inbound' /\ (call'.result \in Pointers => Points(blocks', result'.v, call'.result))
      BY <1>3, <2>1, ReturnReads DEF ResultInv
  <2> QED
      BY <2>1, <2>2 DEF ResultInv
<1>4. CASE Reject \/ Overflow \/ Detached
  <2>1. phase' = "failed" /\ work' = work
      BY <1>4 DEF Reject, Overflow, Detached, Fail, serialization
  <2>2. phase # "serialize"
      BY <1>4 DEF Reject, Overflow, Detached, Converting
  <2> QED
      BY <2>1, <2>2 DEF ResultInv
<1>5. CASE Open \/ ReadCell \/ Close
  <2>1. /\ phase = "result" /\ phase' \in {"result", "done"} /\ (phase' = "result" => result' = result)
        /\ UNCHANGED <<call, work, types, blocks, heap>>
    <3>1. CASE Open
        BY <3>1 DEF Open, memory, serialization
    <3>2. CASE ReadCell
        BY <3>2 DEF ReadCell, memory, serialization, inbound
    <3>3. CASE Close
        BY <3>3 DEF Close, memory, serialization
    <3> QED
        BY <1>5, <3>1, <3>2, <3>3
  <2>2. work = <<>> /\ Typed(blocks, heap) /\ (call.result \in Pointers => Points(blocks, result.v, call.result))
      BY <2>1 DEF ResultInv, Inbound
  <2>3. PICK C : C = Contents(blocks, heap)
      OBVIOUS
  <2>4. Reads(C)
      BY <2>1, <2>3 DEF ResultInv, Inbound
  <2>5. IsGraph(C, blocks) /\ DOMAIN C = {b \in DOMAIN blocks : blocks[b].type \in Pointers}
      BY <1>1, <2>2, <2>3, ContentsTyped DEF Contents
  <2>6. Reads(C)'
    <3>1. CASE Open
        BY <1>1, <2>2, <2>4, <2>5, <3>1, OpenReads
    <3>2. CASE ReadCell
        BY <1>1, <2>2, <2>3, <2>4, <3>2, CellReads
    <3>3. CASE Close
        BY <1>1, <2>2, <2>3, <2>4, <3>3, CloseReads
    <3> QED
        BY <1>5, <3>1, <3>2, <3>3
  <2>7. Inbound'
      BY <2>1, <2>2, <2>3, <2>6 DEF Inbound
  <2> QED
      BY <2>1, <2>2, <2>7 DEF ResultInv
<1>6. CASE Stopped \/ UNCHANGED vars
  <2>1. UNCHANGED <<call, phase, work, types, blocks, heap, stack, returned, made, result>>
      BY <1>6 DEF Stopped, vars, memory, serialization, inbound
  <2>2. PICK C : C = Contents(blocks, heap)
      OBVIOUS
  <2>3. Inbound => Inbound'
      BY <2>1, <2>2 DEF Inbound, Reads
  <2> QED
      BY <2>1, <2>3 DEF ResultInv
<1> QED
    BY <1>2, <1>3, <1>4, <1>5, <1>6 DEF Next

(* The caller sees what the compiled function left.                        *)
LEMMA ViewIsCompiled ==
    ASSUME Laid(blocks, brk), Typed(blocks, heap), NEW C, C = Contents(blocks, heap), NEW p \in DOMAIN C,
           NEW type, type = blocks[p].type
    PROVE  Compiled(p, type) = View(C, returned, p, Len(C[p]))
<1>1. p \in DOMAIN blocks /\ type \in Pointers /\ C[p] = Content(heap, p, type)
    BY DEF Contents
<1>2. \A a, t : Loaded(a, t) = LoadedFrom(heap, a, t)
    BY DEF Loaded, LoadedFrom
<1>3. \A a, t : Elements(a, t) = ElementsFrom(heap, a, t)
    BY <1>2 DEF Elements, ElementsFrom
<1>4. PICK as : as = CellsFrom(heap, p, type)
    OBVIOUS
<1>5. PICK k : k = Len(C[p]) /\ k = Len(as)
    BY <1>1, <1>4, ContentTyped
<1>6. \A n \in 1..k : C[p][n] = [v |-> LoadedFrom(heap, as[n], TypeAt(type, n)), type |-> TypeAt(type, n)]
    BY <1>1, <1>4, <1>5 DEF Content
<1>7. \A n \in 1..k : See(returned, C[p][n]) = Seen(LoadedFrom(heap, as[n], TypeAt(type, n)), TypeAt(type, n))
  <2> TAKE n \in 1..k
  <2>1. PICK v, t, x : v = LoadedFrom(heap, as[n], TypeAt(type, n)) /\ t = TypeAt(type, n) /\ x = C[p][n]
      OBVIOUS
  <2>2. x.v = v /\ x.type = t
    <3>1. x = [v |-> v, type |-> t]
        BY <1>6, <2>1
    <3> QED
        BY <3>1
  <2>3. See(returned, x) = Seen(v, t)
      BY <2>2 DEF See, Seen
  <2> QED
      BY <2>1, <2>3
<1>8. View(C, returned, p, k) = [n \in 1..k |-> Seen(LoadedFrom(heap, as[n], TypeAt(type, n)), TypeAt(type, n))]
    BY <1>7 DEF View
<1>9. CASE type \in Arrays
  <2>1. as = Elements(p, ElementOf[type]) /\ \A n : TypeAt(type, n) = ElementOf[type]
      BY <1>3, <1>4, <1>9 DEF CellsFrom, TypeAt
  <2> QED
      BY <1>2, <1>5, <1>8, <1>9, <2>1 DEF Compiled
<1>10. CASE type \notin Arrays
  <2>1. type \in Classes
      BY <1>1, <1>10 DEF Pointers
  <2>2. PICK l \in Nat : l = Len(Fields(type))
      BY <2>1, ObjectLayout
  <2>3. as = [n \in 1..l |-> p + FieldOffset(Fields(type), n)]
      BY <1>4, <1>10, <2>2 DEF CellsFrom
  <2>4. l = k
      BY <1>5, <2>2, <2>3
  <2>5. \A n \in 1..k : as[n] = p + CompiledOffset(type, n) /\ TypeAt(type, n) = Fields(type)[n]
      BY <1>10, <2>1, <2>2, <2>3, <2>4, ObjectLayout DEF TypeAt
  <2>6. Compiled(p, type) = [n \in 1..k |-> Seen(Loaded(p + CompiledOffset(type, n), Fields(type)[n]), Fields(type)[n])]
      BY <1>10, <2>2, <2>4 DEF Compiled
  <2>7. \A n \in 1..k : Seen(Loaded(p + CompiledOffset(type, n), Fields(type)[n]), Fields(type)[n])
                        = Seen(LoadedFrom(heap, as[n], TypeAt(type, n)), TypeAt(type, n))
      BY <1>2, <2>5
  <2> QED
      BY <1>5, <1>8, <2>6, <2>7
<1> QED
    BY <1>9, <1>10

(* wasmToJs: for every graph in the memory, cyclic ones excepted by the    *)
(* engine's stack, the caller gets one JavaScript object for each pointer  *)
(* it is given, with the class and the values compiled code left there, if *)
(* no object of the arguments is used at two types (an int[] that is also  *)
(* passed as a number[] is laid out once, objectReferences is looked up    *)
(* without the type).                                                      *)
THEOREM ResultAlwaysMirrors == ASSUME OneTypeEach PROVE Spec => []ResultMirrorsHeap
<1>1. ConversionInv /\ ResultInv => ResultMirrorsHeap
  <2> SUFFICES ASSUME ConversionInv, ResultInv, phase = "done" PROVE ResultMirrorsHeap
      BY DEF ResultMirrorsHeap
  <2>1. Laid(blocks, brk) /\ Inbound
      BY DEF ConversionInv, ResultInv, Sound, Layout
  <2>2. PICK C : C = Contents(blocks, heap)
      OBVIOUS
  <2>3. Returns(C, blocks, returned, made) /\ Typed(blocks, heap)
      BY <2>1, <2>2 DEF Inbound, Reads
  <2>4. ASSUME NEW p \in DOMAIN returned
        PROVE  made[returned[p]] = [ctor |-> IF blocks[p].type \in Arrays THEN "Array" ELSE blocks[p].type,
                                    cells |-> Compiled(p, blocks[p].type)]
    <3>1. p \in DOMAIN C /\ made[returned[p]] = MadeFor(C, blocks, returned, p)
        BY <2>3 DEF Returns
    <3>2. PICK type : type = blocks[p].type
        OBVIOUS
    <3>3. Compiled(p, type) = View(C, returned, p, Len(C[p]))
        BY <2>1, <2>2, <2>3, <3>1, <3>2, ViewIsCompiled
    <3> QED
        BY <3>1, <3>2, <3>3 DEF MadeFor
  <2>5. Cardinality(DOMAIN returned) = Len(made) /\ \A p, q \in DOMAIN returned : returned[p] = returned[q] => p = q
      BY <2>3 DEF Returns
  <2> QED
      BY <2>4, <2>5 DEF ResultMirrorsHeap
<1>2. ConversionInv /\ ResultInv /\ [Next]_vars => ConversionInv' /\ ResultInv'
    BY ConversionPreserved, ResultPreserved
<1>3. Init => ConversionInv /\ ResultInv
    BY InitConversion, InitResult
<1> QED
    BY <1>1, <1>2, <1>3, PTL DEF Spec

-----------------------------------------------------------------------------
(* 7. Failures.                                                            *)

HoldsReference(c, o) == \E i \in 1..Len(CellsOf(c, o)) : CellsOf(c, o)[i].k = "ref"
(* A frame has the views of now, or the memory grew under a reference.     *)
Current(c, f, b) == f.view \in Nat /\ f.view <= b /\ (f.view # b => HoldsReference(c, f.js))
FramesCurrent == \A i \in 1..Len(stack) : Current(call, stack[i], buffer)

SameViews(s, s2) == Len(s2) = Len(s) /\ \A i \in 1..Len(s) : s2[i].js = s[i].js /\ s2[i].view = s[i].view

(* A value that is returned leaves the frames with their objects and views.*)
LEMMA DeliverSameViews ==
    ASSUME NEW c \in Calls, NEW s \in Seq(FrameSet(c)), NEW mem, NEW v \in Int, Deliver(s, mem, v)
    PROVE  SameViews(s, stack')
<1>1. CASE s = <<>>
    BY <1>1 DEF Deliver, SameViews
<1>2. CASE s # <<>>
  <2>1. PICK S : S = FrameSet(c)
      OBVIOUS
  <2>2. PICK n \in Nat : n = Len(s) /\ n > 0
      BY <1>2, FrontFacts
  <2>3. PICK f : f = s[n] /\ f \in S
      BY <2>1, <2>2, <1>2, FrontFacts
  <2>4. PICK m \in Nat : m = n - 1
      BY <2>2
  <2>5. PICK t \in Seq(S) : t = Below(s) /\ Len(t) = m /\ \A i \in 1..m : t[i] = s[i]
      BY <1>2, <2>1, <2>2, <2>4, FrontFacts
  <2>6. PICK g \in S : g = Advanced(f, v) /\ g.js = f.js
      BY <2>1, <2>3, AdvancedFacts
  <2>7. g.view = f.view
      BY <2>1, <2>3, <2>6 DEF Advanced, FrameSet
  <2>8. stack' = Append(t, g)
      BY <1>2, <2>2, <2>3, <2>5, <2>6 DEF Deliver, Advanced
  <2>9. Len(stack') = m + 1 /\ stack'[m + 1] = g /\ \A i \in 1..m : stack'[i] = t[i]
    <3>1. /\ Len(Append(t, g)) = Len(t) + 1 /\ Append(t, g)[Len(t) + 1] = g
          /\ \A i \in 1..Len(t) : Append(t, g)[i] = t[i]
        BY AppendFacts
    <3> QED
        BY <2>5, <2>8, <3>1
  <2>10. ASSUME NEW i \in 1..n PROVE stack'[i].js = s[i].js /\ stack'[i].view = s[i].view
    <3>1. CASE i \in 1..m
        BY <2>5, <2>9, <3>1
    <3>2. CASE i = n
        BY <2>3, <2>4, <2>6, <2>7, <2>9, <3>2
    <3> QED
        BY <2>4, <3>1, <3>2
  <2>11. Len(stack') = n
      BY <2>4, <2>9
  <2> QED
      BY <2>2, <2>10, <2>11 DEF SameViews
<1> QED
    BY <1>1, <1>2

(* A suspended frame waits for one of its references.                      *)
LEMMA SuspendedHoldsReference ==
    ASSUME NEW c \in Calls, NEW s, NEW wa, NEW bs, NEW mem, NEW rf, Outbound(c, s, wa, bs, mem, rf),
           NEW i \in 1..Len(s), i < Len(s)
    PROVE  HoldsReference(c, s[i].js)
<1>1. PICK f, n : f = s[i] /\ n = f.next
    OBVIOUS
<1>2. Awaits(c, f, s[i+1].js) /\ FrameOk(f, c, bs, mem, rf)
    BY <1>1 DEF Outbound, Chained, FramesThere
<1>3. n \in 1..(Len(CellsOf(c, f.js)) + 1) /\ n <= Len(CellsOf(c, f.js))
    BY <1>1, <1>2 DEF Awaits, FrameOk
<1>4. Len(CellsOf(c, f.js)) \in Nat
  <2>1. Suits(c, f.js, f.type)
      BY <1>2, MirrorsBlocks DEF FrameOk
  <2> QED
      BY <2>1, SuitsFacts
<1>5. n \in 1..Len(CellsOf(c, f.js))
    BY <1>3, <1>4
<1> QED
    BY <1>1, <1>2, <1>5 DEF HoldsReference, Awaits

(* A malloc outdates the views of frames below the new one only.           *)
LEMMA PushCurrent ==
    ASSUME call \in Calls, Underway, Underway', FramesCurrent, buffer \in Nat, buffer' \in Nat, buffer <= buffer',
           call' = call, NEW f, f \in FrameSet(call), f.view = buffer', stack' = Append(stack, f)
    PROVE  FramesCurrent'
<1>1. PICK S : S = FrameSet(call)
    OBVIOUS
<1>2. stack \in Seq(S)
    BY <1>1 DEF Underway, Outbound, FramesThere
<1>3. PICK n \in Nat : n = Len(stack)
    BY <1>2
<1>4. Len(stack') = n + 1 /\ stack'[n + 1] = f /\ \A i \in 1..n : stack'[i] = stack[i]
    BY <1>1, <1>2, <1>3, AppendFacts
<1>5. ASSUME NEW i \in 1..n PROVE HoldsReference(call, stack'[i].js)
  <2>1. i \in 1..Len(stack') /\ i < Len(stack')
      BY <1>3, <1>4
  <2>2. PICK s, wa, bs, mem, rf : s = stack' /\ Outbound(call, s, wa, bs, mem, rf)
      BY DEF Underway
  <2> QED
      BY <2>1, <2>2, SuspendedHoldsReference
<1>6. ASSUME NEW i \in 1..n PROVE Current(call, stack'[i], buffer')
  <2>1. Current(call, stack[i], buffer) /\ stack'[i] = stack[i]
      BY <1>3, <1>4 DEF FramesCurrent
  <2>2. PICK v, o : v = stack[i].view /\ o = stack[i].js
      OBVIOUS
  <2>3. v \in Nat /\ v <= buffer'
      BY <2>1, <2>2 DEF Current
  <2>4. HoldsReference(call, o) /\ stack'[i].view = v /\ stack'[i].js = o
      BY <1>5, <2>1, <2>2
  <2> QED
      BY <2>3, <2>4 DEF Current
<1>7. Current(call, f, buffer')
    BY DEF Current
<1>8. \A i \in 1..(n + 1) : i \in 1..n \/ i = n + 1
    BY <1>3
<1> QED
    BY <1>4, <1>6, <1>7, <1>8 DEF FramesCurrent

(* A value that is returned outdates no views.                             *)
LEMMA DeliverCurrent ==
    ASSUME call \in Calls, NEW s \in Seq(FrameSet(call)), NEW mem, NEW v \in Int, Deliver(s, mem, v),
           \A i \in 1..Len(s) : Current(call, s[i], buffer), UNCHANGED <<call, buffer>>
    PROVE  FramesCurrent'
<1>1. PICK c \in Calls : c = call
    OBVIOUS
<1>2. SameViews(s, stack')
    BY <1>1, DeliverSameViews
<1>3. \A i \in 1..Len(s) : Current(call, stack'[i], buffer)
    BY <1>2 DEF SameViews, Current
<1> QED
    BY <1>2, <1>3 DEF SameViews, FramesCurrent

(* The steps of jsToWasm keep the frames current.                          *)
LEMMA ImmediateCurrent ==
    ASSUME Serialised, Sound, Underway, FramesCurrent, ConvertImmediate
    PROVE  FramesCurrent'
<1>1. PICK w : w = Wanted
    OBVIOUS
<1>2. call \in Calls
    BY DEF Serialised
<1>3. w.value \in Value /\ HasType(call, w.value, w.type)
    BY <1>1, WantedIs DEF ConvertImmediate, Underway
<1>4. PICK v : v = IF w.value.k = "ref" THEN refs[w.value.v] ELSE w.value.v
    OBVIOUS
<1>5. UNCHANGED <<call, buffer>> /\ Deliver(stack, heap, v)
    BY <1>1, <1>4 DEF ConvertImmediate
<1>6. w.value.k = "ref" => w.value.v \in DOMAIN refs
    BY <1>1, <1>3 DEF ConvertImmediate, HasType, Unset, Known
<1>7. ObjectsThere(call, blocks, heap, refs) /\ stack \in Seq(FrameSet(call)) /\ Laid(blocks, brk)
    BY DEF Sound, Layout, Underway, Outbound, FramesThere
<1>8. v \in Int
  <2>1. w.value.v \in Int
      BY <1>3 DEF Value
  <2>2. \A o \in DOMAIN refs : refs[o] \in Nat
      BY <1>2, <1>7, RefsAre
  <2> QED
      BY <1>4, <1>6, <2>1, <2>2
<1>9. \A i \in 1..Len(stack) : Current(call, stack[i], buffer)
    BY DEF FramesCurrent
<1> QED
    BY <1>2, <1>5, <1>7, <1>8, <1>9, DeliverCurrent

(* The pointer of a complete object outdates none either.                  *)
LEMMA FinishCurrent ==
    ASSUME Serialised, Underway, FramesCurrent, Finish
    PROVE  FramesCurrent'
<1>1. call \in Calls
    BY DEF Serialised
<1>2. PICK f : f = Top
    OBVIOUS
<1>3. stack \in Seq(FrameSet(call)) /\ stack # <<>>
    BY DEF Underway, Outbound, FramesThere, Finish
<1>4. PICK S : S = FrameSet(call)
    OBVIOUS
<1>5. PICK n \in Nat : n = Len(stack) /\ n > 0 /\ f = stack[n] /\ f \in S
    BY <1>2, <1>3, <1>4, FrontFacts DEF Top
<1>6. PICK t \in Seq(S) : t = Below(stack) /\ Len(t) = n - 1 /\ \A i \in 1..(n - 1) : t[i] = stack[i]
    BY <1>3, <1>4, <1>5, FrontFacts
<1>7. PICK mem : UNCHANGED <<call, buffer>> /\ Deliver(t, mem, f.ptr)
    BY <1>2, <1>6 DEF Finish
<1>8. f.ptr \in Int
    BY <1>4, <1>5 DEF FrameSet
<1>9. \A i \in 1..Len(t) : Current(call, t[i], buffer)
    BY <1>5, <1>6 DEF FramesCurrent
<1> QED
    BY <1>1, <1>4, <1>7, <1>8, <1>9, DeliverCurrent

(* The frame of an object that is begun.                                   *)
BegunFrame(f, o, type, p, n, b) ==
    f = [js |-> o, type |-> type, ptr |-> p, next |-> n, elements |-> <<>>, view |-> b]
(* It has the type of a frame. *)
LEMMA FrameTyped ==
    ASSUME NEW c, NEW o \in 1..Len(c.graph), NEW type \in Pointers, NEW p \in Nat, NEW n \in Nat, NEW b \in Nat,
           NEW f, BegunFrame(f, o, type, p, n, b)
    PROVE  f \in FrameSet(c) /\ f.view = b
BY DEF FrameSet, BegunFrame

(* Beginning with an object leaves the frames current.                     *)
LEMMA NewFrameCurrent ==
    ASSUME Serialised, Sound, Underway, Underway', FramesCurrent, Converting, Grow, call' = call,
           NEW w, w = Wanted, Fresh(w), Accepted(w), NEW n \in Nat, w.type \in Pointers,
           NEW f, BegunFrame(f, w.value.v, w.type, brk, n, views'), stack' = Append(stack, f)
    PROVE  FramesCurrent'
<1>1. call \in Calls /\ brk \in Nat /\ buffer \in Nat /\ views = buffer
    BY DEF Serialised, Sound, Layout, Laid
<1>2. views' = buffer' /\ buffer' \in Nat /\ buffer <= buffer'
    BY <1>1 DEF Grow
<1>3. w.value.v \in 1..Len(call.graph)
    BY NewcomerIs
<1>4. PICK c, o, type, p, b : c = call /\ o = w.value.v /\ type = w.type /\ p = brk /\ b = views'
    OBVIOUS
<1>5. o \in 1..Len(c.graph) /\ type \in Pointers /\ p \in Nat /\ b \in Nat /\ BegunFrame(f, o, type, p, n, b)
    BY <1>1, <1>2, <1>3, <1>4
<1>6. f \in FrameSet(c) /\ f.view = b
    BY <1>5, FrameTyped
<1> QED
    BY <1>1, <1>2, <1>4, <1>6, PushCurrent

(* jsToWasm begins with an object.                                         *)
LEMMA ObjectCurrent ==
    ASSUME Serialised, Sound, Underway, FramesCurrent, ConvertObject
    PROVE  FramesCurrent'
<1>1. PICK w : w = Wanted
    OBVIOUS
<1>2. PICK f : f = Frame(w, brk)
    OBVIOUS
<1>3. /\ Converting /\ Fresh(w) /\ Accepted(w) /\ w.type \in Pointers /\ Grow /\ call' = call
      /\ stack' = Append(stack, f)
    BY <1>1, <1>2 DEF ConvertObject, Pointers
<1>4. BegunFrame(f, w.value.v, w.type, brk, 1, views')
    BY <1>2 DEF Frame, BegunFrame
<1>5. Underway'
    BY ObjectRuns
<1> QED
    BY <1>1, <1>3, <1>4, <1>5, NewFrameCurrent

(* jsToWasm begins with an array.                                          *)
LEMMA ArrayCurrent ==
    ASSUME Serialised, Sound, Underway, FramesCurrent, ConvertArray
    PROVE  FramesCurrent'
<1>1. PICK w : w = Wanted
    OBVIOUS
<1>2. PICK native, element : native = Graph[w.value.v].cells /\ element = types[w.type].typeArguments[1]
    OBVIOUS
<1>3. PICK n : n = IF element \in Primitives THEN Len(native) + 1 ELSE 1
    OBVIOUS
<1>4. PICK f : f = [Frame(w, brk) EXCEPT !.next = n]
    OBVIOUS
<1>5. Converting /\ Fresh(w) /\ Accepted(w) /\ w.type \in Pointers /\ Grow /\ call' = call
    BY <1>1 DEF ConvertArray, Pointers
<1>6. stack' = Append(stack, f)
  <2>1. CASE element \in Primitives
      BY <1>1, <1>2, <1>3, <1>4, <2>1 DEF ConvertArray
  <2>2. CASE element \notin Primitives
    <3>1. f = Frame(w, brk)
        BY <1>3, <1>4, <2>2 DEF Frame
    <3> QED
        BY <1>1, <1>2, <2>2, <3>1 DEF ConvertArray
  <2> QED
      BY <2>1, <2>2
<1>7. n \in Nat
  <2>1. Suits(call, w.value.v, w.type) /\ call \in Calls
      BY <1>1, <1>5, NewcomerIs DEF Serialised
  <2>2. Len(native) \in Nat
      BY <1>2, <2>1, SuitsFacts DEF CellsOf, Graph
  <2> QED
      BY <1>3, <2>2
<1>8. BegunFrame(f, w.value.v, w.type, brk, n, views')
    BY <1>4 DEF Frame, BegunFrame
<1>9. Underway'
    BY ArrayRuns
<1> QED
    BY <1>1, <1>5, <1>6, <1>7, <1>8, <1>9, NewFrameCurrent

-----------------------------------------------------------------------------
(* Where the value comes from that is converted next.                      *)
LEMMA ArgumentWanted ==
    ASSUME Serialised, Underway, Converting, stack = <<>>
    PROVE  \E i \in 1..Len(call.args) : Wanted = call.args[i]
<1>1. call \in Calls
    BY DEF Serialised
<1>2. PICK n \in Nat : n = Len(wasmArgs) /\ n < Len(call.args)
    BY DEF Underway, Outbound, ArgumentsThere, Converting
<1>3. call.args \in Seq([type : Types, value : Value])
    BY <1>1, CallsAssumption
<1>4. n + 1 \in 1..Len(call.args)
    BY <1>2, <1>3
<1> QED
    BY <1>2, <1>4 DEF Wanted

(* It is a cell of the object on top.                                      *)
LEMMA CellWanted ==
    ASSUME Serialised, Underway, Converting, stack # <<>>, NEW w, w = Wanted, NEW f, f = Top
    PROVE  /\ f.next \in 1..Len(CellsOf(call, f.js)) /\ w.value = CellsOf(call, f.js)[f.next]
           /\ w.type = CellType(f.type, f.next)
           /\ f.type \in DOMAIN types /\ f.js \in Reachable /\ Suits(call, f.js, f.type)
<1>1. call \in Calls
    BY DEF Serialised
<1>2. stack \in Seq(FrameSet(call))
    BY DEF Underway, Outbound, FramesThere
<1>3. Len(stack) \in 1..Len(stack) /\ f = stack[Len(stack)]
    BY <1>2, EmptySeq DEF Top
<1>4. /\ FrameOk(f, call, blocks, heap, refs) /\ f.type \in DOMAIN types /\ f.js \in Reachable
    BY <1>3 DEF Underway, Outbound, FramesThere, FramesSerialised, Visited
<1>5. Suits(call, f.js, f.type)
    BY <1>4, MirrorsBlocks DEF FrameOk
<1>6. PICK l \in Nat : l = Len(CellsOf(call, f.js))
    BY <1>1, <1>5, SuitsFacts
<1>7. Wants(call, stack, wasmArgs)
    BY WantedIs DEF Underway
<1>8. f.next \in 1..(l + 1) /\ f.next <= l
    BY <1>3, <1>4, <1>6, <1>7 DEF Wants, FrameOk
<1>9. f.next \in 1..l
    BY <1>8
<1>10. w.value = CellsOf(call, f.js)[f.next] /\ w.type = CellType(f.type, f.next)
    BY DEF Wanted, CellsOf, Graph
<1> QED
    BY <1>4, <1>5, <1>6, <1>9, <1>10

(* The types that a serialised type mentions are known.                    *)
LEMMA MentionedKnown ==
    ASSUME Serialised, work = <<>>, NEW type \in DOMAIN types
    PROVE  /\ type \in Arrays => ElementOf[type] \in DOMAIN types
           /\ type \in Classes => \A n \in 1..Len(Fields(type)) : Fields(type)[n] \in DOMAIN types
<1>1. Pending = DOMAIN types
    BY DEF Pending, SeqRange
<1>2. Mentioned(type) \subseteq DOMAIN types /\ types[type] = Descriptor(type) /\ type \in Types
    BY <1>1 DEF Serialised
<1>3. CASE type \in Arrays
  <2>1. types[type].typeArguments = <<ElementOf[type]>>
      BY <1>2, <1>3 DEF Descriptor
  <2>2. ElementOf[type] \in Mentioned(type)
      BY <2>1 DEF Mentioned, SeqRange
  <2> QED
      BY <1>2, <1>3, <2>2, NamesAssumption
<1>4. CASE type \in Classes
  <2>1. types[type].fields = Fields(type)
      BY <1>2, <1>4 DEF Descriptor
  <2>2. \A n \in 1..Len(Fields(type)) : Fields(type)[n] \in Mentioned(type)
      BY <2>1 DEF Mentioned, SeqRange
  <2> QED
      BY <1>2, <1>4, <2>2, NamesAssumption
<1> QED
    BY <1>3, <1>4

(* jsToWasm finds the type of every value.                                 *)
LEMMA WantedKnown ==
    ASSUME Serialised, work = <<>>, Underway, Converting, NEW w, w = Wanted
    PROVE  w.type \in DOMAIN types
<1>1. CASE stack = <<>>
  <2>1. PICK i \in 1..Len(call.args) : w = call.args[i]
      BY <1>1, ArgumentWanted
  <2>2. Pending = DOMAIN types
      BY DEF Pending, SeqRange
  <2> QED
      BY <2>1, <2>2 DEF Serialised
<1>2. CASE stack # <<>>
  <2>1. PICK f : f = Top
      OBVIOUS
  <2>2. PICK type, n, cs : type = f.type /\ n = f.next /\ cs = CellsOf(call, f.js)
      OBVIOUS
  <2>3. n \in 1..Len(cs) /\ w.type = CellType(type, n) /\ type \in DOMAIN types /\ Suits(call, f.js, type)
      BY <1>2, <2>1, <2>2, CellWanted
  <2>4. type \in Pointers /\ (type \in Classes => Len(cs) = Len(Fields(type)))
      BY <2>2, <2>3, SuitsFacts DEF Serialised
  <2>5. CASE type \in Arrays
      BY <2>3, <2>5, Lookups, MentionedKnown
  <2>6. CASE type \in Classes
    <3>1. w.type = Fields(type)[n] /\ n \in 1..Len(Fields(type))
        BY <2>3, <2>4, <2>6, Lookups
    <3> QED
        BY <2>3, <2>6, <3>1, MentionedKnown
  <2> QED
      BY <2>4, <2>5, <2>6 DEF Pointers
<1> QED
    BY <1>1, <1>2

(* A reference that is converted leads to one of the objects.              *)
LEMMA WantedReachable ==
    ASSUME Serialised, Underway, Converting, NEW w, w = Wanted, w.value.k = "ref", w.type \notin Primitives
    PROVE  /\ w.value.v \in Reachable /\ w.type \in Pointers
           /\ <<w.value.v, w.type>> \in call.uses
<1>1. call \in Calls
    BY DEF Serialised
<1>2. HasType(call, w.value, w.type) /\ w.type \in Types
    BY WantedIs DEF Underway
<1>3. PICK o, type : o = w.value.v /\ type = w.type
    OBVIOUS
<1>4. <<o, type>> \in call.uses
    BY <1>2, <1>3 DEF HasType
<1>5. o \in 1..Len(call.graph)
    BY <1>1, <1>4, CallsAssumption
<1>6. o \in DOMAIN Graph
  <2>1. call.graph \in Seq([ctor : STRING, cells : Seq(Value)])
      BY <1>1, CallsAssumption
  <2> QED
      BY <1>5, <2>1 DEF Graph
<1>7. o \in Reachable
  <2>1. CASE stack = <<>>
    <3>1. PICK i \in 1..Len(call.args) : w = call.args[i]
        BY <2>1, ArgumentWanted
    <3> QED
        BY <1>3, <1>6, <3>1, GivenReachable
  <2>2. CASE stack # <<>>
    <3>1. PICK f : f = Top
        OBVIOUS
    <3>2. PICK p, n : p = f.js /\ n = f.next
        OBVIOUS
    <3>3. n \in 1..Len(CellsOf(call, p)) /\ w.value = CellsOf(call, p)[n] /\ p \in Reachable
        BY <2>2, <3>1, <3>2, CellWanted
    <3>4. o \in References(p)
        BY <1>3, <3>3, CellReferred
    <3> QED
        BY <1>6, <3>3, <3>4, ReferredReachable
  <2> QED
      BY <2>1, <2>2
<1> QED
    BY <1>2, <1>3, <1>4, <1>7 DEF Types, Pointers

(* The errors that jsToWasm throws: none of an unknown type.               *)
LEMMA RejectJustified ==
    ASSUME Serialised, work = <<>>, Underway, Reject, NEW why, why = reason'
    PROVE  Justified(why)
<1>1. PICK w : w = Wanted
    OBVIOUS
<1>2. Converting
    BY DEF Reject
<1>3. w.type \in DOMAIN types
    BY <1>1, <1>2, WantedKnown
<1>4. \/ w.type \notin Primitives /\ w.value.k = "null" /\ why = "null"
      \/ Fresh(w) /\ ~Accepted(w) /\ why = "wrong constructor"
      \/ why = "out of memory"
    BY <1>1, <1>3 DEF Reject, Fail
<1>5. CASE why = "null" /\ w.value.k = "null"
  <2>1. CASE stack = <<>>
    <3>1. PICK i \in 1..Len(call.args) : w = call.args[i]
        BY <1>1, <1>2, <2>1, ArgumentWanted
    <3>2. w \in SeqRange(call.args)
        BY <3>1 DEF SeqRange
    <3> QED
        BY <1>5, <3>2 DEF Justified
  <2>2. CASE stack # <<>>
    <3>1. PICK f : f = Top
        OBVIOUS
    <3>2. PICK o, n : o = f.js /\ n = f.next
        OBVIOUS
    <3>3. n \in 1..Len(CellsOf(call, o)) /\ w.value = CellsOf(call, o)[n] /\ o \in Reachable
        BY <1>1, <1>2, <2>2, <3>1, <3>2, CellWanted
    <3>4. w.value \in SeqRange(Graph[o].cells)
        BY <3>3 DEF SeqRange, CellsOf, Graph
    <3> QED
        BY <1>5, <3>3, <3>4 DEF Justified
  <2> QED
      BY <2>1, <2>2
<1>6. CASE why = "wrong constructor" /\ Fresh(w) /\ ~Accepted(w)
  <2>1. PICK o, type : o = w.value.v /\ type = w.type
      OBVIOUS
  <2>2. o \in Reachable /\ <<o, type>> \in call.uses
      BY <1>1, <1>2, <1>6, <2>1, WantedReachable DEF Fresh
  <2>3. Graph[o].ctor # IF type \in Arrays THEN "Array" ELSE type
      BY <1>6, <2>1 DEF Accepted
  <2>4. PICK u : u = <<o, type>>
      OBVIOUS
  <2>5. u \in call.uses /\ u[1] \in Reachable /\ Graph[u[1]].ctor # IF u[2] \in Arrays THEN "Array" ELSE u[2]
      BY <2>2, <2>3, <2>4
  <2> QED
      BY <1>6, <2>5 DEF Justified
<1>7. CASE why = "out of memory"
    BY <1>7 DEF Justified
<1> QED
    BY <1>4, <1>5, <1>6, <1>7

(* The elements of an array of objects were converted while the memory grew.*)
LEMMA DetachedJustified ==
    ASSUME Serialised, Sound, Underway, FramesCurrent, Detached, NEW why, why = reason'
    PROVE  Justified(why)
<1>1. call \in Calls /\ buffer \in Nat
    BY DEF Serialised, Sound
<1>2. PICK f : f = Top
    OBVIOUS
<1>3. stack \in Seq(FrameSet(call)) /\ stack # <<>>
    BY DEF Underway, Outbound, FramesThere, Detached
<1>4. Len(stack) \in 1..Len(stack) /\ f = stack[Len(stack)]
    BY <1>2, <1>3, EmptySeq DEF Top
<1>5. f.js \in Reachable /\ FrameOk(f, call, blocks, heap, refs) /\ Current(call, f, buffer)
    BY <1>4 DEF Underway, Outbound, FramesThere, Visited, FramesCurrent
<1>6. PICK o, v : o = f.js /\ v = f.view
    OBVIOUS
<1>7. f.type \in Arrays /\ v # buffer /\ why = "detached"
    BY <1>2, <1>6 DEF Detached, Fail
<1>8. buffer > 0 /\ HoldsReference(call, o)
    BY <1>1, <1>5, <1>6, <1>7 DEF Current
<1>9. Suits(call, o, f.type)
    BY <1>5, <1>6, MirrorsBlocks DEF FrameOk
<1>10. Graph[o].ctor = "Array"
    BY <1>7, <1>9 DEF Suits, Graph
<1>11. References(o) # {}
    BY <1>8, CellReferred DEF HoldsReference
<1> QED
    BY <1>5, <1>6, <1>7, <1>8, <1>10, <1>11 DEF Justified

-----------------------------------------------------------------------------
(* More frames than objects: two are of the same one.                      *)
LEMMA Repeats ==
    ASSUME NEW n \in Nat, NEW S, IsFiniteSet(S), Cardinality(S) < n, NEW g \in [1..n -> S]
    PROVE  \E i, j \in 1..n : i < j /\ g[i] = g[j]
<1>1. IsFiniteSet(1..n) /\ Cardinality(1..n) = n
    BY IntervalSize
<1>2. PICK T : T = 1..n
    OBVIOUS
<1>3. PICK i, j \in T : i # j /\ g[i] = g[j]
    BY <1>1, <1>2, FS_PigeonHole
<1>4. i < j \/ j < i
    BY <1>2, <1>3
<1> QED
    BY <1>2, <1>3, <1>4

(* Each frame of jsToWasm is of an object the one below refers to.         *)
LEMMA ChainReferred ==
    ASSUME Serialised, Underway, NEW i \in 1..Len(stack), i < Len(stack)
    PROVE  stack[i+1].js \in References(stack[i].js)
<1>1. PICK f, n, o : f = stack[i] /\ n = f.next /\ o = f.js
    OBVIOUS
<1>2. Awaits(call, f, stack[i+1].js) /\ FrameOk(f, call, blocks, heap, refs)
    BY <1>1 DEF Underway, Outbound, Chained, FramesThere
<1>3. n \in 1..(Len(CellsOf(call, o)) + 1) /\ n <= Len(CellsOf(call, o))
    BY <1>1, <1>2 DEF Awaits, FrameOk
<1>4. PICK l \in Nat : l = Len(CellsOf(call, o))
  <2>1. Suits(call, o, f.type)
      BY <1>1, <1>2, MirrorsBlocks DEF FrameOk
  <2> QED
      BY <2>1, SuitsFacts DEF Serialised
<1>5. n \in 1..Len(CellsOf(call, o))
    BY <1>3, <1>4
<1>6. CellsOf(call, o)[n].k = "ref" /\ CellsOf(call, o)[n].v = stack[i+1].js
    BY <1>1, <1>2 DEF Awaits
<1> QED
    BY <1>1, <1>5, <1>6, CellReferred

(* jsToWasm exhausts the stack on a cycle of objects only.                 *)
LEMMA ConversionOverflows ==
    ASSUME DeepEnough, Serialised, Underway, Len(stack) = StackLimit
    PROVE  Cyclic
<1>1. call \in Calls
    BY DEF Serialised
<1>2. PICK n \in Nat : n = Len(stack) /\ n = StackLimit
    BY BoundsAssumption
<1>3. PICK m \in Nat : m = Len(Graph) /\ DOMAIN Graph = 1..m
  <2>1. call.graph \in Seq([ctor : STRING, cells : Seq(Value)])
      BY <1>1, CallsAssumption
  <2> QED
      BY <2>1 DEF Graph
<1>4. m < n
    BY <1>1, <1>2, <1>3 DEF DeepEnough, Graph
<1>5. PICK g : g = [i \in 1..n |-> stack[i].js]
    OBVIOUS
<1>6. \A i \in 1..n : stack[i].js \in Reachable
    BY <1>2 DEF Underway, Visited
<1>7. g \in [1..n -> 1..m]
    BY <1>3, <1>5, <1>6 DEF Reachable
<1>8. IsFiniteSet(1..m) /\ Cardinality(1..m) < n
  <2>1. IsFiniteSet(1..m) /\ Cardinality(1..m) = m
      BY <1>3, IntervalSize
  <2> QED
      BY <1>4, <2>1
<1>9. PICK i, j \in 1..n : i < j /\ g[i] = g[j]
    BY <1>7, <1>8, Repeats
<1>10. stack[i].js = stack[j].js
    BY <1>5, <1>9
<1>11. ASSUME NEW objects \in SUBSET DOMAIN Graph, References(stack[i].js) \subseteq objects, Closed(objects)
       PROVE  stack[i].js \in objects
  <2> DEFINE T == {k \in 1..n : stack[k].js \in objects}
  <2>1. i + 1 \in T
    <3>1. stack[i+1].js \in References(stack[i].js)
        BY <1>2, <1>9, ChainReferred
    <3>2. i + 1 \in 1..n
        BY <1>9
    <3> QED
        BY <1>11, <3>1, <3>2
  <2>2. ASSUME NEW k \in (i+1)..j, k < j, k \in T PROVE k + 1 \in T
    <3>1. k \in 1..n /\ k < n /\ k + 1 \in 1..n
        BY <1>9, <2>2
    <3>2. stack[k+1].js \in References(stack[k].js)
        BY <1>2, <3>1, ChainReferred
    <3> QED
        BY <1>11, <2>2, <3>1, <3>2 DEF Closed
  <2>3. PICK a \in Nat, b \in Nat : a = i + 1 /\ b = j
      BY <1>9
  <2>4. \A k \in a..b : k \in T
    <3> HIDE DEF T
    <3> QED
        BY <2>1, <2>2, <2>3, RangeInduction
  <2>5. j \in T
      BY <1>9, <2>3, <2>4
  <2> QED
      BY <1>10, <2>5
<1> QED
    BY <1>2, <1>6, <1>9, <1>11 DEF Cyclic

-----------------------------------------------------------------------------
(* A pointer that is read from an object is one of its targets.            *)
LEMMA TargetRead ==
    ASSUME Laid(blocks, brk), Typed(blocks, heap), NEW C, C = Contents(blocks, heap),
           NEW p \in DOMAIN C, NEW n \in 1..Len(C[p]), C[p][n].type \in Pointers, C[p][n].v \in DOMAIN blocks
    PROVE  C[p][n].v \in Targets(p)
<1>1. PICK type, x : type = blocks[p].type /\ x = C[p][n]
    OBVIOUS
<1>2. p \in DOMAIN blocks /\ type \in Pointers /\ C[p] = Content(heap, p, type)
    BY <1>1 DEF Contents
<1>3. PICK as : as = CellsFrom(heap, p, type)
    OBVIOUS
<1>4. n \in 1..Len(as)
    BY <1>1, <1>2, <1>3, ContentTyped
<1>5. x.type = TypeAt(type, n) /\ x.v = LoadedFrom(heap, as[n], TypeAt(type, n))
    BY <1>1, <1>2, <1>3, <1>4 DEF Content
<1>6. TypeAt(type, n) \in Pointers
    BY <1>1, <1>5
<1>7. SizeOf(TypeAt(type, n)) = 4 /\ SizeOf("i32") = 4
    BY <1>6, NamesAssumption DEF SizeOf, Primitives, Pointers
<1>8. x.v = Loaded(as[n], "i32")
    BY <1>5, <1>7 DEF Loaded, LoadedFrom, CellOf
<1>9. CASE type \in Arrays
  <2>1. type \notin Classes /\ TypeAt(type, n) = ElementOf[type]
      BY <1>9, NamesAssumption DEF TypeAt
  <2>2. as = Elements(p, ElementOf[type])
      BY <1>3, <1>9 DEF CellsFrom, Elements, ElementsFrom, Loaded, LoadedFrom
  <2>3. as[n] \in SeqRange(as)
      BY <1>4 DEF SeqRange
  <2>4. x.v \in {Loaded(a, "i32") : a \in SeqRange(as)}
      BY <1>8, <2>3
  <2> QED
      BY <1>1, <1>6, <1>9, <2>1, <2>2, <2>4 DEF Targets
<1>10. CASE type \notin Arrays
  <2>1. type \in Classes /\ TypeAt(type, n) = Fields(type)[n]
      BY <1>2, <1>10 DEF Pointers, TypeAt
  <2>2. PICK l \in Nat : l = Len(Fields(type))
      BY <2>1, ObjectLayout
  <2>3. as = [i \in 1..l |-> p + FieldOffset(Fields(type), i)]
      BY <1>3, <1>10, <2>2 DEF CellsFrom
  <2>4. n \in 1..l
      BY <1>4, <2>2, <2>3
  <2>5. as[n] = p + CompiledOffset(type, n)
      BY <2>1, <2>2, <2>3, <2>4, ObjectLayout
  <2>6. n \in {m \in 1..Len(Fields(type)) : Fields(type)[m] \in Pointers}
      BY <1>6, <2>1, <2>2, <2>4
  <2>7. x.v \in {Loaded(p + CompiledOffset(type, m), "i32") :
                   m \in {i \in 1..Len(Fields(type)) : Fields(type)[i] \in Pointers}}
      BY <1>8, <2>5, <2>6
  <2> QED
      BY <1>1, <2>1, <2>7 DEF Targets
<1> QED
    BY <1>9, <1>10

(* wasmToJs cannot make more objects than jsToWasm was given.              *)
NoMoreThanObjects == IsFiniteSet(Records) /\ Cardinality(Records) <= Len(Graph)

(* Each frame of wasmToJs is of an object that the one below points to.    *)
LEMMA ChainPointed ==
    ASSUME Laid(blocks, brk), Inbound, NEW i \in 1..Len(stack), i < Len(stack)
    PROVE  stack[i+1].ptr \in Targets(stack[i].ptr)
<1>1. PICK C : C = Contents(blocks, heap)
    OBVIOUS
<1>2. Typed(blocks, heap) /\ FramesRead(C, blocks, returned, stack)
    BY <1>1 DEF Inbound, Reads
<1>3. Len(stack) \in Nat
    BY <1>2 DEF FramesRead
<1>4. PICK f, g : f = stack[i] /\ g = stack[i+1]
    OBVIOUS
<1>5. i + 1 \in 1..Len(stack)
    BY <1>3
<1>6. FrameReads(C, blocks, returned, f) /\ FrameReads(C, blocks, returned, g) /\ Follows(C, f, g)
    BY <1>2, <1>4, <1>5 DEF FramesRead
<1>7. IsGraph(C, blocks)
    BY <1>1, <1>2, ContentsTyped
<1>8. PICK p, q, n : p = f.ptr /\ q = g.ptr /\ n = Len(f.cells) + 1
    OBVIOUS
<1>9. p \in DOMAIN C /\ q \in DOMAIN C /\ g.type \in Pointers /\ f.cells \in Seq(ValuesSeen)
    BY <1>6, <1>8 DEF FrameReads, ReadingSet
<1>10. C[p] \in Seq(CellSet) /\ q \in DOMAIN blocks
    BY <1>7, <1>9 DEF IsGraph
<1>11. n \in 1..Len(C[p])
    BY <1>6, <1>8, <1>9, <1>10 DEF Follows
<1>12. C[p][n].v = q /\ C[p][n].type \in Pointers
    BY <1>6, <1>8, <1>9 DEF Follows
<1>13. C[p][n].v \in Targets(p)
    BY <1>1, <1>2, <1>9, <1>10, <1>11, <1>12, TargetRead
<1> QED
    BY <1>4, <1>8, <1>12, <1>13

(* wasmToJs exhausts the stack on a cycle of pointers only.                *)
LEMMA ResultOverflows ==
    ASSUME DeepEnough, Serialised, Laid(blocks, brk), Inbound, NoMoreThanObjects, Len(stack) = StackLimit
    PROVE  MemoryCyclic
<1>1. PICK n \in Nat : n = Len(stack) /\ n = StackLimit
    BY BoundsAssumption
<1>2. PICK C : C = Contents(blocks, heap)
    OBVIOUS
<1>3. FramesRead(C, blocks, returned, stack)
    BY <1>2 DEF Inbound, Reads
<1>4. PICK S : S = Records
    OBVIOUS
<1>5. IsFiniteSet(S) /\ Cardinality(S) < n
  <2>1. PICK m \in Nat : m = Len(Graph) /\ m < n
    <3>1. call.graph \in Seq([ctor : STRING, cells : Seq(Value)]) /\ call \in Calls
        BY CallsAssumption DEF Serialised
    <3> QED
        BY <1>1, <3>1 DEF Graph, DeepEnough
  <2>2. PICK k \in Nat : k = Cardinality(S) /\ k <= m
      BY <1>4, <2>1, FS_CardinalityType DEF NoMoreThanObjects
  <2> QED
      BY <1>4, <2>1, <2>2 DEF NoMoreThanObjects
<1>6. \A i \in 1..n : stack[i].ptr \in S /\ stack[i].ptr \in DOMAIN blocks
  <2>1. "elements" \notin Pointers
      BY NamesAssumption DEF Types, Pointers
  <2>2. \A p \in DOMAIN C : p \in DOMAIN blocks /\ blocks[p].type \in Pointers
      BY <1>2 DEF Contents
  <2>3. \A i \in 1..n : stack[i].ptr \in DOMAIN C
      BY <1>1, <1>3 DEF FramesRead, FrameReads
  <2> QED
      BY <1>4, <2>1, <2>2, <2>3 DEF Records
<1>7. PICK g : g = [i \in 1..n |-> stack[i].ptr]
    OBVIOUS
<1>8. g \in [1..n -> S]
    BY <1>6, <1>7
<1>9. PICK i, j \in 1..n : i < j /\ g[i] = g[j]
    BY <1>5, <1>8, Repeats
<1>10. stack[i].ptr = stack[j].ptr
    BY <1>7, <1>9
<1>11. ASSUME NEW ptrs \in SUBSET DOMAIN blocks, Targets(stack[i].ptr) \subseteq ptrs,
              \A q \in ptrs : Targets(q) \subseteq ptrs
       PROVE  stack[i].ptr \in ptrs
  <2> DEFINE T == {k \in 1..n : stack[k].ptr \in ptrs}
  <2>1. i + 1 \in T
    <3>1. stack[i+1].ptr \in Targets(stack[i].ptr)
        BY <1>1, <1>9, ChainPointed
    <3>2. i + 1 \in 1..n
        BY <1>9
    <3> QED
        BY <1>11, <3>1, <3>2
  <2>2. ASSUME NEW k \in (i+1)..j, k < j, k \in T PROVE k + 1 \in T
    <3>1. k \in 1..n /\ k < n /\ k + 1 \in 1..n
        BY <1>9, <2>2
    <3>2. stack[k+1].ptr \in Targets(stack[k].ptr)
        BY <1>1, <3>1, ChainPointed
    <3> QED
        BY <1>11, <2>2, <3>1, <3>2
  <2>3. PICK a \in Nat, b \in Nat : a = i + 1 /\ b = j
      BY <1>9
  <2>4. \A k \in a..b : k \in T
    <3> HIDE DEF T
    <3> QED
        BY <2>1, <2>2, <2>3, RangeInduction
  <2>5. j \in T
      BY <1>9, <2>3, <2>4
  <2> QED
      BY <1>10, <2>5
<1> QED
    BY <1>6, <1>9, <1>11 DEF MemoryCyclic

-----------------------------------------------------------------------------
(* When the compiled function starts there is a block for each object.     *)
LEMMA RecordsBounded ==
    ASSUME Serialised, Sound, Underway, stack = <<>>, Len(wasmArgs) = Len(call.args)
    PROVE  NoMoreThanObjects
<1>1. PICK S, n : S = Reachable /\ n = Len(Graph)
    OBVIOUS
<1>2. IsFiniteSet(S) /\ n \in Nat /\ Cardinality(S) \in Nat /\ Cardinality(S) <= n
    BY <1>1, ReachableFinite DEF Serialised
<1>3. IsFiniteSet(Records) /\ Cardinality(Records) = Cardinality(S)
    BY <1>1, OneBlockEach DEF SharingPreserved, Records
<1> QED
    BY <1>1, <1>2, <1>3 DEF NoMoreThanObjects

(* What justifies a failure stays.                                         *)
LEMMA JustifiedStays ==
    ASSUME UNCHANGED <<call, blocks, heap, buffer>>, NEW why, why = reason', Justified(why)
    PROVE  Justified(reason)'
<1>1. Graph' = Graph /\ Reachable' = Reachable
    BY DEF Reachable, Given, Closed, References, Graph, SeqRange
<1>2. \A o : References(o)' = References(o)
    BY <1>1 DEF References, SeqRange
<1>3. \A S : Closed(S)' <=> Closed(S)
    BY <1>2 DEF Closed
<1>4. Cyclic => Cyclic'
    BY <1>1, <1>2, <1>3 DEF Cyclic
<1>5. \A a, t : Loaded(a, t)' = Loaded(a, t)
    BY DEF Loaded
<1>6. \A a, t : Elements(a, t)' = Elements(a, t)
    BY <1>5 DEF Elements
<1>7. \A p : Targets(p)' = Targets(p)
    BY <1>5, <1>6 DEF Targets, SeqRange
<1>8. MemoryCyclic => MemoryCyclic'
    BY <1>7 DEF MemoryCyclic
<1> QED
    BY <1>1, <1>2, <1>4, <1>8 DEF Justified, SeqRange

(* The invariant of the failures.                                          *)
FailureInv ==
    /\ phase = "convert" => FramesCurrent
    /\ phase = "result" => NoMoreThanObjects
    /\ FailuresExcused

(* Nothing has failed at the start.                                        *)
LEMMA InitFailure == Init => FailureInv
BY DEF Init, FailureInv, FailuresExcused

(* A step that fails is justified.                                         *)
LEMMA FailingJustified ==
    ASSUME DeepEnough, ConversionInv, ResultInv, FailureInv, Reject \/ Overflow \/ Detached
    PROVE  FailuresExcused'
<1>1. PICK why : why = reason'
    OBVIOUS
<1>2. UNCHANGED <<call, blocks, heap, buffer>>
    BY DEF Reject, Overflow, Detached, Fail, memory
<1>3. Serialised /\ Sound /\ Laid(blocks, brk)
    BY DEF ConversionInv, Sound, Layout
<1>4. Justified(why)
  <2>1. CASE phase = "convert"
    <3>1. Underway /\ FramesCurrent /\ work = <<>>
        BY <2>1 DEF ConversionInv, ResultInv, FailureInv
    <3>2. CASE Reject
        BY <1>1, <1>3, <3>1, <3>2, RejectJustified
    <3>3. CASE Detached
        BY <1>1, <1>3, <3>1, <3>3, DetachedJustified
    <3>4. CASE Overflow
      <4>1. Len(stack) = StackLimit /\ why = "overflow"
          BY <1>1, <3>4 DEF Overflow, Fail
      <4> QED
          BY <1>3, <3>1, <4>1, ConversionOverflows DEF Justified
    <3> QED
        BY <3>2, <3>3, <3>4
  <2>2. CASE phase # "convert"
    <3>1. phase = "result" /\ Len(stack) = StackLimit /\ why = "overflow"
        BY <1>1, <2>2 DEF Reject, Detached, Overflow, Converting, Fail
    <3>2. Inbound /\ NoMoreThanObjects
        BY <3>1 DEF ResultInv, FailureInv
    <3> QED
        BY <1>3, <3>1, <3>2, ResultOverflows DEF Justified
  <2> QED
      BY <2>1, <2>2
<1>5. Justified(reason)'
    BY <1>1, <1>2, <1>4, JustifiedStays
<1> QED
    BY <1>5 DEF FailuresExcused

(* Every step keeps it.                                                    *)
LEMMA FailurePreserved == DeepEnough /\ ConversionInv /\ ResultInv /\ FailureInv /\ [Next]_vars => FailureInv'
<1> SUFFICES ASSUME DeepEnough, ConversionInv, ResultInv, FailureInv, [Next]_vars PROVE FailureInv'
    OBVIOUS
<1>1. Serialised /\ Sound
    BY DEF ConversionInv
<1>2. CASE Serialize \/ Begin \/ Call
  <2>1. phase' \in {"serialize", "convert", "run"} /\ (phase' = "convert" => phase = "serialize" /\ stack' = stack)
      BY <1>2 DEF Serialize, Begin, Call, outbound
  <2>2. phase' = "convert" => Len(stack') = 0
      BY <2>1 DEF ConversionInv
  <2>3. phase' = "convert" => FramesCurrent'
      BY <2>2 DEF FramesCurrent
  <2> QED
      BY <2>1, <2>3 DEF FailureInv, FailuresExcused
<1>3. CASE ConvertImmediate \/ ConvertObject \/ ConvertArray \/ Finish
  <2>1. phase = "convert" /\ phase' = "convert"
      BY <1>3 DEF ConvertImmediate, ConvertObject, ConvertArray, Finish, Converting
  <2>2. Underway /\ FramesCurrent
      BY <2>1 DEF ConversionInv, FailureInv
  <2>3. FramesCurrent'
      BY <1>1, <1>3, <2>2, ImmediateCurrent, ObjectCurrent, ArrayCurrent, FinishCurrent
  <2> QED
      BY <2>1, <2>3 DEF FailureInv, FailuresExcused
<1>4. CASE Reject \/ Overflow \/ Detached
  <2>1. phase' = "failed"
      BY <1>4 DEF Reject, Overflow, Detached, Fail
  <2> QED
      BY <1>4, <2>1, FailingJustified DEF FailureInv
<1>5. CASE Return
  <2>1. phase = "run" /\ phase' = "result" /\ UNCHANGED <<call, blocks>>
      BY <1>5 DEF Return
  <2>2. NoMoreThanObjects
      BY <1>1, <2>1, RecordsBounded DEF ConversionInv
  <2>3. NoMoreThanObjects'
      BY <2>1, <2>2 DEF NoMoreThanObjects, Records, Graph
  <2> QED
      BY <2>1, <2>3 DEF FailureInv, FailuresExcused
<1>6. CASE Open \/ ReadCell \/ Close
  <2>1. phase = "result" /\ phase' \in {"result", "done"} /\ UNCHANGED <<call, blocks>>
    <3>1. CASE Open
        BY <3>1 DEF Open, memory
    <3>2. CASE ReadCell
        BY <3>2 DEF ReadCell, memory
    <3>3. CASE Close
        BY <3>3 DEF Close, memory
    <3> QED
        BY <1>6, <3>1, <3>2, <3>3
  <2>2. NoMoreThanObjects'
      BY <2>1 DEF FailureInv, NoMoreThanObjects, Records, Graph
  <2> QED
      BY <2>1, <2>2 DEF FailureInv, FailuresExcused
<1>7. CASE Stopped \/ UNCHANGED vars
  <2>1. UNCHANGED <<call, phase, buffer, heap, blocks, stack, reason>>
      BY <1>7 DEF Stopped, vars, memory, outbound
  <2>2. FramesCurrent => FramesCurrent'
      BY <2>1 DEF FramesCurrent
  <2>3. NoMoreThanObjects => NoMoreThanObjects'
      BY <2>1 DEF NoMoreThanObjects, Records, Graph
  <2>4. FailuresExcused'
    <3>1. PICK why : why = reason'
        OBVIOUS
    <3>2. phase' = "failed" => Justified(why)
        BY <2>1, <3>1 DEF FailureInv, FailuresExcused
    <3>3. phase' = "failed" => Justified(reason)'
        BY <2>1, <3>1, <3>2, JustifiedStays
    <3> QED
        BY <3>3 DEF FailuresExcused
  <2> QED
      BY <2>1, <2>2, <2>3, <2>4 DEF FailureInv
<1> QED
    BY <1>2, <1>3, <1>4, <1>5, <1>6, <1>7 DEF Next

(* jsToWasm and wasmToJs: whatever the classes, the graph and the growth of*)
(* the memory, a call fails only for a null, an object that is no instance *)
(* of the type it is used at, a malloc that failed, a growth of the memory *)
(* under an array with references (RuntimeArray.from keeps heapPtr), or a  *)
(* cycle: never for a type it does not know and never for sharing, if the  *)
(* engine's stack is deep enough for every object to be under way and no   *)
(* object of the arguments is used at two types.                           *)
THEOREM FailuresAlwaysExcused == ASSUME OneTypeEach, DeepEnough PROVE Spec => []FailuresExcused
<1>1. ConversionInv /\ ResultInv /\ FailureInv /\ [Next]_vars => ConversionInv' /\ ResultInv' /\ FailureInv'
    BY ConversionPreserved, ResultPreserved, FailurePreserved
<1>2. Init => ConversionInv /\ ResultInv /\ FailureInv
    BY InitConversion, InitResult, InitFailure
<1>3. FailureInv => FailuresExcused
    BY DEF FailureInv
<1> QED
    BY <1>1, <1>2, <1>3, PTL DEF Spec

-----------------------------------------------------------------------------
(* No cycle reaches compiled code.                                         *)

(* What o refers to leads not back to o.                                   *)
NoWayBack(o) ==
    \E objects \in SUBSET DOMAIN Graph :
        References(o) \subseteq objects /\ Closed(objects) /\ o \notin objects
(* objectReferences has an order in which references lead backwards.       *)
Converted == \A o \in DOMAIN refs : NoWayBack(o)
(* What compiled code is given, and what comes back, is of a call whose    *)
(* objects form no cycle.                                                  *)
NoCycleReachesCode == phase \in {"run", "result", "done"} => ~Cyclic
OrderInv ==
    /\ phase \in {"serialize", "convert", "run"} => Converted
    /\ NoCycleReachesCode

(* What is said of the objects of a call stays true during the call.       *)
LEMMA WayStays ==
    ASSUME UNCHANGED call, NEW o, NoWayBack(o)
    PROVE  NoWayBack(o)'
BY DEF NoWayBack, Closed, References, Graph

(* Nor does a cycle come about.                                            *)
LEMMA CyclicStays ==
    ASSUME UNCHANGED call, ~Cyclic
    PROVE  ~Cyclic'
BY DEF Cyclic, Closed, References, Reachable, Given, Graph

(* What objectReferences holds is closed under references.                 *)
LEMMA RefsClosed ==
    ASSUME Serialised, Sound, Underway
    PROVE  Closed(DOMAIN refs) /\ DOMAIN refs \in SUBSET DOMAIN Graph
<1>1. ObjectsThere(call, blocks, heap, refs) /\ DOMAIN refs \subseteq Reachable
    BY DEF Underway, Outbound, Visited
<1>2. Closed(DOMAIN refs)
  <2> SUFFICES ASSUME NEW o \in DOMAIN refs, NEW d \in SeqRange(Graph[o].cells), d.k = "ref" PROVE d.v \in DOMAIN refs
      BY DEF Closed, References
  <2>1. PICK type, ptr, cs : type = blocks[refs[o]].type /\ ptr = refs[o] /\ cs = CellsOf(call, o)
      OBVIOUS
  <2>2. Mirrors(call, o, type, ptr, Len(cs), blocks, heap, refs)
      BY <1>1, <2>1 DEF ObjectsThere
  <2>3. Referred(cs, Len(cs), refs)
      BY <2>1, <2>2, MirrorsBlocks
  <2>4. PICK i \in 1..Len(cs) : d = cs[i]
      BY <2>1 DEF SeqRange, CellsOf, Graph
  <2> QED
      BY <2>3, <2>4 DEF Referred
<1> QED
    BY <1>1, <1>2 DEF Reachable

(* An object enters objectReferences when all it refers to is there.       *)
LEMMA FinishOrdered ==
    ASSUME Serialised, Sound, Underway, Converted, Finish
    PROVE  Converted'
<1>1. PICK f : f = Top
    OBVIOUS
<1>2. call \in Calls
    BY DEF Serialised
<1>3. phase = "convert" /\ stack # <<>> /\ Complete(f) /\ UNCHANGED call /\ refs' = Put(refs, f.js, f.ptr)
    BY <1>1 DEF Finish
<1>4. Outbound(call, stack, wasmArgs, blocks, heap, refs)
    BY DEF Underway
<1>5. PICK S : S = FrameSet(call)
    OBVIOUS
<1>6. stack \in Seq(S)
    BY <1>4, <1>5 DEF Outbound, FramesThere
<1>7. PICK n \in Nat : n = Len(stack) /\ n > 0 /\ n \in 1..n /\ f = stack[n]
    BY <1>1, <1>3, <1>6, FrontFacts DEF Top
<1>8. FrameOk(f, call, blocks, heap, refs) /\ f.type \in DOMAIN types /\ f.js \notin DOMAIN refs
    BY <1>4, <1>7 DEF Outbound, FramesThere, Underway, FramesSerialised
<1>9. PICK cs, type, k : /\ cs = CellsOf(call, f.js) /\ type = f.type
                         /\ k = IF OfObjects(f.type) THEN 0 ELSE f.next - 1
    OBVIOUS
<1>10. /\ Mirrors(call, f.js, type, f.ptr, k, blocks, heap, refs) /\ f.next \in 1..(Len(cs) + 1)
       /\ OfObjects(type) => Referred(cs, f.next - 1, refs)
    BY <1>8, <1>9 DEF FrameOk
<1>11. Suits(call, f.js, type)
    BY <1>10, MirrorsBlocks
<1>12. type \in Pointers /\ Len(cs) \in Nat /\ (type \in Classes => Len(cs) = Len(Fields(type)))
    BY <1>2, <1>9, <1>11, SuitsFacts
<1>13. f.next = Len(cs) + 1
  <2>1. Length(f) = Len(cs)
    <3>1. CASE type \in Arrays
        BY <1>9, <3>1 DEF Length, CellsOf, Graph
    <3>2. CASE type \in Classes
        BY <1>8, <1>9, <1>12, <3>2, Lookups DEF Length
    <3> QED
        BY <1>12, <3>1, <3>2 DEF Pointers
  <2>2. PICK l \in Nat : l = Len(cs) /\ l = Length(f)
      BY <1>12, <2>1
  <2> QED
      BY <1>3, <1>10, <2>2 DEF Complete
<1>14. Referred(cs, Len(cs), refs)
  <2>1. CASE OfObjects(type)
      BY <1>10, <1>12, <1>13, <2>1
  <2>2. CASE ~OfObjects(type)
    <3>1. k = Len(cs)
        BY <1>9, <1>12, <1>13, <2>2
    <3> QED
        BY <1>9, <1>10, <3>1, MirrorsBlocks
  <2> QED
      BY <2>1, <2>2
<1>15. References(f.js) \subseteq DOMAIN refs
  <2> SUFFICES ASSUME NEW d \in SeqRange(Graph[f.js].cells), d.k = "ref" PROVE d.v \in DOMAIN refs
      BY DEF References
  <2>1. PICK i \in 1..Len(cs) : d = cs[i]
      BY <1>9 DEF SeqRange, CellsOf, Graph
  <2> QED
      BY <1>14, <2>1 DEF Referred
<1>16. NoWayBack(f.js)
  <2>1. PICK D : D = DOMAIN refs
      OBVIOUS
  <2>2. Closed(D) /\ D \in SUBSET DOMAIN Graph
      BY <2>1, RefsClosed
  <2> QED
      BY <1>8, <1>15, <2>1, <2>2 DEF NoWayBack
<1>17. \A o \in DOMAIN refs' : NoWayBack(o)
    BY <1>3, <1>16 DEF Put, Converted
<1>18. ASSUME NEW o \in DOMAIN refs' PROVE NoWayBack(o)'
    BY <1>3, <1>17, WayStays
<1> QED
    BY <1>18 DEF Converted

(* Where objectReferences and the objects stay, so does their order.       *)
LEMMA OrderStays == UNCHANGED <<call, refs>> /\ Converted => Converted'
<1> SUFFICES ASSUME UNCHANGED <<call, refs>>, Converted PROVE Converted'
    OBVIOUS
<1>1. ASSUME NEW o \in DOMAIN refs' PROVE NoWayBack(o)'
  <2>1. NoWayBack(o)
      BY <1>1 DEF Converted
  <2> QED
      BY <2>1, WayStays
<1> QED
    BY <1>1 DEF Converted

(* Every step keeps it.                                                    *)
LEMMA OrderPreserved == ConversionInv /\ OrderInv /\ [Next]_vars => OrderInv'
<1> SUFFICES ASSUME ConversionInv, OrderInv, [Next]_vars PROVE OrderInv'
    OBVIOUS
<1>1. Serialised /\ Sound
    BY DEF ConversionInv
<1>2. CASE Serialize \/ Begin
  <2>1. phase = "serialize" /\ phase' \in {"serialize", "convert"} /\ UNCHANGED <<call, refs>>
      BY <1>2 DEF Serialize, Begin, outbound
  <2> QED
      BY <2>1, OrderStays DEF OrderInv, NoCycleReachesCode
<1>3. CASE ConvertImmediate \/ ConvertObject \/ ConvertArray
  <2>1. phase = "convert" /\ phase' = "convert" /\ UNCHANGED <<call, refs>>
    <3>1. CASE ConvertImmediate
        BY <3>1 DEF ConvertImmediate, Converting
    <3>2. CASE ConvertObject
        BY <3>2 DEF ConvertObject, Converting, outbound
    <3>3. CASE ConvertArray
        BY <3>3 DEF ConvertArray, Converting, outbound
    <3> QED
        BY <1>3, <3>1, <3>2, <3>3
  <2>2. Converted'
      BY <2>1, OrderStays DEF OrderInv
  <2> QED
      BY <2>1, <2>2 DEF OrderInv, NoCycleReachesCode
<1>4. CASE Finish
  <2>1. phase = "convert" /\ phase' = "convert"
      BY <1>4 DEF Finish
  <2>2. Underway
      BY <2>1 DEF ConversionInv
  <2>3. Converted'
      BY <1>1, <1>4, <2>1, <2>2, FinishOrdered DEF OrderInv
  <2> QED
      BY <2>1, <2>3 DEF OrderInv, NoCycleReachesCode
<1>5. CASE Reject \/ Overflow \/ Detached
  <2>1. phase' = "failed"
      BY <1>5 DEF Reject, Overflow, Detached, Fail
  <2> QED
      BY <2>1 DEF OrderInv, NoCycleReachesCode
<1>6. CASE Call
  <2>1. phase = "convert" /\ phase' = "run" /\ UNCHANGED <<call, refs>> /\ stack = <<>> /\ Len(wasmArgs) = Len(call.args)
      BY <1>6 DEF Call, outbound
  <2>2. Underway
      BY <2>1 DEF ConversionInv
  <2>3. DOMAIN refs = Reachable
      BY <1>1, <2>1, <2>2, AllThere
  <2>4. ~Cyclic
      BY <2>1, <2>3 DEF Cyclic, OrderInv, Converted, NoWayBack
  <2> QED
      BY <2>1, <2>4, CyclicStays, OrderStays DEF OrderInv, NoCycleReachesCode
<1>7. CASE Return \/ Open \/ ReadCell \/ Close
  <2>1. phase \in {"run", "result"} /\ phase' \in {"result", "done"} /\ UNCHANGED call
      BY <1>7 DEF Return, Open, ReadCell, Close
  <2> QED
      BY <2>1, CyclicStays DEF OrderInv, NoCycleReachesCode
<1>8. CASE Stopped \/ UNCHANGED vars
  <2>1. UNCHANGED <<call, phase, refs>>
      BY <1>8 DEF Stopped, vars, outbound
  <2> QED
      BY <2>1, CyclicStays, OrderStays DEF OrderInv, NoCycleReachesCode
<1> QED
    BY <1>2, <1>3, <1>4, <1>5, <1>6, <1>7, <1>8 DEF Next

(* objectReferences holds an object only when all its fields are converted *)
(* (get-wasm-module-function.ts:182): a graph with a cycle never reaches   *)
(* compiled code, whatever the classes, the graph and the depth of the     *)
(* stack; a conversion of it fails, or goes on.                            *)
THEOREM CyclesNeverReachCode == Spec => []NoCycleReachesCode
<1>1. ConversionInv /\ OrderInv /\ [Next]_vars => ConversionInv' /\ OrderInv'
    BY ConversionPreserved, OrderPreserved
<1>2. Init => ConversionInv /\ OrderInv
  <2>1. ASSUME Init PROVE OrderInv
    <3>1. refs = <<>> /\ phase = "serialize"
        BY <2>1 DEF Init, outbound
    <3>2. DOMAIN refs = {}
        BY <3>1
    <3> QED
        BY <3>1, <3>2 DEF OrderInv, Converted, NoCycleReachesCode
  <2> QED
      BY <2>1, InitConversion
<1>3. OrderInv => NoCycleReachesCode
    BY DEF OrderInv
<1> QED
    BY <1>1, <1>2, <1>3, PTL DEF Spec
=============================================================================
