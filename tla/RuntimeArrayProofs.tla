------------------------- MODULE RuntimeArrayProofs -------------------------
(***************************************************************************)
(* Proofs about RuntimeArray, for every element size, address space and    *)
(* sequence of calls: the elements stay in the allocation, no call a build *)
(* supports accesses memory outside of them, a safe build shows nothing    *)
(* uninitialised, and the array implements JsArray.                        *)
(***************************************************************************)
EXTENDS RuntimeArray, SequenceTheorems, TLAPS

LEMMA Division ==
    ASSUME NEW x \in Int, NEW q \in Nat \ {0}
    PROVE  /\ x \div q \in Int
           /\ x = q * (x \div q) + (x % q)
           /\ x % q \in 0 .. q - 1
OBVIOUS

LEMMA DivisionMonotone ==
    ASSUME NEW x \in Int, NEW y \in Int, NEW q \in Nat \ {0}, x <= y
    PROVE  x \div q <= y \div q
<1> DEFINE a == x \div q
           b == y \div q
<1>1. /\ a \in Int /\ b \in Int
      /\ x = q * a + (x % q) /\ x % q \in 0 .. q - 1
      /\ y = q * b + (y % q) /\ y % q \in 0 .. q - 1
  BY Division
<1>2. ASSUME a >= b + 1 PROVE FALSE
  <2> HIDE DEF a, b
  <2>1. q * a >= q * (b + 1)
    BY <1>1, <1>2
  <2>2. QED
    BY <1>1, <2>1
<1> HIDE DEF a, b
<1>3. a <= b
  BY <1>1, <1>2
<1>4. QED
  BY <1>3 DEF a, b

LEMMA DivisionExact ==
    ASSUME NEW k \in Int, NEW q \in Nat \ {0}, NEW x \in Int, x = q * k
    PROVE  x \div q = k
<1>1. PICK a \in Int, r \in 0 .. q - 1 : a = x \div q /\ x = q * a + r
  BY Division
<1>2. q * (k - a) = r
  BY <1>1
<1>3. ASSUME k - a >= 1 PROVE FALSE
  <2>1. q * (k - a) >= q * 1
    BY <1>1, <1>3
  <2>2. QED
    BY <1>1, <1>2, <2>1
<1>4. ASSUME k - a <= -1 PROVE FALSE
  <2>1. q * (k - a) <= q * (-1)
    BY <1>1, <1>4
  <2>2. QED
    BY <1>1, <1>2, <2>1
<1>5. QED
  BY <1>1, <1>3, <1>4

(* What lies below the address space does not wrap around.                 *)
LEMMA NoWrapBelow ==
    ASSUME NEW x \in Nat, x <= IntMax
    PROVE  x % AddressSpace = x
<1>1. AddressSpace \in Nat \ {0}
  BY ArrayAssumption
<1>2. IntMax \in Int /\ IntMax < AddressSpace
  <2>1. PICK h \in Int : h = AddressSpace \div 2
    BY <1>1, Division
  <2>2. PICK r \in 0 .. 1 : AddressSpace = 2 * h + r
    BY <1>1, <2>1, Division
  <2>3. IntMax = h - 1
    BY <2>1 DEF IntMax
  <2>4. QED
    BY <1>1, <2>2, <2>3
<1>3. QED
  BY <1>1, <1>2

(* Writing into a sequence leaves its length.                              *)
LEMMA WrittenFacts ==
    ASSUME NEW S, NEW room \in Seq(S), NEW s \in Seq(S), NEW n \in Nat,
           n + Len(s) <= Len(room)
    PROVE  Written(room, n, s) \in Seq(S) /\ Len(Written(room, n, s)) = Len(room)
<1>1. SubSeq(room, 1, n) \in Seq(S) /\ Len(SubSeq(room, 1, n)) = n
  OBVIOUS
<1>2. /\ SubSeq(room, n + Len(s) + 1, Len(room)) \in Seq(S)
      /\ Len(SubSeq(room, n + Len(s) + 1, Len(room))) = Len(room) - n - Len(s)
  OBVIOUS
<1> DEFINE front == SubSeq(room, 1, n)
           back == SubSeq(room, n + Len(s) + 1, Len(room))
<1> HIDE DEF front, back
<1>3. front \o s \in Seq(S) /\ Len(front \o s) = n + Len(s)
  BY <1>1, ConcatProperties DEF front
<1>4. (front \o s) \o back \in Seq(S) /\ Len((front \o s) \o back) = Len(room)
  <2>1. back \in Seq(S) /\ Len(back) = Len(room) - n - Len(s)
    BY <1>2 DEF back
  <2>2. PICK t \in Seq(S) : t = front \o s
    BY <1>3
  <2>3. t \o back \in Seq(S) /\ Len(t \o back) = Len(t) + Len(back)
    BY <2>1, ConcatProperties
  <2>4. Len(room) \in Nat /\ Len(s) \in Nat
    OBVIOUS
  <2>5. QED
    BY <1>3, <2>1, <2>2, <2>3, <2>4
<1>5. QED
  BY <1>4 DEF Written, front, back

LEMMA Repeated ==
    ASSUME NEW S, NEW v \in S, NEW n \in Nat
    PROVE  [k \in 1 .. n |-> v] \in Seq(S) /\ Len([k \in 1 .. n |-> v]) = n
OBVIOUS

LEMMA JunksFacts ==
    ASSUME NEW n \in Nat
    PROVE  Junks(n) \in Seq(Values) /\ Len(Junks(n)) = n
BY ArrayAssumption DEF Junks

(* ensureCapacity never shrinks the allocation and makes it large enough.  *)
LEMMA NewCapacityFacts ==
    ASSUME cells \in Seq(Values), NEW min \in Nat
    PROVE  /\ NewCapacity(min) \in Nat
           /\ NewCapacity(min) >= Capacity /\ NewCapacity(min) >= min
<1>1. Capacity \in Nat /\ DefaultCapacity \in Nat
  BY ArrayAssumption DEF Capacity
<1>2. IntMax \in Int
  BY ArrayAssumption, Division DEF IntMax
<1>3. QED
  BY <1>1, <1>2 DEF NewCapacity, Most, Least

LEMMA RoomFacts ==
    ASSUME cells \in Seq(Values), NEW min \in Nat
    PROVE  Room(min) \in Seq(Values) /\ Len(Room(min)) = NewCapacity(min)
<1>1. NewCapacity(min) - Capacity \in Nat /\ Capacity = Len(cells) /\ Capacity \in Nat
  BY NewCapacityFacts DEF Capacity
<1>2. /\ Junks(NewCapacity(min) - Capacity) \in Seq(Values)
      /\ Len(Junks(NewCapacity(min) - Capacity)) = NewCapacity(min) - Capacity
  BY <1>1, JunksFacts
<1>3. NewCapacity(min) \in Nat
  BY NewCapacityFacts
<1>4. /\ cells \o Junks(NewCapacity(min) - Capacity) \in Seq(Values)
      /\ Len(cells \o Junks(NewCapacity(min) - Capacity))
           = Len(cells) + Len(Junks(NewCapacity(min) - Capacity))
  BY <1>2, ConcatProperties
<1>5. QED
  BY <1>1, <1>2, <1>3, <1>4 DEF Room
-----------------------------------------------------------------------------
(* Pointers into the array                                                 *)

Sizes == AddressSpace \in Nat \ {0} /\ ElementSize \in Nat \ {0} /\ IntMax \in Int

LEMMA SizesHold == Sizes
BY ArrayAssumption, Division DEF Sizes, IntMax

(* &begin[i] for an i up to the length is no wrapped pointer.              *)
LEMMA PointerFacts ==
    ASSUME IInv, NEW i \in 0 .. length
    PROVE  FromBegin(i) = begin + i * ElementSize /\ FromBegin(i) \in Nat
<1>1. /\ begin \in Nat /\ length \in Nat /\ Capacity \in Nat /\ length <= Capacity
      /\ begin + Capacity * ElementSize <= IntMax
  BY ArrayAssumption DEF IInv, TypeOK, Allocated, Fits, Capacity
<1>2. i * ElementSize <= Capacity * ElementSize /\ i * ElementSize >= 0
  BY <1>1, SizesHold DEF Sizes
<1>3. begin + i * ElementSize \in Nat /\ begin + i * ElementSize <= IntMax
  BY <1>1, <1>2, SizesHold DEF Sizes
<1>4. QED
  BY <1>3, NoWrapBelow DEF FromBegin

LEMMA BackFacts ==
    ASSUME IInv
    PROVE  Back = begin + length * ElementSize /\ Back \in Nat
<1>1. length \in Nat
  BY DEF IInv, TypeOK
<1>2. QED
  BY <1>1, PointerFacts DEF Back

(* A range of pointers into the array is a range of its elements.          *)
LEMMA WithinFacts ==
    ASSUME IInv, NEW start \in Int, NEW end \in Int, Within(start, end)
    PROVE  /\ Index(start) \in 0 .. length /\ Index(end) \in 0 .. length
           /\ Index(start) <= Index(end)
<1>1. /\ begin \in Nat /\ length \in Nat
      /\ Back = begin + length * ElementSize /\ begin <= start /\ start <= end /\ end <= Back
  BY BackFacts, ArrayAssumption DEF IInv, TypeOK, Within
<1>2. PICK a \in Int, b \in Int, c \in Int :
          a = start - begin /\ b = end - begin /\ c = ElementSize * length
  BY <1>1, SizesHold DEF Sizes
<1>3. 0 <= a /\ a <= b /\ b <= c
  BY <1>1, <1>2, SizesHold DEF Sizes
<1>4. c \div ElementSize = length
  BY <1>1, <1>2, SizesHold, DivisionExact DEF Sizes
<1>5. 0 \div ElementSize = 0
  BY SizesHold DEF Sizes
<1>6. /\ 0 \div ElementSize <= a \div ElementSize
      /\ a \div ElementSize <= b \div ElementSize
      /\ b \div ElementSize <= c \div ElementSize
  <2>1. ElementSize \in Nat \ {0} /\ 0 \in Int
    BY SizesHold DEF Sizes
  <2>2. 0 \div ElementSize <= a \div ElementSize
    BY <1>3, <2>1, DivisionMonotone, Zenon
  <2>3. a \div ElementSize <= b \div ElementSize
    BY <1>3, <2>1, DivisionMonotone, Zenon
  <2>4. b \div ElementSize <= c \div ElementSize
    BY <1>3, <2>1, DivisionMonotone, Zenon
  <2>5. QED
    BY <2>2, <2>3, <2>4, Zenon
<1>7. a \div ElementSize \in Int /\ b \div ElementSize \in Int
  BY <1>2, SizesHold, Division DEF Sizes
<1>8. Index(start) = a \div ElementSize /\ Index(end) = b \div ElementSize
  BY <1>2 DEF Index
<1>9. QED
  BY <1>1, <1>4, <1>5, <1>6, <1>7, <1>8
-----------------------------------------------------------------------------
(* Each operation keeps IInv.  None of them writes past the allocation:    *)
(* ensureCapacity has made room, so corrupted changes only where an        *)
(* operation is called out of range.                                       *)

Returned == Values \cup 0 .. MaxLength

LEMMA SubSeqFacts ==
    ASSUME NEW S, NEW s \in Seq(S), NEW m \in Nat, NEW n \in Nat, n <= Len(s)
    PROVE  /\ SubSeq(s, m + 1, n) \in Seq(S)
           /\ Len(SubSeq(s, m + 1, n)) = IF m <= n THEN n - m ELSE 0
OBVIOUS

LEMMA ValuesReturned ==
    ASSUME NEW s \in Seq(Values)
    PROVE  s \in Seq(Returned)
BY DEF Returned

LEMMA SameArray ==
    ASSUME IInv, UNCHANGED <<safe, begin, length, cells>>,
           result'.items \in Seq(Returned), corrupted' \in BOOLEAN
    PROVE  IInv'
BY DEF IInv, TypeOK, Allocated, Capacity, Fits, Returned

LEMMA CorruptsKeeps == ASSUME IInv, Corrupts, UNCHANGED safe PROVE IInv'
BY SameArray DEF Corrupts, IInv, TypeOK, Returned

LEMMA ThrowsKeeps ==
    ASSUME IInv, NEW error, Throws(error), UNCHANGED safe
    PROVE  IInv' /\ corrupted' = corrupted
<1>1. result'.items = <<>> /\ UNCHANGED <<begin, length, cells, corrupted>>
  BY DEF Throws, Answers, Result, arrayVars
<1>2. <<>> \in Seq(Returned)
  OBVIOUS
<1>3. QED
  BY <1>1, <1>2, SameArray DEF IInv, TypeOK

LEMMA AnswersKeeps ==
    ASSUME IInv, NEW kind, NEW items \in Seq(Values), Answers(Result(kind, items)),
           UNCHANGED arrayVars, UNCHANGED safe
    PROVE  IInv' /\ corrupted' = corrupted
<1>1. result'.items = items /\ UNCHANGED <<begin, length, cells, corrupted>>
  BY DEF Answers, Result, arrayVars
<1>2. QED
  BY <1>1, SameArray, ValuesReturned DEF IInv, TypeOK

(* A new array, or new cells and a new length for the old one.             *)
LEMMA NewArray ==
    ASSUME IInv, UNCHANGED safe, corrupted' \in BOOLEAN,
           begin' \in Bases, length' \in 0 .. MaxLength,
           cells' \in Seq(Values), length' <= Len(cells'),
           Fits(begin', Len(cells')), result'.items \in Seq(Returned)
    PROVE  IInv'
BY DEF IInv, TypeOK, Allocated, Capacity, Fits, Returned

LEMMA OutOfRangeKeeps == ASSUME IInv, OutOfRange, UNCHANGED safe PROVE IInv'
BY ThrowsKeeps, CorruptsKeeps DEF OutOfRange

LEMMA DefaultKeeps == ASSUME IInv, DefaultValue, UNCHANGED safe PROVE IInv'
<1>1. <<Default>> \in Seq(Values)
  BY ArrayAssumption
<1>2. QED
  BY <1>1, AnswersKeeps, CorruptsKeeps DEF DefaultValue

LEMMA NothingIsEmpty ==
    ASSUME Answers(Nothing)
    PROVE  result'.items \in Seq(Returned) /\ corrupted' = corrupted
<1>1. <<>> \in Seq(Returned)
  OBVIOUS
<1>2. QED
  BY <1>1 DEF Answers, Nothing, Result

LEMMA CreateKeeps == ASSUME IInv, NEW n \in Ints, Create(n), UNCHANGED safe PROVE IInv'
<1>1. CASE n < 0
  BY <1>1, OutOfRangeKeeps DEF Create
<1>2. CASE n >= 0 /\ ~Holds(n)
  <2>1. n \in Int
    BY SizesHold, ArrayAssumption DEF Sizes
  <2>2. ~(n < 0)
    BY <1>2, <2>1
  <2>3. QED
    BY <1>2, <2>2, CorruptsKeeps DEF Create
<1>3. CASE n >= 0 /\ Holds(n)
  <2>0. n \in Int /\ n \in Nat
    BY <1>3, SizesHold, ArrayAssumption DEF Sizes
  <2>1. ~(n < 0)
    BY <1>3, <2>0
  <2>2. /\ n <= MaxLength /\ length' = n
        /\ cells' = [k \in 1 .. n |-> IF safe THEN Default ELSE Junk]
        /\ Answers(Nothing)
    BY <1>3, <2>1 DEF Create
  <2>3. PICK base \in Bases : Fits(base, n) /\ begin' = base
    BY <1>3, <2>1 DEF Create
  <2>4. cells' \in Seq(Values) /\ Len(cells') = n
    BY <2>0, <2>2, ArrayAssumption
  <2>5. length' \in 0 .. MaxLength /\ length' <= Len(cells')
    BY <2>0, <2>2, <2>4, ArrayAssumption
  <2>6. corrupted' \in BOOLEAN /\ result'.items \in Seq(Returned)
    BY <2>2, NothingIsEmpty DEF IInv, TypeOK
  <2>7. QED
    BY <2>3, <2>4, <2>5, <2>6, NewArray
<1>4. QED
  <2>1. n \in Int
    BY SizesHold, ArrayAssumption DEF Sizes
  <2>2. n < 0 \/ n >= 0
    BY <2>1
  <2>3. QED
    BY <1>1, <1>2, <1>3, <2>2

LEMMA FromElementsKeeps ==
    ASSUME IInv, NEW s \in Items, FromElements(s), UNCHANGED safe
    PROVE  IInv' /\ corrupted' = corrupted
<1>1. s \in Seq(Values) /\ Len(s) \in 0 .. MaxLength
  BY ArrayAssumption DEF FromElements
<1>2. PICK base \in Bases : Fits(base, Len(s)) /\ begin' = base
  BY DEF FromElements
<1>3. corrupted' = corrupted /\ corrupted' \in BOOLEAN /\ result'.items \in Seq(Returned)
  BY NothingIsEmpty DEF IInv, TypeOK, FromElements
<1>4. length' = Len(s) /\ cells' = s
  BY DEF FromElements
<1>5. Len(s) <= Len(cells')
  BY <1>1, <1>4
<1>6. QED
  BY <1>1, <1>2, <1>3, <1>4, <1>5, NewArray

(* A pointer that is not outside points to an element.                     *)
LEMMA ElementFacts ==
    ASSUME IInv, NEW p \in Int, ~Outside(p)
    PROVE  Index(p) + 1 \in 1 .. length
<1>1. /\ begin \in Nat /\ length \in Nat
      /\ Back = begin + length * ElementSize /\ begin <= p /\ p < Back
  BY BackFacts, ArrayAssumption DEF IInv, TypeOK, Outside
<1>2. PICK x \in Int, c \in Int : x = p - begin /\ c = ElementSize * length
  BY <1>1, SizesHold DEF Sizes
<1>3. 0 <= x /\ x < c
  BY <1>1, <1>2, SizesHold DEF Sizes
<1>4. PICK a \in Int, r \in 0 .. ElementSize - 1 :
          a = x \div ElementSize /\ x = ElementSize * a + r
  BY SizesHold, Division DEF Sizes
<1>5. a < length
  <2>1. ASSUME a >= length PROVE FALSE
    <3>1. ElementSize * a >= ElementSize * length
      BY <1>1, <2>1, SizesHold DEF Sizes
    <3>2. QED
      BY <1>2, <1>3, <1>4, <3>1, SizesHold DEF Sizes
  <2>2. QED
    BY <1>1, <2>1
<1>6. a >= 0
  <2>1. ASSUME a <= -1 PROVE FALSE
    <3>1. ElementSize * a <= ElementSize * (-1)
      BY <2>1, SizesHold DEF Sizes
    <3>2. QED
      BY <1>3, <1>4, <3>1, SizesHold DEF Sizes
  <2>2. QED
    BY <2>1
<1>7. QED
  BY <1>1, <1>2, <1>4, <1>5, <1>6 DEF Index

LEMMA PointersAreInts ==
    ASSUME IInv, NEW i \in Int
    PROVE  FromBegin(i) \in Int /\ FromBack(i) \in Int /\ Relative(i) \in Int
<1>1. begin \in Int /\ length \in Int
  BY ArrayAssumption DEF IInv, TypeOK
<1>2. ASSUME NEW x \in Int, NEW k \in Int PROVE (x + k * ElementSize) % AddressSpace \in Int
  <2>1. x + k * ElementSize \in Int
    BY SizesHold DEF Sizes
  <2>2. QED
    BY <2>1, SizesHold DEF Sizes
<1>3. FromBegin(i) \in Int /\ FromBegin(length) \in Int
  BY <1>1, <1>2 DEF FromBegin
<1>4. FromBack(i) \in Int
  BY <1>2, <1>3 DEF FromBack, Back
<1>5. QED
  BY <1>3, <1>4 DEF Relative

LEMMA GetKeeps == ASSUME IInv, NEW i \in Int, Get(i), UNCHANGED safe PROVE IInv'
<1>1. CASE Outside(FromBegin(i))
  BY <1>1, DefaultKeeps DEF Get
<1>2. CASE ~Outside(FromBegin(i))
  <2>1. Index(FromBegin(i)) + 1 \in 1 .. length
    BY <1>2, ElementFacts, PointersAreInts
  <2>2. <<cells[Index(FromBegin(i)) + 1]>> \in Seq(Values)
    BY <2>1 DEF IInv, TypeOK, Allocated, Capacity
  <2>3. QED
    BY <1>2, <2>2, AnswersKeeps DEF Get
<1>3. QED
  BY <1>1, <1>2

LEMMA SetKeeps ==
    ASSUME IInv, NEW i \in Int, NEW v \in Values, Set(i, v), UNCHANGED safe
    PROVE  IInv'
<1>1. CASE Outside(FromBegin(i))
  BY <1>1, OutOfRangeKeeps DEF Set
<1>2. CASE ~Outside(FromBegin(i))
  <2>1. /\ cells' = [cells EXCEPT ![Index(FromBegin(i)) + 1] = v]
        /\ Answers(Nothing) /\ UNCHANGED <<begin, length>>
    BY <1>2 DEF Set
  <2>2. cells' \in Seq(Values) /\ Len(cells') = Len(cells)
    <3>1. PICK k \in 1 .. length : k = Index(FromBegin(i)) + 1
      BY <1>2, ElementFacts, PointersAreInts
    <3>2. k \in 1 .. Len(cells) /\ cells \in Seq(Values)
      BY DEF IInv, TypeOK, Allocated, Capacity
    <3>3. QED
      BY <2>1, <3>1, <3>2, ExceptSeq
  <2>3. result'.items \in Seq(Returned) /\ corrupted' \in BOOLEAN
    BY <2>1, NothingIsEmpty DEF IInv, TypeOK
  <2>4. QED
    BY <2>1, <2>2, <2>3, NewArray DEF IInv, TypeOK, Allocated, Capacity
<1>3. QED
  BY <1>1, <1>2

LEMMA FillKeeps ==
    ASSUME IInv, NEW i \in Int, NEW j \in Int, NEW v \in Values, Fill(v, i, j), UNCHANGED safe
    PROVE  IInv'
<1> DEFINE start == FillStart(i)
           end == IF safe THEN Least(Most(Relative(j), start), Back) ELSE Relative(j)
<1>1. start \in Int /\ end \in Int
  BY PointersAreInts, BackFacts, ArrayAssumption DEF IInv, TypeOK, FillStart, Least, Most
<1>2. CASE ~Within(start, end)
  BY <1>2, CorruptsKeeps DEF Fill
<1>3. CASE Within(start, end)
  <2>1. PICK a \in 0 .. length, b \in 0 .. length :
            a = Index(start) /\ b = Index(end) /\ a <= b
    BY <1>1, <1>3, WithinFacts
  <2>2. /\ cells' = Written(cells, a, [k \in 1 .. b - a |-> v])
        /\ Answers(Nothing) /\ UNCHANGED <<begin, length>>
    BY <1>3, <2>1 DEF Fill
  <2>3. a \in Nat /\ b \in Nat /\ b <= Len(cells) /\ cells \in Seq(Values)
    BY <2>1 DEF IInv, TypeOK, Allocated, Capacity
  <2>4. /\ [k \in 1 .. b - a |-> v] \in Seq(Values)
        /\ a + Len([k \in 1 .. b - a |-> v]) <= Len(cells)
    <3>1. b - a \in Nat
      BY <2>1, <2>3
    <3>2. [k \in 1 .. b - a |-> v] \in Seq(Values) /\ Len([k \in 1 .. b - a |-> v]) = b - a
      BY <3>1, Repeated
    <3>3. QED
      BY <2>1, <2>3, <3>2
  <2>5. cells' \in Seq(Values) /\ Len(cells') = Len(cells)
    BY <2>2, <2>3, <2>4, WrittenFacts
  <2>6. result'.items \in Seq(Returned) /\ corrupted' \in BOOLEAN
    BY <2>2, NothingIsEmpty DEF IInv, TypeOK
  <2>7. QED
    BY <2>2, <2>5, <2>6, NewArray DEF IInv, TypeOK, Allocated, Capacity
<1>4. QED
  BY <1>2, <1>3

LEMMA SortKeeps == ASSUME IInv, Sort, UNCHANGED safe PROVE IInv'
<1>1. PICK order \in [1 .. length -> 1 .. length] :
          cells' = Written(cells, 0, [k \in 1 .. length |-> cells[order[k]]])
  BY DEF Sort
<1>2. cells \in Seq(Values) /\ length \in Nat /\ length <= Len(cells)
  BY DEF IInv, TypeOK, Allocated, Capacity
<1>3. /\ [k \in 1 .. length |-> cells[order[k]]] \in Seq(Values)
      /\ 0 + Len([k \in 1 .. length |-> cells[order[k]]]) <= Len(cells)
  BY <1>2
<1>4. cells' \in Seq(Values) /\ Len(cells') = Len(cells)
  BY <1>1, <1>2, <1>3, WrittenFacts
<1>5. result'.items \in Seq(Returned) /\ corrupted' \in BOOLEAN
  BY NothingIsEmpty DEF IInv, TypeOK, Sort
<1>6. QED
  BY <1>4, <1>5, NewArray DEF IInv, TypeOK, Allocated, Capacity, Sort

-----------------------------------------------------------------------------
(* Where ensureCapacity puts the elements, and storing into its room.      *)
LEMMA EnsuredFacts ==
    ASSUME IInv, NEW min \in Nat, Ensured(min, begin')
    PROVE  begin' \in Bases /\ Fits(begin', NewCapacity(min))
BY DEF Ensured, IInv, TypeOK, Allocated

LEMMA StoredFacts ==
    ASSUME NEW room \in Seq(Values), NEW s \in Seq(Values), NEW n \in Nat,
           n + Len(s) <= Len(room), Stored(room, n, s)
    PROVE  /\ cells' \in Seq(Values) /\ Len(cells') = Len(room)
           /\ corrupted' = corrupted
BY WrittenFacts DEF Stored

(* The elements after s has been added to them.                            *)
LEMMA LengthenedKeeps ==
    ASSUME IInv, NEW s \in Items, UNCHANGED safe, Lengthened(s, Room(length + Len(s))),
           NEW t \in Seq(Values), NEW n \in Nat, n + Len(t) = length + Len(s),
           Stored(Room(length + Len(s)), n, t)
    PROVE  IInv' /\ corrupted' = corrupted
<1>1. PICK min \in Nat : min = length + Len(s)
  BY ArrayAssumption DEF IInv, TypeOK
<1>2. /\ min <= MaxLength /\ Ensured(min, begin') /\ length' = min
      /\ result'.items = <<min>>
  BY <1>1 DEF Lengthened, Result
<1>3. begin' \in Bases /\ Fits(begin', NewCapacity(min))
  BY <1>2, EnsuredFacts
<1>4. cells \in Seq(Values)
  BY DEF IInv, TypeOK
<1>5. /\ Room(min) \in Seq(Values) /\ Len(Room(min)) = NewCapacity(min)
      /\ NewCapacity(min) >= min /\ NewCapacity(min) \in Nat
  BY <1>4, RoomFacts, NewCapacityFacts
<1>6. /\ cells' \in Seq(Values) /\ Len(cells') = NewCapacity(min)
      /\ corrupted' = corrupted
  BY <1>1, <1>5, StoredFacts
<1>7. length' \in 0 .. MaxLength /\ min \in Returned
  BY <1>2, ArrayAssumption DEF Returned
<1>8. result'.items \in Seq(Returned)
  BY <1>2, <1>7
<1>9. corrupted' \in BOOLEAN
  BY <1>6 DEF IInv, TypeOK
<1>10. length' <= Len(cells') /\ Fits(begin', Len(cells'))
  BY <1>2, <1>3, <1>5, <1>6
<1>11. QED
  BY <1>3, <1>6, <1>7, <1>8, <1>9, <1>10, NewArray

LEMMA PushKeeps ==
    ASSUME IInv, NEW s \in Items, Push(s), UNCHANGED safe
    PROVE  IInv' /\ corrupted' = corrupted
<1>1. s \in Seq(Values) /\ length \in Nat
  BY ArrayAssumption DEF IInv, TypeOK
<1>2. QED
  BY <1>1, LengthenedKeeps DEF Push

LEMMA UnshiftKeeps ==
    ASSUME IInv, NEW s \in Items, Unshift(s), UNCHANGED safe
    PROVE  IInv' /\ corrupted' = corrupted
<1>1. s \in Seq(Values) /\ length \in Nat /\ cells \in Seq(Values) /\ length <= Len(cells)
  BY ArrayAssumption DEF IInv, TypeOK, Allocated, Capacity
<1>2. SubSeq(cells, 1, length) \in Seq(Values) /\ Len(SubSeq(cells, 1, length)) = length
  BY <1>1
<1>3. PICK t \in Seq(Values) : /\ t = s \o SubSeq(cells, 1, length)
                              /\ Len(t) = Len(s) + Len(SubSeq(cells, 1, length))
  BY <1>1, <1>2, ConcatProperties
<1>4. 0 + Len(t) = length + Len(s)
  BY <1>1, <1>2, <1>3
<1>5. Lengthened(s, Room(length + Len(s))) /\ Stored(Room(length + Len(s)), 0, t)
  BY <1>3 DEF Unshift
<1>6. QED
  BY <1>4, <1>5, LengthenedKeeps

LEMMA PopKeeps == ASSUME IInv, Pop, UNCHANGED safe PROVE IInv'
<1>1. CASE length = 0
  BY <1>1, DefaultKeeps DEF Pop
<1>2. CASE length # 0
  <2>1. /\ Answers(Result("value", <<cells[length]>>)) /\ length' = length - 1
        /\ UNCHANGED <<begin, cells>>
    BY <1>2 DEF Pop
  <2>2. length \in 1 .. MaxLength /\ length \in 1 .. Len(cells)
    BY <1>2, ArrayAssumption DEF IInv, TypeOK, Allocated, Capacity
  <2>3. <<cells[length]>> \in Seq(Values)
    BY <2>2 DEF IInv, TypeOK
  <2>4. result'.items \in Seq(Returned) /\ corrupted' \in BOOLEAN
    BY <2>1, <2>3, ValuesReturned DEF Answers, Result, IInv, TypeOK
  <2>5. length' \in 0 .. MaxLength /\ length' <= Len(cells)
    BY <2>1, <2>2, ArrayAssumption
  <2>6. QED
    BY <2>1, <2>4, <2>5, NewArray DEF IInv, TypeOK, Allocated, Capacity
<1>3. QED
  BY <1>1, <1>2

LEMMA ShiftKeeps == ASSUME IInv, Shift, UNCHANGED safe PROVE IInv'
<1>1. CASE length = 0
  BY <1>1, DefaultKeeps DEF Shift
<1>2. CASE length # 0
  <2>1. /\ Answers(Result("value", <<cells[1]>>)) /\ length' = length - 1
        /\ cells' = Written(cells, 0, SubSeq(cells, 2, length)) /\ UNCHANGED begin
    BY <1>2 DEF Shift
  <2>2. /\ length \in 1 .. MaxLength /\ length \in Nat /\ length <= Len(cells)
        /\ cells \in Seq(Values)
    BY <1>2, ArrayAssumption DEF IInv, TypeOK, Allocated, Capacity
  <2>3. <<cells[1]>> \in Seq(Values)
    BY <2>2
  <2>4. result'.items \in Seq(Returned) /\ corrupted' \in BOOLEAN
    BY <2>1, <2>3, ValuesReturned DEF Answers, Result, IInv, TypeOK
  <2>5. SubSeq(cells, 2, length) \in Seq(Values) /\ Len(SubSeq(cells, 2, length)) = length - 1
    BY <2>2
  <2>6. 0 + Len(SubSeq(cells, 2, length)) <= Len(cells)
    BY <2>2, <2>5
  <2>7. cells' \in Seq(Values) /\ Len(cells') = Len(cells)
    BY <2>1, <2>2, <2>5, <2>6, WrittenFacts
  <2>8. length' \in 0 .. MaxLength /\ length' <= Len(cells')
    BY <2>1, <2>2, <2>7, ArrayAssumption
  <2>9. QED
    BY <2>1, <2>4, <2>7, <2>8, NewArray DEF IInv, TypeOK, Allocated, Capacity
<1>3. QED
  BY <1>1, <1>2

LEMMA SliceKeeps ==
    ASSUME IInv, NEW i \in Int, NEW j \in Int, Slice(i, j), UNCHANGED safe
    PROVE  IInv'
<1> DEFINE start == IF safe THEN Least(Relative(i), Back) ELSE Relative(i)
           end == IF safe THEN Most(start, Least(Relative(j), Back)) ELSE Relative(j)
<1>1. start \in Int /\ end \in Int
  BY PointersAreInts, BackFacts DEF Least, Most
<1>2. CASE ~Within(start, end)
  BY <1>2, CorruptsKeeps DEF Slice
<1>3. CASE Within(start, end)
  <2>1. PICK a \in 0 .. length, b \in 0 .. length :
            a = Index(start) /\ b = Index(end) /\ a <= b
    BY <1>1, <1>3, WithinFacts
  <2>2. Answers(Result("array", SubSeq(cells, a + 1, b))) /\ UNCHANGED arrayVars
    BY <1>3, <2>1 DEF Slice, Copy
  <2>3. a \in Nat /\ b \in Nat /\ b <= Len(cells) /\ cells \in Seq(Values)
    BY DEF IInv, TypeOK, Allocated, Capacity
  <2>4. SubSeq(cells, a + 1, b) \in Seq(Values)
    BY <2>3, SubSeqFacts
  <2>5. QED
    BY <2>2, <2>4, AnswersKeeps
<1>4. QED
  BY <1>2, <1>3

LEMMA ResizeKeeps == ASSUME IInv, NEW n \in Ints, Resize(n), UNCHANGED safe PROVE IInv'
<1>0. n \in Int /\ cells \in Seq(Values) /\ length \in Nat /\ length <= Len(cells)
  BY SizesHold, ArrayAssumption DEF Sizes, IInv, TypeOK, Allocated, Capacity
<1>1. CASE n < 0
  BY <1>1, OutOfRangeKeeps DEF Resize
<1>2. CASE ~(n < 0) /\ ~Holds(NewCapacity(n))
  BY <1>2, CorruptsKeeps DEF Resize
<1>3. CASE ~(n < 0) /\ Holds(NewCapacity(n))
  <2>1. /\ n <= MaxLength /\ Ensured(n, begin') /\ length' = n
        /\ cells' = Cleared(Room(n), n) /\ Answers(Nothing)
    BY <1>3 DEF Resize
  <2>2. n \in Nat /\ length' \in 0 .. MaxLength
    BY <1>0, <1>3, <2>1, ArrayAssumption
  <2>3. begin' \in Bases /\ Fits(begin', NewCapacity(n))
    BY <2>1, <2>2, EnsuredFacts
  <2>4. /\ Room(n) \in Seq(Values) /\ Len(Room(n)) = NewCapacity(n)
        /\ NewCapacity(n) >= n /\ NewCapacity(n) \in Nat
    BY <1>0, <2>2, RoomFacts, NewCapacityFacts
  <2>5. cells' \in Seq(Values) /\ Len(cells') = NewCapacity(n)
    <3>1. CASE safe /\ n > length
      <4>1. PICK t \in Seq(Values) :
                t = [k \in 1 .. n - length |-> Default] /\ Len(t) = n - length
        <5>1. PICK d \in Nat : d = n - length
          BY <1>0, <2>2, <3>1
        <5>2. Default \in Values
          BY ArrayAssumption
        <5>3. [k \in 1 .. d |-> Default] \in Seq(Values) /\ Len([k \in 1 .. d |-> Default]) = d
          BY <5>2, Repeated
        <5>4. QED
          BY <5>1, <5>3
      <4>2. cells' = Written(Room(n), length, t)
        BY <2>1, <3>1, <4>1 DEF Cleared
      <4>3. length + Len(t) <= Len(Room(n))
        <5>1. length + (n - length) = n
          BY <1>0
        <5>2. length + Len(t) = n
          BY <4>1, <5>1, Zenon
        <5>3. QED
          BY <2>4, <5>2
      <4>4. QED
        BY <1>0, <2>4, <4>2, <4>3, WrittenFacts
    <3>2. CASE ~(safe /\ n > length)
      BY <2>1, <2>4, <3>2 DEF Cleared
    <3>3. QED
      BY <3>1, <3>2
  <2>6. result'.items \in Seq(Returned) /\ corrupted' \in BOOLEAN
    BY <2>1, NothingIsEmpty DEF IInv, TypeOK
  <2>7. length' <= Len(cells') /\ Fits(begin', Len(cells'))
    BY <2>1, <2>3, <2>4, <2>5
  <2>8. QED
    BY <2>2, <2>3, <2>5, <2>6, <2>7, NewArray
<1>4. QED
  BY <1>1, <1>2, <1>3

SpliceOutside(i, n) ==
    LET index == SpliceStart(i)
        count == SpliceCount(index, n)
    IN  index < 0 \/ count < 0 \/ index + count > length

LEMMA SpliceKeeps ==
    ASSUME IInv, NEW i \in Int, NEW n \in Int, NEW s \in Seq(Values), Splice(i, n, s),
           UNCHANGED safe
    PROVE  IInv' /\ (~SpliceOutside(i, n) => corrupted' = corrupted)
<1>0. /\ cells \in Seq(Values) /\ length \in Nat /\ length <= Len(cells)
  BY DEF IInv, TypeOK, Allocated, Capacity
<1>1. PICK index \in Int, count \in Int :
          index = SpliceStart(i) /\ count = SpliceCount(index, n)
  <2>1. SpliceStart(i) \in Int
    BY <1>0 DEF SpliceStart, Least, Most
  <2>2. PICK index \in Int : index = SpliceStart(i)
    BY <2>1
  <2>3. SpliceCount(index, n) \in Int
    BY <1>0 DEF SpliceCount, Least, Most
  <2>4. QED
    BY <2>2, <2>3
<1>2. CASE index < 0 \/ count < 0 \/ index + count > length
  BY <1>1, <1>2, CorruptsKeeps DEF Splice, SpliceOutside
<1>3. CASE ~(index < 0 \/ count < 0 \/ index + count > length)
  <2>1. index \in Nat /\ count \in Nat /\ index + count <= length
    BY <1>0, <1>1, <1>3
  <2>a. PICK size \in Nat : size = Len(s)
    OBVIOUS
  <2>2. PICK total \in Nat : total = length + Len(s) - count
    <3>1. length + size - count \in Nat
      BY <1>0, <2>1
    <3>2. QED
      BY <2>a, <3>1
  <2>3. PICK min \in Nat : min = SpliceMin(count, s)
    <3>1. SpliceMin(count, s) = IF count < size THEN total ELSE 0
      BY <2>a, <2>2 DEF SpliceMin
    <3>2. QED
      BY <3>1
  <2>4. /\ total <= MaxLength
        /\ IF min = 0 THEN UNCHANGED begin ELSE Ensured(min, begin')
        /\ \/ /\ length' = total
              /\ Stored(IF min = 0 THEN cells ELSE Room(min), index,
                        s \o SubSeq(cells, index + count + 1, length))
              /\ result' = Result("array", SubSeq(cells, index + 1, index + count))
           \/ NoCopy(IF min = 0 THEN cells ELSE Room(min))
    BY <1>1, <1>3, <2>2, <2>3, Zenon DEF Splice
  <2>5. PICK room : room = IF min = 0 THEN cells ELSE Room(min)
    OBVIOUS
  <2>6. /\ room \in Seq(Values) /\ total <= Len(room) /\ length <= Len(room)
        /\ begin' \in Bases /\ Fits(begin', Len(room))
    <3>1. CASE min = 0
      <4>1. total <= length
        BY <1>0, <2>1, <2>2, <2>3, <3>1 DEF SpliceMin
      <4>2. QED
        BY <1>0, <2>2, <2>4, <2>5, <3>1, <4>1 DEF IInv, TypeOK, Allocated, Capacity
    <3>2. CASE min # 0
      <4>1. min = total
        BY <1>0, <2>1, <2>2, <2>3, <3>2 DEF SpliceMin
      <4>2. /\ Room(min) \in Seq(Values) /\ Len(Room(min)) = NewCapacity(min)
            /\ NewCapacity(min) >= min /\ NewCapacity(min) >= length
        <5>1. Capacity \in Nat /\ length <= Capacity
          BY <1>0 DEF Capacity
        <5>2. NewCapacity(min) \in Nat /\ NewCapacity(min) >= min /\ NewCapacity(min) >= Capacity
          BY <1>0, NewCapacityFacts
        <5>3. Room(min) \in Seq(Values) /\ Len(Room(min)) = NewCapacity(min)
          BY <1>0, RoomFacts
        <5>4. QED
          BY <1>0, <5>1, <5>2, <5>3
      <4>3. begin' \in Bases /\ Fits(begin', NewCapacity(min))
        BY <2>4, <3>2, EnsuredFacts
      <4>4. QED
        BY <2>5, <3>2, <4>1, <4>2, <4>3
    <3>3. QED
      BY <3>1, <3>2
  <2>7. CASE NoCopy(room)
    <3>1. cells' = room /\ length' = length /\ Answers(Result("bad_alloc", <<>>))
      BY <2>7 DEF NoCopy
    <3>2. <<>> \in Seq(Returned)
      OBVIOUS
    <3>3. result'.items \in Seq(Returned) /\ corrupted' = corrupted
      BY <3>1, <3>2 DEF Answers, Result
    <3>4. QED
      BY <2>6, <3>1, <3>3, NewArray DEF IInv, TypeOK
  <2>8. CASE ~NoCopy(room)
    <3>0. /\ length' = total
          /\ Stored(room, index, s \o SubSeq(cells, index + count + 1, length))
          /\ result'.items = SubSeq(cells, index + 1, index + count)
      BY <2>4, <2>5, <2>8 DEF Result
    <3>7. PICK m \in Nat : m = index + count
      BY <2>1
    <3>8. PICK tail \in Seq(Values) :
              tail = SubSeq(cells, m + 1, length) /\ Len(tail) = length - m
      <4>1. m <= length
        BY <2>1, <3>7
      <4>2. /\ SubSeq(cells, m + 1, length) \in Seq(Values)
            /\ Len(SubSeq(cells, m + 1, length)) = IF m <= length THEN length - m ELSE 0
        BY <1>0, SubSeqFacts
      <4>3. QED
        BY <4>1, <4>2
    <3>9. PICK t \in Seq(Values) : t = s \o tail /\ Len(t) = Len(s) + Len(tail)
      BY <1>0, ConcatProperties
    <3>10. index + Len(t) = total
      <4>1. Len(t) = size + length - m
        BY <2>a, <3>8, <3>9, <1>0
      <4>2. total = length + size - count
        BY <2>a, <2>2
      <4>3. QED
        BY <1>0, <2>1, <3>7, <4>1, <4>2
    <3>11. Stored(room, index, t)
      BY <3>0, <2>5, <3>7, <3>8, <3>9
    <3>12. cells' \in Seq(Values) /\ Len(cells') = Len(room) /\ corrupted' = corrupted
      <4>1. index + Len(t) <= Len(room)
        BY <2>6, <3>10
      <4>2. QED
        BY <2>1, <2>6, <3>11, <4>1, StoredFacts
    <3>13. result'.items \in Seq(Returned)
      <4>1. SubSeq(cells, index + 1, m) \in Seq(Values)
        <5>1. m <= Len(cells)
          BY <1>0, <2>1, <3>7
        <5>2. QED
          BY <1>0, <2>1, <5>1, SubSeqFacts
      <4>2. QED
        BY <3>0, <3>7, <4>1, ValuesReturned
    <3>14. corrupted' \in BOOLEAN
      BY <3>12 DEF IInv, TypeOK
    <3>15. length' \in 0 .. MaxLength /\ length' <= Len(cells') /\ Fits(begin', Len(cells'))
      BY <2>2, <2>4, <3>0, <2>6, <3>12, ArrayAssumption
    <3>16. QED
      BY <2>6, <3>12, <3>13, <3>14, <3>15, NewArray
  <2>9. QED
    BY <2>7, <2>8
<1>4. QED
  BY <1>2, <1>3
-----------------------------------------------------------------------------
LEMMA InitIInv == Init => IInv
<1> SUFFICES ASSUME Init PROVE IInv
  OBVIOUS
<1>1. cells = <<>> /\ length = 0 /\ result.items = <<>>
  BY DEF Init, Nothing, Result
<1>2. <<>> \in Seq(Values) /\ <<>> \in Seq(Values \cup 0 .. MaxLength)
  OBVIOUS
<1>3. TypeOK
  <2>1. length \in 0 .. MaxLength
    BY <1>1, ArrayAssumption
  <2>2. cells \in Seq(Values) /\ result.items \in Seq(Values \cup 0 .. MaxLength)
    BY <1>1, <1>2
  <2>3. safe \in Builds /\ begin \in Bases /\ corrupted \in BOOLEAN
    BY DEF Init
  <2>4. QED
    BY <2>1, <2>2, <2>3 DEF TypeOK
<1>4. Fits(begin, 0)
  <2>1. begin \in 1 .. IntMax
    BY ArrayAssumption DEF Init
  <2>2. QED
    BY <2>1, SizesHold DEF Fits, Sizes
<1>5. Allocated
  BY <1>1, <1>4 DEF Allocated, Capacity
<1>6. QED
  BY <1>3, <1>5 DEF IInv

(* What an argument left out is replaced by is an integer as well.         *)
LEMMA Arguments ==
    ASSUME IInv
    PROVE  (\A i \in Ints : i \in Int) /\ length \in Int /\ (\A i \in Ints \cup {length} : i \in Int)
BY SizesHold, ArrayAssumption DEF Sizes, IInv, TypeOK

LEMMA ElementsKeep == ASSUME IInv, Elements, UNCHANGED safe PROVE IInv'
<1>1. ASSUME NEW n \in Ints, Create(n) PROVE IInv'
  BY <1>1, CreateKeeps
<1>2. ASSUME NEW s \in Items, FromElements(s) PROVE IInv'
  BY <1>2, FromElementsKeeps
<1>3. ASSUME NEW i \in Ints, Get(i) PROVE IInv'
  BY <1>3, GetKeeps, Arguments
<1>4. ASSUME NEW i \in Ints, NEW v \in Values, Set(i, v) PROVE IInv'
  BY <1>4, SetKeeps, Arguments
<1>5. ASSUME NEW i \in Ints \cup {length}, NEW j \in Ints \cup {length},
             NEW v \in Values, Fill(v, i, j)
      PROVE  IInv'
  BY <1>5, FillKeeps, Arguments
<1>6. QED
  BY <1>1, <1>2, <1>3, <1>4, <1>5, Zenon DEF Elements

LEMMA EndsKeep == ASSUME IInv, Ends, UNCHANGED safe PROVE IInv'
BY PushKeeps, UnshiftKeeps, PopKeeps, ShiftKeeps DEF Ends

LEMMA RangesKeep == ASSUME IInv, Ranges, UNCHANGED safe PROVE IInv'
<1>1. ASSUME NEW i \in Ints \cup {length}, NEW j \in Ints \cup {length}, Slice(i, j)
      PROVE  IInv'
  BY <1>1, SliceKeeps, Arguments
<1>2. ASSUME NEW i \in Ints, NEW n \in Ints, NEW s \in Items, Splice(i, n, s)
      PROVE  IInv'
  BY <1>2, SpliceKeeps, Arguments, ArrayAssumption
<1>3. ASSUME NEW i \in Ints, SpliceRest(i) PROVE IInv'
  <2>1. <<>> \in Seq(Values)
    OBVIOUS
  <2>2. QED
    BY <1>3, <2>1, SpliceKeeps, Arguments DEF SpliceRest
<1>4. ASSUME NEW n \in Ints, Resize(n) PROVE IInv'
  BY <1>4, ResizeKeeps
<1>5. ASSUME Sort PROVE IInv'
  BY <1>5, SortKeeps
<1>6. QED
  BY <1>1, <1>2, <1>3, <1>4, <1>5, Zenon DEF Ranges

LEMMA NextIInv == IInv /\ [Next]_vars => IInv'
<1> SUFFICES ASSUME IInv, [Next]_vars PROVE IInv'
  OBVIOUS
<1>1. CASE Next
  <2>1. UNCHANGED safe
    BY <1>1 DEF Next
  <2>2. CASE OutOfMemory
    BY <2>1, <2>2, ThrowsKeeps DEF OutOfMemory
  <2>3. QED
    BY <1>1, <2>1, <2>2, ElementsKeep, EndsKeep, RangesKeep DEF Next
<1>2. CASE UNCHANGED vars
  BY <1>2 DEF vars, IInv, TypeOK, Allocated, Capacity, Fits
<1>3. QED
  BY <1>1, <1>2

(* The elements lie in the allocation, and the allocation below half of    *)
(* the address space, after any sequence of calls.                         *)
THEOREM ArrayInvariant == Spec => []IInv
<1>1. Init => IInv
  BY InitIInv
<1>2. IInv /\ [Next]_vars => IInv'
  BY NextIInv
<1>3. QED
  BY <1>1, <1>2, PTL DEF Spec
-----------------------------------------------------------------------------
(* Memory safety: the operations a build supports are in range.            *)

LEMMA OutOfRangeSafe == ASSUME safe, OutOfRange PROVE corrupted' = corrupted
BY DEF OutOfRange, Throws, Answers

LEMMA DefaultSafe == ASSUME safe, DefaultValue PROVE corrupted' = corrupted
BY DEF DefaultValue, Answers

LEMMA CreateSafe ==
    ASSUME IInv, InReach, NEW n \in Ints, CreateSupported(n), Create(n)
    PROVE  corrupted' = corrupted
<1>1. n \in Int /\ begin \in Bases /\ begin \in Nat
  BY ArrayAssumption, Arguments DEF IInv, TypeOK
<1>2. CASE n < 0
  <2>1. safe
    BY <1>1, <1>2 DEF CreateSupported
  <2>2. QED
    BY <1>2, <2>1, OutOfRangeSafe DEF Create
<1>3. CASE ~(n < 0)
  <2>1. Holds(n)
    BY <1>1, <1>3, SizesHold DEF InReach, Holds, Sizes
  <2>2. QED
    BY <1>3, <2>1 DEF Create, Answers
<1>4. QED
  BY <1>2, <1>3

(* The pointer to an element is not outside.                               *)
LEMMA ElementInside ==
    ASSUME IInv, NEW i \in Int, 0 <= i, i < length
    PROVE  ~Outside(FromBegin(i))
<1>1. length \in Nat /\ begin \in Nat /\ i \in 0 .. length
  BY ArrayAssumption DEF IInv, TypeOK
<1>2. FromBegin(i) = begin + i * ElementSize /\ Back = begin + length * ElementSize
  BY <1>1, PointerFacts, BackFacts
<1>3. i * ElementSize >= 0 /\ (i + 1) * ElementSize <= length * ElementSize
  BY <1>1, SizesHold DEF Sizes
<1>4. (i + 1) * ElementSize = i * ElementSize + ElementSize
  BY SizesHold DEF Sizes
<1>5. QED
  BY <1>1, <1>2, <1>3, <1>4, SizesHold DEF Outside, Sizes

LEMMA GetSafe ==
    ASSUME IInv, NEW i \in Int, ElementSupported(i), Get(i)
    PROVE  corrupted' = corrupted
<1>1. CASE Outside(FromBegin(i))
  <2>1. safe
    BY <1>1, ElementInside DEF ElementSupported
  <2>2. QED
    BY <1>1, <2>1, DefaultSafe DEF Get
<1>2. CASE ~Outside(FromBegin(i))
  BY <1>2 DEF Get, Answers
<1>3. QED
  BY <1>1, <1>2

LEMMA SetSafe ==
    ASSUME IInv, NEW i \in Int, NEW v, ElementSupported(i), Set(i, v)
    PROVE  corrupted' = corrupted
<1>1. CASE Outside(FromBegin(i))
  <2>1. safe
    BY <1>1, ElementInside DEF ElementSupported
  <2>2. QED
    BY <1>1, <2>1, OutOfRangeSafe DEF Set
<1>2. CASE ~Outside(FromBegin(i))
  BY <1>2 DEF Set, Answers
<1>3. QED
  BY <1>1, <1>2

LEMMA RemoveSafe ==
    ASSUME IInv, RemoveSupported, Pop \/ Shift
    PROVE  corrupted' = corrupted
<1>1. CASE length = 0
  <2>1. safe /\ DefaultValue
    BY <1>1 DEF RemoveSupported, Pop, Shift
  <2>2. QED
    BY <2>1, DefaultSafe
<1>2. CASE length # 0
  BY <1>2 DEF Pop, Shift, Answers
<1>3. QED
  BY <1>1, <1>2

(* A relative index in the array is a pointer into the array.              *)
LEMMA RelativeFacts ==
    ASSUME IInv, NEW i \in Int, InArray(i)
    PROVE  Position(i) \in 0 .. length /\ Relative(i) = begin + Position(i) * ElementSize
<1>1. length \in Nat /\ begin \in Nat /\ Back = begin + length * ElementSize
  BY BackFacts, ArrayAssumption DEF IInv, TypeOK
<1>2. PICK k \in 0 .. length : k = Position(i)
  BY <1>1 DEF InArray, Position
<1>3. FromBegin(k) = begin + k * ElementSize
  BY PointerFacts
<1>4. CASE i < 0
  <2>1. Back + i * ElementSize = begin + k * ElementSize
    <3>1. k = length + i
      BY <1>2, <1>4 DEF Position
    <3>2. k * ElementSize = length * ElementSize + i * ElementSize
      BY <1>1, <3>1, SizesHold DEF Sizes
    <3>3. QED
      BY <1>1, <3>2, SizesHold DEF Sizes
  <2>2. Relative(i) = FromBegin(k)
    BY <1>4, <2>1 DEF Relative, FromBack, FromBegin
  <2>3. QED
    BY <1>2, <1>3, <2>2
<1>5. CASE ~(i < 0)
  BY <1>2, <1>3, <1>5 DEF Relative, Position
<1>6. QED
  BY <1>4, <1>5

LEMMA RangeFacts ==
    ASSUME IInv, NEW i \in Int, NEW j \in Int,
           InArray(i), InArray(j), Position(i) <= Position(j)
    PROVE  Within(Relative(i), Relative(j))
<1>1. PICK a \in 0 .. length, b \in 0 .. length :
          /\ a = Position(i) /\ b = Position(j) /\ a <= b
          /\ Relative(i) = begin + a * ElementSize /\ Relative(j) = begin + b * ElementSize
  BY RelativeFacts
<1>2. length \in Nat /\ begin \in Nat /\ Back = begin + length * ElementSize
  BY BackFacts, ArrayAssumption DEF IInv, TypeOK
<1>3. /\ 0 <= a * ElementSize /\ a * ElementSize <= b * ElementSize
      /\ b * ElementSize <= length * ElementSize
  BY <1>1, <1>2, SizesHold DEF Sizes
<1>4. QED
  BY <1>1, <1>2, <1>3, SizesHold DEF Within, Sizes

LEMMA FillSafe ==
    ASSUME IInv, NEW i \in Int, NEW j \in Int, NEW v, FillSupported(i, j), Fill(v, i, j)
    PROVE  corrupted' = corrupted
<1> DEFINE start == FillStart(i)
           end == IF safe THEN Least(Most(Relative(j), start), Back) ELSE Relative(j)
<1>1. Within(start, end)
  <2>1. CASE safe
    <3>1. /\ Relative(i) \in Int /\ Relative(j) \in Int /\ Back \in Nat /\ begin \in Nat
          /\ begin <= Back
      <4>1. begin \in Nat /\ length \in Nat /\ Back = begin + length * ElementSize /\ Back \in Nat
        BY BackFacts, ArrayAssumption DEF IInv, TypeOK
      <4>2. length * ElementSize >= 0
        BY <4>1, SizesHold DEF Sizes
      <4>3. QED
        BY <4>1, <4>2, PointersAreInts, SizesHold DEF Sizes
    <3>2. QED
      BY <2>1, <3>1 DEF FillStart, Within, Least, Most
  <2>2. CASE ~safe
    BY <2>2, RangeFacts DEF FillSupported, FillStart
  <2>3. QED
    BY <2>1, <2>2
<1>2. QED
  BY <1>1 DEF Fill, Answers

LEMMA SliceSafe ==
    ASSUME IInv, InReach, NEW i \in Ints \cup {length}, NEW j \in Int,
           SliceSupported(i, j), Slice(i, j)
    PROVE  corrupted' = corrupted
<1> DEFINE start == IF safe THEN Least(Relative(i), Back) ELSE Relative(i)
           end == IF safe THEN Most(start, Least(Relative(j), Back)) ELSE Relative(j)
<1>0. i \in Int
  BY Arguments
<1>1. Within(start, end)
  <2>1. CASE safe
    <3>1. /\ length \in Nat /\ begin \in Bases /\ begin \in Nat /\ Back \in Nat
          /\ Back = begin + length * ElementSize
      BY BackFacts, ArrayAssumption DEF IInv, TypeOK
    <3>2. begin <= Relative(i)
      <4>1. CASE InArray(i)
        <5>1. PICK k \in 0 .. length : Relative(i) = begin + k * ElementSize
          BY <1>0, <4>1, RelativeFacts
        <5>2. k * ElementSize >= 0
          BY <5>1, SizesHold DEF Sizes
        <5>3. QED
          BY <3>1, <5>1, <5>2, SizesHold DEF Sizes
      <4>2. CASE ~InArray(i)
        <5>1. i > length /\ i \in Ints
          BY <1>0, <2>1, <3>1, <4>2 DEF InArray, SliceSupported
        <5>2. begin + i * ElementSize < AddressSpace
          BY <1>0, <3>1, <5>1 DEF InReach
        <5>3. i * ElementSize >= 0
          BY <1>0, <3>1, <5>1, SizesHold DEF Sizes
        <5>4. PICK x \in Nat : x = begin + i * ElementSize
          BY <1>0, <3>1, <5>3, SizesHold DEF Sizes
        <5>5. x % AddressSpace = x
          BY <5>2, <5>4, SizesHold DEF Sizes
        <5>6. Relative(i) = x
          <6>1. ~(i < 0)
            BY <1>0, <3>1, <5>1
          <6>2. QED
            BY <5>4, <5>5, <6>1 DEF Relative, FromBegin
        <5>7. QED
          BY <3>1, <5>3, <5>4, <5>6, <1>0, SizesHold DEF Sizes
      <4>3. QED
        BY <4>1, <4>2
    <3>3. Relative(i) \in Int /\ Relative(j) \in Int
      BY <1>0, PointersAreInts
    <3>4. begin <= Back
      <4>1. length * ElementSize >= 0
        BY <3>1, SizesHold DEF Sizes
      <4>2. QED
        BY <3>1, <4>1, SizesHold DEF Sizes
    <3>5. QED
      BY <2>1, <3>1, <3>2, <3>3, <3>4 DEF Within, Least, Most
  <2>2. CASE ~safe
    BY <1>0, <2>2, RangeFacts DEF SliceSupported
  <2>3. QED
    BY <2>1, <2>2
<1>2. QED
  BY <1>1 DEF Slice, Answers

LEMMA SpliceSafe ==
    ASSUME IInv, NEW i \in Int, NEW n \in Int, NEW s \in Seq(Values),
           SpliceSupported(i, n), Splice(i, n, s), UNCHANGED safe
    PROVE  corrupted' = corrupted
<1>1. length \in Nat
  BY DEF IInv, TypeOK
<1>2. ~SpliceOutside(i, n)
  <2>1. CASE safe
    <3>1. PICK index \in 0 .. length : index = SpliceStart(i)
      <4>1. SpliceStart(i) \in 0 .. length
        BY <1>1, <2>1 DEF SpliceStart, Least, Most
      <4>2. QED
        BY <4>1
    <3>2. PICK count \in 0 .. length - index : count = SpliceCount(index, n)
      <4>1. SpliceCount(index, n) \in 0 .. length - index
        BY <1>1, <2>1, <3>1 DEF SpliceCount, Least, Most
      <4>2. QED
        BY <4>1
    <3>3. QED
      BY <1>1, <3>1, <3>2 DEF SpliceOutside
  <2>2. CASE ~safe
    <3>1. InArray(i) /\ n >= 0 /\ Position(i) + n <= length
      BY <2>2 DEF SpliceSupported
    <3>2. SpliceStart(i) = Position(i) /\ SpliceCount(SpliceStart(i), n) = n
      BY <2>2 DEF SpliceStart, SpliceCount, Position
    <3>3. Position(i) >= 0
      BY <1>1, <3>1 DEF InArray, Position
    <3>4. Position(i) \in Int
      BY <1>1 DEF Position
    <3>5. QED
      BY <1>1, <3>1, <3>2, <3>3, <3>4 DEF SpliceOutside
  <2>3. QED
    BY <2>1, <2>2
<1>3. QED
  BY <1>2, SpliceKeeps

(* resize asks for less than the address space.                            *)
LEMMA ResizeHolds ==
    ASSUME IInv, InReach, NEW n \in Ints, n >= 0
    PROVE  Holds(NewCapacity(n))
<1>1. /\ n \in Int /\ begin \in Bases /\ begin \in Nat \ {0} /\ Capacity \in Nat
      /\ begin + Capacity * ElementSize <= IntMax
  BY ArrayAssumption, Arguments DEF IInv, TypeOK, Allocated, Fits, Capacity
<1>2. PICK e \in Nat \ {0}, m \in Int, space \in Nat :
          e = ElementSize /\ m = IntMax /\ space = AddressSpace
  BY SizesHold DEF Sizes
<1>3. 2 * m < space
  <2>1. PICK h \in Int, q \in 0 .. 1 : h = AddressSpace \div 2 /\ AddressSpace = 2 * h + q
    BY SizesHold, Division DEF Sizes
  <2>2. QED
    BY <1>2, <2>1 DEF IntMax
<1>4. n * e < space
  BY <1>1, <1>2 DEF InReach
<1>5. Capacity * e < space /\ (2 * Capacity) * e < space
  <2>1. Capacity * e >= 0 /\ Capacity * e <= m
    BY <1>1, <1>2
  <2>2. (2 * Capacity) * e = 2 * (Capacity * e)
    BY <1>1
  <2>3. QED
    BY <1>1, <1>2, <1>3, <2>1, <2>2
<1>6. DefaultCapacity \in Nat /\ DefaultCapacity * e < space
  BY <1>2, ArrayAssumption DEF InReach
<1>7. PICK d \in Nat : d = (IF Capacity = 0 THEN DefaultCapacity ELSE 2 * Capacity)
  BY <1>1, <1>6
<1>8. d * e < space
  BY <1>5, <1>6, <1>7
<1>9. Least(d, m) * e < space /\ Least(d, m) \in Int
  <2>1. CASE d <= m
    BY <1>8, <2>1 DEF Least
  <2>2. CASE ~(d <= m)
    <3>1. m * e <= d * e
      BY <1>2, <1>7, <2>2
    <3>2. QED
      BY <1>2, <1>8, <2>2, <3>1 DEF Least
  <2>3. QED
    BY <2>1, <2>2
<1>10. PICK l \in Int : l = Least(d, m) /\ l * e < space
  BY <1>9
<1>11. NewCapacity(n) = Capacity \/ NewCapacity(n) = n \/ NewCapacity(n) = l
  BY <1>2, <1>7, <1>10 DEF NewCapacity, Most
<1>12. QED
  BY <1>2, <1>4, <1>5, <1>10, <1>11 DEF Holds

LEMMA ResizeSafe ==
    ASSUME IInv, InReach, NEW n \in Ints, CreateSupported(n), Resize(n)
    PROVE  corrupted' = corrupted
<1>1. n \in Int
  BY Arguments
<1>2. CASE n < 0
  <2>1. safe
    BY <1>1, <1>2 DEF CreateSupported
  <2>2. QED
    BY <1>2, <2>1, OutOfRangeSafe DEF Resize
<1>3. CASE ~(n < 0)
  <2>1. Holds(NewCapacity(n))
    BY <1>1, <1>3, ResizeHolds
  <2>2. QED
    BY <1>3, <2>1 DEF Resize, Answers
<1>4. QED
  BY <1>2, <1>3

(* No call a build supports accesses memory outside of the elements,       *)
(* unless an index is so large that the pointer wraps around.              *)
THEOREM MemorySafety ==
    ASSUME ~AnyCall, InReach
    PROVE  Spec => []MemorySafe
<1> DEFINE Inv == IInv /\ MemorySafe
<1>1. Init => Inv
  BY InitIInv DEF Init, MemorySafe
<1>2. Inv /\ [Next]_vars => Inv'
  <2> SUFFICES ASSUME Inv, [Next]_vars PROVE MemorySafe'
    BY NextIInv
  <2> USE DEF MemorySafe
  <2>1. ASSUME NEW call, Supported(call) PROVE call
    BY <2>1 DEF Supported
  <2>2. CASE Elements /\ UNCHANGED safe
    <3>1. ASSUME NEW n \in Ints, Supported(CreateSupported(n)), Create(n) PROVE MemorySafe'
      BY <2>1, <3>1, CreateSafe
    <3>2. ASSUME NEW s \in Items, FromElements(s) PROVE MemorySafe'
      BY <2>2, <3>2, FromElementsKeeps
    <3>3. ASSUME NEW i \in Ints, Supported(ElementSupported(i)), Get(i) PROVE MemorySafe'
      BY <2>1, <3>3, GetSafe, Arguments
    <3>4. ASSUME NEW i \in Ints, NEW v \in Values, Supported(ElementSupported(i)), Set(i, v)
          PROVE  MemorySafe'
      BY <2>1, <3>4, SetSafe, Arguments
    <3>5. ASSUME NEW i \in Ints \cup {length}, NEW j \in Ints \cup {length},
                 NEW v \in Values, Supported(FillSupported(i, j)), Fill(v, i, j)
          PROVE  MemorySafe'
      BY <2>1, <3>5, FillSafe, Arguments
    <3>6. QED
      BY <2>2, <3>1, <3>2, <3>3, <3>4, <3>5, Zenon DEF Elements
  <2>3. CASE Ends /\ UNCHANGED safe
    <3>1. ASSUME NEW s \in Items, Push(s) \/ Unshift(s) PROVE MemorySafe'
      BY <2>3, <3>1, PushKeeps, UnshiftKeeps
    <3>2. ASSUME Supported(RemoveSupported), Pop \/ Shift PROVE MemorySafe'
      <4>1. RemoveSupported
        BY <2>1, <3>2
      <4>2. QED
        BY <3>2, <4>1, RemoveSafe
    <3>3. QED
      BY <2>3, <3>1, <3>2, Zenon DEF Ends
  <2>4. CASE Ranges /\ UNCHANGED safe
    <3>1. ASSUME NEW i \in Ints \cup {length}, NEW j \in Ints \cup {length},
                 Supported(SliceSupported(i, j)), Slice(i, j)
          PROVE  MemorySafe'
      BY <2>1, <3>1, SliceSafe, Arguments
    <3>2. ASSUME NEW i \in Ints, NEW n \in Ints, NEW s \in Items,
                 Supported(SpliceSupported(i, n)), Splice(i, n, s)
          PROVE  MemorySafe'
      BY <2>1, <2>4, <3>2, SpliceSafe, Arguments, ArrayAssumption
    <3>3. ASSUME NEW i \in Ints, Supported(SpliceSupported(i, length)), SpliceRest(i)
          PROVE  MemorySafe'
      <4>1. <<>> \in Seq(Values)
        OBVIOUS
      <4>2. QED
        <5>1. SpliceSupported(i, length)
          BY <2>1, <3>3
        <5>2. Splice(i, length, <<>>)
          BY <3>3 DEF SpliceRest
        <5>3. i \in Int /\ length \in Int
          BY Arguments
        <5>4. corrupted' = corrupted
          BY <2>4, <4>1, <5>1, <5>2, <5>3, SpliceSafe
        <5>5. QED
          BY <5>4
    <3>4. ASSUME NEW n \in Ints, Supported(CreateSupported(n)), Resize(n) PROVE MemorySafe'
      BY <2>1, <3>4, ResizeSafe
    <3>5. ASSUME Sort PROVE MemorySafe'
      BY <3>5 DEF Sort, Answers
    <3>6. QED
      BY <2>4, <3>1, <3>2, <3>3, <3>4, <3>5, Zenon DEF Ranges
  <2>5. CASE OutOfMemory /\ UNCHANGED safe
    BY <2>5 DEF OutOfMemory, Throws, Answers
  <2>6. CASE UNCHANGED vars
    BY <2>6 DEF vars
  <2>7. QED
    BY <2>2, <2>3, <2>4, <2>5, <2>6, Zenon DEF Next
<1>3. QED
  BY <1>1, <1>2, PTL DEF Spec

-----------------------------------------------------------------------------
(* Parts of sequences and sequences joined, element by element.            *)

FrontIs(f, s, n) ==
    f = SubSeq(s, 1, n) /\ Len(f) = n /\ \A k \in 1 .. n : f[k] = s[k]

PartIs(f, s, m, n) ==
    f = SubSeq(s, m + 1, n) /\ Len(f) = n - m /\ \A k \in 1 .. n - m : f[k] = s[m + k]

JoinIs(f, s, t) ==
    /\ f = s \o t /\ Len(f) = Len(s) + Len(t)
    /\ \A k \in 1 .. Len(s) : f[k] = s[k]
    /\ \A k \in 1 .. Len(t) : f[Len(s) + k] = t[k]

LEMMA FrontOfSeq ==
    ASSUME NEW S, NEW s \in Seq(S), NEW n \in Nat, n <= Len(s)
    PROVE  \E f \in Seq(S) : FrontIs(f, s, n)
<1>1. /\ SubSeq(s, 1, n) \in Seq(S) /\ Len(SubSeq(s, 1, n)) = n
      /\ \A k \in 1 .. n : SubSeq(s, 1, n)[k] = s[k]
  OBVIOUS
<1>2. FrontIs(SubSeq(s, 1, n), s, n)
  BY <1>1, Zenon DEF FrontIs
<1>3. QED
  BY <1>1, <1>2, Zenon

LEMMA PartOfSeq ==
    ASSUME NEW S, NEW s \in Seq(S), NEW m \in Nat, NEW n \in Nat, n <= Len(s), m <= n
    PROVE  \E f \in Seq(S) : PartIs(f, s, m, n)
<1>1. /\ SubSeq(s, m + 1, n) \in Seq(S) /\ Len(SubSeq(s, m + 1, n)) = n - m
      /\ \A k \in 1 .. n - m : SubSeq(s, m + 1, n)[k] = s[m + k]
  OBVIOUS
<1>2. PartIs(SubSeq(s, m + 1, n), s, m, n)
  BY <1>1, Zenon DEF PartIs
<1>3. QED
  BY <1>1, <1>2, Zenon

LEMMA JoinOfSeqs ==
    ASSUME NEW S, NEW s \in Seq(S), NEW t \in Seq(S)
    PROVE  \E f \in Seq(S) : JoinIs(f, s, t)
<1>1. /\ s \o t \in Seq(S) /\ Len(s \o t) = Len(s) + Len(t)
      /\ \A k \in 1 .. Len(s) : (s \o t)[k] = s[k]
      /\ \A k \in 1 .. Len(t) : (s \o t)[Len(s) + k] = t[k]
  OBVIOUS
<1>2. JoinIs(s \o t, s, t)
  BY <1>1, Zenon DEF JoinIs
<1>3. QED
  BY <1>1, <1>2, Zenon

ExceptIs(e, s, l, v) ==
    /\ e = [s EXCEPT ![l] = v] /\ Len(e) = Len(s)
    /\ \A k \in 1 .. Len(s) : e[k] = IF k = l THEN v ELSE s[k]

LEMMA ExceptOfSeq ==
    ASSUME NEW S, NEW s \in Seq(S), NEW l \in 1 .. Len(s), NEW v \in S
    PROVE  \E e \in Seq(S) : ExceptIs(e, s, l, v)
<1>1. /\ [s EXCEPT ![l] = v] \in Seq(S) /\ Len([s EXCEPT ![l] = v]) = Len(s)
      /\ \A k \in 1 .. Len(s) : [s EXCEPT ![l] = v][k] = IF k = l THEN v ELSE s[k]
  BY ExceptSeq
<1>2. ExceptIs([s EXCEPT ![l] = v], s, l, v)
  BY <1>1, Zenon DEF ExceptIs
<1>3. QED
  BY <1>1, <1>2, Zenon

(* The front of two sequences joined is that of the first.                 *)
LEMMA FrontOfJoin ==
    ASSUME NEW S, NEW s \in Seq(S), NEW t \in Seq(S), NEW n \in Nat, n <= Len(s)
    PROVE  SubSeq(s \o t, 1, n) = SubSeq(s, 1, n)
<1>1. PICK j \in Seq(S) : JoinIs(j, s, t)
  BY JoinOfSeqs
<1>2. PICK f \in Seq(S) : FrontIs(f, j, n)
  <2>1. n <= Len(j)
    BY <1>1 DEF JoinIs
  <2>2. QED
    BY <2>1, FrontOfSeq
<1>3. PICK g \in Seq(S) : FrontIs(g, s, n)
  BY FrontOfSeq
<1>4. Len(f) = Len(g) /\ \A k \in 1 .. Len(f) : f[k] = g[k]
  BY <1>1, <1>2, <1>3 DEF JoinIs, FrontIs
<1>5. f = g
  BY <1>4, SeqEqual
<1>6. QED
  BY <1>1, <1>2, <1>3, <1>5 DEF JoinIs, FrontIs

(* A part of the front of a sequence is a part of the sequence.            *)
LEMMA PartOfFront ==
    ASSUME NEW S, NEW s \in Seq(S), NEW l \in Nat, l <= Len(s),
           NEW m \in Nat, NEW n \in Nat, n <= l
    PROVE  SubSeq(SubSeq(s, 1, l), m + 1, n) = SubSeq(s, m + 1, n)
<1>1. PICK f \in Seq(S) : FrontIs(f, s, l)
  BY FrontOfSeq
<1>2. CASE m <= n
  <2>1. PICK p \in Seq(S) : PartIs(p, f, m, n)
    <3>1. n <= Len(f)
      BY <1>1 DEF FrontIs
    <3>2. QED
      BY <1>2, <3>1, PartOfSeq
  <2>2. PICK q \in Seq(S) : PartIs(q, s, m, n)
    <3>1. n <= Len(s)
      OBVIOUS
    <3>2. QED
      BY <1>2, <3>1, PartOfSeq
  <2>3. \A k \in 1 .. n - m : p[k] = q[k]
    <3> TAKE k \in 1 .. n - m
    <3>1. m + k \in 1 .. l
      BY <1>2
    <3>2. QED
      BY <1>1, <2>1, <2>2, <3>1 DEF FrontIs, PartIs
  <2>4. Len(p) = Len(q) /\ \A k \in 1 .. Len(p) : p[k] = q[k]
    BY <2>1, <2>2, <2>3 DEF PartIs
  <2>5. p = q
    BY <2>4, SeqEqual
  <2>6. QED
    BY <1>1, <2>1, <2>2, <2>5, Zenon DEF FrontIs, PartIs
<1>3. CASE ~(m <= n)
  <2>1. n < m + 1 /\ m + 1 \in Int /\ n \in Int
    BY <1>3
  <2>2. QED
    BY <2>1, SubSeqEmpty
<1>4. QED
  BY <1>2, <1>3

LEMMA OnePart ==
    ASSUME NEW S, NEW s \in Seq(S), NEW m \in Nat, m + 1 <= Len(s)
    PROVE  SubSeq(s, m + 1, m + 1) = <<s[m + 1]>>
<1>1. PICK n \in Nat : n = m + 1 /\ n <= Len(s) /\ m <= n /\ n - m = 1
  OBVIOUS
<1>2. PICK p \in Seq(S) : PartIs(p, s, m, n)
  BY <1>1, PartOfSeq
<1>3. Len(p) = 1 /\ p[1] = s[n]
  BY <1>1, <1>2 DEF PartIs
<1>4. n \in 1 .. Len(s)
  BY <1>1
<1>5. s[n] \in S
  BY <1>4, ElementOfSeq
<1>6. <<s[n]>> \in Seq(S) /\ Len(<<s[n]>>) = 1 /\ <<s[n]>>[1] = s[n]
  BY <1>5
<1>7. p = <<s[n]>>
  <2>1. PICK t \in Seq(S) : t = <<s[n]>> /\ Len(t) = 1 /\ t[1] = s[n]
    BY <1>6
  <2>2. Len(p) = Len(t) /\ \A k \in 1 .. Len(p) : p[k] = t[k]
    BY <1>3, <2>1
  <2>3. QED
    BY <2>1, <2>2, SeqEqual
<1>8. QED
  BY <1>1, <1>2, <1>7, Zenon DEF PartIs

(* What is written over a room, up to its end, and the room in front of it.  *)
LEMMA WrittenFront ==
    ASSUME NEW S, NEW room \in Seq(S), NEW s \in Seq(S), NEW n \in Nat,
           n + Len(s) <= Len(room)
    PROVE  SubSeq(Written(room, n, s), 1, n + Len(s)) = SubSeq(room, 1, n) \o s
<1>1. PICK a \in Nat, b \in Nat, c \in Nat : a = Len(s) /\ b = Len(room) /\ c = n + a /\ c <= b
  OBVIOUS
<1>2. PICK front \in Seq(S) : FrontIs(front, room, n)
  <2>1. n <= Len(room)
    BY <1>1
  <2>2. QED
    BY <2>1, FrontOfSeq
<1>3. PICK back \in Seq(S) : PartIs(back, room, c, b)
  <2>1. c <= b /\ b <= Len(room)
    BY <1>1
  <2>2. QED
    BY <2>1, PartOfSeq
<1>4. PICK t \in Seq(S) : JoinIs(t, front, s)
  BY JoinOfSeqs
<1>5. Written(room, n, s) = t \o back
  BY <1>1, <1>2, <1>3, <1>4, Zenon DEF Written, FrontIs, PartIs, JoinIs
<1>6. SubSeq(t \o back, 1, c) = SubSeq(t, 1, c) /\ SubSeq(t, 1, c) = t
  <2>1. Len(t) = c
    BY <1>1, <1>2, <1>4 DEF FrontIs, JoinIs
  <2>2. SubSeq(t, 1, Len(t)) = t
    BY SubSeqFull
  <2>3. c <= Len(t)
    BY <2>1
  <2>4. QED
    BY <2>1, <2>2, <2>3, FrontOfJoin
<1>7. QED
  BY <1>1, <1>2, <1>4, <1>5, <1>6, Zenon DEF FrontIs, JoinIs

(* What is read after s is written over the elements that follow n.        *)
LEMMA WrittenElements ==
    ASSUME NEW S, NEW room \in Seq(S), NEW s \in Seq(S), NEW n \in Nat,
           n + Len(s) <= Len(room), NEW k \in 1 .. Len(room)
    PROVE  Written(room, n, s)[k] = IF k <= n THEN room[k]
                                    ELSE IF k <= n + Len(s) THEN s[k - n] ELSE room[k]
<1>1. PICK a \in Nat, b \in Nat, c \in Nat : a = Len(s) /\ b = Len(room) /\ c = n + a /\ c <= b
  OBVIOUS
<1>2. PICK front \in Seq(S) : FrontIs(front, room, n)
  <2>1. n <= Len(room)
    BY <1>1
  <2>2. QED
    BY <2>1, FrontOfSeq
<1>3. PICK back \in Seq(S) : PartIs(back, room, c, b)
  <2>1. c <= b /\ b <= Len(room)
    BY <1>1
  <2>2. QED
    BY <2>1, PartOfSeq
<1>4. PICK t \in Seq(S) : JoinIs(t, front, s)
  BY JoinOfSeqs
<1>5. PICK w \in Seq(S) : JoinIs(w, t, back)
  BY JoinOfSeqs
<1>6. Written(room, n, s) = w
  BY <1>1, <1>2, <1>3, <1>4, <1>5, Zenon DEF Written, FrontIs, PartIs, JoinIs
<1>7. Len(front) = n /\ Len(t) = c /\ Len(back) = b - c
  BY <1>1, <1>2, <1>3, <1>4 DEF JoinIs, FrontIs, PartIs
<1>8. CASE k <= n
  BY <1>1, <1>2, <1>4, <1>5, <1>6, <1>7, <1>8 DEF JoinIs, FrontIs
<1>9. CASE ~(k <= n) /\ k <= c
  <2>1. PICK l \in 1 .. a : l = k - n /\ k = n + l
    <3>1. k - n \in 1 .. a
      BY <1>1, <1>9
    <3>2. QED
      BY <3>1
  <2>2. w[k] = t[k] /\ t[k] = s[l]
    BY <1>1, <1>4, <1>5, <1>7, <1>9, <2>1 DEF JoinIs
  <2>3. QED
    BY <1>1, <1>6, <1>9, <2>1, <2>2
<1>10. CASE ~(k <= c)
  <2>1. PICK l \in 1 .. b - c : k = c + l
    <3>1. k - c \in 1 .. b - c
      BY <1>1, <1>10
    <3>2. c + (k - c) = k
      BY <1>1
    <3>3. QED
      BY <3>1, <3>2
  <2>2. w[k] = back[l] /\ back[l] = room[k]
    BY <1>3, <1>5, <1>7, <2>1 DEF JoinIs, PartIs
  <2>3. QED
    BY <1>1, <1>6, <1>10, <2>2
<1>11. QED
  BY <1>1, <1>8, <1>9, <1>10

-----------------------------------------------------------------------------
(* What each operation does to the elements shown, that is to those before *)
(* back: the rest of the allocation never comes back as an element.        *)

Shown == SubSeq(cells, 1, length)

Answered(kind, items) == result' = Result(kind, items)

Refuses(error) == Shown' = Shown /\ Answered(error, <<>>)

LEMMA ShownFacts ==
    ASSUME IInv
    PROVE  /\ cells \in Seq(Values) /\ length \in Nat /\ length <= Len(cells)
           /\ Shown \in Seq(Values) /\ Len(Shown) = length
           /\ \A k \in 1 .. length : Shown[k] = cells[k]
<1>1. cells \in Seq(Values) /\ length \in Nat /\ length <= Len(cells)
  BY DEF IInv, TypeOK, Allocated, Capacity
<1>2. PICK f \in Seq(Values) : FrontIs(f, cells, length)
  BY <1>1, FrontOfSeq
<1>3. f = Shown
  BY <1>2 DEF FrontIs, Shown
<1>4. QED
  BY <1>1, <1>2, <1>3 DEF FrontIs

(* A part of the elements shown is a part of the cells.                    *)
LEMMA ShownPart ==
    ASSUME IInv, NEW m \in Nat, NEW n \in Nat, n <= length
    PROVE  SubSeq(Shown, m + 1, n) = SubSeq(cells, m + 1, n)
BY ShownFacts, PartOfFront DEF Shown

(* The cells that are written up to the new length.                        *)
LEMMA ShownWritten ==
    ASSUME NEW room \in Seq(Values), NEW s \in Seq(Values), NEW n \in Nat,
           n + Len(s) <= Len(room), cells' = Written(room, n, s), length' = n + Len(s)
    PROVE  Shown' = SubSeq(room, 1, n) \o s
<1>1. Shown' = SubSeq(Written(room, n, s), 1, n + Len(s))
  BY DEF Shown
<1>2. QED
  BY <1>1, WrittenFront

LEMMA SameShown == ASSUME UNCHANGED <<length, cells>> PROVE Shown' = Shown
BY DEF Shown

LEMMA ThrowsShow == ASSUME NEW error, Throws(error) PROVE Refuses(error)
BY SameShown DEF Throws, Answers, Refuses, Answered, arrayVars

LEMMA OutOfRangeShows ==
    ASSUME OutOfRange, ~corrupted'
    PROVE  safe /\ Refuses("out_of_range")
BY ThrowsShow DEF OutOfRange, Corrupts

LEMMA DefaultShows ==
    ASSUME DefaultValue, ~corrupted'
    PROVE  safe /\ Shown' = Shown /\ Answered("value", <<Default>>)
BY SameShown DEF DefaultValue, Corrupts, Answers, Answered, arrayVars

LEMMA CreateShows ==
    ASSUME NEW n \in Int, Create(n), ~corrupted'
    PROVE  IF n < 0 THEN safe /\ Refuses("out_of_range")
           ELSE /\ Shown' = [k \in 1 .. n |-> IF safe THEN Default ELSE Junk]
                /\ result' = Nothing
<1>1. CASE n < 0
  BY <1>1, OutOfRangeShows DEF Create
<1>2. CASE ~(n < 0)
  <2>1. length' = n /\ cells' = [k \in 1 .. n |-> IF safe THEN Default ELSE Junk] /\ result' = Nothing
    BY <1>2 DEF Create, Corrupts, Answers
  <2>2. PICK v \in Values : v = IF safe THEN Default ELSE Junk
    BY ArrayAssumption
  <2>3. PICK m \in Nat : m = n
    BY <1>2
  <2>4. PICK s \in Seq(Values) : s = [k \in 1 .. m |-> v]
    <3>1. [k \in 1 .. m |-> v] \in Seq(Values)
      BY Repeated
    <3>2. QED
      BY <3>1
  <2>5. Shown' = SubSeq(s, 1, Len(s))
    <3>1. cells' = s /\ length' = m
      BY <2>1, <2>2, <2>3, <2>4
    <3>2. Len(s) = m
      BY <2>4
    <3>3. QED
      BY <3>1, <3>2, Zenon DEF Shown
  <2>6. Shown' = s
    BY <2>5, SubSeqFull
  <2>7. QED
    BY <1>2, <2>1, <2>2, <2>3, <2>4, <2>6, Zenon
<1>3. QED
  BY <1>1, <1>2

LEMMA FromElementsShows ==
    ASSUME NEW s \in Items, FromElements(s)
    PROVE  Shown' = s /\ result' = Nothing
<1>1. s \in Seq(Values)
  BY ArrayAssumption
<1>2. Shown' = SubSeq(s, 1, Len(s))
  BY DEF Shown, FromElements
<1>3. QED
  BY <1>1, <1>2, SubSeqFull DEF FromElements, Answers

LEMMA GetShows ==
    ASSUME IInv, NEW i \in Int, Get(i), ~corrupted'
    PROVE  IF Outside(FromBegin(i))
           THEN safe /\ Shown' = Shown /\ Answered("value", <<Default>>)
           ELSE /\ Index(FromBegin(i)) + 1 \in 1 .. length
                /\ Shown' = Shown /\ Answered("value", <<Shown[Index(FromBegin(i)) + 1]>>)
<1>1. CASE Outside(FromBegin(i))
  BY <1>1, DefaultShows DEF Get
<1>2. CASE ~Outside(FromBegin(i))
  <2>1. PICK k \in 1 .. length : k = Index(FromBegin(i)) + 1
    BY <1>2, ElementFacts, PointersAreInts
  <2>2. result' = Result("value", <<cells[k]>>) /\ UNCHANGED <<length, cells>>
    BY <1>2, <2>1 DEF Get, Answers, arrayVars
  <2>3. Shown[k] = cells[k]
    BY ShownFacts
  <2>4. QED
    BY <1>2, <2>1, <2>2, <2>3, SameShown, Zenon DEF Answered
<1>3. QED
  BY <1>1, <1>2

LEMMA SetShows ==
    ASSUME IInv, NEW i \in Int, NEW v \in Values, Set(i, v), ~corrupted'
    PROVE  IF Outside(FromBegin(i)) THEN safe /\ Refuses("out_of_range")
           ELSE /\ Index(FromBegin(i)) + 1 \in 1 .. length
                /\ Shown' = [Shown EXCEPT ![Index(FromBegin(i)) + 1] = v]
                /\ result' = Nothing
<1>1. CASE Outside(FromBegin(i))
  BY <1>1, OutOfRangeShows DEF Set
<1>2. CASE ~Outside(FromBegin(i))
  <2>1. PICK k \in 1 .. length : k = Index(FromBegin(i)) + 1
    BY <1>2, ElementFacts, PointersAreInts
  <2>2. /\ cells' = [cells EXCEPT ![k] = v] /\ length' = length /\ result' = Nothing
    BY <1>2, <2>1 DEF Set, Answers
  <2>3. /\ cells \in Seq(Values) /\ length \in Nat /\ length <= Len(cells)
        /\ Shown \in Seq(Values) /\ Len(Shown) = length
        /\ \A l \in 1 .. length : Shown[l] = cells[l]
    BY ShownFacts
  <2>4. PICK d \in Seq(Values) : ExceptIs(d, cells, k, v)
    <3>1. k \in 1 .. Len(cells)
      BY <2>3
    <3>2. QED
      BY <2>3, <3>1, ExceptOfSeq
  <2>5. PICK e \in Seq(Values) : ExceptIs(e, Shown, k, v)
    <3>1. k \in 1 .. Len(Shown)
      BY <2>3
    <3>2. QED
      BY <2>3, <3>1, ExceptOfSeq
  <2>6. PICK f \in Seq(Values) : FrontIs(f, d, length)
    <3>1. length <= Len(d)
      BY <2>3, <2>4 DEF ExceptIs
    <3>2. QED
      BY <2>3, <3>1, FrontOfSeq
  <2>7. \A l \in 1 .. length : f[l] = e[l]
    <3> TAKE l \in 1 .. length
    <3>1. l \in 1 .. Len(cells)
      BY <2>3
    <3>2. f[l] = d[l]
      BY <2>6 DEF FrontIs
    <3>3. QED
      BY <2>3, <2>4, <2>5, <3>1, <3>2 DEF ExceptIs
  <2>8. f = e
    <3>1. Len(f) = Len(e) /\ \A l \in 1 .. Len(f) : f[l] = e[l]
      BY <2>3, <2>5, <2>6, <2>7 DEF FrontIs, ExceptIs
    <3>2. QED
      BY <3>1, SeqEqual
  <2>9. Shown' = f
    BY <2>2, <2>4, <2>6, Zenon DEF Shown, FrontIs, ExceptIs
  <2>10. QED
    BY <1>2, <2>1, <2>2, <2>5, <2>8, <2>9, Zenon DEF ExceptIs
<1>3. QED
  BY <1>1, <1>2

Filled(s, a, b, v) == [k \in 1 .. Len(s) |-> IF k \in a + 1 .. b THEN v ELSE s[k]]

FillEnd(i, j) == IF safe THEN Least(Most(Relative(j), FillStart(i)), Back) ELSE Relative(j)

LEMMA FillShows ==
    ASSUME IInv, NEW i \in Int, NEW j \in Int, NEW v \in Values, Fill(v, i, j), ~corrupted'
    PROVE  /\ Within(FillStart(i), FillEnd(i, j))
           /\ Shown' = Filled(Shown, Index(FillStart(i)), Index(FillEnd(i, j)), v)
           /\ result' = Nothing
<1>1. FillStart(i) \in Int /\ FillEnd(i, j) \in Int
  BY PointersAreInts, BackFacts, ArrayAssumption DEF IInv, TypeOK, FillStart, FillEnd, Least, Most
<1>2. Within(FillStart(i), FillEnd(i, j))
  BY DEF Fill, Corrupts, FillEnd
<1>3. PICK a \in 0 .. length, b \in 0 .. length :
          a = Index(FillStart(i)) /\ b = Index(FillEnd(i, j)) /\ a <= b
  BY <1>1, <1>2, WithinFacts
<1>4. /\ cells' = Written(cells, a, [k \in 1 .. b - a |-> v])
      /\ length' = length /\ result' = Nothing
  BY <1>2, <1>3 DEF Fill, Answers, FillEnd
<1>5. /\ cells \in Seq(Values) /\ length \in Nat /\ length <= Len(cells)
      /\ Shown \in Seq(Values) /\ Len(Shown) = length
      /\ \A k \in 1 .. length : Shown[k] = cells[k]
  BY ShownFacts
<1>6. PICK n \in Nat : n = b - a
  <2>1. b - a \in Nat
    BY <1>3, <1>5
  <2>2. QED
    BY <2>1
<1>7. PICK t \in Seq(Values) : t = [k \in 1 .. n |-> v] /\ Len(t) = n
  <2>1. [k \in 1 .. n |-> v] \in Seq(Values) /\ Len([k \in 1 .. n |-> v]) = n
    BY Repeated
  <2>2. QED
    BY <2>1
<1>8. a \in Nat /\ a + Len(t) <= Len(cells) /\ a + Len(t) = b
  BY <1>3, <1>5, <1>6, <1>7
<1>9. PICK w \in Seq(Values) : w = Written(cells, a, t) /\ Len(w) = Len(cells)
  BY <1>5, <1>8, WrittenFacts
<1>10. PICK f \in Seq(Values) : FrontIs(f, w, length)
  <2>1. length <= Len(w)
    BY <1>5, <1>9
  <2>2. QED
    BY <1>5, <2>1, FrontOfSeq
<1>11. Shown' = f
  BY <1>4, <1>6, <1>7, <1>9, <1>10, Zenon DEF Shown, FrontIs
<1>12. PICK g \in Seq(Values) : g = Filled(Shown, a, b, v) /\ Len(g) = length
  <2>1. Filled(Shown, a, b, v) \in Seq(Values) /\ Len(Filled(Shown, a, b, v)) = length
    BY <1>5 DEF Filled
  <2>2. QED
    BY <2>1
<1>13. ASSUME NEW k \in 1 .. length PROVE f[k] = g[k]
  <2>1. k \in 1 .. Len(cells)
    BY <1>5
  <2>2. f[k] = w[k] /\ g[k] = IF k \in a + 1 .. b THEN v ELSE Shown[k]
    BY <1>5, <1>10, <1>12 DEF FrontIs, Filled
  <2>3. w[k] = IF k <= a THEN cells[k] ELSE IF k <= b THEN t[k - a] ELSE cells[k]
    <3>1. Written(cells, a, t)[k] = IF k <= a THEN cells[k]
                                    ELSE IF k <= a + Len(t) THEN t[k - a] ELSE cells[k]
      BY <1>5, <1>8, <2>1, WrittenElements
    <3>2. QED
      BY <1>8, <1>9, <3>1, Zenon
  <2>4. CASE k \in a + 1 .. b
    <3>1. k - a \in 1 .. n /\ ~(k <= a) /\ k <= b
      BY <1>6, <1>8, <2>4
    <3>2. t[k - a] = v
      BY <1>7, <3>1
    <3>3. QED
      BY <2>2, <2>3, <2>4, <3>1, <3>2
  <2>5. CASE ~(k \in a + 1 .. b)
    <3>1. k <= a \/ ~(k <= b)
      BY <1>3, <1>5, <2>5
    <3>2. Shown[k] = cells[k]
      BY <1>5
    <3>3. QED
      BY <2>2, <2>3, <2>5, <3>1, <3>2
  <2>6. QED
    BY <2>4, <2>5
<1>14. f = g
  <2>1. Len(f) = Len(g) /\ \A k \in 1 .. Len(f) : f[k] = g[k]
    BY <1>10, <1>12, <1>13 DEF FrontIs
  <2>2. QED
    BY <2>1, SeqEqual
<1>15. QED
  BY <1>2, <1>3, <1>4, <1>11, <1>12, <1>14, Zenon

Orders(order, s) ==
    /\ order \in [1 .. Len(s) -> 1 .. Len(s)]
    /\ \A k, l \in 1 .. Len(s) : k # l => order[k] # order[l]
    /\ \A k \in 1 .. Len(s) - 1 : s[order[k]] <= s[order[k + 1]]

LEMMA SortShows ==
    ASSUME IInv, Sort
    PROVE  \E order : /\ Orders(order, Shown) /\ result' = Nothing
                      /\ Shown' = [k \in 1 .. Len(Shown) |-> Shown[order[k]]]
<1>1. PICK order \in [1 .. length -> 1 .. length] :
          /\ \A k, l \in 1 .. length : k # l => order[k] # order[l]
          /\ \A k \in 1 .. length - 1 : cells[order[k]] <= cells[order[k + 1]]
          /\ cells' = Written(cells, 0, [k \in 1 .. length |-> cells[order[k]]])
  BY DEF Sort
<1>2. length' = length /\ result' = Nothing
  BY DEF Sort, Answers
<1>3. /\ cells \in Seq(Values) /\ length \in Nat /\ length <= Len(cells)
      /\ Shown \in Seq(Values) /\ Len(Shown) = length
      /\ \A k \in 1 .. length : Shown[k] = cells[k]
  BY ShownFacts
<1>4. \A k \in 1 .. length : order[k] \in 1 .. length /\ Shown[order[k]] = cells[order[k]]
  BY <1>1, <1>3
<1>5. [k \in 1 .. length |-> cells[order[k]]] = [k \in 1 .. length |-> Shown[order[k]]]
  BY <1>4
<1>6. PICK t \in Seq(Values) : /\ t = [k \in 1 .. length |-> Shown[order[k]]]
                               /\ Len(t) = length
  <2>1. /\ [k \in 1 .. length |-> Shown[order[k]]] \in Seq(Values)
        /\ Len([k \in 1 .. length |-> Shown[order[k]]]) = length
    BY <1>1, <1>3
  <2>2. QED
    BY <2>1
<1>7. Shown' = SubSeq(cells, 1, 0) \o t
  <2>1. 0 \in Nat /\ 0 + Len(t) <= Len(cells) /\ length' = 0 + Len(t)
    BY <1>2, <1>3, <1>6
  <2>2. cells' = Written(cells, 0, t)
    BY <1>1, <1>5, <1>6, Zenon
  <2>3. QED
    BY <1>3, <2>1, <2>2, ShownWritten
<1>8. Shown' = t
  <2>1. SubSeq(cells, 1, 0) = <<>>
    BY SubSeqEmpty
  <2>2. <<>> \o t = t
    BY ConcatEmptySeq
  <2>3. QED
    BY <1>7, <2>1, <2>2, Zenon
<1>9. Orders(order, Shown)
  <2>1. \A k \in 1 .. length - 1 : k \in 1 .. length /\ k + 1 \in 1 .. length
    BY <1>3
  <2>2. \A k \in 1 .. length - 1 : Shown[order[k]] <= Shown[order[k + 1]]
    BY <1>1, <1>4, <2>1
  <2>3. QED
    BY <1>1, <1>3, <2>2, Zenon DEF Orders
<1>10. QED
  BY <1>2, <1>3, <1>6, <1>8, <1>9, Zenon
-----------------------------------------------------------------------------
(* Room keeps the cells.                                                   *)
LEMMA RoomFront ==
    ASSUME IInv, NEW min \in Nat, NEW n \in Nat, n <= length
    PROVE  SubSeq(Room(min), 1, n) = SubSeq(Shown, 1, n)
<1>1. /\ cells \in Seq(Values) /\ length \in Nat /\ length <= Len(cells)
  BY ShownFacts
<1>2. PICK j \in Seq(Values) : j = Junks(NewCapacity(min) - Capacity)
  <2>1. NewCapacity(min) - Capacity \in Nat
    BY <1>1, NewCapacityFacts DEF Capacity
  <2>2. Junks(NewCapacity(min) - Capacity) \in Seq(Values)
    BY <2>1, JunksFacts
  <2>3. QED
    BY <2>2
<1>3. SubSeq(cells \o j, 1, n) = SubSeq(cells, 1, n)
  BY <1>1, FrontOfJoin
<1>4. Room(min) = cells \o j
  BY <1>2 DEF Room
<1>5. SubSeq(Shown, 1, n) = SubSeq(cells, 1, n)
  <2>1. SubSeq(Shown, 0 + 1, n) = SubSeq(cells, 0 + 1, n)
    BY ShownPart
  <2>2. QED
    BY <2>1
<1>6. QED
  BY <1>3, <1>4, <1>5, Zenon

(* Storing s after the first n of the elements that are shown.             *)
LEMMA ShownStored ==
    ASSUME IInv, NEW min \in Nat, NEW s \in Seq(Values), NEW n \in Nat, n <= length,
           n + Len(s) <= min, Stored(Room(min), n, s), length' = n + Len(s)
    PROVE  Shown' = SubSeq(Shown, 1, n) \o s
<1>1. PICK room \in Seq(Values) : room = Room(min) /\ Len(room) >= min
  <2>1. Room(min) \in Seq(Values) /\ Len(Room(min)) >= min
    BY ShownFacts, RoomFacts, NewCapacityFacts
  <2>2. QED
    BY <2>1
<1>2. n + Len(s) <= Len(room)
  BY <1>1
<1>3. cells' = Written(room, n, s)
  BY <1>1, <1>2 DEF Stored
<1>4. Shown' = SubSeq(room, 1, n) \o s
  BY <1>2, <1>3, ShownWritten
<1>5. SubSeq(room, 1, n) = SubSeq(Shown, 1, n)
  BY <1>1, RoomFront
<1>6. QED
  BY <1>4, <1>5, Zenon

LEMMA PushShows ==
    ASSUME IInv, NEW s \in Items, Push(s)
    PROVE  Shown' = Shown \o s /\ Answered("value", <<length + Len(s)>>)
<1>1. s \in Seq(Values) /\ length \in Nat /\ Shown \in Seq(Values) /\ Len(Shown) = length
  BY ShownFacts, ArrayAssumption
<1>2. /\ Stored(Room(length + Len(s)), length, s) /\ length' = length + Len(s)
      /\ Answered("value", <<length + Len(s)>>)
  BY DEF Push, Lengthened, Answered
<1>3. PICK min \in Nat : min = length + Len(s)
  BY <1>1
<1>4. Shown' = SubSeq(Shown, 1, length) \o s
  BY <1>1, <1>2, <1>3, ShownStored
<1>5. SubSeq(Shown, 1, length) = Shown
  BY <1>1, SubSeqFull
<1>6. QED
  BY <1>2, <1>4, <1>5, Zenon

LEMMA UnshiftShows ==
    ASSUME IInv, NEW s \in Items, Unshift(s)
    PROVE  Shown' = s \o Shown /\ Answered("value", <<length + Len(s)>>)
<1>1. s \in Seq(Values) /\ length \in Nat /\ Shown \in Seq(Values) /\ Len(Shown) = length
  BY ShownFacts, ArrayAssumption
<1>2. /\ Stored(Room(length + Len(s)), 0, s \o Shown) /\ length' = length + Len(s)
      /\ Answered("value", <<length + Len(s)>>)
  BY DEF Unshift, Lengthened, Answered, Shown
<1>3. PICK min \in Nat : min = length + Len(s)
  BY <1>1
<1>4. PICK t \in Seq(Values) : JoinIs(t, s, Shown)
  BY <1>1, JoinOfSeqs
<1>5. 0 \in Nat /\ 0 <= length /\ 0 + Len(t) <= min /\ length' = 0 + Len(t)
  BY <1>1, <1>2, <1>3, <1>4 DEF JoinIs
<1>6. Stored(Room(min), 0, t)
  BY <1>2, <1>3, <1>4, Zenon DEF JoinIs
<1>7. Shown' = SubSeq(Shown, 1, 0) \o t
  BY <1>5, <1>6, ShownStored
<1>8. SubSeq(Shown, 1, 0) = <<>> /\ <<>> \o t = t
  BY SubSeqEmpty, ConcatEmptySeq
<1>9. QED
  BY <1>2, <1>4, <1>7, <1>8, Zenon DEF JoinIs

LEMMA PopShows ==
    ASSUME IInv, Pop, ~corrupted'
    PROVE  IF length = 0 THEN safe /\ Shown' = Shown /\ Answered("value", <<Default>>)
           ELSE Shown' = SubSeq(Shown, 1, length - 1) /\ Answered("value", <<Shown[length]>>)
<1>1. CASE length = 0
  BY <1>1, DefaultShows DEF Pop
<1>2. CASE length # 0
  <2>1. length \in 1 .. length /\ length - 1 \in Nat /\ Shown[length] = cells[length]
    BY <1>2, ShownFacts
  <2>2. length' = length - 1 /\ cells' = cells /\ result' = Result("value", <<cells[length]>>)
    BY <1>2 DEF Pop, Answers
  <2>3. Shown' = SubSeq(cells, 1, length - 1)
    BY <2>2 DEF Shown
  <2>4. SubSeq(Shown, 1, length - 1) = SubSeq(cells, 1, length - 1)
    <3>1. PICK n \in Nat : n = length - 1 /\ n <= length
      BY <2>1, ShownFacts
    <3>2. SubSeq(Shown, 0 + 1, n) = SubSeq(cells, 0 + 1, n)
      BY <3>1, ShownPart
    <3>3. QED
      BY <3>1, <3>2
  <2>5. QED
    BY <1>2, <2>1, <2>2, <2>3, <2>4, Zenon DEF Answered
<1>3. QED
  BY <1>1, <1>2

LEMMA ShiftShows ==
    ASSUME IInv, Shift, ~corrupted'
    PROVE  IF length = 0 THEN safe /\ Shown' = Shown /\ Answered("value", <<Default>>)
           ELSE Shown' = SubSeq(Shown, 2, length) /\ Answered("value", <<Shown[1]>>)
<1>1. CASE length = 0
  BY <1>1, DefaultShows DEF Shift
<1>2. CASE length # 0
  <2>1. /\ 1 \in 1 .. length /\ Shown[1] = cells[1] /\ length \in Nat /\ length >= 1
        /\ cells \in Seq(Values) /\ length <= Len(cells)
    BY <1>2, ShownFacts
  <2>2. /\ length' = length - 1 /\ cells' = Written(cells, 0, SubSeq(cells, 2, length))
        /\ result' = Result("value", <<cells[1]>>)
    BY <1>2 DEF Shift, Answers
  <2>a. PICK one \in Nat : one = 1 /\ one + 1 = 2 /\ one <= length
    BY <2>1
  <2>3. SubSeq(Shown, 2, length) = SubSeq(cells, 2, length)
    <3>1. SubSeq(Shown, one + 1, length) = SubSeq(cells, one + 1, length)
      <4>1. length \in Nat /\ length <= length
        BY <2>1
      <4>2. QED
        BY <4>1, ShownPart
    <3>2. QED
      BY <2>a, <3>1, Zenon
  <2>4. PICK t \in Seq(Values) : t = SubSeq(cells, 2, length) /\ Len(t) = length - 1
    <3>1. PICK t \in Seq(Values) : PartIs(t, cells, one, length)
      BY <2>1, <2>a, PartOfSeq
    <3>2. t = SubSeq(cells, one + 1, length) /\ Len(t) = length - one
      BY <3>1, Zenon DEF PartIs
    <3>3. QED
      BY <2>a, <3>2, Zenon
  <2>5. 0 \in Nat /\ 0 + Len(t) <= Len(cells) /\ length' = 0 + Len(t)
    BY <2>1, <2>2, <2>4
  <2>6. cells' = Written(cells, 0, t)
    BY <2>2, <2>4, Zenon
  <2>7. Shown' = SubSeq(cells, 1, 0) \o t
    BY <2>1, <2>5, <2>6, ShownWritten
  <2>8. SubSeq(cells, 1, 0) = <<>> /\ <<>> \o t = t
    BY SubSeqEmpty, ConcatEmptySeq
  <2>9. QED
    BY <1>2, <2>1, <2>2, <2>3, <2>4, <2>7, <2>8, Zenon DEF Answered
<1>3. QED
  BY <1>1, <1>2

SliceStart(i) == IF safe THEN Least(Relative(i), Back) ELSE Relative(i)

SliceEnd(i, j) == IF safe THEN Most(SliceStart(i), Least(Relative(j), Back)) ELSE Relative(j)

LEMMA SliceShows ==
    ASSUME IInv, NEW i \in Int, NEW j \in Int, Slice(i, j), ~corrupted'
    PROVE  /\ Within(SliceStart(i), SliceEnd(i, j)) /\ Shown' = Shown
           /\ Answered("array", SubSeq(Shown, Index(SliceStart(i)) + 1, Index(SliceEnd(i, j))))
<1>1. SliceStart(i) \in Int /\ SliceEnd(i, j) \in Int
  BY PointersAreInts, BackFacts DEF SliceStart, SliceEnd, Least, Most
<1>2. Within(SliceStart(i), SliceEnd(i, j))
  BY DEF Slice, Corrupts, SliceStart, SliceEnd
<1>3. PICK a \in 0 .. length, b \in 0 .. length :
          a = Index(SliceStart(i)) /\ b = Index(SliceEnd(i, j)) /\ a <= b
  BY <1>1, <1>2, WithinFacts
<1>4. result' = Result("array", SubSeq(cells, a + 1, b)) /\ UNCHANGED <<length, cells>>
  BY <1>2, <1>3 DEF Slice, Copy, Answers, SliceStart, SliceEnd, arrayVars
<1>5. SubSeq(Shown, a + 1, b) = SubSeq(cells, a + 1, b)
  <2>1. a \in Nat /\ b \in Nat /\ b <= length
    BY ShownFacts
  <2>2. QED
    BY <2>1, ShownPart
<1>6. QED
  BY <1>2, <1>3, <1>4, <1>5, SameShown, Zenon DEF Answered

(* The elements after count of them have been replaced by s.               *)
Spliced(elements, index, count, s) ==
    SubSeq(elements, 1, index) \o (s \o SubSeq(elements, index + count + 1, Len(elements)))

LEMMA SpliceShows ==
    ASSUME IInv, NEW i \in Int, NEW n \in Int, NEW s \in Seq(Values), Splice(i, n, s),
           ~corrupted'
    PROVE  /\ ~SpliceOutside(i, n)
           /\ \/ Refuses("bad_alloc")
              \/ \E index \in Nat, count \in Nat :
                    /\ index = SpliceStart(i) /\ count = SpliceCount(index, n)
                    /\ index + count <= length
                    /\ Shown' = Spliced(Shown, index, count, s)
                    /\ Answered("array", SubSeq(Shown, index + 1, index + count))
<1>0. /\ cells \in Seq(Values) /\ length \in Nat /\ length <= Len(cells)
      /\ Shown \in Seq(Values) /\ Len(Shown) = length
  BY ShownFacts
<1>1. PICK index \in Int, count \in Int :
          index = SpliceStart(i) /\ count = SpliceCount(index, n)
  <2>1. SpliceStart(i) \in Int
    BY <1>0 DEF SpliceStart, Least, Most
  <2>2. PICK index \in Int : index = SpliceStart(i)
    BY <2>1
  <2>3. SpliceCount(index, n) \in Int
    BY <1>0 DEF SpliceCount, Least, Most
  <2>4. QED
    BY <2>2, <2>3
<1>2. ~(index < 0 \/ count < 0 \/ index + count > length)
  BY <1>1 DEF Splice, Corrupts
<1>3. index \in Nat /\ count \in Nat /\ index + count <= length
  BY <1>0, <1>2
<1>4. PICK size \in Nat : size = Len(s)
  OBVIOUS
<1>5. PICK total \in Nat : total = length + Len(s) - count
  <2>1. length + size - count \in Nat
    BY <1>0, <1>3
  <2>2. QED
    BY <1>4, <2>1
<1>6. PICK min \in Nat : min = SpliceMin(count, s)
  <2>1. SpliceMin(count, s) = IF count < size THEN total ELSE 0
    BY <1>4, <1>5 DEF SpliceMin
  <2>2. QED
    BY <2>1
<1>7. \/ /\ length' = total
         /\ Stored(IF min = 0 THEN cells ELSE Room(min), index,
                   s \o SubSeq(cells, index + count + 1, length))
         /\ result' = Result("array", SubSeq(cells, index + 1, index + count))
      \/ NoCopy(IF min = 0 THEN cells ELSE Room(min))
  BY <1>1, <1>2, <1>5, <1>6, Zenon DEF Splice
<1>8. PICK room : room = IF min = 0 THEN cells ELSE Room(min)
  OBVIOUS
<1>9. room \in Seq(Values) /\ total <= Len(room)
  <2>1. CASE min = 0
    <3>1. total <= length
      BY <1>0, <1>3, <1>5, <1>6, <2>1 DEF SpliceMin
    <3>2. QED
      BY <1>0, <1>8, <2>1, <3>1
  <2>2. CASE min # 0
    <3>1. min = total
      BY <1>0, <1>3, <1>5, <1>6, <2>2 DEF SpliceMin
    <3>2. /\ Room(min) \in Seq(Values) /\ Len(Room(min)) = NewCapacity(min)
          /\ NewCapacity(min) >= min /\ NewCapacity(min) \in Nat
      BY <1>0, RoomFacts, NewCapacityFacts
    <3>3. QED
      BY <1>8, <2>2, <3>1, <3>2
  <2>3. QED
    BY <2>1, <2>2
<1>10. ASSUME NEW m \in Nat, m <= length PROVE SubSeq(room, 1, m) = SubSeq(Shown, 1, m)
  <2>1. CASE min = 0
    <3>1. SubSeq(Shown, 0 + 1, m) = SubSeq(cells, 0 + 1, m)
      BY <1>10, ShownPart
    <3>2. QED
      BY <1>8, <2>1, <3>1
  <2>2. CASE min # 0
    BY <1>8, <1>10, <2>2, RoomFront
  <2>3. QED
    BY <2>1, <2>2
<1>11. CASE NoCopy(room)
  <2>1. cells' = room /\ length' = length /\ result' = Result("bad_alloc", <<>>)
    BY <1>11 DEF NoCopy, Answers
  <2>2. Shown' = SubSeq(room, 1, length)
    BY <2>1 DEF Shown
  <2>3. SubSeq(room, 1, length) = SubSeq(Shown, 1, length)
    <3>1. length <= length
      BY <1>0
    <3>2. QED
      BY <1>0, <1>10, <3>1
  <2>4. SubSeq(Shown, 1, length) = Shown
    BY <1>0, SubSeqFull
  <2>5. Refuses("bad_alloc")
    BY <2>1, <2>2, <2>3, <2>4, Zenon DEF Refuses, Answered
  <2>6. QED
    BY <1>1, <1>2, <2>5, Zenon DEF SpliceOutside
<1>12. CASE ~NoCopy(room)
  <2>1. /\ length' = total
        /\ Stored(room, index, s \o SubSeq(cells, index + count + 1, length))
        /\ result' = Result("array", SubSeq(cells, index + 1, index + count))
    BY <1>7, <1>8, <1>12, Zenon
  <2>2. PICK m \in Nat : m = index + count /\ m <= length
    BY <1>3
  <2>3. PICK tail \in Seq(Values) : PartIs(tail, cells, m, length)
    BY <1>0, <2>2, PartOfSeq
  <2>4. PICK t \in Seq(Values) : JoinIs(t, s, tail)
    BY JoinOfSeqs
  <2>5. tail = SubSeq(cells, m + 1, length) /\ tail = SubSeq(Shown, m + 1, length)
    <3>1. length <= length
      BY <1>0
    <3>2. SubSeq(Shown, m + 1, length) = SubSeq(cells, m + 1, length)
      BY <1>0, <3>1, ShownPart
    <3>3. QED
      BY <2>3, <3>2, Zenon DEF PartIs
  <2>6. index + Len(t) = total
    <3>1. Len(tail) = length - m /\ Len(t) = size + Len(tail)
      BY <1>4, <2>3, <2>4 DEF PartIs, JoinIs
    <3>2. total = length + size - count
      BY <1>4, <1>5
    <3>3. QED
      BY <1>0, <1>3, <2>2, <3>1, <3>2
  <2>7. cells' = Written(room, index, t)
    <3>1. Stored(room, index, t)
      BY <2>1, <2>2, <2>4, <2>5, Zenon DEF JoinIs
    <3>2. index + Len(t) <= Len(room)
      BY <1>9, <2>6
    <3>3. QED
      BY <3>1, <3>2 DEF Stored
  <2>8. Shown' = SubSeq(room, 1, index) \o t
    <3>1. index + Len(t) <= Len(room) /\ length' = index + Len(t)
      BY <1>9, <2>1, <2>6
    <3>2. QED
      BY <1>3, <1>9, <2>7, <3>1, ShownWritten
  <2>9. SubSeq(room, 1, index) = SubSeq(Shown, 1, index)
    <3>1. index <= length
      BY <1>0, <1>3
    <3>2. QED
      BY <1>3, <1>10, <3>1
  <2>10. Shown' = Spliced(Shown, index, count, s)
    BY <1>0, <2>2, <2>4, <2>5, <2>8, <2>9, Zenon DEF Spliced, JoinIs
  <2>11. SubSeq(Shown, index + 1, m) = SubSeq(cells, index + 1, m)
    BY <1>3, <2>2, ShownPart
  <2>12. Answered("array", SubSeq(Shown, index + 1, index + count))
    BY <2>1, <2>2, <2>11, Zenon DEF Answered
  <2>13. QED
    BY <1>1, <1>2, <1>3, <2>10, <2>12, Zenon DEF SpliceOutside
<1>13. QED
  BY <1>11, <1>12

LEMMA ResizeShows ==
    ASSUME IInv, NEW n \in Int, Resize(n), ~corrupted'
    PROVE  \/ n < 0 /\ safe /\ Refuses("out_of_range")
           \/ n \in 0 .. length /\ Shown' = SubSeq(Shown, 1, n) /\ result' = Nothing
           \/ /\ n > length /\ result' = Nothing
              /\ \E t \in Seq(Values) :
                    /\ Len(t) = n - length /\ Shown' = Shown \o t
                    /\ safe => t = [k \in 1 .. n - length |-> Default]
<1>1. CASE n < 0
  BY <1>1, OutOfRangeShows DEF Resize
<1>2. CASE ~(n < 0)
  <2>1. /\ cells' = Cleared(Room(n), n) /\ length' = n /\ result' = Nothing
    BY <1>2 DEF Resize, Corrupts, Answers
  <2>2. /\ n \in Nat /\ length \in Nat /\ Shown \in Seq(Values) /\ Len(Shown) = length
        /\ cells \in Seq(Values)
    BY <1>2, ShownFacts
  <2>3. PICK room \in Seq(Values) : room = Room(n) /\ Len(room) >= n
    <3>1. Room(n) \in Seq(Values) /\ Len(Room(n)) >= n
      BY <2>2, RoomFacts, NewCapacityFacts
    <3>2. QED
      BY <3>1
  <2>4. CASE n <= length
    <3>1. cells' = room
      BY <2>1, <2>2, <2>3, <2>4 DEF Cleared
    <3>2. Shown' = SubSeq(room, 1, n)
      BY <2>1, <3>1 DEF Shown
    <3>3. SubSeq(room, 1, n) = SubSeq(Shown, 1, n)
      BY <2>2, <2>3, <2>4, RoomFront
    <3>4. n \in 0 .. length
      BY <2>2, <2>4
    <3>5. QED
      BY <2>1, <3>2, <3>3, <3>4, Zenon
  <2>5. CASE ~(n <= length)
    <3>1. PICK d \in Nat : d = n - length /\ length + d = n /\ n > length
      <4>1. n - length \in Nat /\ length + (n - length) = n /\ n > length
        BY <2>2, <2>5
      <4>2. QED
        BY <4>1
    <3>2. SubSeq(room, 1, length) = Shown
      <4>1. length <= length
        BY <2>2
      <4>2. SubSeq(room, 1, length) = SubSeq(Shown, 1, length)
        BY <2>2, <2>3, <4>1, RoomFront
      <4>3. SubSeq(Shown, 1, length) = Shown
        BY <2>2, SubSeqFull
      <4>4. QED
        BY <4>2, <4>3, Zenon
    <3>3. CASE safe
      <4>1. PICK t \in Seq(Values) : t = [k \in 1 .. d |-> Default] /\ Len(t) = d
        <5>1. Default \in Values
          BY ArrayAssumption
        <5>2. [k \in 1 .. d |-> Default] \in Seq(Values) /\ Len([k \in 1 .. d |-> Default]) = d
          BY <5>1, Repeated
        <5>3. QED
          BY <5>2
      <4>2. cells' = Written(room, length, t)
        BY <2>1, <2>3, <3>1, <3>3, <4>1 DEF Cleared
      <4>3. length + Len(t) <= Len(room) /\ length' = length + Len(t)
        BY <2>1, <2>3, <3>1, <4>1
      <4>4. Shown' = SubSeq(room, 1, length) \o t
        BY <2>2, <4>2, <4>3, ShownWritten
      <4>5. Shown' = Shown \o t
        BY <3>2, <4>4, Zenon
      <4>6. QED
        BY <2>1, <3>1, <4>1, <4>5, Zenon
    <3>4. CASE ~safe
      <4>1. cells' = room
        BY <2>1, <2>3, <3>4 DEF Cleared
      <4>2. PICK t \in Seq(Values) : PartIs(t, room, length, n)
        <5>1. length <= n
          BY <2>2, <3>1
        <5>2. QED
          BY <2>2, <2>3, <5>1, PartOfSeq
      <4>3. SubSeq(room, 1, length) \o SubSeq(room, length + 1, n) = SubSeq(room, 1, n)
        <5>1. /\ 1 \in 1 .. Len(room) + 1 /\ length \in 1 - 1 .. Len(room)
              /\ n \in length .. Len(room)
          BY <2>2, <2>3, <3>1
        <5>2. QED
          BY <5>1, ConcatAdjacentSubSeq
      <4>4. Shown' = SubSeq(room, 1, n)
        BY <2>1, <4>1 DEF Shown
      <4>5. Shown' = Shown \o t /\ Len(t) = n - length
        BY <3>2, <4>2, <4>3, <4>4, Zenon DEF PartIs
      <4>6. QED
        BY <2>1, <3>1, <3>4, <4>5, Zenon
    <3>5. QED
      BY <3>3, <3>4
  <2>6. QED
    BY <2>4, <2>5
<1>3. QED
  BY <1>1, <1>2

-----------------------------------------------------------------------------
(* What a safe build shows is initialised.                                 *)

CleanResult ==
    result.kind \in {"value", "array"} => \A k \in DOMAIN result.items : result.items[k] # Junk

LEMMA CleanJoin ==
    ASSUME NEW s \in Seq(Values), NEW t \in Seq(Values), Clean(s), Clean(t)
    PROVE  Clean(s \o t)
<1>1. PICK j \in Seq(Values) : JoinIs(j, s, t)
  BY JoinOfSeqs
<1>2. ASSUME NEW k \in 1 .. Len(j) PROVE j[k] # Junk
  <2>1. PICK a \in Nat, b \in Nat : a = Len(s) /\ b = Len(t) /\ Len(j) = a + b
    BY <1>1 DEF JoinIs
  <2>2. CASE k <= a
    BY <1>1, <2>1, <2>2 DEF JoinIs, Clean
  <2>3. CASE ~(k <= a)
    <3>1. PICK l \in 1 .. b : k = a + l
      <4>1. k - a \in 1 .. b /\ a + (k - a) = k
        BY <2>1, <2>3
      <4>2. QED
        BY <4>1
    <3>2. QED
      BY <1>1, <2>1, <3>1 DEF JoinIs, Clean
  <2>4. QED
    BY <2>2, <2>3
<1>3. QED
  BY <1>1, <1>2, Zenon DEF JoinIs, Clean

LEMMA CleanFront ==
    ASSUME NEW s \in Seq(Values), Clean(s), NEW n \in Nat, n <= Len(s)
    PROVE  SubSeq(s, 1, n) \in Seq(Values) /\ Clean(SubSeq(s, 1, n))
<1>1. PICK f \in Seq(Values) : FrontIs(f, s, n)
  BY FrontOfSeq
<1>2. Clean(f)
  BY <1>1 DEF FrontIs, Clean
<1>3. QED
  BY <1>1, <1>2, Zenon DEF FrontIs

LEMMA CleanPart ==
    ASSUME NEW s \in Seq(Values), Clean(s), NEW m \in Nat, NEW n \in Nat, n <= Len(s)
    PROVE  SubSeq(s, m + 1, n) \in Seq(Values) /\ Clean(SubSeq(s, m + 1, n))
<1>1. CASE m <= n
  <2>1. PICK f \in Seq(Values) : PartIs(f, s, m, n)
    BY <1>1, PartOfSeq
  <2>2. ASSUME NEW k \in 1 .. Len(f) PROVE f[k] # Junk
    <3>1. k \in 1 .. n - m /\ m + k \in 1 .. Len(s)
      BY <1>1, <2>1 DEF PartIs
    <3>2. QED
      BY <2>1, <3>1 DEF PartIs, Clean
  <2>3. QED
    BY <2>1, <2>2, Zenon DEF PartIs, Clean
<1>2. CASE ~(m <= n)
  <2>1. n < m + 1 /\ m + 1 \in Int
    BY <1>2
  <2>2. SubSeq(s, m + 1, n) = <<>>
    BY <2>1, SubSeqEmpty
  <2>3. <<>> \in Seq(Values) /\ Clean(<<>>)
    BY DEF Clean
  <2>4. QED
    BY <2>2, <2>3, Zenon
<1>3. QED
  BY <1>1, <1>2

LEMMA NothingClean == ASSUME result' = Nothing PROVE CleanResult'
BY DEF CleanResult, Nothing, Result

LEMMA RefusedClean == ASSUME NEW error, Answered(error, <<>>) PROVE CleanResult'
<1>1. result'.items = <<>>
  BY DEF Answered, Result
<1>2. DOMAIN <<>> = {}
  OBVIOUS
<1>3. QED
  BY <1>1, <1>2, Zenon DEF CleanResult

LEMMA ValueClean ==
    ASSUME NEW kind, NEW x, x # Junk, Answered(kind, <<x>>)
    PROVE  CleanResult'
<1>1. result'.items = <<x>>
  BY DEF Answered, Result
<1>2. DOMAIN <<x>> = {1} /\ <<x>>[1] = x
  OBVIOUS
<1>3. \A k \in DOMAIN <<x>> : <<x>>[k] # Junk
  BY <1>2
<1>4. QED
  BY <1>1, <1>3, Zenon DEF CleanResult

LEMMA ItemsClean ==
    ASSUME NEW kind, NEW items \in Seq(Values), Clean(items), Answered(kind, items)
    PROVE  CleanResult'
<1>1. result'.items = items
  BY DEF Answered, Result
<1>2. DOMAIN items = 1 .. Len(items)
  OBVIOUS
<1>3. QED
  BY <1>1, <1>2, Zenon DEF CleanResult, Clean

LEMMA ElementsStayClean ==
    ASSUME JunkApart, IInv, safe, Clean(Shown), ~corrupted', Elements
    PROVE  Clean(Shown') /\ CleanResult'
<1>0. /\ Shown \in Seq(Values) /\ length \in Nat /\ Len(Shown) = length
      /\ Default # Junk /\ \A k \in 1 .. length : Shown[k] # Junk
  BY ShownFacts DEF JunkApart, Clean
<1>1. ASSUME NEW n \in Ints, Create(n) PROVE Clean(Shown') /\ CleanResult'
  <2>1. n \in Int
    BY Arguments
  <2>2. CASE n < 0
    BY <1>1, <2>1, <2>2, CreateShows, RefusedClean DEF Refuses
  <2>3. CASE ~(n < 0)
    <3>1. PICK m \in Nat : m = n
      BY <2>1, <2>3
    <3>2. Shown' = [k \in 1 .. m |-> Default] /\ result' = Nothing
      BY <1>1, <2>1, <2>3, <3>1, CreateShows
    <3>3. Clean([k \in 1 .. m |-> Default])
      BY <1>0 DEF Clean
    <3>4. QED
      BY <3>2, <3>3, NothingClean, Zenon
  <2>4. QED
    BY <2>2, <2>3
<1>2. ASSUME NEW s \in Items, FromElements(s) PROVE Clean(Shown') /\ CleanResult'
  BY <1>2, FromElementsShows, NothingClean DEF JunkApart
<1>3. ASSUME NEW i \in Ints, Get(i) PROVE Clean(Shown') /\ CleanResult'
  <2>1. i \in Int
    BY Arguments
  <2>2. CASE Outside(FromBegin(i))
    <3>1. Shown' = Shown /\ Answered("value", <<Default>>)
      BY <1>3, <2>1, <2>2, GetShows
    <3>2. QED
      BY <1>0, <3>1, ValueClean
  <2>3. CASE ~Outside(FromBegin(i))
    <3>1. PICK k \in 1 .. length : Shown' = Shown /\ Answered("value", <<Shown[k]>>)
      BY <1>3, <2>1, <2>3, GetShows
    <3>2. QED
      BY <1>0, <3>1, ValueClean
  <2>4. QED
    BY <2>2, <2>3
<1>4. ASSUME NEW i \in Ints, NEW v \in Values \ {Junk}, Set(i, v)
      PROVE  Clean(Shown') /\ CleanResult'
  <2>1. i \in Int
    BY Arguments
  <2>2. CASE Outside(FromBegin(i))
    BY <1>4, <2>1, <2>2, SetShows, RefusedClean DEF Refuses
  <2>3. CASE ~Outside(FromBegin(i))
    <3>1. PICK k \in 1 .. length : Shown' = [Shown EXCEPT ![k] = v] /\ result' = Nothing
      BY <1>4, <2>1, <2>3, SetShows
    <3>2. PICK e \in Seq(Values) : ExceptIs(e, Shown, k, v)
      BY <1>0, ExceptOfSeq
    <3>3. Clean(e)
      BY <1>0, <3>2 DEF ExceptIs, Clean
    <3>4. QED
      BY <3>1, <3>2, <3>3, NothingClean, Zenon DEF ExceptIs
  <2>4. QED
    BY <2>2, <2>3
<1>5. ASSUME NEW i \in Ints \cup {length}, NEW j \in Ints \cup {length},
             NEW v \in Values \ {Junk}, Fill(v, i, j)
      PROVE  Clean(Shown') /\ CleanResult'
  <2>1. i \in Int /\ j \in Int
    BY Arguments
  <2>2. PICK a, b : Shown' = Filled(Shown, a, b, v) /\ result' = Nothing
    BY <1>5, <2>1, FillShows
  <2>3. Clean(Filled(Shown, a, b, v))
    BY <1>0 DEF Clean, Filled
  <2>4. QED
    BY <2>2, <2>3, NothingClean, Zenon
<1>6. QED
  BY <1>1, <1>2, <1>3, <1>4, <1>5, Zenon DEF Elements

LEMMA EndsStayClean ==
    ASSUME JunkApart, IInv, safe, UNCHANGED safe, Clean(Shown), ~corrupted', Ends
    PROVE  Clean(Shown') /\ CleanResult'
<1>0. /\ Shown \in Seq(Values) /\ length \in Nat /\ Len(Shown) = length
      /\ Default # Junk /\ \A k \in 1 .. length : Shown[k] # Junk
  BY ShownFacts DEF JunkApart, Clean
<1>1. ASSUME NEW s \in Items, Push(s) \/ Unshift(s) PROVE Clean(Shown') /\ CleanResult'
  <2>1. s \in Seq(Values) /\ Clean(s)
    BY ArrayAssumption DEF JunkApart
  <2>2. Clean(Shown \o s) /\ Clean(s \o Shown)
    BY <1>0, <2>1, CleanJoin
  <2>3. Clean(Shown') /\ Answered("value", <<length + Len(s)>>)
    BY <1>1, <2>2, PushShows, UnshiftShows
  <2>4. length + Len(s) # Junk
    <3>1. length + Len(s) <= MaxLength
      BY <1>1 DEF Push, Unshift, Lengthened
    <3>2. length + Len(s) \in 0 .. MaxLength
      BY <1>0, <2>1, <3>1, ArrayAssumption
    <3>3. QED
      BY <3>2 DEF JunkApart
  <2>5. QED
    BY <2>3, <2>4, ValueClean
<1>2. ASSUME Pop PROVE Clean(Shown') /\ CleanResult'
  <2>1. CASE length = 0
    <3>1. Shown' = Shown /\ Answered("value", <<Default>>)
      BY <1>2, <2>1, PopShows
    <3>2. QED
      BY <1>0, <3>1, ValueClean
  <2>2. CASE length # 0
    <3>1. Shown' = SubSeq(Shown, 1, length - 1) /\ Answered("value", <<Shown[length]>>)
      BY <1>2, <2>2, PopShows
    <3>2. PICK n \in Nat : n = length - 1 /\ n <= Len(Shown)
      BY <1>0, <2>2
    <3>3. Clean(SubSeq(Shown, 1, n))
      BY <1>0, <3>2, CleanFront
    <3>4. Shown[length] # Junk
      BY <1>0, <2>2
    <3>5. QED
      BY <3>1, <3>2, <3>3, <3>4, ValueClean, Zenon
  <2>3. QED
    BY <2>1, <2>2
<1>3. ASSUME Shift PROVE Clean(Shown') /\ CleanResult'
  <2>1. CASE length = 0
    <3>1. Shown' = Shown /\ Answered("value", <<Default>>)
      BY <1>3, <2>1, ShiftShows
    <3>2. QED
      BY <1>0, <3>1, ValueClean
  <2>2. CASE length # 0
    <3>1. Shown' = SubSeq(Shown, 2, length) /\ Answered("value", <<Shown[1]>>)
      BY <1>3, <2>2, ShiftShows
    <3>2. PICK one \in Nat : one + 1 = 2 /\ length <= Len(Shown) /\ 1 \in 1 .. length
      BY <1>0, <2>2
    <3>3. Clean(SubSeq(Shown, one + 1, length))
      BY <1>0, <3>2, CleanPart
    <3>4. Shown[1] # Junk
      BY <1>0, <3>2
    <3>5. QED
      BY <3>1, <3>2, <3>3, <3>4, ValueClean, Zenon
  <2>3. QED
    BY <2>1, <2>2
<1>4. QED
  BY <1>1, <1>2, <1>3, Zenon DEF Ends

LEMMA SpliceStaysClean ==
    ASSUME JunkApart, IInv, Clean(Shown), ~corrupted',
           NEW i \in Int, NEW n \in Int, NEW s \in Seq(Values), Clean(s), Splice(i, n, s)
    PROVE  Clean(Shown') /\ CleanResult'
<1>0. Shown \in Seq(Values) /\ length \in Nat /\ Len(Shown) = length
  BY ShownFacts
<1>1. CASE Refuses("bad_alloc")
  BY <1>1, RefusedClean DEF Refuses
<1>2. CASE ~Refuses("bad_alloc")
  <2>1. PICK index \in Nat, count \in Nat :
            /\ index + count <= length
            /\ Shown' = Spliced(Shown, index, count, s)
            /\ Answered("array", SubSeq(Shown, index + 1, index + count))
    BY <1>2, SpliceShows
  <2>2. PICK m \in Nat : m = index + count /\ m <= Len(Shown) /\ index <= Len(Shown)
    BY <1>0, <2>1
  <2>3. SubSeq(Shown, 1, index) \in Seq(Values) /\ Clean(SubSeq(Shown, 1, index))
    BY <1>0, <2>2, CleanFront
  <2>4. PICK tail \in Seq(Values) : tail = SubSeq(Shown, m + 1, length) /\ Clean(tail)
    <3>1. length <= Len(Shown)
      BY <1>0
    <3>2. SubSeq(Shown, m + 1, length) \in Seq(Values) /\ Clean(SubSeq(Shown, m + 1, length))
      BY <1>0, <3>1, CleanPart
    <3>3. QED
      BY <3>2
  <2>5. PICK t \in Seq(Values) : JoinIs(t, s, tail)
    BY JoinOfSeqs
  <2>6. Clean(t)
    BY <2>4, <2>5, CleanJoin DEF JoinIs
  <2>7. Shown' = SubSeq(Shown, 1, index) \o t
    BY <1>0, <2>1, <2>2, <2>4, <2>5, Zenon DEF Spliced, JoinIs
  <2>8. Clean(Shown')
    <3>1. Clean(SubSeq(Shown, 1, index) \o t)
      BY <2>3, <2>6, CleanJoin
    <3>2. QED
      BY <2>7, <3>1, Zenon
  <2>9. SubSeq(Shown, index + 1, m) \in Seq(Values) /\ Clean(SubSeq(Shown, index + 1, m))
    BY <1>0, <2>2, CleanPart
  <2>10. Answered("array", SubSeq(Shown, index + 1, m))
    BY <2>1, <2>2, Zenon
  <2>11. QED
    BY <2>8, <2>9, <2>10, ItemsClean, Zenon
<1>3. QED
  BY <1>1, <1>2

LEMMA RangesStayClean ==
    ASSUME JunkApart, IInv, safe, UNCHANGED safe, Clean(Shown), ~corrupted', Ranges
    PROVE  Clean(Shown') /\ CleanResult'
<1>0. /\ Shown \in Seq(Values) /\ length \in Nat /\ Len(Shown) = length
      /\ Default # Junk /\ \A k \in 1 .. length : Shown[k] # Junk
  BY ShownFacts DEF JunkApart, Clean
<1>1. ASSUME NEW i \in Ints \cup {length}, NEW j \in Ints \cup {length}, Slice(i, j)
      PROVE  Clean(Shown') /\ CleanResult'
  <2>1. i \in Int /\ j \in Int
    BY Arguments
  <2>2. /\ Within(SliceStart(i), SliceEnd(i, j)) /\ Shown' = Shown
        /\ Answered("array", SubSeq(Shown, Index(SliceStart(i)) + 1, Index(SliceEnd(i, j))))
    BY <1>1, <2>1, SliceShows
  <2>3. SliceStart(i) \in Int /\ SliceEnd(i, j) \in Int
    BY <2>1, PointersAreInts, BackFacts DEF SliceStart, SliceEnd, Least, Most
  <2>4. PICK a \in 0 .. length, b \in 0 .. length :
            a = Index(SliceStart(i)) /\ b = Index(SliceEnd(i, j))
    BY <2>2, <2>3, WithinFacts
  <2>5. a \in Nat /\ b \in Nat /\ b <= Len(Shown)
    BY <1>0
  <2>6. SubSeq(Shown, a + 1, b) \in Seq(Values) /\ Clean(SubSeq(Shown, a + 1, b))
    BY <1>0, <2>5, CleanPart
  <2>7. QED
    BY <2>2, <2>4, <2>6, ItemsClean, Zenon
<1>2. ASSUME NEW i \in Ints, NEW n \in Ints, NEW s \in Items, Splice(i, n, s)
      PROVE  Clean(Shown') /\ CleanResult'
  BY <1>2, SpliceStaysClean, Arguments, ArrayAssumption DEF JunkApart
<1>3. ASSUME NEW i \in Ints, SpliceRest(i) PROVE Clean(Shown') /\ CleanResult'
  <2>1. PICK s \in Seq(Values) : s = <<>> /\ Clean(s)
    <3>1. <<>> \in Seq(Values) /\ Clean(<<>>)
      BY DEF Clean
    <3>2. QED
      BY <3>1
  <2>2. Splice(i, length, s) /\ i \in Int /\ length \in Int
    BY <1>3, <2>1, Arguments DEF SpliceRest
  <2>3. QED
    BY <2>1, <2>2, SpliceStaysClean
<1>4. ASSUME NEW n \in Ints, Resize(n) PROVE Clean(Shown') /\ CleanResult'
  <2>1. n \in Int
    BY Arguments
  <2>2. CASE n < 0 /\ safe /\ Refuses("out_of_range")
    BY <2>2, RefusedClean DEF Refuses
  <2>3. CASE n \in 0 .. length /\ Shown' = SubSeq(Shown, 1, n) /\ result' = Nothing
    <3>1. n \in Nat /\ n <= Len(Shown)
      BY <1>0, <2>3
    <3>2. Clean(SubSeq(Shown, 1, n))
      BY <1>0, <3>1, CleanFront
    <3>3. QED
      BY <2>3, <3>2, NothingClean, Zenon
  <2>4. CASE /\ n > length /\ result' = Nothing
             /\ \E t \in Seq(Values) :
                   /\ Len(t) = n - length /\ Shown' = Shown \o t
                   /\ safe => t = [k \in 1 .. n - length |-> Default]
    <3>1. PICK t \in Seq(Values) : /\ Len(t) = n - length /\ Shown' = Shown \o t
                                   /\ t = [k \in 1 .. n - length |-> Default]
      BY <2>4
    <3>2. Clean(t)
      BY <1>0, <3>1 DEF Clean
    <3>3. Clean(Shown \o t)
      BY <1>0, <3>2, CleanJoin
    <3>4. QED
      BY <2>4, <3>1, <3>3, NothingClean, Zenon
  <2>5. QED
    BY <1>4, <2>1, <2>2, <2>3, <2>4, ResizeShows, Zenon
<1>5. ASSUME Sort PROVE Clean(Shown') /\ CleanResult'
  <2>1. PICK order : /\ Orders(order, Shown) /\ result' = Nothing
                     /\ Shown' = [k \in 1 .. Len(Shown) |-> Shown[order[k]]]
    BY <1>5, SortShows
  <2>2. \A k \in 1 .. length : order[k] \in 1 .. length
    BY <1>0, <2>1 DEF Orders
  <2>3. Clean([k \in 1 .. length |-> Shown[order[k]]])
    BY <1>0, <2>2 DEF Clean
  <2>4. QED
    BY <1>0, <2>1, <2>3, NothingClean, Zenon
<1>6. QED
  BY <1>1, <1>2, <1>3, <1>4, <1>5, Zenon DEF Ranges

(* Once corrupted, no call is supported any more.                          *)
LEMMA CallsUncorrupted ==
    ASSUME Elements \/ Ends \/ Ranges \/ OutOfMemory
    PROVE  ~corrupted
<1>1. ASSUME NEW call, Supported(call) PROVE ~corrupted
  BY <1>1 DEF Supported
<1>2. CASE Elements
  BY <1>1, <1>2, Zenon DEF Elements
<1>3. CASE Ends
  BY <1>1, <1>3, Zenon DEF Ends
<1>4. CASE Ranges
  BY <1>1, <1>4, Zenon DEF Ranges
<1>5. QED
  BY <1>2, <1>3, <1>4 DEF OutOfMemory

(* In a safe build no element and no answer is memory that has not been    *)
(* initialised, though elements that are removed and the rest of the       *)
(* allocation keep what they held: an array that shrinks and grows again   *)
(* shows cleared elements.  It holds for unsupported calls as well.        *)
THEOREM JunkNeverSeen ==
    ASSUME JunkApart
    PROVE  Spec => []JunkUnseen
<1> DEFINE Inv == IInv /\ JunkUnseen
<1>0. ASSUME IInv PROVE JunkUnseen <=> (safe /\ ~corrupted => Clean(Shown) /\ CleanResult)
  <2>1. length \in Nat /\ Len(Shown) = length /\ \A k \in 1 .. length : Shown[k] = cells[k]
    BY <1>0, ShownFacts
  <2>2. Clean(Shown) <=> \A k \in 1 .. length : cells[k] # Junk
    BY <2>1 DEF Clean
  <2>3. QED
    BY <2>2, Zenon DEF JunkUnseen, CleanResult
<1>1. Init => Inv
  <2> SUFFICES ASSUME Init PROVE Inv
    OBVIOUS
  <2>1. IInv
    BY InitIInv
  <2>2. length = 0 /\ result = Nothing
    BY DEF Init
  <2>3. JunkUnseen
    BY <2>2 DEF JunkUnseen, Nothing, Result
  <2>4. QED
    BY <2>1, <2>3
<1>2. Inv /\ [Next]_vars => Inv'
  <2> SUFFICES ASSUME Inv, [Next]_vars PROVE JunkUnseen'
    BY NextIInv
  <2>1. CASE Next
    <3>1. IInv' /\ safe' = safe /\ ~corrupted
      BY <2>1, NextIInv, CallsUncorrupted DEF Next
    <3>2. ASSUME safe', ~corrupted' PROVE Clean(Shown') /\ CleanResult'
      <4>1. IInv /\ safe /\ Clean(Shown) /\ UNCHANGED safe
        BY <1>0, <3>1, <3>2
      <4>2. CASE OutOfMemory
        BY <4>1, <4>2, ThrowsShow, RefusedClean DEF OutOfMemory, Refuses
      <4>3. QED
        BY <2>1, <3>2, <4>1, <4>2, ElementsStayClean, EndsStayClean, RangesStayClean DEF Next
    <3>3. (JunkUnseen <=> (safe /\ ~corrupted => Clean(Shown) /\ CleanResult))'
      BY <1>0, <3>1, PTL
    <3>4. QED
      BY <3>2, <3>3
  <2>2. CASE UNCHANGED vars
    BY <2>2 DEF vars, JunkUnseen
  <2>3. QED
    BY <2>1, <2>2
<1>3. QED
  BY <1>1, <1>2, PTL DEF Spec

-----------------------------------------------------------------------------
(* The array implements JsArray.                                           *)

Pointer(k) == begin + k * ElementSize

LEMMA PointerOrder ==
    ASSUME IInv, NEW k \in Int, NEW l \in Int
    PROVE  /\ Pointer(k) \in Int /\ Pointer(l) \in Int
           /\ Pointer(k) <= Pointer(l) <=> k <= l
           /\ Index(Pointer(k)) = k
           /\ Pointer(0) = begin /\ Pointer(length) = Back
<1>1. /\ begin \in Nat /\ length \in Nat /\ Back = begin + length * ElementSize
  BY BackFacts, ArrayAssumption DEF IInv, TypeOK
<1>2. PICK e \in Nat \ {0} : e = ElementSize
  BY SizesHold DEF Sizes
<1>3. k * e \in Int /\ l * e \in Int
  BY <1>2
<1>4. k <= l => k * e <= l * e
  BY <1>2
<1>5. l < k => l * e < k * e
  <2> SUFFICES ASSUME l < k PROVE l * e < k * e
    OBVIOUS
  <2>1. (l + 1) * e <= k * e
    BY <1>2
  <2>2. (l + 1) * e = l * e + e
    BY <1>2
  <2>3. QED
    BY <1>2, <1>3, <2>1, <2>2
<1>6. (begin + k * e) - begin = e * k
  BY <1>1, <1>2, <1>3
<1>7. ((begin + k * e) - begin) \div e = k
  <2>1. PICK x \in Int : x = (begin + k * e) - begin /\ x = e * k
    <3>1. (begin + k * e) - begin \in Int
      BY <1>1, <1>3
    <3>2. QED
      BY <1>6, <3>1
  <2>2. QED
    BY <1>2, <2>1, DivisionExact
<1>8. /\ Pointer(k) = begin + k * e /\ Pointer(l) = begin + l * e
      /\ Index(Pointer(k)) = ((begin + k * e) - begin) \div e
  BY <1>2 DEF Pointer, Index
<1>9. Pointer(0) = begin /\ Pointer(length) = Back
  <2>1. begin + 0 * ElementSize = begin
    BY <1>1, SizesHold DEF Sizes
  <2>2. QED
    BY <1>1, <2>1 DEF Pointer
<1>10. Pointer(k) <= Pointer(l) <=> k <= l
  <2>1. PICK x \in Int, y \in Int : x = k * e /\ y = l * e
    BY <1>3
  <2>2. k <= l => x <= y
    BY <1>4, <2>1
  <2>3. l < k => y < x
    BY <1>5, <2>1
  <2>4. Pointer(k) = begin + x /\ Pointer(l) = begin + y
    BY <1>8, <2>1
  <2>5. QED
    BY <1>1, <2>2, <2>3, <2>4
<1>11. QED
  BY <1>1, <1>3, <1>7, <1>8, <1>9, <1>10

(* The smaller of two pointers points to the smaller index.                *)
LEMMA PointerClamps ==
    ASSUME IInv, NEW k \in Int, NEW l \in Int
    PROVE  /\ Least(Pointer(k), Pointer(l)) = Pointer(Least(k, l))
           /\ Most(Pointer(k), Pointer(l)) = Pointer(Most(k, l))
<1>1. PICK p \in Int, q \in Int : p = Pointer(k) /\ q = Pointer(l) /\ (p <= q <=> k <= l)
  BY PointerOrder
<1>2. q <= p <=> l <= k
  BY <1>1, PointerOrder
<1>3. CASE k = l
  BY <1>3 DEF Least, Most
<1>4. CASE k < l
  <2>1. k <= l /\ ~(k >= l) /\ p <= q /\ ~(p >= q)
    BY <1>1, <1>2, <1>4
  <2>2. QED
    BY <1>1, <2>1 DEF Least, Most
<1>5. CASE l < k
  <2>1. ~(k <= l) /\ k >= l /\ ~(p <= q) /\ p >= q
    BY <1>1, <1>2, <1>5
  <2>2. QED
    BY <1>1, <2>1 DEF Least, Most
<1>6. QED
  BY <1>3, <1>4, <1>5

LEMMA InMemory == ASSUME NEW x \in Nat, x < AddressSpace PROVE x % AddressSpace = x
BY SizesHold DEF Sizes

LEMMA Unwrapped ==
    ASSUME NoWrap, IInv, NEW i \in Ints \cup {length}
    PROVE  /\ i \in Ints => FromBegin(i) = Pointer(i)
           /\ Relative(i) = Pointer(Position(i))
<1>1. /\ i \in Int /\ length \in Nat /\ begin \in Nat /\ begin \in Bases
      /\ Back = begin + length * ElementSize /\ Back \in Nat
  BY Arguments, BackFacts, ArrayAssumption DEF IInv, TypeOK
<1>2. PICK e \in Nat \ {0} : e = ElementSize
  BY SizesHold DEF Sizes
<1>3. i * e \in Int /\ length * e \in Nat
  BY <1>1, <1>2
<1>4. CASE i = length
  <2>1. FromBegin(i) = Pointer(i)
    <3>1. i \in 0 .. length
      BY <1>1, <1>4
    <3>2. QED
      BY <3>1, PointerFacts DEF Pointer
  <2>2. ~(i < 0)
    BY <1>1, <1>4
  <2>3. QED
    BY <2>1, <2>2 DEF Relative, Position
<1>5. CASE i \in Ints /\ i >= 0
  <2>1. begin + i * e \in Nat /\ begin + i * e < AddressSpace
    <3>1. begin + i * ElementSize < AddressSpace
      BY <1>1, <1>5 DEF NoWrap, InReach
    <3>2. i * e >= 0
      BY <1>1, <1>2, <1>5
    <3>3. QED
      BY <1>1, <1>2, <1>3, <3>1, <3>2
  <2>2. FromBegin(i) = Pointer(i)
    BY <1>2, <2>1, InMemory DEF FromBegin, Pointer
  <2>3. ~(i < 0)
    BY <1>1, <1>5
  <2>4. QED
    BY <2>2, <2>3 DEF Relative, Position
<1>6. CASE i \in Ints /\ i < 0
  <2>1. i * e <= 0 /\ begin + i * e >= 0
    <3>1. begin + i * ElementSize >= 0
      BY <1>1, <1>6 DEF NoWrap
    <3>2. QED
      BY <1>1, <1>2, <1>6, <3>1
  <2>2. Back <= IntMax /\ IntMax < AddressSpace
    <3>1. Capacity * ElementSize >= length * ElementSize
      <4>1. Capacity \in Nat /\ length <= Capacity
        BY ShownFacts DEF Capacity
      <4>2. QED
        BY <1>1, <1>2, <4>1
    <3>2. begin + Capacity * ElementSize <= IntMax
      BY DEF IInv, Allocated, Fits
    <3>3. IntMax < AddressSpace
      <4>1. PICK h \in Int, r \in 0 .. 1 : h = AddressSpace \div 2 /\ AddressSpace = 2 * h + r
        BY SizesHold, Division DEF Sizes
      <4>2. AddressSpace \in Nat \ {0}
        BY SizesHold DEF Sizes
      <4>3. QED
        BY <4>1, <4>2 DEF IntMax
    <3>4. Capacity * ElementSize \in Int /\ IntMax \in Int
      BY <1>2, ShownFacts, SizesHold DEF Capacity, Sizes
    <3>5. QED
      BY <1>1, <1>2, <1>3, <3>1, <3>2, <3>3, <3>4
  <2>3. begin <= IntMax
    BY <1>1, <1>2, <1>3, <2>2, SizesHold DEF Sizes
  <2>4. begin + i * e \in Nat /\ begin + i * e < AddressSpace
    BY <1>1, <1>3, <2>1, <2>2, <2>3, SizesHold DEF Sizes
  <2>5. FromBegin(i) = Pointer(i)
    BY <1>2, <2>4, InMemory DEF FromBegin, Pointer
  <2>6. Back + i * e \in Nat /\ Back + i * e < AddressSpace
    BY <1>1, <1>2, <1>3, <2>1, <2>2, SizesHold DEF Sizes
  <2>7. FromBack(i) = Back + i * e
    BY <1>2, <2>6, InMemory DEF FromBack
  <2>8. Back + i * e = begin + (length + i) * e
    <3>1. (length + i) * e = length * e + i * e
      BY <1>1, <1>2
    <3>2. (length + i) * e \in Int
      BY <1>1, <1>2
    <3>3. QED
      BY <1>1, <1>2, <1>3, <3>1, <3>2
  <2>9. Relative(i) = Pointer(Position(i))
    BY <1>2, <1>6, <2>7, <2>8 DEF Relative, Pointer, Position
  <2>10. QED
    BY <1>6, <2>5, <2>9
<1>7. QED
  BY <1>1, <1>4, <1>5, <1>6

LEMMA JsBecomes ==
    ASSUME NEW s, NEW answer, Shown' = s, result' = answer
    PROVE  Js!Become(s, answer)
BY DEF Js!Become, Shown

LEMMA JsFacts ==
    ASSUME IInv
    PROVE  Js!Length = length /\ Js!Nothing = Nothing
BY ShownFacts DEF Js!Length, Js!Nothing, Js!Result, Nothing, Result, Shown

LEMMA JsBetween == ASSUME NEW i, NEW j PROVE Js!Between(i, j) = SubSeq(Shown, i + 1, j)
BY DEF Js!Between, Shown

LEMMA JsRefuses ==
    ASSUME NEW error, Refuses(error)
    PROVE  Js!Throws(error)
BY JsBecomes DEF Js!Throws, Js!Result, Refuses, Answered, Result, Shown

LEMMA JsAnswers ==
    ASSUME NEW s, NEW kind, NEW items, Shown' = s, Answered(kind, items)
    PROVE  Js!Become(s, Js!Result(kind, items))
BY JsBecomes DEF Answered, Js!Result, Result

LEMMA JsQuiet ==
    ASSUME IInv, NEW s, Shown' = s, result' = Nothing
    PROVE  Js!Become(s, Js!Nothing)
BY JsBecomes, JsFacts

LEMMA CreateImplements ==
    ASSUME IInv, NEW n \in Ints, Create(n), ~corrupted'
    PROVE  Js!Create(n)
<1>1. n \in Int
  BY Arguments
<1>2. CASE n < 0
  BY <1>1, <1>2, CreateShows, JsRefuses DEF Js!Create
<1>3. CASE ~(n < 0)
  <2>1. PICK s : /\ s = [k \in 1 .. n |-> IF safe THEN Default ELSE Junk]
                 /\ Shown' = s /\ result' = Nothing
    BY <1>1, <1>3, CreateShows
  <2>2. s \in Js!Fresh(n)
    BY <2>1, ArrayAssumption DEF Js!Fresh
  <2>3. QED
    BY <1>3, <2>1, <2>2, JsQuiet DEF Js!Create
<1>4. QED
  BY <1>2, <1>3

LEMMA GetImplements ==
    ASSUME NoWrap, IInv, NEW i \in Ints, Get(i), ~corrupted'
    PROVE  Js!Get(i)
<1>1. /\ i \in Int /\ length \in Nat /\ Shown \in Seq(Values) /\ Len(Shown) = length
  BY Arguments, ShownFacts
<1>2. FromBegin(i) = Pointer(i) /\ Index(Pointer(i)) = i
  BY <1>1, Unwrapped, PointerOrder
<1>3. Outside(FromBegin(i)) <=> i \notin 0 .. length - 1
  <2>1. /\ Pointer(0) = begin /\ Pointer(length) = Back /\ Pointer(i) \in Int
        /\ Pointer(0) <= Pointer(i) <=> 0 <= i
        /\ Pointer(length) <= Pointer(i) <=> length <= i
    BY <1>1, PointerOrder
  <2>2. begin \in Int /\ Back \in Int
    BY BackFacts, ArrayAssumption DEF IInv, TypeOK
  <2>3. QED
    BY <1>1, <1>2, <2>1, <2>2 DEF Outside
<1>4. CASE i \in 0 .. length - 1
  <2>1. Shown' = Shown /\ Answered("value", <<Shown[i + 1]>>)
    BY <1>1, <1>2, <1>3, <1>4, GetShows
  <2>2. SubSeq(Shown, i + 1, i + 1) = <<Shown[i + 1]>>
    BY <1>1, <1>4, OnePart
  <2>3. Js!Between(i, i + 1) = <<Shown[i + 1]>>
    BY <2>2, JsBetween
  <2>4. Js!Become(Shown, Js!Result("value", Js!Between(i, i + 1)))
    BY <2>1, <2>3, JsAnswers
  <2>5. QED
    BY <1>4, <2>4, JsFacts DEF Js!Get, Shown
<1>5. CASE i \notin 0 .. length - 1
  <2>1. Shown' = Shown /\ Answered("value", <<Default>>)
    BY <1>1, <1>3, <1>5, GetShows
  <2>2. Js!Become(Shown, Js!Result("value", <<Default>>))
    BY <2>1, JsAnswers
  <2>3. QED
    BY <1>5, <2>2, JsFacts DEF Js!Get, Shown
<1>6. QED
  BY <1>4, <1>5

LEMMA SetImplements ==
    ASSUME NoWrap, IInv, NEW i \in Ints, NEW v \in Values, Set(i, v), ~corrupted'
    PROVE  Js!Set(i, v)
<1>1. /\ i \in Int /\ length \in Nat /\ Shown \in Seq(Values) /\ Len(Shown) = length
  BY Arguments, ShownFacts
<1>2. FromBegin(i) = Pointer(i) /\ Index(Pointer(i)) = i
  BY <1>1, Unwrapped, PointerOrder
<1>3. Outside(FromBegin(i)) <=> i \notin 0 .. length - 1
  <2>1. /\ Pointer(0) = begin /\ Pointer(length) = Back /\ Pointer(i) \in Int
        /\ Pointer(0) <= Pointer(i) <=> 0 <= i
        /\ Pointer(length) <= Pointer(i) <=> length <= i
    BY <1>1, PointerOrder
  <2>2. begin \in Int /\ Back \in Int
    BY BackFacts, ArrayAssumption DEF IInv, TypeOK
  <2>3. QED
    BY <1>1, <1>2, <2>1, <2>2 DEF Outside
<1>4. CASE i \in 0 .. length - 1
  <2>1. Shown' = [Shown EXCEPT ![i + 1] = v] /\ result' = Nothing
    BY <1>1, <1>2, <1>3, <1>4, SetShows
  <2>2. Js!Become([Shown EXCEPT ![i + 1] = v], Js!Nothing)
    BY <2>1, JsQuiet
  <2>3. QED
    BY <1>4, <2>2, JsFacts DEF Js!Set, Shown
<1>5. CASE i \notin 0 .. length - 1
  <2>1. Js!Throws("out_of_range")
    BY <1>1, <1>3, <1>5, SetShows, JsRefuses
  <2>2. QED
    BY <1>5, <2>1, JsFacts DEF Js!Set
<1>6. QED
  BY <1>4, <1>5

(* The range of indices that fill and slice clamp to the array, and those  *)
(* a build without SAFE takes as they are.                                 *)
LEMMA Clamps ==
    ASSUME IInv, NEW i \in Int
    PROVE  /\ Js!Clamped(i) \in 0 .. length
           /\ Js!Clamped(i) = Least(Most(Position(i), 0), length)
           /\ i >= -length => Js!Clamped(i) = Least(Position(i), length)
           /\ InArray(i) => Js!Clamped(i) = Position(i)
<1>1. length \in Nat /\ Js!Length = length
  BY ShownFacts, JsFacts
<1>2. Position(i) = IF i < 0 THEN length + i ELSE i
  BY DEF Position
<1>3. Js!Clamped(i) = IF i < 0 THEN Js!Most(length + i, 0) ELSE Js!Least(i, length)
  BY <1>1 DEF Js!Clamped
<1>4. QED
  BY <1>1, <1>2, <1>3 DEF Js!Most, Js!Least, Most, Least, InArray

LEMMA FillImplements ==
    ASSUME NoWrap, IInv, NEW i \in Ints \cup {length}, NEW j \in Ints \cup {length},
           NEW v \in Values, FillSupported(i, j), Fill(v, i, j), ~corrupted'
    PROVE  Js!Fill(v, i, j)
<1>1. /\ i \in Int /\ j \in Int /\ length \in Nat
      /\ Shown \in Seq(Values) /\ Len(Shown) = length /\ Js!Length = length
  BY Arguments, ShownFacts, JsFacts
<1>2. PICK p \in Int, q \in Int : p = Position(i) /\ q = Position(j)
  <2>1. Position(i) \in Int /\ Position(j) \in Int
    BY <1>1 DEF Position
  <2>2. QED
    BY <2>1
<1>3. Relative(i) = Pointer(p) /\ Relative(j) = Pointer(q)
  BY <1>2, Unwrapped
<1>4. Pointer(0) = begin /\ Pointer(length) = Back
  BY <1>1, PointerOrder
<1>5. PICK c \in 0 .. length, d \in 0 .. length : c = Js!Clamped(i) /\ d = Js!Clamped(j)
  BY <1>1, Clamps
<1>6. PICK a \in Int, b \in Int :
          /\ FillStart(i) = Pointer(a) /\ FillEnd(i, j) = Pointer(b)
          /\ \A k \in Int : k \in a + 1 .. b <=> k \in c + 1 .. d
  <2>1. CASE safe
    <3>1. PICK a \in Int : a = Least(Most(p, 0), length) /\ FillStart(i) = Pointer(a)
      <4>1. PICK m \in Int : m = Most(p, 0)
        BY DEF Most
      <4>2. PICK a \in Int : a = Least(m, length)
        BY <1>1 DEF Least
      <4>3. Most(Relative(i), begin) = Pointer(m)
        <5>1. Most(Pointer(p), Pointer(0)) = Pointer(Most(p, 0))
          BY PointerClamps
        <5>2. QED
          BY <1>3, <1>4, <4>1, <5>1, Zenon
      <4>4. Least(Pointer(m), Back) = Pointer(a)
        <5>1. Least(Pointer(m), Pointer(length)) = Pointer(Least(m, length))
          BY <1>1, PointerClamps
        <5>2. QED
          BY <1>4, <4>2, <5>1, Zenon
      <4>5. QED
        BY <2>1, <4>1, <4>2, <4>3, <4>4, Zenon DEF FillStart
    <3>2. PICK b \in Int : b = Least(Most(q, a), length) /\ FillEnd(i, j) = Pointer(b)
      <4>1. PICK m \in Int : m = Most(q, a)
        BY DEF Most
      <4>2. PICK b \in Int : b = Least(m, length)
        BY <1>1 DEF Least
      <4>3. Most(Relative(j), FillStart(i)) = Pointer(m)
        <5>1. Most(Pointer(q), Pointer(a)) = Pointer(Most(q, a))
          BY PointerClamps
        <5>2. QED
          BY <1>3, <3>1, <4>1, <5>1, Zenon
      <4>4. Least(Pointer(m), Back) = Pointer(b)
        <5>1. Least(Pointer(m), Pointer(length)) = Pointer(Least(m, length))
          BY <1>1, PointerClamps
        <5>2. QED
          BY <1>4, <4>2, <5>1, Zenon
      <4>5. QED
        BY <2>1, <4>1, <4>2, <4>3, <4>4, Zenon DEF FillEnd
    <3>3. c = Least(Most(p, 0), length) /\ d = Least(Most(q, 0), length)
      BY <1>1, <1>2, <1>5, Clamps
    <3>4. \A k \in Int : k \in a + 1 .. b <=> k \in c + 1 .. d
      BY <1>1, <3>1, <3>2, <3>3 DEF Least, Most
    <3>5. QED
      BY <3>1, <3>2, <3>4
  <2>2. CASE ~safe
    <3>1. InArray(i) /\ InArray(j)
      BY <2>2 DEF FillSupported
    <3>2. c = p /\ d = q
      BY <1>1, <1>2, <1>5, <3>1, Clamps
    <3>3. FillStart(i) = Pointer(p) /\ FillEnd(i, j) = Pointer(q)
      BY <1>3, <2>2 DEF FillStart, FillEnd
    <3>4. QED
      BY <3>2, <3>3
  <2>3. QED
    BY <2>1, <2>2
<1>7. Shown' = Filled(Shown, a, b, v) /\ result' = Nothing
  <2>1. Index(FillStart(i)) = a /\ Index(FillEnd(i, j)) = b
    BY <1>6, PointerOrder
  <2>2. QED
    BY <1>1, <2>1, FillShows
<1>8. Filled(Shown, a, b, v) = Filled(Shown, c, d, v)
  <2>1. \A k \in 1 .. Len(Shown) : k \in a + 1 .. b <=> k \in c + 1 .. d
    <3> TAKE k \in 1 .. Len(Shown)
    <3>1. k \in Int
      OBVIOUS
    <3>2. QED
      BY <1>6, <3>1, Zenon
  <2>2. QED
    BY <2>1, Zenon DEF Filled
<1>9. Js!Become(Filled(Shown, c, d, v), Js!Nothing)
  BY <1>7, <1>8, JsQuiet
<1>10. Filled(Shown, c, d, v) = [k \in 1 .. Js!Length |->
          IF k \in Js!Clamped(i) + 1 .. Js!Clamped(j) THEN v ELSE SubSeq(cells, 1, length)[k]]
  BY <1>1, <1>5, Zenon DEF Filled, Shown
<1>11. QED
  BY <1>9, <1>10, Zenon DEF Js!Fill

LEMMA SortImplements ==
    ASSUME IInv, Sort
    PROVE  Js!Sort
<1>1. PICK order : /\ Orders(order, Shown) /\ result' = Nothing
                   /\ Shown' = [k \in 1 .. Len(Shown) |-> Shown[order[k]]]
  BY SortShows
<1>2. Js!Become([k \in 1 .. Len(Shown) |-> Shown[order[k]]], Js!Nothing)
  BY <1>1, JsQuiet
<1>3. QED
  BY <1>1, <1>2, Zenon DEF Orders, Js!Sort, Js!Length, Shown

LEMMA PushImplements ==
    ASSUME IInv, NEW s \in Items, Push(s)
    PROVE  Js!Push(s)
<1>1. Js!Become(Shown \o s, Js!Result("value", <<length + Len(s)>>))
  BY PushShows, JsAnswers
<1>2. QED
  BY <1>1, JsFacts, Zenon DEF Js!Push, Shown

LEMMA UnshiftImplements ==
    ASSUME IInv, NEW s \in Items, Unshift(s)
    PROVE  Js!Unshift(s)
<1>1. Js!Become(s \o Shown, Js!Result("value", <<length + Len(s)>>))
  BY UnshiftShows, JsAnswers
<1>2. QED
  BY <1>1, JsFacts, Zenon DEF Js!Unshift, Shown

LEMMA EmptyShown == ASSUME IInv PROVE length = 0 <=> Shown = <<>>
BY ShownFacts, EmptySeq

LEMMA PopImplements ==
    ASSUME IInv, Pop, ~corrupted'
    PROVE  Js!Pop
<1>1. length \in Nat /\ Shown \in Seq(Values) /\ Len(Shown) = length /\ Js!Length = length
  BY ShownFacts, JsFacts
<1>2. CASE length = 0
  <2>1. Js!Become(Shown, Js!Result("value", <<Default>>))
    BY <1>2, PopShows, JsAnswers
  <2>2. QED
    BY <1>2, <2>1, EmptyShown, Zenon DEF Js!Pop, Shown
<1>3. CASE length # 0
  <2>1. Shown' = SubSeq(Shown, 1, length - 1) /\ Answered("value", <<Shown[length]>>)
    BY <1>3, PopShows
  <2>2. PICK m \in Nat : m = length - 1 /\ m + 1 = length
    <3>1. length - 1 \in Nat /\ (length - 1) + 1 = length
      BY <1>1, <1>3
    <3>2. QED
      BY <3>1
  <2>3. SubSeq(Shown, m + 1, m + 1) = <<Shown[m + 1]>>
    BY <1>1, <2>2, OnePart
  <2>4. Js!Between(m, length) = <<Shown[length]>>
    <3>1. Js!Between(m, length) = SubSeq(Shown, m + 1, length)
      BY JsBetween
    <3>2. QED
      BY <2>2, <2>3, <3>1, Zenon
  <2>5. Js!Between(0, m) = SubSeq(Shown, 1, m)
    <3>1. Js!Between(0, m) = SubSeq(Shown, 0 + 1, m)
      BY JsBetween
    <3>2. QED
      BY <3>1
  <2>6. Js!Become(Js!Between(0, m), Js!Result("value", Js!Between(m, length)))
    <3>1. Shown' = Js!Between(0, m) /\ Answered("value", Js!Between(m, length))
      BY <2>1, <2>2, <2>4, <2>5, Zenon
    <3>2. QED
      BY <3>1, JsAnswers
  <2>7. Shown # <<>>
    BY <1>3, EmptyShown
  <2>8. QED
    BY <1>1, <2>2, <2>6, <2>7, Zenon DEF Js!Pop, Shown
<1>4. QED
  BY <1>2, <1>3

LEMMA ShiftImplements ==
    ASSUME IInv, Shift, ~corrupted'
    PROVE  Js!Shift
<1>1. length \in Nat /\ Shown \in Seq(Values) /\ Len(Shown) = length /\ Js!Length = length
  BY ShownFacts, JsFacts
<1>2. CASE length = 0
  <2>1. Js!Become(Shown, Js!Result("value", <<Default>>))
    BY <1>2, ShiftShows, JsAnswers
  <2>2. QED
    BY <1>2, <2>1, EmptyShown, Zenon DEF Js!Shift, Shown
<1>3. CASE length # 0
  <2>1. Shown' = SubSeq(Shown, 2, length) /\ Answered("value", <<Shown[1]>>)
    BY <1>3, ShiftShows
  <2>2. PICK m \in Nat : m = 0 /\ m + 1 = 1 /\ m + 1 <= Len(Shown)
    BY <1>1, <1>3
  <2>3. SubSeq(Shown, m + 1, m + 1) = <<Shown[m + 1]>>
    BY <1>1, <2>2, OnePart
  <2>4. Js!Between(0, 1) = <<Shown[1]>>
    <3>1. Js!Between(m, 1) = SubSeq(Shown, m + 1, 1)
      BY JsBetween
    <3>2. QED
      BY <2>2, <2>3, <3>1, Zenon
  <2>5. Js!Between(1, length) = SubSeq(Shown, 2, length)
    <3>1. Js!Between(1, length) = SubSeq(Shown, 1 + 1, length)
      BY JsBetween
    <3>2. QED
      BY <3>1
  <2>6. Js!Become(Js!Between(1, length), Js!Result("value", Js!Between(0, 1)))
    <3>1. Shown' = Js!Between(1, length) /\ Answered("value", Js!Between(0, 1))
      BY <2>1, <2>4, <2>5, Zenon
    <3>2. QED
      BY <3>1, JsAnswers
  <2>7. Shown # <<>>
    BY <1>3, EmptyShown
  <2>8. QED
    BY <1>1, <2>6, <2>7, Zenon DEF Js!Shift, Shown
<1>4. QED
  BY <1>2, <1>3

LEMMA SliceImplements ==
    ASSUME NoWrap, IInv, NEW i \in Ints \cup {length}, NEW j \in Ints \cup {length},
           SliceSupported(i, j), Slice(i, j), ~corrupted'
    PROVE  Js!Slice(i, j)
<1>1. /\ i \in Int /\ j \in Int /\ length \in Nat
      /\ Shown \in Seq(Values) /\ Len(Shown) = length /\ Js!Length = length
  BY Arguments, ShownFacts, JsFacts
<1>2. PICK p \in Int, q \in Int : p = Position(i) /\ q = Position(j)
  <2>1. Position(i) \in Int /\ Position(j) \in Int
    BY <1>1 DEF Position
  <2>2. QED
    BY <2>1
<1>3. Relative(i) = Pointer(p) /\ Relative(j) = Pointer(q)
  BY <1>2, Unwrapped
<1>4. Pointer(length) = Back
  BY <1>1, PointerOrder
<1>5. PICK c \in 0 .. length, d \in 0 .. length : c = Js!Clamped(i) /\ d = Js!Clamped(j)
  BY <1>1, Clamps
<1>6. PICK b \in Int :
          /\ SliceStart(i) = Pointer(c) /\ SliceEnd(i, j) = Pointer(b)
          /\ b = d \/ (b = c /\ d <= c)
  <2>1. CASE safe
    <3>1. c = Least(p, length) /\ d = Least(Most(q, 0), length)
      BY <1>1, <1>2, <1>5, <2>1, Clamps DEF SliceSupported
    <3>2. SliceStart(i) = Pointer(c)
      <4>1. Least(Pointer(p), Pointer(length)) = Pointer(Least(p, length))
        BY <1>1, PointerClamps
      <4>2. QED
        BY <1>3, <1>4, <2>1, <3>1, <4>1, Zenon DEF SliceStart
    <3>3. PICK m \in Int : m = Least(q, length)
      BY <1>1 DEF Least
    <3>4. PICK b \in Int : b = Most(c, m)
      BY <1>1 DEF Most
    <3>5. SliceEnd(i, j) = Pointer(b)
      <4>1. Least(Pointer(q), Pointer(length)) = Pointer(Least(q, length))
        BY <1>1, PointerClamps
      <4>2. Most(Pointer(c), Pointer(m)) = Pointer(Most(c, m))
        BY <1>1, PointerClamps
      <4>3. QED
        BY <1>3, <1>4, <2>1, <3>2, <3>3, <3>4, <4>1, <4>2, Zenon DEF SliceEnd
    <3>6. b = d \/ (b = c /\ d <= c)
      BY <1>1, <3>1, <3>3, <3>4 DEF Least, Most
    <3>7. QED
      BY <3>2, <3>5, <3>6
  <2>2. CASE ~safe
    <3>1. InArray(i) /\ InArray(j)
      BY <2>2 DEF SliceSupported
    <3>2. c = p /\ d = q
      BY <1>1, <1>2, <1>5, <3>1, Clamps
    <3>3. SliceStart(i) = Pointer(p) /\ SliceEnd(i, j) = Pointer(q)
      BY <1>3, <2>2 DEF SliceStart, SliceEnd
    <3>4. QED
      BY <3>2, <3>3
  <2>3. QED
    BY <2>1, <2>2
<1>7. Shown' = Shown /\ Answered("array", SubSeq(Shown, c + 1, b))
  <2>1. c \in Int /\ Index(SliceStart(i)) = c /\ Index(SliceEnd(i, j)) = b
    BY <1>6, PointerOrder
  <2>2. QED
    BY <1>1, <2>1, SliceShows
<1>8. SubSeq(Shown, c + 1, b) = SubSeq(Shown, c + 1, d)
  <2>1. CASE b = d
    BY <2>1
  <2>2. CASE b = c /\ d <= c
    <3>1. b < c + 1 /\ d < c + 1 /\ c + 1 \in Int /\ d \in Int
      BY <2>2
    <3>2. SubSeq(Shown, c + 1, b) = <<>> /\ SubSeq(Shown, c + 1, d) = <<>>
      BY <3>1, SubSeqEmpty
    <3>3. QED
      BY <3>2
  <2>3. QED
    BY <1>6, <2>1, <2>2
<1>9. Js!Become(Shown, Js!Result("array", Js!Between(c, d)))
  <2>1. Js!Between(c, d) = SubSeq(Shown, c + 1, d)
    BY JsBetween
  <2>2. Answered("array", Js!Between(c, d))
    BY <1>7, <1>8, <2>1, Zenon
  <2>3. QED
    BY <1>7, <2>2, JsAnswers
<1>10. QED
  BY <1>5, <1>9, Zenon DEF Js!Slice, Shown

LEMMA SpliceImplements ==
    ASSUME IInv, NEW i \in Int, NEW n \in Int, NEW s \in Seq(Values),
           SpliceSupported(i, n), Splice(i, n, s), ~corrupted'
    PROVE  Js!Splice(i, n, s) \/ Js!Throws("bad_alloc")
<1>1. /\ length \in Nat /\ Shown \in Seq(Values) /\ Len(Shown) = length /\ Js!Length = length
  BY ShownFacts, JsFacts
<1>2. CASE Refuses("bad_alloc")
  BY <1>2, JsRefuses
<1>3. CASE ~Refuses("bad_alloc")
  <2>1. PICK index \in Nat, count \in Nat :
            /\ index = SpliceStart(i) /\ count = SpliceCount(index, n)
            /\ index + count <= length
            /\ Shown' = Spliced(Shown, index, count, s)
            /\ Answered("array", SubSeq(Shown, index + 1, index + count))
    BY <1>3, SpliceShows
  <2>2. PICK c \in 0 .. length : c = Js!Clamped(i)
    BY Clamps
  <2>3. index = c
    <3>1. Position(i) = IF i < 0 THEN length + i ELSE i
      BY DEF Position
    <3>2. c = Least(Most(Position(i), 0), length)
      BY <2>2, Clamps
    <3>3. CASE safe
      <4>1. SpliceStart(i) = Most(Least(Position(i), length), 0)
        BY <3>3 DEF SpliceStart, Position
      <4>2. QED
        BY <1>1, <2>1, <3>1, <3>2, <4>1 DEF Least, Most
    <3>4. CASE ~safe
      <4>1. SpliceStart(i) = Position(i) /\ InArray(i)
        BY <3>4 DEF SpliceStart, Position, SpliceSupported
      <4>2. QED
        BY <2>1, <2>2, <4>1, Clamps
    <3>5. QED
      BY <3>3, <3>4
  <2>4. count = Js!Most(0, Js!Least(n, length - c))
    <3>1. CASE safe
      BY <1>1, <2>1, <2>3, <3>1 DEF SpliceCount, Js!Most, Js!Least, Most, Least
    <3>2. CASE ~safe
      <4>1. count = n
        BY <2>1, <3>2 DEF SpliceCount
      <4>2. n >= 0 /\ n <= length - c
        BY <1>1, <2>1, <2>3, <4>1
      <4>3. QED
        BY <1>1, <4>1, <4>2 DEF Js!Most, Js!Least
    <3>3. QED
      BY <3>1, <3>2
  <2>5. PICK m \in Nat : m = index + count /\ m <= length /\ index <= length
    BY <1>1, <2>1
  <2>6. PICK front \in Seq(Values) : FrontIs(front, Shown, index)
    BY <1>1, <2>5, FrontOfSeq
  <2>7. PICK tail \in Seq(Values) : PartIs(tail, Shown, m, length)
    <3>1. length <= Len(Shown)
      BY <1>1
    <3>2. QED
      BY <1>1, <2>5, <3>1, PartOfSeq
  <2>8. Shown' = (front \o s) \o tail
    <3>1. Shown' = front \o (s \o tail)
      BY <1>1, <2>1, <2>5, <2>6, <2>7, Zenon DEF Spliced, FrontIs, PartIs
    <3>2. (front \o s) \o tail = front \o (s \o tail)
      BY ConcatAssociative
    <3>3. QED
      BY <3>1, <3>2, Zenon
  <2>9. Js!Between(0, c) = front
    <3>1. Js!Between(0, c) = SubSeq(Shown, 0 + 1, c)
      BY JsBetween
    <3>2. SubSeq(Shown, 0 + 1, c) = SubSeq(Shown, 1, c)
      OBVIOUS
    <3>3. QED
      BY <2>3, <2>6, <3>1, <3>2, Zenon DEF FrontIs
  <2>10. Js!Between(m, length) = tail
    BY <2>7, JsBetween, Zenon DEF PartIs
  <2>11. Js!Between(c, m) = SubSeq(Shown, index + 1, m)
    BY <2>3, JsBetween, Zenon
  <2>12. Js!Become(Js!Between(0, c) \o s \o Js!Between(m, length),
                   Js!Result("array", Js!Between(c, m)))
    <3>1. Shown' = Js!Between(0, c) \o s \o Js!Between(m, length)
      BY <2>8, <2>9, <2>10, Zenon
    <3>2. Answered("array", Js!Between(c, m))
      BY <2>1, <2>5, <2>11, Zenon
    <3>3. QED
      BY <3>1, <3>2, JsAnswers
  <2>13. m = c + Js!Most(0, Js!Least(n, length - c))
    BY <2>3, <2>4, <2>5, Zenon
  <2>14. QED
    BY <1>1, <2>2, <2>12, <2>13, Zenon DEF Js!Splice
<1>4. QED
  BY <1>2, <1>3

LEMMA ResizeImplements ==
    ASSUME IInv, NEW n \in Ints, Resize(n), ~corrupted'
    PROVE  Js!Resize(n)
<1>1. /\ n \in Int /\ length \in Nat /\ Shown \in Seq(Values) /\ Len(Shown) = length
      /\ Js!Length = length
  BY Arguments, ShownFacts, JsFacts
<1>2. CASE n < 0 /\ safe /\ Refuses("out_of_range")
  BY <1>2, JsRefuses DEF Js!Resize
<1>3. CASE n \in 0 .. length /\ Shown' = SubSeq(Shown, 1, n) /\ result' = Nothing
  <2>1. Js!Between(0, n) = SubSeq(Shown, 1, n)
    <3>1. Js!Between(0, n) = SubSeq(Shown, 0 + 1, n)
      BY JsBetween
    <3>2. QED
      BY <3>1
  <2>2. Js!Become(Js!Between(0, n), Js!Nothing)
    BY <1>3, <2>1, JsQuiet
  <2>3. QED
    BY <1>1, <1>3, <2>2 DEF Js!Resize
<1>4. CASE /\ n > length /\ result' = Nothing
           /\ \E t \in Seq(Values) :
                 /\ Len(t) = n - length /\ Shown' = Shown \o t
                 /\ safe => t = [k \in 1 .. n - length |-> Default]
  <2>1. PICK t \in Seq(Values) :
            /\ Len(t) = n - length /\ Shown' = Shown \o t
            /\ safe => t = [k \in 1 .. n - length |-> Default]
    BY <1>4
  <2>2. t \in [1 .. n - length -> IF safe THEN {Default} ELSE Values]
    <3>1. CASE safe
      BY <2>1, <3>1
    <3>2. CASE ~safe
      BY <2>1, <3>2
    <3>3. QED
      BY <3>1, <3>2
  <2>3. t \in Js!Fresh(n - length)
    BY <2>2 DEF Js!Fresh
  <2>4. Js!Become(Shown \o t, Js!Nothing)
    BY <1>4, <2>1, JsQuiet
  <2>5. QED
    BY <1>1, <1>4, <2>3, <2>4, Zenon DEF Js!Resize, Shown
<1>5. QED
  BY <1>1, <1>2, <1>3, <1>4, ResizeShows, Zenon

LEMMA SupportedCall == ASSUME ~AnyCall, NEW call, Supported(call) PROVE call
BY DEF Supported

LEMMA ElementsImplement ==
    ASSUME ~AnyCall, NoWrap, IInv, Elements, UNCHANGED safe, ~corrupted'
    PROVE  Js!AbsNext
<1>1. ASSUME NEW n \in Ints, Create(n) PROVE Js!AbsNext
  BY <1>1, CreateImplements, Zenon DEF Js!AbsNext
<1>2. ASSUME NEW s \in Items, FromElements(s) PROVE Js!AbsNext
  <2>1. Js!FromElements(s)
    BY <1>2, FromElementsShows, JsQuiet DEF Js!FromElements
  <2>2. QED
    BY <2>1, Zenon DEF Js!AbsNext
<1>3. ASSUME NEW i \in Ints, Get(i) PROVE Js!AbsNext
  BY <1>3, GetImplements, Zenon DEF Js!AbsNext
<1>4. ASSUME NEW i \in Ints, NEW v \in Values \ {Junk}, Set(i, v) PROVE Js!AbsNext
  BY <1>4, SetImplements, Zenon DEF Js!AbsNext
<1>5. ASSUME NEW i \in Ints \cup {length}, NEW j \in Ints \cup {length},
             NEW v \in Values \ {Junk}, Supported(FillSupported(i, j)), Fill(v, i, j)
      PROVE  Js!AbsNext
  <2>1. FillSupported(i, j)
    BY <1>5, SupportedCall
  <2>2. Js!Fill(v, i, j)
    BY <1>5, <2>1, FillImplements
  <2>3. QED
    BY <2>2, JsFacts, Zenon DEF Js!AbsNext
<1>6. QED
  BY <1>1, <1>2, <1>3, <1>4, <1>5, Zenon DEF Elements

LEMMA EndsImplement ==
    ASSUME IInv, Ends, UNCHANGED safe, ~corrupted'
    PROVE  Js!AbsNext
<1>1. ASSUME NEW s \in Items, Push(s) \/ Unshift(s) PROVE Js!AbsNext
  BY <1>1, PushImplements, UnshiftImplements, Zenon DEF Js!AbsNext
<1>2. ASSUME Pop \/ Shift PROVE Js!AbsNext
  BY <1>2, PopImplements, ShiftImplements, Zenon DEF Js!AbsNext
<1>3. QED
  BY <1>1, <1>2, Zenon DEF Ends

LEMMA RangesImplement ==
    ASSUME ~AnyCall, NoWrap, <<>> \in Items, IInv, Ranges, UNCHANGED safe, ~corrupted'
    PROVE  Js!AbsNext
<1>1. ASSUME NEW i \in Ints \cup {length}, NEW j \in Ints \cup {length},
             Supported(SliceSupported(i, j)), Slice(i, j)
      PROVE  Js!AbsNext
  <2>1. SliceSupported(i, j)
    BY <1>1, SupportedCall
  <2>2. Js!Slice(i, j)
    BY <1>1, <2>1, SliceImplements
  <2>3. QED
    BY <2>2, JsFacts, Zenon DEF Js!AbsNext
<1>2. ASSUME NEW i \in Ints, NEW n \in Ints \cup {length}, NEW s \in Items,
             Supported(SpliceSupported(i, n)), Splice(i, n, s)
      PROVE  Js!AbsNext
  <2>1. SpliceSupported(i, n)
    BY <1>2, SupportedCall
  <2>2. i \in Int /\ n \in Int /\ s \in Seq(Values)
    BY Arguments, ArrayAssumption
  <2>3. Js!Splice(i, n, s) \/ Js!Throws("bad_alloc")
    BY <1>2, <2>1, <2>2, SpliceImplements
  <2>4. QED
    BY <2>3, JsFacts, Zenon DEF Js!AbsNext
<1>3. ASSUME NEW i \in Ints, Supported(SpliceSupported(i, length)), SpliceRest(i)
      PROVE  Js!AbsNext
  BY <1>2, <1>3, Zenon DEF SpliceRest
<1>4. ASSUME NEW n \in Ints, Resize(n) PROVE Js!AbsNext
  BY <1>4, ResizeImplements, Zenon DEF Js!AbsNext
<1>5. ASSUME Sort PROVE Js!AbsNext
  BY <1>5, SortImplements, Zenon DEF Js!AbsNext
<1>6. QED
  BY <1>1, <1>2, <1>3, <1>4, <1>5, Zenon DEF Ranges

(* Whatever calls a build supports, the array does to its elements what    *)
(* JavaScript does, and answers the same: with any element size and        *)
(* address space, and however the allocation has grown and moved.  An      *)
(* operation that finds no memory throws and leaves the elements alone.    *)
THEOREM ArrayImplementsJavaScript ==
    ASSUME ~AnyCall, NoWrap, <<>> \in Items
    PROVE  Spec => ImplementsJsArray
<1>1. Init => Js!AbsInit
  <2> SUFFICES ASSUME Init PROVE Js!AbsInit
    OBVIOUS
  <2>1. safe \in BOOLEAN /\ cells = <<>> /\ length = 0 /\ result = Nothing
    BY ArrayAssumption DEF Init
  <2>2. SubSeq(cells, 1, length) = <<>>
    BY <2>1, SubSeqEmpty
  <2>3. QED
    BY <2>1, <2>2 DEF Js!AbsInit, Js!Nothing, Js!Result, Nothing, Result
<1>2. IInv /\ MemorySafe' /\ [Next]_vars => [Js!AbsNext]_(Js!absVars)
  <2> SUFFICES ASSUME IInv, ~corrupted', [Next]_vars PROVE [Js!AbsNext]_(Js!absVars)
    BY DEF MemorySafe
  <2>1. CASE Next
    <3>1. CASE OutOfMemory
      <4>1. Js!Throws("bad_alloc")
        BY <3>1, ThrowsShow, JsRefuses DEF OutOfMemory
      <4>2. QED
        BY <2>1, <4>1, Zenon DEF Js!AbsNext, Next
    <3>2. QED
      BY <2>1, <3>1, ElementsImplement, EndsImplement, RangesImplement DEF Next
  <2>2. CASE UNCHANGED vars
    BY <2>2 DEF vars, Js!absVars
  <2>3. QED
    BY <2>1, <2>2
<1>3. InReach
  BY DEF NoWrap
<1>4. Spec => []MemorySafe
  BY <1>3, MemorySafety
<1>5. Spec => []IInv
  BY ArrayInvariant
<1>6. QED
  BY <1>1, <1>2, <1>4, <1>5, PTL DEF Spec, ImplementsJsArray, Js!AbsSpec
=============================================================================
