---------------------------- MODULE RuntimeArray ----------------------------
(***************************************************************************)
(* Array<T> of the runtime library (runtime/lib/array.h, exported by       *)
(* array-api.cc), in the build with SAFE and in the one without.  An array *)
(* is a pointer to its elements, a pointer past the last one and the       *)
(* capacity of the allocation.  Pointer arithmetic is that of wasm32, so   *)
(* &begin[index] wraps around at the end of the address space.             *)
(*                                                                         *)
(* An access outside of the elements has no meaning in C++: it sets        *)
(* corrupted, and the model says nothing of what follows.                  *)
(***************************************************************************)
EXTENDS Integers, Sequences

CONSTANTS AddressSpace,   \* 2^32
          ElementSize,    \* sizeof(T)
          DefaultCapacity,    \* DEFAULT_CAPACITY
          Bases,          \* where an allocation can start
          Ints, Items, Values, Default,   \* see JsArray
          Junk,           \* what uninitialised memory holds
          MaxLength,      \* bound on the arrays of the model
          Builds,         \* with SAFE, without, or both
          AnyCall         \* also consider calls the build does not support

IntMax == AddressSpace \div 2 - 1

ASSUME ArrayAssumption ==
    /\ AddressSpace \in Nat \ {0} /\ ElementSize \in Nat \ {0} /\ DefaultCapacity \in Nat \ {0}
    /\ Bases \subseteq 1 .. IntMax
    /\ Ints \subseteq -IntMax - 1 .. IntMax
    /\ Values \subseteq Int /\ Default \in Values /\ Junk \in Values
    /\ Items \subseteq Seq(Values)
    /\ MaxLength \in Nat /\ Builds \subseteq BOOLEAN /\ AnyCall \in BOOLEAN

VARIABLES safe,           \* SAFE is defined
          begin,          \* an address
          length,         \* back is &begin[length]
          cells,          \* the allocated elements, capacity of them
          result,         \* what the last operation returned or threw
          corrupted       \* history: an access outside of the elements

vars == <<safe, begin, length, cells, result, corrupted>>

arrayVars == <<begin, length, cells>>

Result(kind, items) == [kind |-> kind, items |-> items]

Nothing == Result("nothing", <<>>)

Least(i, j) == IF i <= j THEN i ELSE j

Most(i, j) == IF i >= j THEN i ELSE j

Capacity == Len(cells)

(* &begin[i] and &back[i]                                                  *)
FromBegin(i) == (begin + i * ElementSize) % AddressSpace

Back == FromBegin(length)

FromBack(i) == (Back + i * ElementSize) % AddressSpace

Relative(i) == IF i < 0 THEN FromBack(i) ELSE FromBegin(i)

(* The elements in [start, end), both pointers into the array.             *)
Within(start, end) == begin <= start /\ start <= end /\ end <= Back

Index(pointer) == (pointer - begin) \div ElementSize

Copy(start, end) == SubSeq(cells, Index(start) + 1, Index(end))

Junks(n) == [k \in 1 .. n |-> Junk]

Answers(answer) == result' = answer /\ UNCHANGED corrupted

Throws(error) == Answers(Result(error, <<>>)) /\ UNCHANGED arrayVars

(* The memory is written or read out of bounds.                            *)
Corrupts == corrupted' = TRUE /\ UNCHANGED <<begin, length, cells, result>>

(* What is out of range throws in a safe build and corrupts in the other.  *)
OutOfRange == IF safe THEN Throws("out_of_range") ELSE Corrupts

Init ==
    /\ safe \in Builds
    /\ begin \in Bases
    /\ length = 0
    /\ cells = <<>>
    /\ result = Nothing
    /\ corrupted = FALSE
-----------------------------------------------------------------------------
(* Memory                                                                  *)

(* malloc gets the low 32 bits of the product.                             *)
Fits(base, capacity) == base + capacity * ElementSize <= IntMax

Holds(capacity) == capacity * ElementSize < AddressSpace

(* Mutated form of NewCapacity: one element less is enough.                *)
NewCapacityShort(min) ==
    IF min - 1 <= Capacity THEN Capacity
    ELSE Most(min, Least(IF Capacity = 0 THEN DefaultCapacity ELSE 2 * Capacity, IntMax))

(* ensureCapacity                                                          *)
NewCapacity(min) ==
    IF min < Capacity THEN Capacity
    ELSE Most(min, Least(IF Capacity = 0 THEN DefaultCapacity ELSE 2 * Capacity, IntMax))

(* The elements move to base when the capacity grows.                      *)
Ensured(min, base) ==
    IF NewCapacity(min) = Capacity THEN base = begin
    ELSE base \in Bases /\ Fits(base, NewCapacity(min))

Room(min) == cells \o Junks(NewCapacity(min) - Capacity)

(* The cells with s written over those that follow the first n; false when *)
(* there is no room.                                                       *)
Written(room, n, s) ==
    SubSeq(room, 1, n) \o s \o SubSeq(room, n + Len(s) + 1, Len(room))

Stored(room, n, s) ==
    IF n + Len(s) <= Len(room) THEN cells' = Written(room, n, s) /\ UNCHANGED corrupted
    ELSE corrupted' = TRUE /\ cells' = cells

(* std::bad_alloc, thrown before the array has changed.                    *)
OutOfMemory == ~corrupted /\ Throws("bad_alloc")
-----------------------------------------------------------------------------
(* Constructors                                                            *)

(* Array(size): the elements are cleared in a safe build only.             *)
Create(n) ==
    IF n < 0 THEN OutOfRange
    ELSE IF ~Holds(n) THEN Corrupts
    ELSE /\ n <= MaxLength
         /\ \E base \in Bases : Fits(base, n) /\ begin' = base
         /\ length' = n
         /\ cells' = [k \in 1 .. n |-> IF safe THEN Default ELSE Junk]
         /\ Answers(Nothing)

FromElements(s) ==
    /\ Len(s) <= MaxLength
    /\ \E base \in Bases : Fits(base, Len(s)) /\ begin' = base
    /\ length' = Len(s)
    /\ cells' = s
    /\ Answers(Nothing)
-----------------------------------------------------------------------------
(* Elements                                                                *)

(* A safe build answers T{} where there is no element.                     *)
DefaultValue ==
    IF safe THEN Answers(Result("value", <<Default>>)) /\ UNCHANGED arrayVars ELSE Corrupts

Outside(pointer) == pointer < begin \/ pointer >= Back

Get(i) ==
    LET position == FromBegin(i)
    IN  IF Outside(position) THEN DefaultValue
        ELSE /\ Answers(Result("value", <<cells[Index(position) + 1]>>))
             /\ UNCHANGED arrayVars

Set(i, v) ==
    LET position == FromBegin(i)
    IN  IF Outside(position)
        THEN OutOfRange
        ELSE /\ cells' = [cells EXCEPT ![Index(position) + 1] = v]
             /\ Answers(Nothing)
             /\ UNCHANGED <<begin, length>>

FillStart(i) ==
    IF safe THEN Least(Most(Relative(i), begin), Back) ELSE Relative(i)

Fill(v, i, j) ==
    LET start == FillStart(i)
        end == IF safe THEN Least(Most(Relative(j), start), Back) ELSE Relative(j)
    IN  IF ~Within(start, end) THEN Corrupts
        ELSE /\ cells' = Written(cells, Index(start),
                                 [k \in 1 .. Index(end) - Index(start) |-> v])
             /\ Answers(Nothing)
             /\ UNCHANGED <<begin, length>>

Sort ==
    /\ \E order \in [1 .. length -> 1 .. length] :
          /\ \A k, l \in 1 .. length : k # l => order[k] # order[l]
          /\ \A k \in 1 .. length - 1 : cells[order[k]] <= cells[order[k + 1]]
          /\ cells' = Written(cells, 0, [k \in 1 .. length |-> cells[order[k]]])
    /\ Answers(Nothing)
    /\ UNCHANGED <<begin, length>>
-----------------------------------------------------------------------------
(* Both ends                                                               *)

Lengthened(s, room) ==
    /\ length + Len(s) <= MaxLength
    /\ Ensured(length + Len(s), begin')
    /\ length' = length + Len(s)
    /\ result' = Result("value", <<length + Len(s)>>)

Push(s) == Lengthened(s, Room(length + Len(s))) /\ Stored(Room(length + Len(s)), length, s)

(* Mutated form of Unshift: the elements are moved front to back, over the *)
(* ones that are still to be moved.                                        *)
UnshiftForward(s) ==
    LET n == length + Len(s)
        Moved[k \in 1 .. n] ==
            IF k <= Len(s) \/ s = <<>> THEN cells[k] ELSE Moved[k - Len(s)]
    IN  /\ Lengthened(s, Room(n))
        /\ IF n <= Len(Room(n))
           THEN Stored(Room(n), 0, s \o [k \in 1 .. length |-> Moved[k + Len(s)]])
           ELSE Stored(Room(n), n, s)

(* std::copy moves a block of plain elements as a whole.                   *)
Unshift(s) ==
    Lengthened(s, Room(length + Len(s)))
    /\ Stored(Room(length + Len(s)), 0, s \o SubSeq(cells, 1, length))

Pop ==
    IF length = 0 THEN DefaultValue
    ELSE /\ Answers(Result("value", <<cells[length]>>))
         /\ length' = length - 1
         /\ UNCHANGED <<begin, cells>>

Shift ==
    IF length = 0 THEN DefaultValue
    ELSE /\ Answers(Result("value", <<cells[1]>>))
         /\ cells' = Written(cells, 0, SubSeq(cells, 2, length))
         /\ length' = length - 1
         /\ UNCHANGED begin
-----------------------------------------------------------------------------
(* Ranges                                                                  *)

(* The start is not compared with begin.                                   *)
Slice(i, j) ==
    LET start == IF safe THEN Least(Relative(i), Back) ELSE Relative(i)
        end == IF safe THEN Most(start, Least(Relative(j), Back)) ELSE Relative(j)
    IN  IF ~Within(start, end) THEN Corrupts
        ELSE Answers(Result("array", Copy(start, end))) /\ UNCHANGED arrayVars

(* splice(index, deleteCount, ...), the version with signed arguments.     *)
SpliceStart(i) ==
    LET index == IF i < 0 THEN length + i ELSE i
    IN  IF safe THEN Most(Least(index, length), 0) ELSE index

SpliceCount(index, count) ==
    IF safe THEN Least(Most(count, 0), length - index) ELSE count

(* Mutated form of SpliceMin: there is always room for the new elements.   *)
SpliceMinNever(count, s) == 0

SpliceMin(count, s) == IF count < Len(s) THEN length + Len(s) - count ELSE 0

(* The copy of the removed elements has no room: the array has grown, its  *)
(* elements are the same.                                                  *)
NoCopy(room) ==
    cells' = room /\ UNCHANGED length /\ Answers(Result("bad_alloc", <<>>))

Splice(i, n, s) ==
    LET index == SpliceStart(i)
        count == SpliceCount(index, n)
        min == SpliceMin(count, s)
        room == IF min = 0 THEN cells ELSE Room(min)
    IN  IF index < 0 \/ count < 0 \/ index + count > length THEN Corrupts
        ELSE /\ length + Len(s) - count <= MaxLength
             /\ IF min = 0 THEN UNCHANGED begin ELSE Ensured(min, begin')
             /\ \/ /\ length' = length + Len(s) - count
                   /\ Stored(room, index, s \o SubSeq(cells, index + count + 1, length))
                   /\ result' = Result("array", SubSeq(cells, index + 1, index + count))
                \/ NoCopy(room)

(* Mutated form of Cleared: nothing is cleared, as in the other build.     *)
ClearedNever(room, n) == room

(* resize clears the elements it adds in a safe build.                     *)
Cleared(room, n) ==
    IF safe /\ n > length THEN Written(room, length, [k \in 1 .. n - length |-> Default])
    ELSE room

Resize(n) ==
    IF n < 0 THEN OutOfRange
    ELSE IF ~Holds(NewCapacity(n)) THEN Corrupts
    ELSE /\ n <= MaxLength
         /\ Ensured(n, begin')
         /\ cells' = Cleared(Room(n), n)
         /\ length' = n
         /\ Answers(Nothing)
-----------------------------------------------------------------------------
(* The calls a build supports: an unsafe build those within the array.     *)
(* array-api.cc passes the length where an argument is left out.           *)

InArray(i) == -length <= i /\ i <= length

Position(i) == IF i < 0 THEN length + i ELSE i

Supported(call) == ~corrupted /\ (AnyCall \/ call)

CreateSupported(n) == safe \/ n >= 0

ElementSupported(i) == safe \/ (0 <= i /\ i < length)

RemoveSupported == safe \/ length > 0

FillSupported(i, j) == safe \/ (InArray(i) /\ InArray(j) /\ Position(i) <= Position(j))

SliceSupported(i, j) ==
    IF safe THEN i >= -length
    ELSE InArray(i) /\ InArray(j) /\ Position(i) <= Position(j)

SpliceSupported(i, n) == safe \/ (InArray(i) /\ n >= 0 /\ Position(i) + n <= length)

SpliceRest(i) == Splice(i, length, <<>>)

(* The integers passed are no indices at which &begin[index] wraps around. *)
InReach ==
    /\ DefaultCapacity * ElementSize < AddressSpace
    /\ \A i \in Ints, base \in Bases : i >= 0 => base + i * ElementSize < AddressSpace

(* The index of every call points into the address space.                  *)
NoWrap == InReach /\ \A i \in Ints, base \in Bases : base + i * ElementSize >= 0

Clean(s) == \A k \in 1 .. Len(s) : s[k] # Junk

(* Junk stands for what memory holds before it is written: it is neither   *)
(* T{} nor a length, and no call passes it.                                *)
JunkApart == Junk # Default /\ Junk \notin 0 .. MaxLength /\ \A s \in Items : Clean(s)

(* array-api.cc: new, get, set and fill.                                   *)
Elements ==
    \/ \E n \in Ints : Supported(CreateSupported(n)) /\ Create(n)
    \/ \E s \in Items : Supported(TRUE) /\ FromElements(s)
    \/ \E i \in Ints : Supported(ElementSupported(i)) /\ Get(i)
    \/ \E i \in Ints, v \in Values \ {Junk} : Supported(ElementSupported(i)) /\ Set(i, v)
    \/ \E i, j \in Ints \cup {length}, v \in Values \ {Junk} :
          Supported(FillSupported(i, j)) /\ Fill(v, i, j)

(* push, unshift, pop and shift.                                           *)
Ends ==
    \/ \E s \in Items : Supported(TRUE) /\ (Push(s) \/ Unshift(s))
    \/ Supported(RemoveSupported) /\ (Pop \/ Shift)

(* slice, splice, length and sort.                                         *)
Ranges ==
    \/ \E i, j \in Ints \cup {length} : Supported(SliceSupported(i, j)) /\ Slice(i, j)
    \/ \E i, n \in Ints, s \in Items : Supported(SpliceSupported(i, n)) /\ Splice(i, n, s)
    \/ \E i \in Ints : Supported(SpliceSupported(i, length)) /\ SpliceRest(i)
    \/ \E n \in Ints : Supported(CreateSupported(n)) /\ Resize(n)
    \/ Supported(TRUE) /\ Sort

Next == (Elements \/ Ends \/ Ranges \/ OutOfMemory) /\ UNCHANGED safe

Spec == Init /\ [][Next]_vars
-----------------------------------------------------------------------------
TypeOK ==
    /\ safe \in Builds
    /\ begin \in Bases
    /\ length \in 0 .. MaxLength
    /\ cells \in Seq(Values)
    /\ result.items \in Seq(Values \cup 0 .. MaxLength)
    /\ corrupted \in BOOLEAN

(* The elements lie in the allocation and the allocation in the memory.    *)
Allocated == length <= Capacity /\ Fits(begin, Capacity)

IInv == TypeOK /\ Allocated

(* macros.h:9: "If defined, runtime is memory safe".  No call a build      *)
(* supports reads or writes outside of the elements, whatever calls have   *)
(* moved, grown or shrunk the array before.                                *)
MemorySafe == ~corrupted

(* A safe build never shows memory it has not initialised, though elements *)
(* that are removed and the rest of an allocation stay as they are.        *)
JunkUnseen ==
    safe /\ ~corrupted =>
        /\ \A k \in 1 .. length : cells[k] # Junk
        /\ result.kind \in {"value", "array"} => \A k \in DOMAIN result.items : result.items[k] # Junk

Js == INSTANCE JsArray WITH elements <- SubSeq(cells, 1, length)

(* Every supported call does to the elements what JavaScript's does.       *)
ImplementsJsArray == Js!AbsSpec
=============================================================================
