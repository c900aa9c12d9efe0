---------------------------- MODULE Marshalling ----------------------------
(***************************************************************************)
(* One call of a rewritten entry function, seen from the data: the types   *)
(* the source file rewriter serialises for the call, the conversion of the *)
(* JavaScript arguments into objects of the linear memory (jsToWasm), the  *)
(* run of the compiled function, and the conversion of its result back     *)
(* (wasmToJs).                                                             *)
(*                                                                         *)
(* The recursion of the two conversions is a stack of frames: malloc may   *)
(* fail or grow the memory between any two steps of a conversion, and what *)
(* a suspended frame holds may be stale when it goes on.                   *)
(*                                                                         *)
(* A JavaScript value is a record [k, v]: an integer, a boolean, undefined,*)
(* null or a reference to a numbered object; v is what a cell holds when   *)
(* the value is stored in it.  The memory is a function     *)
(* from addresses to the cell [size, v] last written there.                *)
(***************************************************************************)
EXTENDS Integers, Sequences, FiniteSets

CONSTANTS
    Classes,      \* the declared classes
    Members,      \* class -> its members in the order of declaration
    Arrays,       \* the array types that occur
    ElementOf,    \* array type -> type of the elements
    Calls,        \* the calls: [graph, args, result, uses]
    NaN,          \* the number that stands for NaN
    MaxGrowth,    \* bound: how often the memory grows during the call
    StackLimit    \* bound: nested conversions until the engine gives up

Primitives == {"i1", "i32", "double"}
Types == Primitives \cup Classes \cup Arrays
Pointers == Classes \cup Arrays

ASSUME NamesAssumption ==
    /\ Primitives \cap Pointers = {} /\ Classes \cap Arrays = {}
    /\ {"void", "elements"} \cap Types = {}
    /\ ElementOf \in [Arrays -> Types]
    /\ \A c \in Classes : Members[c] \in Seq([type : Types, method : BOOLEAN])

(* getFieldOffset counts the methods of a class among its members, the     *)
(* struct holds its fields only: the two agree when methods come last.     *)
ASSUME MethodsLast ==
    \A c \in Classes : \A i, j \in 1..Len(Members[c]) :
        i < j /\ Members[c][i].method => Members[c][j].method

ASSUME BoundsAssumption == NaN \in Int /\ MaxGrowth \in Nat /\ StackLimit \in Nat \ {0}

VARIABLES
    call,         \* the call: JavaScript objects, arguments, result type
    phase,        \* what the call is doing
    work,         \* typesToProcess
    types,        \* the serialised types
    buffer,       \* number of the buffer the memory has now
    views,        \* number of the buffer heap8, heap32, heapPtr, heap64 show
    heap,         \* address -> cell
    blocks,       \* allocated pointer -> [size, type]
    brk,          \* where the next block starts
    refs,         \* objectReferences: JavaScript object -> pointer
    wasmArgs,     \* the converted arguments
    stack,        \* the frames of jsToWasm, then of wasmToJs
    returned,     \* returnedObjects: pointer -> JavaScript object
    made,         \* the objects wasmToJs has made
    result,       \* what the compiled function, then the call, returned
    reason        \* why the call failed

serialization == <<work, types>>
memory == <<buffer, views, heap, blocks, brk>>
outbound == <<refs, wasmArgs>>
inbound == <<returned, made, result>>
vars == <<call, phase, serialization, memory, outbound, stack, inbound, reason>>

Undefined == [k |-> "undefined", v |-> 0]
Ref(o) == [k |-> "ref", v |-> o]
Graph == call.graph
SeqRange(s) == {s[i] : i \in 1..Len(s)}
Put(f, x, y) == [z \in DOMAIN f \cup {x} |-> IF z = x THEN y ELSE f[z]]

-----------------------------------------------------------------------------
(* Layout.                                                                 *)

SizeOf(type) == CASE type = "i1" -> 1 [] type = "double" -> 8 [] OTHER -> 4

AlignTo(size, quantum) == ((size + quantum - 1) \div quantum) * quantum

IsField(member) == ~member.method
FieldMembers(class) == {m \in 1..Len(Members[class]) : IsField(Members[class][m])}
NthField(class, n) ==
    CHOOSE m \in FieldMembers(class) : Cardinality({i \in FieldMembers(class) : i <= m}) = n
(* getFields of the class, the types of the fields only                    *)
Fields(class) ==
    [n \in 1..Cardinality(FieldMembers(class)) |-> Members[class][NthField(class, n)].type]

(* A primitive field or element that was never set.  jsToWasm passes it on *)
(* as it is: an integer view stores 0 for undefined, heap64 stores NaN.    *)
Unset(type) == [k |-> "undefined", v |-> IF type = "double" THEN NaN ELSE 0]

(* What TypeScript accepts: c.uses has the types an object is used at.  An *)
(* object that is not an instance of such a type (a subclass, an object    *)
(* literal) may have any members.                                          *)
HasType(c, value, type) ==
    IF type \in Primitives THEN value.k \in {"int", "bool"} \/ value = Unset(type)
    ELSE \/ value.k \in {"undefined", "null"} /\ value.v = 0
         \/ value.k = "ref" /\ <<value.v, type>> \in c.uses

Value == [k : STRING, v : Int]
ASSUME CallsAssumption ==
    \A c \in Calls :
        /\ c.result \in Types \cup {"void"}
        /\ c.args \in Seq([type : Types, value : Value])
        /\ c.graph \in Seq([ctor : STRING, cells : Seq(Value)])
        /\ \A o \in 1..Len(c.graph) : \A i \in 1..Len(c.graph[o].cells) :
              c.graph[o].cells[i].k = "ref" => c.graph[o].cells[i].v \in 1..Len(c.graph)
        /\ c.uses \subseteq (1..Len(c.graph)) \X Pointers
        /\ \A i \in 1..Len(c.args) : HasType(c, c.args[i].value, c.args[i].type)
        /\ \A u \in c.uses :
             LET object == c.graph[u[1]] IN
             /\ u[2] \in Arrays /\ object.ctor = "Array" =>
                   \A i \in 1..Len(object.cells) : HasType(c, object.cells[i], ElementOf[u[2]])
             /\ u[2] \in Classes /\ object.ctor = u[2] =>
                   /\ Len(object.cells) = Len(Fields(u[2]))
                   /\ \A i \in 1..Len(object.cells) : HasType(c, object.cells[i], Fields(u[2])[i])

(* No object is used as two things, as an int[] that is also passed as a   *)
(* number[] would be: objectReferences is looked up without the type.      *)
OneTypeEach == \A c \in Calls : \A u, w \in c.uses : u[1] = w[1] => u[2] = w[2]

(* The engine's stack is deep enough for every object to be under way.     *)
DeepEnough == \A c \in Calls : Len(c.graph) < StackLimit

(* computeObjectSize                                                       *)
(* Mutated form of ComputeObjectSize: the fields are taken as packed.      *)
ComputePackedSize(fields) ==
    LET memo[i \in 0..Len(fields)] ==
            IF i = 0 THEN 0 ELSE memo[i-1] + SizeOf(fields[i])
    IN memo[Len(fields)]

ComputeObjectSize(fields) ==
    LET memo[i \in 0..Len(fields)] ==
            IF i = 0 THEN 0
            ELSE AlignTo(memo[i-1] + SizeOf(fields[i]), SizeOf(fields[i]))
    IN memo[Len(fields)]

(* The offset the loop of jsToWasm and of wasmToJs has for a field.        *)
FieldOffset(fields, n) ==
    LET offset[i \in 1..Len(fields)] ==
            IF i = 1 THEN 0
            ELSE AlignTo(offset[i-1] + SizeOf(fields[i-1]), SizeOf(fields[i]))
    IN offset[n]

(* External: where LLVM puts the element of a struct that is not packed,   *)
(* each behind the one before at the next multiple of its alignment.       *)
StructOffset(elements, n) ==
    LET at[i \in 1..Len(elements)] ==
            IF i = 1 THEN 0
            ELSE LET end == at[i-1] + SizeOf(elements[i-1])
                 IN CHOOSE a \in end..(end + 7) :
                        /\ a % SizeOf(elements[i]) = 0
                        /\ \A b \in end..(a - 1) : b % SizeOf(elements[i]) # 0
    IN at[n]

(* getFieldOffset: the index of the n-th field among all members           *)
GetFieldOffset(class, n) == NthField(class, n)

(* What compiled code reads for the n-th field of an object.               *)
CompiledOffset(class, n) == StructOffset(Fields(class), GetFieldOffset(class, n))

-----------------------------------------------------------------------------
(* Memory.                                                                 *)

(* ptr >> 2 and ptr >> 3 drop the low bits.                                *)
CellOf(ptr, type) == ptr - (ptr % SizeOf(type))

(* setHeapValue through a view: a store in a detached view has no effect.  *)
Stored(mem, view, ptr, value, type) ==
    IF view = buffer' THEN Put(mem, CellOf(ptr, type), [size |-> SizeOf(type), v |-> value])
    ELSE mem

StoredAll(mem, view, ptr, values, type) ==
    IF view # buffer' THEN mem
    ELSE LET cells == [i \in 1..Len(values) |-> CellOf(ptr + (i - 1) * SizeOf(type), type)]
         IN [a \in DOMAIN mem \cup SeqRange(cells) |->
                IF a \in SeqRange(cells)
                THEN [size |-> SizeOf(type), v |-> values[CHOOSE i \in 1..Len(values) : cells[i] = a]]
                ELSE mem[a]]

Loaded(ptr, type) ==
    LET a == CellOf(ptr, type)
    IN IF a \in DOMAIN heap /\ heap[a].size = SizeOf(type) THEN heap[a].v ELSE 0

(* External: malloc hands out disjoint blocks aligned to 8 bytes, and one  *)
(* of 8 bytes for a size of 0.                                             *)
BlockSize(size) == IF size = 0 THEN 8 ELSE AlignTo(size, 8)

(* growMemory: the memory gets a new buffer, updateHeap new views.         *)
(* Mutated form of Grow: updateHeap is left out.                           *)
GrowOnly ==
    \/ UNCHANGED <<buffer, views>>
    \/ buffer < MaxGrowth /\ buffer' = buffer + 1 /\ UNCHANGED views

Grow ==
    \/ UNCHANGED <<buffer, views>>
    \/ buffer < MaxGrowth /\ buffer' = buffer + 1 /\ views' = buffer'

-----------------------------------------------------------------------------
(* Serialisation of the types of a call.                                   *)

ArgumentTypes(c) == [i \in 1..Len(c.args) |-> c.args[i].type]

Descriptor(type) ==
    [primitive |-> type \in Primitives,
     array |-> type \in Arrays,
     fields |-> IF type \in Classes THEN Fields(type) ELSE <<>>,
     typeArguments |-> IF type \in Arrays THEN <<ElementOf[type]>> ELSE <<>>]

(* One round of the loop of serializeArgumentAndReturnTypes.               *)
(* Mutated form of Serialize: the types of the fields are not visited.     *)
SerializeWithoutFields ==
    /\ phase = "serialize" /\ work # <<>>
    /\ LET type == work[Len(work)]
           rest == SubSeq(work, 1, Len(work) - 1)
       IN IF type = "void" \/ type \in DOMAIN types
          THEN work' = rest /\ UNCHANGED types
          ELSE /\ types' = Put(types, type, Descriptor(type))
               /\ work' = rest \o Descriptor(type).typeArguments
    /\ UNCHANGED <<call, phase, memory, outbound, stack, inbound, reason>>

Serialize ==
    /\ phase = "serialize" /\ work # <<>>
    /\ LET type == work[Len(work)]
           rest == SubSeq(work, 1, Len(work) - 1)
       IN IF type = "void" \/ type \in DOMAIN types
          THEN work' = rest /\ UNCHANGED types
          ELSE /\ types' = Put(types, type, Descriptor(type))
               /\ work' = rest \o Descriptor(type).fields \o Descriptor(type).typeArguments
    /\ UNCHANGED <<call, phase, memory, outbound, stack, inbound, reason>>

(* The rewritten function runs: instanceLoaded.                            *)
Begin ==
    /\ phase = "serialize" /\ work = <<>>
    /\ phase' = "convert"
    /\ UNCHANGED <<call, serialization, memory, outbound, stack, inbound, reason>>

-----------------------------------------------------------------------------
(* jsToWasm.  A frame is an object or array whose block exists and whose   *)
(* cells are being converted.                                              *)

Top == stack[Len(stack)]
Below(s) == SubSeq(s, 1, Len(s) - 1)
CellType(type, n) == IF type \in Arrays THEN types[type].typeArguments[1]
                     ELSE types[type].fields[n]
Length(frame) == IF frame.type \in Arrays THEN Len(Graph[frame.js].cells)
                 ELSE Len(types[frame.type].fields)
Complete(frame) == frame.next > Length(frame)

(* The value that is converted next, and the type it is converted to.      *)
Converting ==
    /\ phase = "convert"
    /\ IF stack = <<>> THEN Len(wasmArgs) < Len(call.args) ELSE ~Complete(Top)
Wanted ==
    IF stack = <<>> THEN call.args[Len(wasmArgs) + 1]
    ELSE [value |-> Graph[Top.js].cells[Top.next], type |-> CellType(Top.type, Top.next)]

Fail(why) ==
    /\ phase' = "failed" /\ reason' = why
    /\ UNCHANGED <<call, serialization, stack, inbound, outbound>>

(* A converted value reaches what asked for it: a field is stored at once, *)
(* an element joins the Int32Array that is written when it is complete.    *)
Deliver(s, mem, value) ==
    IF s = <<>>
    THEN stack' = s /\ wasmArgs' = Append(wasmArgs, value) /\ heap' = mem
    ELSE LET f == s[Len(s)]
             g == [f EXCEPT !.next = @ + 1, !.elements = Append(@, value)]
             fieldType == CellType(f.type, f.next)
         IN /\ stack' = Append(Below(s), g)
            /\ UNCHANGED wasmArgs
            /\ heap' = IF f.type \in Arrays THEN mem
                       ELSE Stored(mem, views', f.ptr + FieldOffset(types[f.type].fields, f.next),
                                   value, fieldType)

(* objectReferences is one map for all arguments of the call.              *)
(* Mutated form of Known: the map does not outlive an argument.            *)
KnownWithinArgument(o) == stack # <<>> /\ o \in DOMAIN refs

Known(o) == o \in DOMAIN refs

(* The early returns of jsToWasm: primitives, undefined, known objects.    *)
ConvertImmediate ==
    /\ Converting
    /\ LET w == Wanted IN
       /\ w.type \in DOMAIN types
       /\ \/ w.type \in Primitives
          \/ w.value.k = "undefined"
          \/ w.value.k = "ref" /\ Known(w.value.v)
       /\ UNCHANGED <<buffer, views>>
       /\ Deliver(stack, heap,
                  IF w.value.k = "ref" THEN refs[w.value.v] ELSE w.value.v)
    /\ UNCHANGED <<call, phase, serialization, blocks, brk, refs, inbound, reason>>

Fresh(w) == w.type \in DOMAIN types /\ w.type \notin Primitives
            /\ w.value.k = "ref" /\ ~Known(w.value.v)
Accepted(w) == IF w.type \in Arrays THEN Graph[w.value.v].ctor = "Array"
               ELSE Graph[w.value.v].ctor = w.type

(* The errors jsToWasm throws.                                             *)
Reject ==
    /\ Converting
    /\ LET w == Wanted IN
       \/ w.type \notin DOMAIN types /\ Fail("unknown type")
       \/ w.type \in DOMAIN types /\ w.type \notin Primitives
          /\ w.value.k = "null" /\ Fail("null")
       \/ Fresh(w) /\ ~Accepted(w) /\ Fail("wrong constructor")
       \/ Fresh(w) /\ Accepted(w) /\ Fail("out of memory")
    /\ UNCHANGED memory

(* The call stack of the engine is exhausted.                              *)
Overflow ==
    /\ Converting \/ phase = "result"
    /\ Len(stack) = StackLimit
    /\ Fail("overflow")
    /\ UNCHANGED memory

Frame(w, ptr) == [js |-> w.value.v, type |-> w.type, ptr |-> ptr,
                  next |-> 1, elements |-> <<>>, view |-> views']

(* jsToWasm of an object: the block is allocated, the fields follow.       *)
ConvertObject ==
    /\ Converting /\ Len(stack) < StackLimit
    /\ LET w == Wanted
           size == ComputeObjectSize(types[w.type].fields)
       IN /\ Fresh(w) /\ Accepted(w) /\ w.type \in Classes
          /\ Grow
          /\ blocks' = Put(blocks, brk, [size |-> size, type |-> w.type])
          /\ brk' = brk + BlockSize(size)
          /\ stack' = Append(stack, Frame(w, brk))
    /\ UNCHANGED <<call, phase, serialization, heap, outbound, inbound, reason>>

(* RuntimeArray.from up to the elements: the two blocks, begin, back and   *)
(* capacity.  Primitive elements are written by one set, and the frame has *)
(* no conversion left to do.  For objects heapPtr is read here, as the     *)
(* receiver of the set that is called when every element is converted.     *)
ConvertArray ==
    /\ Converting /\ Len(stack) < StackLimit
    /\ LET w == Wanted
           element == types[w.type].typeArguments[1]
           native == Graph[w.value.v].cells
           bytes == SizeOf(element) * Len(native)
           begin == brk + 16
           header == <<begin, begin + bytes, Len(native)>>
           withHeader == StoredAll(heap, views', brk, header, "i32")
           numbers == [i \in 1..Len(native) |-> native[i].v]
       IN /\ Fresh(w) /\ Accepted(w) /\ w.type \in Arrays
          /\ Grow
          /\ blocks' = Put(Put(blocks, brk, [size |-> 12, type |-> w.type]),
                           begin, [size |-> bytes, type |-> "elements"])
          /\ brk' = begin + BlockSize(bytes)
          /\ IF element \in Primitives
             THEN /\ heap' = StoredAll(withHeader, views', begin, numbers, element)
                  /\ stack' = Append(stack, [Frame(w, brk) EXCEPT !.next = Len(native) + 1])
             ELSE /\ heap' = withHeader
                  /\ stack' = Append(stack, Frame(w, brk))
    /\ UNCHANGED <<call, phase, serialization, outbound, inbound, reason>>

(* The end of a conversion: the elements of an array of objects are        *)
(* written, the object enters objectReferences and its pointer is returned.*)
Finish ==
    /\ phase = "convert" /\ stack # <<>> /\ Complete(Top)
    /\ LET f == Top
           objects == f.type \in Arrays /\ CellType(f.type, 1) \in Pointers
       IN /\ ~(objects /\ f.view # buffer)
          /\ UNCHANGED <<buffer, views>>
          /\ refs' = Put(refs, f.js, f.ptr)
          /\ Deliver(Below(stack),
                     IF objects THEN StoredAll(heap, f.view, Loaded(f.ptr, "i32"),
                                               f.elements, CellType(f.type, 1))
                     ELSE heap, f.ptr)
    /\ UNCHANGED <<call, phase, serialization, blocks, brk, inbound, reason>>

(* set on a typed array whose buffer was detached in the meantime throws.  *)
Detached ==
    /\ phase = "convert" /\ stack # <<>> /\ Complete(Top)
    /\ Top.type \in Arrays /\ CellType(Top.type, 1) \in Pointers
    /\ Top.view # buffer
    /\ Fail("detached")
    /\ UNCHANGED memory

-----------------------------------------------------------------------------
(* External: the compiled function.  It may change one reference of one of *)
(* the objects it was given and returns a value of the declared type.      *)

PointersOf(type) == {p \in DOMAIN blocks : blocks[p].type = type}
ResultValues ==
    CASE call.result = "void" -> {0}
      [] call.result \in Primitives -> {0, 1}
      [] OTHER -> PointersOf(call.result) \cup {0}

Call ==
    /\ phase = "convert" /\ stack = <<>> /\ Len(wasmArgs) = Len(call.args)
    /\ phase' = "run"
    /\ UNCHANGED <<call, serialization, memory, outbound, stack, inbound, reason>>

Return ==
    /\ phase = "run"
    /\ phase' = "result"
    /\ result' \in {[k |-> "wasm", v |-> x] : x \in ResultValues}
    /\ \/ UNCHANGED heap
       \/ \E class \in Classes : \E n \in 1..Len(Fields(class)) :
            LET t == Fields(class)[n] IN
            /\ t \in Classes
            /\ \E p \in PointersOf(class), q \in PointersOf(t) :
                 heap' = Put(heap, p + CompiledOffset(class, n), [size |-> 4, v |-> q])
    /\ UNCHANGED <<call, serialization, buffer, views, blocks, brk, outbound, stack,
                   returned, made, reason>>

-----------------------------------------------------------------------------
(* wasmToJs.  A frame reads the cells of the object or array at ptr.       *)

(* A value that needs no new JavaScript object.                            *)
Scalar(value, type) ==
    CASE type = "i1" -> [k |-> "bool", v |-> IF value # 0 THEN 1 ELSE 0]
      [] OTHER -> [k |-> "int", v |-> value]
ReadImmediate(value, type) ==
    type \in Primitives \/ value \in DOMAIN returned \/ value = 0
ReadAs(value, type) ==
    CASE type \in Primitives -> Scalar(value, type)
      [] type \in Pointers /\ value \in DOMAIN returned -> Ref(returned[value])
      [] OTHER -> Undefined

Elements(ptr, type) ==      \* begin and back of the array, in elements
    LET size == SizeOf(type)
        begin == Loaded(ptr, "i32")
        back == Loaded(ptr + 4, "i32")
    IN [i \in 1..((back \div size) - (begin \div size)) |-> begin + (i - 1) * size]

CellsAt(ptr, type) ==       \* the addresses of the cells that are read
    IF type \in Arrays THEN Elements(ptr, types[type].typeArguments[1])
    ELSE [n \in 1..Len(types[type].fields) |-> ptr + FieldOffset(types[type].fields, n)]

Reading(ptr, type) == [ptr |-> ptr, type |-> type, cells |-> <<>>]

(* The result is used as it is, compared with 1, or given to toJSObject.   *)
Open ==
    /\ phase = "result" /\ stack = <<>> /\ result.k = "wasm"
    /\ IF call.result \notin Types
       THEN phase' = "done" /\ result' = Undefined /\ UNCHANGED stack
       ELSE IF ReadImmediate(result.v, call.result)
       THEN /\ phase' = "done" /\ UNCHANGED stack
            /\ result' = IF call.result = "i1"
                         THEN [k |-> "bool", v |-> IF result.v = 1 THEN 1 ELSE 0]
                         ELSE ReadAs(result.v, call.result)
       ELSE /\ stack' = <<Reading(result.v, call.result)>>
            /\ UNCHANGED <<phase, result>>
    /\ UNCHANGED <<call, serialization, memory, outbound, returned, made, reason>>

ReadCell ==
    /\ phase = "result" /\ stack # <<>> /\ Len(stack) < StackLimit
    /\ LET f == Top
           n == Len(f.cells) + 1
           t == CellType(f.type, n)
           value == Loaded(CellsAt(f.ptr, f.type)[n], t)
       IN /\ n <= Len(CellsAt(f.ptr, f.type))
          /\ stack' = IF ReadImmediate(value, t)
                      THEN Append(Below(stack), [f EXCEPT !.cells = Append(@, ReadAs(value, t))])
                      ELSE Append(stack, Reading(value, t))
    /\ UNCHANGED <<call, phase, serialization, memory, outbound, inbound, reason>>

(* The object is complete: it enters returnedObjects and is returned.      *)
(* Mutated form of Close: the object does not enter returnedObjects.       *)
CloseUnrecorded ==
    /\ phase = "result" /\ stack # <<>>
    /\ LET f == Top
           o == Len(made) + 1
           rest == Below(stack)
       IN /\ Len(f.cells) = Len(CellsAt(f.ptr, f.type))
          /\ made' = Append(made, [ctor |-> IF f.type \in Arrays THEN "Array" ELSE f.type,
                                   cells |-> f.cells])
          /\ UNCHANGED returned
          /\ IF rest = <<>>
             THEN stack' = <<>> /\ phase' = "done" /\ result' = Ref(o)
             ELSE /\ stack' = Append(Below(rest), [rest[Len(rest)] EXCEPT
                                                       !.cells = Append(@, Ref(o))])
                  /\ UNCHANGED <<phase, result>>
    /\ UNCHANGED <<call, serialization, memory, outbound, reason>>

Close ==
    /\ phase = "result" /\ stack # <<>>
    /\ LET f == Top
           o == Len(made) + 1
           rest == Below(stack)
       IN /\ Len(f.cells) = Len(CellsAt(f.ptr, f.type))
          /\ made' = Append(made, [ctor |-> IF f.type \in Arrays THEN "Array" ELSE f.type,
                                   cells |-> f.cells])
          /\ returned' = Put(returned, f.ptr, o)
          /\ IF rest = <<>>
             THEN stack' = <<>> /\ phase' = "done" /\ result' = Ref(o)
             ELSE /\ stack' = Append(Below(rest), [rest[Len(rest)] EXCEPT
                                                       !.cells = Append(@, Ref(o))])
                  /\ UNCHANGED <<phase, result>>
    /\ UNCHANGED <<call, serialization, memory, outbound, reason>>

Stopped == phase \in {"done", "failed"} /\ UNCHANGED vars

-----------------------------------------------------------------------------
Init ==
    /\ call \in Calls
    /\ phase = "serialize"
    /\ work = Append(ArgumentTypes(call), call.result)
    /\ types = <<>>
    /\ buffer = 0 /\ views = 0
    /\ heap = <<>> /\ blocks = <<>> /\ brk = 16
    /\ refs = <<>> /\ wasmArgs = <<>>
    /\ stack = <<>>
    /\ returned = <<>> /\ made = <<>> /\ result = Undefined
    /\ reason = "none"

Next ==
    \/ Serialize \/ Begin
    \/ ConvertImmediate \/ ConvertObject \/ ConvertArray \/ Finish
    \/ Reject \/ Overflow \/ Detached
    \/ Call \/ Return
    \/ Open \/ ReadCell \/ Close
    \/ Stopped

Spec == Init /\ [][Next]_vars /\ WF_vars(Next)

-----------------------------------------------------------------------------
(* Properties.                                                             *)

(* serializeArgumentAndReturnTypes: when the list is empty the types of    *)
(* the arguments and of the result are serialised, and every type that a   *)
(* serialised type mentions is too, however the classes refer to each      *)
(* other.                                                                  *)
Mentioned(type) == SeqRange(types[type].fields) \cup SeqRange(types[type].typeArguments)
TypesClosed ==
    work = <<>> =>
        /\ \A i \in 1..Len(call.args) : call.args[i].type \in DOMAIN types
        /\ call.result \in DOMAIN types \cup {"void"}
        /\ \A type \in DOMAIN types : Mentioned(type) \subseteq DOMAIN types

References(o) == {c.v : c \in {d \in SeqRange(Graph[o].cells) : d.k = "ref"}}
Given == {a.value.v : a \in {b \in SeqRange(call.args) : b.value.k = "ref"}}
Closed(objects) == \A o \in objects : References(o) \subseteq objects
(* The objects the arguments lead to.                                      *)
Reachable ==
    {o \in DOMAIN Graph : \A objects \in SUBSET DOMAIN Graph :
                              Given \subseteq objects /\ Closed(objects) => o \in objects}

Holds(ptr, type, value) ==
    ptr \in DOMAIN heap /\ heap[ptr] = [size |-> SizeOf(type), v |-> value]
Representation(value) == IF value.k = "ref" THEN refs[value.v] ELSE value.v

(* Compiled code finds the object o where objectReferences says it is.     *)
ObjectMirrored(o) ==
    LET ptr == refs[o]
        type == blocks[ptr].type
        cells == Graph[o].cells
    IN IF type \in Arrays
       THEN LET element == ElementOf[type]
                begin == heap[ptr].v
            IN /\ Holds(ptr + 4, "i32", begin + SizeOf(element) * Len(cells))
               /\ Holds(ptr + 8, "i32", Len(cells))
               /\ \A i \in 1..Len(cells) :
                    Holds(begin + (i - 1) * SizeOf(element), element, Representation(cells[i]))
       ELSE \A n \in 1..Len(cells) :
                Holds(ptr + CompiledOffset(type, n), Fields(type)[n], Representation(cells[n]))

(* "Used to ensure reference equality across the boundary"                 *)
(* (get-wasm-module-function.ts:46): an object that several fields, elements*)
(* or arguments refer to is allocated once, and different objects apart.   *)
SharingPreserved ==
    /\ \A o, p \in DOMAIN refs : refs[o] = refs[p] => o = p
    /\ Cardinality({b \in DOMAIN blocks : blocks[b].type # "elements"})
          = Cardinality(Reachable)

(* jsToWasm: when the compiled function starts, every object the arguments *)
(* lead to is in the memory, each field and element where compiled code    *)
(* looks for it, once, whatever mallocs grew the memory meanwhile.         *)
HeapMirrorsArguments ==
    phase = "run" =>
        /\ Reachable \subseteq DOMAIN refs
        /\ \A i \in 1..Len(call.args) : wasmArgs[i] = Representation(call.args[i].value)
        /\ \A o \in Reachable : ObjectMirrored(o)
        /\ SharingPreserved

(* computeObjectSize and the offsets of the loop are computed apart: no    *)
(* store of a conversion leaves the block it is meant for.                 *)
InsideAllocations ==
    \A a \in DOMAIN heap : \E b \in DOMAIN blocks :
        b <= a /\ a + heap[a].size <= b + blocks[b].size

(* The value of type t in the memory, as the JavaScript caller sees it.    *)
Seen(value, type) ==
    CASE type \in Primitives -> Scalar(value, type)
      [] type \in Pointers /\ value = 0 -> Undefined
      [] OTHER -> Ref(returned[value])
Compiled(ptr, type) ==
    IF type \in Arrays
    THEN [i \in 1..Len(Elements(ptr, ElementOf[type])) |->
              Seen(Loaded(Elements(ptr, ElementOf[type])[i], ElementOf[type]), ElementOf[type])]
    ELSE [n \in 1..Len(Fields(type)) |->
              Seen(Loaded(ptr + CompiledOffset(type, n), Fields(type)[n]), Fields(type)[n])]

(* wasmToJs: the objects the caller gets are those of the memory at the    *)
(* time of the return, one JavaScript object for each pointer, with the    *)
(* class and the values compiled code left there.                          *)
ResultMirrorsHeap ==
    phase = "done" =>
        /\ Cardinality(DOMAIN returned) = Len(made)
        /\ \A p, q \in DOMAIN returned : returned[p] = returned[q] => p = q
        /\ \A p \in DOMAIN returned :
             LET type == blocks[p].type IN
             made[returned[p]] = [ctor |-> IF type \in Arrays THEN "Array" ELSE type,
                                  cells |-> Compiled(p, type)]

(* Is there a cycle among the objects the arguments lead to?  An object is *)
(* on one when whatever holds all that its references lead to holds it.    *)
Cyclic ==
    \E o \in Reachable : \A objects \in SUBSET DOMAIN Graph :
        References(o) \subseteq objects /\ Closed(objects) => o \in objects

(* The blocks that the object or array at p points to, and whether there is*)
(* a cycle among them.                                                     *)
Targets(p) ==
    DOMAIN blocks \cap
    IF blocks[p].type \in Classes
    THEN {Loaded(p + CompiledOffset(blocks[p].type, n), "i32") :
              n \in {m \in 1..Len(Fields(blocks[p].type)) : Fields(blocks[p].type)[m] \in Pointers}}
    ELSE IF blocks[p].type \in Arrays /\ ElementOf[blocks[p].type] \in Pointers
    THEN {Loaded(a, "i32") : a \in SeqRange(Elements(p, ElementOf[blocks[p].type]))}
    ELSE {}
MemoryCyclic ==
    \E p \in DOMAIN blocks : \A ptrs \in SUBSET DOMAIN blocks :
        Targets(p) \subseteq ptrs /\ (\A q \in ptrs : Targets(q) \subseteq ptrs) => p \in ptrs

(* What justifies that a call fails: a null, an object that is no instance *)
(* of the type it is used at (types are not checked at run time, and a     *)
(* subclass is refused), a malloc that failed, a cycle, or a growth of the *)
(* memory while an array of objects was converted.  Nothing else does.     *)
Justified(why) ==
    CASE why = "null" ->
           \/ \E o \in Reachable : \E c \in SeqRange(Graph[o].cells) : c.k = "null"
           \/ \E a \in SeqRange(call.args) : a.value.k = "null"
      [] why = "wrong constructor" ->
           \E u \in call.uses : /\ u[1] \in Reachable
                                /\ Graph[u[1]].ctor # IF u[2] \in Arrays THEN "Array" ELSE u[2]
      [] why = "overflow" -> Cyclic \/ MemoryCyclic
      [] why = "detached" ->
           buffer > 0 /\ \E o \in Reachable : Graph[o].ctor = "Array" /\ References(o) # {}
      [] OTHER -> why = "out of memory"

(* A call fails only for what its arguments or the memory justify; no type *)
(* is ever unknown, and sharing without a cycle exhausts no stack.         *)
FailuresExcused == phase = "failed" => Justified(reason)

=============================================================================
