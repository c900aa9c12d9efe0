------------------------------- MODULE JsArray -------------------------------
(***************************************************************************)
(* What array.h promises of one array: JavaScript's sequence operations,   *)
(* with the documented differences (reading out of bounds gives the        *)
(* default value, writing out of bounds throws).  An index of fill, slice  *)
(* and splice is relative: a negative one counts from the end.  Whatever   *)
(* needs memory may throw instead, and then leaves the elements alone.     *)
(***************************************************************************)
EXTENDS Integers, Sequences

CONSTANTS Ints,           \* the numbers passed as index, count or length
          Items,          \* the sequences of elements passed
          Values,         \* what an element can be; one left uninitialised can be any
          Default         \* T{}

VARIABLES safe,           \* built with SAFE
          elements,
          result          \* what the last operation returned or threw

absVars == <<safe, elements, result>>

Result(kind, items) == [kind |-> kind, items |-> items]

Nothing == Result("nothing", <<>>)

Length == Len(elements)

Least(i, j) == IF i <= j THEN i ELSE j

Most(i, j) == IF i >= j THEN i ELSE j

(* A relative index, clamped to the array.                                 *)
Clamped(i) == IF i < 0 THEN Most(Length + i, 0) ELSE Least(i, Length)

Between(i, j) == SubSeq(elements, i + 1, j)

Become(s, answer) == result' = answer /\ elements' = s

(* New elements are initialised in a safe build only.                      *)
Fresh(n) == [1 .. n -> IF safe THEN {Default} ELSE Values]

AbsInit == safe \in BOOLEAN /\ elements = <<>> /\ result = Nothing

Throws(error) == Become(elements, Result(error, <<>>))

Create(n) ==
    IF n < 0 THEN Throws("out_of_range") ELSE \E s \in Fresh(n) : Become(s, Nothing)

FromElements(s) == Become(s, Nothing)

Get(i) ==
    Become(elements, Result("value", IF i \in 0 .. Length - 1 THEN Between(i, i + 1)
                                     ELSE <<Default>>))

Set(i, v) ==
    IF i \in 0 .. Length - 1 THEN Become([elements EXCEPT ![i + 1] = v], Nothing)
    ELSE Throws("out_of_range")

Fill(v, i, j) ==
    Become([k \in 1 .. Length |-> IF k \in Clamped(i) + 1 .. Clamped(j) THEN v
                                  ELSE elements[k]], Nothing)

Push(s) == Become(elements \o s, Result("value", <<Length + Len(s)>>))

Unshift(s) == Become(s \o elements, Result("value", <<Length + Len(s)>>))

Pop ==
    IF elements = <<>> THEN Become(elements, Result("value", <<Default>>))
    ELSE Become(Between(0, Length - 1), Result("value", Between(Length - 1, Length)))

Shift ==
    IF elements = <<>> THEN Become(elements, Result("value", <<Default>>))
    ELSE Become(Between(1, Length), Result("value", Between(0, 1)))

Slice(i, j) == Become(elements, Result("array", Between(Clamped(i), Clamped(j))))

Splice(i, count, s) ==
    LET from == Clamped(i)
        upto == from + Most(0, Least(count, Length - from))
    IN  Become(Between(0, from) \o s \o Between(upto, Length),
               Result("array", Between(from, upto)))

Resize(n) ==
    \/ n < 0 /\ Throws("out_of_range")
    \/ n \in 0 .. Length /\ Become(Between(0, n), Nothing)
    \/ n > Length /\ \E s \in Fresh(n - Length) : Become(elements \o s, Nothing)

Sort ==
    \E order \in [1 .. Length -> 1 .. Length] :
        /\ \A k, l \in 1 .. Length : k # l => order[k] # order[l]
        /\ \A k \in 1 .. Length - 1 : elements[order[k]] <= elements[order[k + 1]]
        /\ Become([k \in 1 .. Length |-> elements[order[k]]], Nothing)

AbsNext ==
    /\ UNCHANGED safe
    /\ \/ Throws("bad_alloc") \/ Pop \/ Shift \/ Sort
       \/ \E i \in Ints : Create(i) \/ Get(i) \/ Resize(i)
       \/ \E i \in Ints, v \in Values : Set(i, v)
       \/ \E i, j \in Ints \cup {Length}, v \in Values : Fill(v, i, j)
       \/ \E i, j \in Ints \cup {Length} : Slice(i, j)
       \/ \E s \in Items : FromElements(s) \/ Push(s) \/ Unshift(s)
       \/ \E i \in Ints, n \in Ints \cup {Length}, s \in Items : Splice(i, n, s)

AbsSpec == AbsInit /\ [][AbsNext]_absVars
=============================================================================
