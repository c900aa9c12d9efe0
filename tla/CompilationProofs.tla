------------------------- MODULE CompilationProofs -------------------------
(***************************************************************************)
(* For any program, options and request: the visitor's flag, the chain of  *)
(* tools, the build directory, the references left in the JavaScript and   *)
(* the outputs of a compilation are what their properties say.             *)
(***************************************************************************)
EXTENDS Compilation, SequenceTheorems, TLAPS

-----------------------------------------------------------------------------
(* The order of the steps of a chain, whichever of them the options ask    *)
(* for.                                                                    *)
Steps == {"link runtime", "optimize", "link libs", "link time optimize", "save bc", "llc", "s2wasm",
          "binaryen", "save wast", "wasm-as"}

Rank(step) ==
    CASE step = "link runtime" -> 1 [] step = "optimize" -> 2 [] step = "link libs" -> 3
      [] step = "link time optimize" -> 4 [] step = "save bc" -> 5 [] step = "llc" -> 6
      [] step = "s2wasm" -> 7 [] step = "binaryen" -> 8 [] step = "save wast" -> 9 [] OTHER -> 10

\* Steps with ranks from a to b, each once and in their order.
Ordered(c, a, b) ==
    /\ c \in Seq(Steps)
    /\ \A i \in 1..Len(c) : a <= Rank(c[i]) /\ Rank(c[i]) <= b
    /\ \A i, j \in 1..Len(c) : i < j => Rank(c[i]) < Rank(c[j])

Occurs(step, c) == \E i \in 1..Len(c) : c[i] = step

\* The place of a step in the order of the tools.
LEMMA RankType == \A s \in Steps : Rank(s) \in Nat
BY DEF Steps, Rank

\* A piece of a chain followed by a later one.
LEMMA OrderedConcat ==
    ASSUME NEW c, NEW d, NEW a \in Nat, NEW b \in Nat, NEW e \in Nat, NEW f \in Nat,
           Ordered(c, a, b), Ordered(d, e, f), a <= e, b < e, b <= f
    PROVE  Ordered(c \o d, a, f)
<1>1. c \in Seq(Steps) /\ d \in Seq(Steps)
    BY DEF Ordered
<1>2. /\ c \o d \in Seq(Steps)
      /\ Len(c) \in Nat /\ Len(d) \in Nat
      /\ Len(c \o d) = Len(c) + Len(d)
      /\ \A i \in 1..Len(c \o d) : (c \o d)[i] = IF i <= Len(c) THEN c[i] ELSE d[i - Len(c)]
    BY <1>1, ConcatProperties, LenProperties
<1>3. \A i \in 1..Len(c) : c[i] \in Steps /\ Rank(c[i]) \in Nat
    BY <1>1, ElementOfSeq, RankType
<1>4. \A i \in 1..Len(d) : d[i] \in Steps /\ Rank(d[i]) \in Nat
    BY <1>1, ElementOfSeq, RankType
<1>5. \A i \in 1..Len(c \o d) : a <= Rank((c \o d)[i]) /\ Rank((c \o d)[i]) <= f
    BY <1>2, <1>3, <1>4 DEF Ordered
<1>6. ASSUME NEW i \in 1..Len(c \o d), NEW j \in 1..Len(c \o d), i < j
      PROVE  Rank((c \o d)[i]) < Rank((c \o d)[j])
    <2>1. CASE j <= Len(c)
        <3>1. i \in 1..Len(c) /\ j \in 1..Len(c)
            BY <1>2, <1>6, <2>1
        <3>2. Rank(c[i]) < Rank(c[j])
            BY <1>6, <3>1 DEF Ordered
        <3> QED
            BY <1>2, <3>1, <3>2
    <2>2. CASE i > Len(c)
        <3>1. (i - Len(c)) \in 1..Len(d) /\ (j - Len(c)) \in 1..Len(d) /\ i - Len(c) < j - Len(c)
            BY <1>2, <1>6, <2>2
        <3>2. Rank(d[i - Len(c)]) < Rank(d[j - Len(c)])
            BY <3>1 DEF Ordered
        <3> QED
            BY <1>2, <1>6, <2>2, <3>2
    <2>3. CASE i <= Len(c) /\ j > Len(c)
        <3>1. i \in 1..Len(c) /\ (j - Len(c)) \in 1..Len(d)
            BY <1>2, <2>3
        <3>2. Rank(c[i]) <= b /\ e <= Rank(d[j - Len(c)])
            BY <3>1 DEF Ordered
        <3>3. Rank(c[i]) \in Nat /\ Rank(d[j - Len(c)]) \in Nat
            BY <1>3, <1>4, <3>1
        <3>4. Rank(c[i]) < Rank(d[j - Len(c)])
            BY <3>2, <3>3
        <3>5. (c \o d)[i] = c[i] /\ (c \o d)[j] = d[j - Len(c)]
            BY <1>2, <2>3
        <3> QED
            BY <3>4, <3>5
    <2> QED
        BY <1>2, <2>1, <2>2, <2>3
<1> QED
    BY <1>2, <1>5, <1>6 DEF Ordered

\* A step occurs in a chain when it occurs in one of its pieces.
LEMMA OccursConcat ==
    ASSUME NEW c, NEW d, NEW a, NEW b, NEW e, NEW f, Ordered(c, a, b), Ordered(d, e, f), NEW s
    PROVE  Occurs(s, c \o d) <=> Occurs(s, c) \/ Occurs(s, d)
<1>1. c \in Seq(Steps) /\ d \in Seq(Steps)
    BY DEF Ordered
<1>2. /\ Len(c) \in Nat /\ Len(d) \in Nat
      /\ Len(c \o d) = Len(c) + Len(d)
      /\ \A i \in 1..Len(c \o d) : (c \o d)[i] = IF i <= Len(c) THEN c[i] ELSE d[i - Len(c)]
    BY <1>1, ConcatProperties, LenProperties
<1>3. ASSUME NEW i \in 1..Len(d)
      PROVE  Len(c) + i \in 1..Len(c \o d) /\ (c \o d)[Len(c) + i] = d[i]
    BY <1>2
<1>4. ASSUME NEW i \in 1..Len(c)
      PROVE  i \in 1..Len(c \o d) /\ (c \o d)[i] = c[i]
    BY <1>2
<1>5. ASSUME NEW i \in 1..Len(c \o d), i > Len(c)
      PROVE  i - Len(c) \in 1..Len(d) /\ (c \o d)[i] = d[i - Len(c)]
    BY <1>2, <1>5
<1>6. ASSUME NEW i \in 1..Len(c \o d), (c \o d)[i] = s
      PROVE  Occurs(s, c) \/ Occurs(s, d)
    <2>1. CASE i > Len(c)
        BY <1>5, <1>6, <2>1 DEF Occurs
    <2>2. CASE i <= Len(c)
        <3>1. i \in 1..Len(c)
            BY <1>2, <2>2
        <3> QED
            BY <1>4, <1>6, <3>1 DEF Occurs
    <2> QED
        BY <1>2, <2>1, <2>2
<1>7. Occurs(s, c) => Occurs(s, c \o d)
    BY <1>4 DEF Occurs
<1>8. Occurs(s, d) => Occurs(s, c \o d)
    BY <1>3 DEF Occurs
<1>9. Occurs(s, c \o d) => Occurs(s, c) \/ Occurs(s, d)
    BY <1>6 DEF Occurs
<1> QED
    BY <1>7, <1>8, <1>9

\* The pieces.
LEMMA OrderedIf ==
    ASSUME NEW condition, NEW step \in Steps
    PROVE  Ordered(If(condition, step), Rank(step), Rank(step))
BY RankType DEF Ordered, If

LEMMA OrderedOne ==
    ASSUME NEW step \in Steps
    PROVE  Ordered(<<step>>, Rank(step), Rank(step))
BY RankType DEF Ordered

LEMMA OrderedTwo ==
    ASSUME NEW x \in Steps, NEW y \in Steps, NEW a \in Nat, NEW b \in Nat, a < b,
           Rank(x) = a, Rank(y) = b
    PROVE  Ordered(<<x, y>>, a, b)
<1>1. PICK p : p = <<x, y>>
    OBVIOUS
<1>2. p \in Seq(Steps) /\ Len(p) = 2 /\ p[1] = x /\ p[2] = y
    BY <1>1
<1>3. \A i \in 1..2 : i = 1 \/ i = 2
    OBVIOUS
<1>4. Ordered(p, a, b)
    BY <1>2, <1>3 DEF Ordered
<1> QED
    BY <1>1, <1>4

\* The steps of short pieces.
LEMMA OccursOne == \A x : Occurs(x, <<x>>)
BY DEF Occurs

LEMMA OccursTwo == \A x, y : Occurs(x, <<x, y>>) /\ Occurs(y, <<x, y>>)
<1>1. ASSUME NEW x, NEW y
      PROVE  Occurs(x, <<x, y>>) /\ Occurs(y, <<x, y>>)
    <2>1. 1 \in 1..Len(<<x, y>>) /\ 2 \in 1..Len(<<x, y>>)
        OBVIOUS
    <2>2. <<x, y>>[1] = x /\ <<x, y>>[2] = y
        OBVIOUS
    <2> QED
        BY <2>1, <2>2 DEF Occurs
<1> QED
    BY <1>1

\* Whatever the options are, the steps of the chain follow the order and the tools that are
\* not optional are there.
LEMMA ChainOrdered ==
    ASSUME NEW o
    PROVE  LET c == CreateTransformationChain(o)
           IN  /\ Ordered(c, 1, 10)
               /\ \A s \in {"link runtime", "link libs", "llc", "s2wasm", "wasm-as"} : Occurs(s, c)
<1>0. /\ Rank("link runtime") = 1 /\ Rank("optimize") = 2 /\ Rank("link libs") = 3
      /\ Rank("link time optimize") = 4 /\ Rank("save bc") = 5 /\ Rank("llc") = 6
      /\ Rank("s2wasm") = 7 /\ Rank("binaryen") = 8 /\ Rank("save wast") = 9 /\ Rank("wasm-as") = 10
    BY DEF Rank
<1>S. /\ "link runtime" \in Steps /\ "optimize" \in Steps /\ "link libs" \in Steps
      /\ "link time optimize" \in Steps /\ "save bc" \in Steps /\ "llc" \in Steps /\ "s2wasm" \in Steps
      /\ "binaryen" \in Steps /\ "save wast" \in Steps /\ "wasm-as" \in Steps
    BY DEF Steps
<1>p1. PICK p1 : p1 = <<"link runtime">>
    OBVIOUS
<1>o1. Ordered(p1, 1, 1)
    BY <1>0, <1>S, <1>p1, OrderedOne
<1>u1. Occurs("link runtime", p1)
    BY <1>p1, OccursOne
<1>p2. PICK p2 : p2 = If(Optimizes(o), "optimize")
    OBVIOUS
<1>o2. Ordered(p2, 2, 2)
    BY <1>0, <1>S, <1>p2, OrderedIf
<1>s3. Ordered(<<"link libs", "link time optimize">>, 3, 4)
    <2>1. PICK x \in Steps, y \in Steps : x = "link libs" /\ y = "link time optimize"
        BY <1>S
    <2>2. Rank(x) = 3 /\ Rank(y) = 4
        BY <1>0, <2>1
    <2>3. Ordered(<<x, y>>, 3, 4)
        BY <2>2, OrderedTwo
    <2> QED
        BY <2>1, <2>3
<1>p3. PICK p3 : p3 = <<"link libs", "link time optimize">>
    OBVIOUS
<1>o3. Ordered(p3, 3, 4)
    BY <1>p3, <1>s3
<1>u3. Occurs("link libs", p3)
    BY <1>p3, OccursTwo
<1>p4. PICK p4 : p4 = If(o.saveBc, "save bc")
    OBVIOUS
<1>o4. Ordered(p4, 5, 5)
    BY <1>0, <1>S, <1>p4, OrderedIf
<1>s5. Ordered(<<"llc", "s2wasm">>, 6, 7)
    <2>1. PICK x \in Steps, y \in Steps : x = "llc" /\ y = "s2wasm"
        BY <1>S
    <2>2. Rank(x) = 6 /\ Rank(y) = 7
        BY <1>0, <2>1
    <2>3. Ordered(<<x, y>>, 6, 7)
        BY <2>2, OrderedTwo
    <2> QED
        BY <2>1, <2>3
<1>p5. PICK p5 : p5 = <<"llc", "s2wasm">>
    OBVIOUS
<1>o5. Ordered(p5, 6, 7)
    BY <1>p5, <1>s5
<1>u5. Occurs("llc", p5) /\ Occurs("s2wasm", p5)
    BY <1>p5, OccursTwo
<1>p6. PICK p6 : p6 = If(o.binaryenOpt /\ Optimizes(o), "binaryen")
    OBVIOUS
<1>o6. Ordered(p6, 8, 8)
    BY <1>0, <1>S, <1>p6, OrderedIf
<1>p7. PICK p7 : p7 = If(o.saveWast, "save wast")
    OBVIOUS
<1>o7. Ordered(p7, 9, 9)
    BY <1>0, <1>S, <1>p7, OrderedIf
<1>p8. PICK p8 : p8 = <<"wasm-as">>
    OBVIOUS
<1>o8. Ordered(p8, 10, 10)
    BY <1>0, <1>S, <1>p8, OrderedOne
<1>u8. Occurs("wasm-as", p8)
    BY <1>p8, OccursOne
<1>k2. Ordered(p1 \o p2, 1, 2)
    BY <1>o1, <1>o2, OrderedConcat
<1>l2. \A s : Occurs(s, p1 \o p2) <=> Occurs(s, p1) \/ Occurs(s, p2)
    BY <1>o1, <1>o2, OccursConcat
<1>c2. PICK c2 : c2 = p1 \o p2
    OBVIOUS
<1>j2. Ordered(c2, 1, 2)
    BY <1>k2, <1>c2
<1>v2. \A s \in {"link runtime"} : Occurs(s, c2)
    BY <1>u1, <1>l2, <1>c2
<1>k3. Ordered(c2 \o p3, 1, 4)
    BY <1>j2, <1>o3, OrderedConcat
<1>l3. \A s : Occurs(s, c2 \o p3) <=> Occurs(s, c2) \/ Occurs(s, p3)
    BY <1>j2, <1>o3, OccursConcat
<1>c3. PICK c3 : c3 = c2 \o p3
    OBVIOUS
<1>j3. Ordered(c3, 1, 4)
    BY <1>k3, <1>c3
<1>v3. \A s \in {"link runtime", "link libs"} : Occurs(s, c3)
    BY <1>v2, <1>l3, <1>c3, <1>u3
<1>k4. Ordered(c3 \o p4, 1, 5)
    BY <1>j3, <1>o4, OrderedConcat
<1>l4. \A s : Occurs(s, c3 \o p4) <=> Occurs(s, c3) \/ Occurs(s, p4)
    BY <1>j3, <1>o4, OccursConcat
<1>c4. PICK c4 : c4 = c3 \o p4
    OBVIOUS
<1>j4. Ordered(c4, 1, 5)
    BY <1>k4, <1>c4
<1>v4. \A s \in {"link runtime", "link libs"} : Occurs(s, c4)
    BY <1>v3, <1>l4, <1>c4
<1>k5. Ordered(c4 \o p5, 1, 7)
    BY <1>j4, <1>o5, OrderedConcat
<1>l5. \A s : Occurs(s, c4 \o p5) <=> Occurs(s, c4) \/ Occurs(s, p5)
    BY <1>j4, <1>o5, OccursConcat
<1>c5. PICK c5 : c5 = c4 \o p5
    OBVIOUS
<1>j5. Ordered(c5, 1, 7)
    BY <1>k5, <1>c5
<1>v5. \A s \in {"link runtime", "link libs", "llc", "s2wasm"} : Occurs(s, c5)
    BY <1>v4, <1>l5, <1>c5, <1>u5
<1>k6. Ordered(c5 \o p6, 1, 8)
    BY <1>j5, <1>o6, OrderedConcat
<1>l6. \A s : Occurs(s, c5 \o p6) <=> Occurs(s, c5) \/ Occurs(s, p6)
    BY <1>j5, <1>o6, OccursConcat
<1>c6. PICK c6 : c6 = c5 \o p6
    OBVIOUS
<1>j6. Ordered(c6, 1, 8)
    BY <1>k6, <1>c6
<1>v6. \A s \in {"link runtime", "link libs", "llc", "s2wasm"} : Occurs(s, c6)
    BY <1>v5, <1>l6, <1>c6
<1>k7. Ordered(c6 \o p7, 1, 9)
    BY <1>j6, <1>o7, OrderedConcat
<1>l7. \A s : Occurs(s, c6 \o p7) <=> Occurs(s, c6) \/ Occurs(s, p7)
    BY <1>j6, <1>o7, OccursConcat
<1>c7. PICK c7 : c7 = c6 \o p7
    OBVIOUS
<1>j7. Ordered(c7, 1, 9)
    BY <1>k7, <1>c7
<1>v7. \A s \in {"link runtime", "link libs", "llc", "s2wasm"} : Occurs(s, c7)
    BY <1>v6, <1>l7, <1>c7
<1>k8. Ordered(c7 \o p8, 1, 10)
    BY <1>j7, <1>o8, OrderedConcat
<1>l8. \A s : Occurs(s, c7 \o p8) <=> Occurs(s, c7) \/ Occurs(s, p8)
    BY <1>j7, <1>o8, OccursConcat
<1>c8. PICK c8 : c8 = c7 \o p8
    OBVIOUS
<1>j8. Ordered(c8, 1, 10)
    BY <1>k8, <1>c8
<1>v8. \A s \in {"link runtime", "link libs", "llc", "s2wasm", "wasm-as"} : Occurs(s, c8)
    BY <1>v7, <1>l8, <1>c8, <1>u8
<1>9. CreateTransformationChain(o) = c8
    BY <1>p1, <1>p2, <1>p3, <1>p4, <1>p5, <1>p6, <1>p7, <1>p8, <1>c2, <1>c3, <1>c4, <1>c5, <1>c6, <1>c7, <1>c8
    DEF CreateTransformationChain
<1> QED
    BY <1>j8, <1>v8, <1>9

\* Two steps of a chain follow each other as their ranks do.
LEMMA OrderedPositions ==
    ASSUME NEW c, Ordered(c, 1, 10), NEW i \in 1..Len(c), NEW j \in 1..Len(c)
    PROVE  /\ Len(c) \in Nat /\ c[i] \in Steps /\ Rank(c[i]) \in 1..10
           /\ i < j <=> Rank(c[i]) < Rank(c[j])
<1>1. c \in Seq(Steps)
    BY DEF Ordered
<1>a. Len(c) \in Nat
    BY <1>1, LenProperties
<1>b. c[i] \in Steps /\ c[j] \in Steps
    BY <1>1, ElementOfSeq
<1>2. Len(c) \in Nat /\ c[i] \in Steps /\ c[j] \in Steps
    BY <1>a, <1>b
<1>c. Rank(c[i]) \in Nat /\ Rank(c[j]) \in Nat
    BY <1>2, RankType
<1>d. 1 <= Rank(c[i]) /\ Rank(c[i]) <= 10 /\ 1 <= Rank(c[j]) /\ Rank(c[j]) <= 10
    BY DEF Ordered
<1>3. Rank(c[i]) \in 1..10 /\ Rank(c[j]) \in 1..10
    BY <1>c, <1>d
<1>4. i < j => Rank(c[i]) < Rank(c[j])
    BY DEF Ordered
<1>5. j < i => Rank(c[j]) < Rank(c[i])
    BY DEF Ordered
<1> QED
    BY <1>2, <1>3, <1>4, <1>5

\* The steps done when n steps of the chain are.
DoneBy(c, n) == {s \in Changes : \E i \in 1..n : c[i] = s}

\* The places of the steps.
LEMMA RankOf ==
    /\ Rank("link runtime") = 1 /\ Rank("link libs") = 3 /\ Rank("save bc") = 5 /\ Rank("llc") = 6
    /\ Rank("s2wasm") = 7 /\ Rank("binaryen") = 8 /\ Rank("save wast") = 9 /\ Rank("wasm-as") = 10
BY DEF Rank

\* The formats a tool reads and writes follow from its place in the order.
LEMMA FormatByRank ==
    ASSUME NEW s \in Steps
    PROVE  /\ Rank(s) <= 6 => Reads(s) = "bc"
           /\ Rank(s) = 7 => Reads(s) = "s"
           /\ Rank(s) >= 8 => Reads(s) = "wast"
           /\ Rank(s) <= 5 => Writes(s) = "bc"
           /\ Rank(s) = 6 => Writes(s) = "s"
           /\ Rank(s) >= 7 /\ Rank(s) <= 9 => Writes(s) = "wast"
           /\ Rank(s) = 10 => s = "wasm-as"
           /\ s \in Changes => Rank(s) <= 4 \/ s = "binaryen"
<1>1. CASE s = "link runtime"
    <2>1. Rank(s) = 1
        BY <1>1 DEF Rank
    <2>2. Reads(s) = "bc"
        BY <1>1 DEF Reads
    <2>3. Writes(s) = "bc"
        BY <1>1 DEF Writes, Reads
    <2>4. s \in Changes => TRUE
        BY <1>1 DEF Changes
    <2> QED
        BY <2>1, <2>2, <2>3, <2>4
<1>2. CASE s = "optimize"
    <2>1. Rank(s) = 2
        BY <1>2 DEF Rank
    <2>2. Reads(s) = "bc"
        BY <1>2 DEF Reads
    <2>3. Writes(s) = "bc"
        BY <1>2 DEF Writes, Reads
    <2>4. s \in Changes => TRUE
        BY <1>2 DEF Changes
    <2> QED
        BY <2>1, <2>2, <2>3, <2>4
<1>3. CASE s = "link libs"
    <2>1. Rank(s) = 3
        BY <1>3 DEF Rank
    <2>2. Reads(s) = "bc"
        BY <1>3 DEF Reads
    <2>3. Writes(s) = "bc"
        BY <1>3 DEF Writes, Reads
    <2>4. s \in Changes => TRUE
        BY <1>3 DEF Changes
    <2> QED
        BY <2>1, <2>2, <2>3, <2>4
<1>4. CASE s = "link time optimize"
    <2>1. Rank(s) = 4
        BY <1>4 DEF Rank
    <2>2. Reads(s) = "bc"
        BY <1>4 DEF Reads
    <2>3. Writes(s) = "bc"
        BY <1>4 DEF Writes, Reads
    <2>4. s \in Changes => TRUE
        BY <1>4 DEF Changes
    <2> QED
        BY <2>1, <2>2, <2>3, <2>4
<1>5. CASE s = "save bc"
    <2>1. Rank(s) = 5
        BY <1>5 DEF Rank
    <2>2. Reads(s) = "bc"
        BY <1>5 DEF Reads
    <2>3. Writes(s) = "bc"
        BY <1>5 DEF Writes, Reads
    <2>4. s \in Changes => s = "binaryen"
        BY <1>5 DEF Changes
    <2> QED
        BY <2>1, <2>2, <2>3, <2>4
<1>6. CASE s = "llc"
    <2>1. Rank(s) = 6
        BY <1>6 DEF Rank
    <2>2. Reads(s) = "bc"
        BY <1>6 DEF Reads
    <2>3. Writes(s) = "s"
        BY <1>6 DEF Writes, Reads
    <2>4. s \in Changes => s = "binaryen"
        BY <1>6 DEF Changes
    <2> QED
        BY <2>1, <2>2, <2>3, <2>4
<1>7. CASE s = "s2wasm"
    <2>1. Rank(s) = 7
        BY <1>7 DEF Rank
    <2>2. Reads(s) = "s"
        BY <1>7 DEF Reads
    <2>3. Writes(s) = "wast"
        BY <1>7 DEF Writes, Reads
    <2>4. s \in Changes => s = "binaryen"
        BY <1>7 DEF Changes
    <2> QED
        BY <2>1, <2>2, <2>3, <2>4
<1>8. CASE s = "binaryen"
    <2>1. Rank(s) = 8
        BY <1>8 DEF Rank
    <2>2. Reads(s) = "wast"
        BY <1>8 DEF Reads
    <2>3. Writes(s) = "wast"
        BY <1>8 DEF Writes, Reads
    <2>4. s \in Changes => s = "binaryen"
        BY <1>8 DEF Changes
    <2> QED
        BY <2>1, <2>2, <2>3, <2>4
<1>9. CASE s = "save wast"
    <2>1. Rank(s) = 9
        BY <1>9 DEF Rank
    <2>2. Reads(s) = "wast"
        BY <1>9 DEF Reads
    <2>3. Writes(s) = "wast"
        BY <1>9 DEF Writes, Reads
    <2>4. s \in Changes => s = "binaryen"
        BY <1>9 DEF Changes
    <2> QED
        BY <2>1, <2>2, <2>3, <2>4
<1>10. CASE s = "wasm-as"
    <2>1. Rank(s) = 10
        BY <1>10 DEF Rank
    <2>2. Reads(s) = "wast"
        BY <1>10 DEF Reads
    <2>3. Writes(s) = "wasm"
        BY <1>10 DEF Writes, Reads
    <2>4. s \in Changes => s = "binaryen"
        BY <1>10 DEF Changes
    <2> QED
        BY <1>10, <2>1, <2>2, <2>3, <2>4
<1> QED
    BY <1>1, <1>2, <1>3, <1>4, <1>5, <1>6, <1>7, <1>8, <1>9, <1>10 DEF Steps

\* The first tool reads bitcode, every other one what the one before it writes.
LEMMA ChainFormats ==
    ASSUME NEW c, Ordered(c, 1, 10),
           NEW r \in 1..Len(c), Rank(c[r]) = 1, NEW l \in 1..Len(c), Rank(c[l]) = 6,
           NEW a \in 1..Len(c), Rank(c[a]) = 7
    PROVE  /\ Len(c) \in Nat /\ Len(c) > 0
           /\ Reads(c[1]) = "bc"
           /\ \A n \in 1..(Len(c) - 1) : Reads(c[n + 1]) = Writes(c[n])
<1>1. Len(c) \in Nat
    BY OrderedPositions
<1>3. Len(c) > 0 /\ 1 \in 1..Len(c)
    BY <1>1
<1>4. Reads(c[1]) = "bc"
    <2>1. c[1] \in Steps /\ Rank(c[1]) \in 1..10 /\ (1 < r <=> Rank(c[1]) < Rank(c[r]))
        BY <1>3, OrderedPositions
    <2>2. r = 1
        BY <1>1, <2>1
    <2> QED
        BY <2>1, <2>2, FormatByRank
<1>5. ASSUME NEW n \in 1..(Len(c) - 1)
      PROVE  Reads(c[n + 1]) = Writes(c[n])
    <2>1. n \in 1..Len(c) /\ n + 1 \in 1..Len(c) /\ n \in Nat
        BY <1>1
    <2>2. /\ c[n] \in Steps /\ c[n + 1] \in Steps
          /\ Rank(c[n]) \in 1..10 /\ Rank(c[n + 1]) \in 1..10
        BY <2>1, OrderedPositions
    <2>3. Rank(c[n]) < Rank(c[n + 1])
        BY <2>1, OrderedPositions
    <2>4. CASE Rank(c[n]) <= 5
        <3>1. n < l
            BY <2>1, <2>4, <2>2, OrderedPositions
        <3>2. ~(l < n + 1)
            BY <1>1, <2>1, <3>1
        <3>3. Rank(c[n + 1]) <= 6
            BY <2>1, <2>2, <3>2, OrderedPositions
        <3>4. Reads(c[n + 1]) = "bc"
            BY <2>2, <3>3, FormatByRank
        <3>5. Writes(c[n]) = "bc"
            BY <2>2, <2>4, FormatByRank
        <3> QED
            BY <3>4, <3>5
    <2>5. CASE Rank(c[n]) = 6
        <3>1. n < a
            BY <2>1, <2>5, <2>2, OrderedPositions
        <3>2. ~(a < n + 1)
            BY <1>1, <2>1, <3>1
        <3>3. Rank(c[n + 1]) <= 7
            BY <2>1, <2>2, <3>2, OrderedPositions
        <3>4. Rank(c[n + 1]) = 7
            BY <2>2, <2>3, <2>5, <3>3
        <3>5. Reads(c[n + 1]) = "s"
            BY <2>2, <3>4, FormatByRank
        <3>6. Writes(c[n]) = "s"
            BY <2>2, <2>5, FormatByRank
        <3> QED
            BY <3>5, <3>6
    <2>6. CASE Rank(c[n]) >= 7
        <3>1. Rank(c[n]) <= 9 /\ Rank(c[n + 1]) >= 8
            BY <2>2, <2>3, <2>6
        <3>2. Reads(c[n + 1]) = "wast"
            BY <2>2, <3>1, FormatByRank
        <3>3. Writes(c[n]) = "wast"
            BY <2>2, <2>6, <3>1, FormatByRank
        <3> QED
            BY <3>2, <3>3
    <2> QED
        BY <2>2, <2>4, <2>5, <2>6
<1> QED
    BY <1>1, <1>3, <1>4, <1>5

\* The last tool, and no other one, writes the module.
LEMMA ChainEnds ==
    ASSUME NEW c, Ordered(c, 1, 10), NEW w \in 1..Len(c), c[w] = "wasm-as"
    PROVE  w = Len(c)
<1>1. Len(c) \in Nat /\ Len(c) \in 1..Len(c)
    BY OrderedPositions
<1>2. Rank(c[w]) = 10
    BY RankOf
<1>3. Rank(c[Len(c)]) \in 1..10 /\ (w < Len(c) <=> Rank(c[w]) < Rank(c[Len(c)]))
    BY <1>1, OrderedPositions
<1> QED
    BY <1>1, <1>2, <1>3

\* What the saved files and the module have been through.
LEMMA ChainSaves ==
    ASSUME NEW c, Ordered(c, 1, 10), NEW n \in 1..Len(c)
    PROVE  /\ c[n] = "save bc" => DoneBy(c, n - 1) = DoneBy(c, Len(c)) \ {"binaryen"}
           /\ c[n] \in {"save wast", "wasm-as"} => DoneBy(c, n - 1) = DoneBy(c, Len(c))
<1>1. Len(c) \in Nat /\ n \in Nat
    BY OrderedPositions
<1>2. DoneBy(c, n - 1) \subseteq DoneBy(c, Len(c))
    BY <1>1 DEF DoneBy
<1>3. ASSUME NEW i \in 1..Len(c), c[i] \in Changes, Rank(c[n]) >= 9 \/ (Rank(c[n]) = 5 /\ c[i] # "binaryen")
      PROVE  i \in 1..(n - 1)
    <2>1. /\ c[i] \in Steps /\ Rank(c[i]) \in 1..10 /\ Rank(c[n]) \in 1..10
          /\ (i < n <=> Rank(c[i]) < Rank(c[n]))
        BY OrderedPositions
    <2>2. Rank(c[i]) <= 4 \/ c[i] = "binaryen"
        BY <1>3, <2>1, FormatByRank
    <2>3. c[i] = "binaryen" => Rank(c[i]) = 8
        BY RankOf
    <2>4. Rank(c[i]) < Rank(c[n])
        BY <1>3, <2>1, <2>2, <2>3
    <2> QED
        BY <1>1, <2>1, <2>4
<1>4. ASSUME c[n] = "save bc"
      PROVE  DoneBy(c, n - 1) = DoneBy(c, Len(c)) \ {"binaryen"}
    <2>1. Rank(c[n]) = 5
        BY <1>4, RankOf
    <2>2. ASSUME NEW s \in DoneBy(c, Len(c)), s # "binaryen"
          PROVE  s \in DoneBy(c, n - 1)
        <3>1. PICK i \in 1..Len(c) : c[i] = s
            BY <2>2 DEF DoneBy
        <3>2. s \in Changes
            BY <2>2 DEF DoneBy
        <3>3. i \in 1..(n - 1)
            BY <1>3, <2>1, <2>2, <3>1, <3>2
        <3> QED
            BY <3>1, <3>2, <3>3 DEF DoneBy
    <2>3. ASSUME NEW i \in 1..(n - 1), c[i] = "binaryen"
          PROVE  FALSE
        <3>1. i \in 1..Len(c) /\ i < n
            BY <1>1
        <3>2. Rank(c[i]) = 8
            BY <2>3, RankOf
        <3>3. i < n <=> Rank(c[i]) < Rank(c[n])
            BY <3>1, OrderedPositions
        <3> QED
            BY <2>1, <3>1, <3>2, <3>3
    <2>4. "binaryen" \notin DoneBy(c, n - 1)
        BY <2>3 DEF DoneBy
    <2> QED
        BY <1>2, <2>2, <2>4
<1>5. ASSUME c[n] \in {"save wast", "wasm-as"}
      PROVE  DoneBy(c, n - 1) = DoneBy(c, Len(c))
    <2>1. Rank(c[n]) >= 9
        <3>1. CASE c[n] = "save wast"
            <4>1. Rank(c[n]) = 9
                BY <3>1, RankOf
            <4> QED
                BY <4>1
        <3>2. CASE c[n] = "wasm-as"
            <4>1. Rank(c[n]) = 10
                BY <3>2, RankOf
            <4> QED
                BY <4>1
        <3> QED
            BY <1>5, <3>1, <3>2
    <2>2. ASSUME NEW s \in DoneBy(c, Len(c))
          PROVE  s \in DoneBy(c, n - 1)
        <3>1. PICK i \in 1..Len(c) : c[i] = s
            BY <2>2 DEF DoneBy
        <3>2. s \in Changes
            BY <2>2 DEF DoneBy
        <3>3. i \in 1..(n - 1)
            BY <1>3, <2>1, <3>1, <3>2
        <3> QED
            BY <3>1, <3>2, <3>3 DEF DoneBy
    <2> QED
        BY <1>2, <2>2
<1> QED
    BY <1>4, <1>5

-----------------------------------------------------------------------------
(* Sequences that grow and shrink at their end.                            *)

LEMMA FrontProperties ==
    ASSUME NEW S, NEW s \in Seq(S), s # <<>>
    PROVE  /\ Front(s) \in Seq(S)
           /\ Len(s) \in Nat /\ Len(s) > 0
           /\ Len(Front(s)) = Len(s) - 1
           /\ \A i \in 1..(Len(s) - 1) : Front(s)[i] = s[i]
           /\ Last(s) = s[Len(s)]
<1>1. Len(s) \in Nat /\ Len(s) > 0
    BY EmptySeq
<1>2. PICK n \in Nat : n = Len(s) - 1
    BY <1>1
<1>3. \A i \in 1..n : s[i] \in S
    BY <1>1, <1>2
<1>4. /\ SubSeq(s, 1, n) \in Seq(S)
      /\ Len(SubSeq(s, 1, n)) = IF 1 <= n THEN n - 1 + 1 ELSE 0
      /\ \A i \in 1..(n - 1 + 1) : SubSeq(s, 1, n)[i] = s[1 + i - 1]
    BY <1>3, SubSeqProperties
<1>5. Front(s) = SubSeq(s, 1, n)
    BY <1>2 DEF Front
<1>6. Last(s) = s[Len(s)]
    BY DEF Last
<1> QED
    BY <1>1, <1>2, <1>4, <1>5, <1>6

LEMMA PushProperties ==
    ASSUME NEW S, NEW s \in Seq(S), NEW x \in S
    PROVE  /\ Append(s, x) \in Seq(S)
           /\ Len(s) \in Nat /\ Len(Append(s, x)) = Len(s) + 1
           /\ Append(s, x)[Len(s) + 1] = x
           /\ \A i \in 1..Len(s) : Append(s, x)[i] = s[i]
BY AppendProperties

LEMMA PrefixElements ==
    ASSUME NEW S, NEW s \in Seq(S), NEW t \in Seq(S), IsPrefix(s, t), NEW i \in 1..Len(s)
    PROVE  i \in 1..Len(t) /\ s[i] = t[i]
<1>1. Len(s) \in Nat /\ Len(t) \in Nat
    BY LenProperties
<1>2. PICK n \in Nat : n = Len(s)
    BY <1>1
<1>3. n <= Len(t) /\ SubSeq(s, 1, n) = SubSeq(t, 1, n)
    BY <1>2 DEF IsPrefix
<1>4. i \in 1..Len(t)
    BY <1>1, <1>2, <1>3
<1>5. SubSeq(s, 1, n)[i] = s[i]
    BY <1>2
<1>6. SubSeq(t, 1, n)[i] = t[i]
    BY <1>2
<1> QED
    BY <1>3, <1>4, <1>5, <1>6

-----------------------------------------------------------------------------
(* The visit of the source files.                                          *)

Visits == [function : Functions, flag : BOOLEAN]

VisitTypes ==
    /\ visiting \in Seq(Visits)
    /\ inSpeedyJSFunction \in BOOLEAN

(* The flag of a function being visited is that of the functions around it. *)
FlagsNest ==
    /\ FlagAgrees
    /\ \A i \in 1..Len(visiting) :
           visiting[i].flag <=> \E j \in 1..(i - 1) : IsSpeedyJSFunction(visiting[j].function)

(* Functions are visited in one file at a time, which is completed after.  *)
Place ==
    /\ completing \in {0, file}
    /\ written \in {0, completing}
    /\ file = 0 \/ completing # 0 => visiting = <<>>
    /\ \A i \in 1..Len(visiting) : /\ visiting[i].function \in visited
                                   /\ FileOf[visiting[i].function] = file
    /\ status = "starting" => visited = {} /\ file = 0
    /\ status = "Success" => file = 0

Replaceable(f) == IsSpeedyJSFunction(f) /\ declaration[f].kind = "FunctionDeclaration"

OnPath(f) == \E i \in 1..Len(visiting) : visiting[i].function = f

(* A function with the directive is an entry function or removed when its  *)
(* visit is over, unless an error ended the compilation.                   *)
Settled ==
    /\ status \in {"starting", "emitting", "Success"} =>
           \A f \in visited : Replaceable(f) => f \in removed \cup entryFunctions \/ OnPath(f)
    /\ \A f \in removed : Replaceable(f) /\ ~IsSpeedyJSEntryFunction(f)

(* A reference to a removed function of the same file stands within a      *)
(* function with the directive.                                            *)
ReferencesChecked ==
    \A r \in references :
        /\ r.to \in Functions /\ r.within \in Seq(Functions)
        /\ \A i \in DOMAIN r.within : r.within[i] \in visited
        /\ IsPrefix(Enclosing[r.to], r.within)
        /\ r.file = FileOf[r.to] /\ ~CanBeCalledFromJs(r.to) =>
               \E i \in DOMAIN r.within : IsSpeedyJSFunction(r.within[i])

VisitInv == VisitTypes /\ FlagsNest /\ Place /\ Settled /\ ReferencesChecked

\* What a function is, and how the compilation was started, never changes.
LEMMA ProgramStays ==
    ASSUME [Next]_vars
    PROVE  /\ declaration' = declaration
           /\ compilerOptions' = compilerOptions
           /\ request' = request
BY DEF Next, Step, Ended, vars, visitorVars, pipelineVars, hostVars, Refuse, Compile, BeginSourceFile, Visit,
       EnterFunction, VisitIdentifier, LeaveFunction, GenerateEntryFunction, LeaveEntryFunction, FailVisit,
       CompleteSourceFile, Build, WriteModule, CleanDirectories, RemoveTempObject, Transform, FailBuild,
       RewriteSourceFile, PrintFile, FailPrint, Finish

\* What the directives and modifiers of a function make of it stays.
LEMMA RulesStay ==
    ASSUME declaration' = declaration
    PROVE  /\ \A f : IsSpeedyJSFunction(f)' <=> IsSpeedyJSFunction(f)
           /\ \A f : IsSpeedyJSEntryFunction(f)' <=> IsSpeedyJSEntryFunction(f)
           /\ \A f : CanBeCalledFromJs(f)' <=> CanBeCalledFromJs(f)
           /\ \A f : Replaceable(f)' <=> Replaceable(f)
BY DEF IsSpeedyJSFunction, IsSpeedyJSEntryFunction, CanBeCalledFromJs, Replaceable

\* Nothing is being visited at the start.
LEMMA VisitInit == Init => VisitInv
<1> SUFFICES ASSUME Init PROVE VisitInv
    OBVIOUS
<1>1. /\ file = 0 /\ visiting = <<>> /\ visited = {} /\ inSpeedyJSFunction = FALSE /\ references = {}
      /\ entryFunctions = {} /\ removed = {} /\ written = 0 /\ completing = 0 /\ status = "starting"
    BY DEF Init, VisitorInit, PipelineInit
<1>2. Len(visiting) = 0 /\ DOMAIN visiting = {}
    BY <1>1
<1>3. VisitTypes
    <2>1. <<>> \in Seq(Visits)
        BY EmptySeq
    <2> QED
        BY <1>1, <2>1 DEF VisitTypes
<1>4. FlagsNest
    BY <1>1, <1>2 DEF FlagsNest, FlagAgrees
<1>5. Place
    BY <1>1, <1>2 DEF Place
<1>6. Settled
    BY <1>1 DEF Settled
<1>7. ReferencesChecked
    BY <1>1 DEF ReferencesChecked
<1> QED
    BY <1>3, <1>4, <1>5, <1>6, <1>7 DEF VisitInv

\* The steps that leave the visitor alone.
LEMMA VisitIdle ==
    ASSUME VisitInv, UNCHANGED <<visitorVars, completing>>,
           written' = written \/ written' = completing,
           status' = status \/ (status' = "emitting" /\ status \in {"starting", "emitting"})
             \/ status' \notin {"starting", "emitting", "Success"} \/ (status' = "Success" /\ status = "emitting" /\ file = 0)
    PROVE  VisitInv'
<1>1. /\ declaration' = declaration /\ visiting' = visiting /\ visited' = visited /\ file' = file
      /\ inSpeedyJSFunction' = inSpeedyJSFunction /\ references' = references
      /\ entryFunctions' = entryFunctions /\ removed' = removed /\ completing' = completing
    BY DEF visitorVars
<1>2. VisitTypes'
    BY <1>1 DEF VisitInv, VisitTypes
<1>3. FlagsNest'
    BY <1>1, RulesStay DEF VisitInv, FlagsNest, FlagAgrees
<1>4. Place'
    BY <1>1 DEF VisitInv, Place
<1>5. Settled'
    BY <1>1, RulesStay DEF VisitInv, Settled, OnPath
<1>6. ReferencesChecked'
    BY <1>1, RulesStay DEF VisitInv, ReferencesChecked
<1> QED
    BY <1>2, <1>3, <1>4, <1>5, <1>6 DEF VisitInv

\* A function is entered.
LEMMA VisitEnter ==
    ASSUME VisitInv, NEW f \in Functions, EnterFunction(f), file # 0, completing = 0, status = "emitting",
           UNCHANGED <<written, completing, status>>
    PROVE  VisitInv'
<1>1. /\ declaration' = declaration /\ visited' = visited \cup {f} /\ file' = file /\ FileOf[f] = file
      /\ inSpeedyJSFunction' = (inSpeedyJSFunction \/ IsSpeedyJSFunction(f)) /\ references' = references
      /\ visiting' = Append(visiting, [function |-> f, flag |-> inSpeedyJSFunction])
      /\ entryFunctions' = entryFunctions /\ removed' = removed
    BY DEF EnterFunction
<1>2. PICK v : v = [function |-> f, flag |-> inSpeedyJSFunction]
    OBVIOUS
<1>3. v \in Visits /\ v.function = f /\ v.flag = inSpeedyJSFunction
    BY <1>2 DEF VisitInv, VisitTypes, Visits
<1>4. /\ visiting' \in Seq(Visits)
      /\ Len(visiting) \in Nat /\ Len(visiting') = Len(visiting) + 1
      /\ visiting'[Len(visiting) + 1] = v
      /\ \A i \in 1..Len(visiting) : visiting'[i] = visiting[i]
    BY <1>1, <1>2, <1>3, PushProperties DEF VisitInv, VisitTypes
<1>5. VisitTypes'
    BY <1>1, <1>4 DEF VisitTypes, VisitInv
<1>6. FlagsNest'
    <2>1. inSpeedyJSFunction <=> \E i \in 1..Len(visiting) : IsSpeedyJSFunction(visiting[i].function)
        BY DEF VisitInv, VisitTypes, FlagsNest, FlagAgrees
    <2>2. FlagAgrees'
        <3>1. DOMAIN visiting' = 1..(Len(visiting) + 1)
            BY <1>4
        <3>2. (\E i \in 1..(Len(visiting) + 1) : IsSpeedyJSFunction(visiting'[i].function))
                <=> (\E i \in 1..Len(visiting) : IsSpeedyJSFunction(visiting[i].function)) \/ IsSpeedyJSFunction(f)
            BY <1>3, <1>4
        <3> QED
            BY <1>1, <2>1, <3>1, <3>2, RulesStay DEF FlagAgrees
    <2>3. ASSUME NEW i \in 1..Len(visiting')
          PROVE  visiting'[i].flag <=> \E j \in 1..(i - 1) : IsSpeedyJSFunction(visiting'[j].function)
        <3>1. CASE i \in 1..Len(visiting)
            <4>1. \A j \in 1..(i - 1) : visiting'[j] = visiting[j]
                BY <1>4, <3>1
            <4>2. visiting[i].flag <=> \E j \in 1..(i - 1) : IsSpeedyJSFunction(visiting[j].function)
                BY <3>1 DEF VisitInv, FlagsNest
            <4> QED
                BY <1>4, <3>1, <4>1, <4>2
        <3>2. CASE i = Len(visiting) + 1
            <4>1. i - 1 = Len(visiting)
                BY <1>4, <3>2
            <4>2. visiting'[i].flag <=> inSpeedyJSFunction
                BY <1>3, <1>4, <3>2
            <4> QED
                BY <1>4, <2>1, <4>1, <4>2
        <3> QED
            BY <1>4, <3>1, <3>2
    <2> QED
        BY <1>1, <2>2, <2>3, RulesStay DEF FlagsNest
<1>7. Place'
    <2>1. ASSUME NEW i \in 1..Len(visiting')
          PROVE  visiting'[i].function \in visited' /\ FileOf[visiting'[i].function] = file'
        <3>1. CASE i \in 1..Len(visiting)
            BY <1>1, <1>4, <3>1 DEF VisitInv, Place
        <3>2. CASE i = Len(visiting) + 1
            BY <1>1, <1>3, <1>4, <3>2
        <3> QED
            BY <1>4, <3>1, <3>2
    <2> QED
        BY <1>1, <2>1 DEF VisitInv, Place
<1>8. Settled'
    <2>1. ASSUME NEW g, OnPath(g)
          PROVE  OnPath(g)'
        <3>1. PICK i \in 1..Len(visiting) : visiting[i].function = g
            BY <2>1 DEF OnPath
        <3>2. i \in 1..Len(visiting') /\ visiting'[i].function = g
            BY <1>4, <3>1
        <3> QED
            BY <3>2 DEF OnPath
    <2>2. OnPath(f)'
        <3>1. (Len(visiting) + 1) \in 1..Len(visiting') /\ visiting'[Len(visiting) + 1].function = f
            BY <1>3, <1>4
        <3> QED
            BY <3>1 DEF OnPath
    <2> QED
        BY <1>1, <2>1, <2>2, RulesStay DEF VisitInv, Settled
<1>9. ReferencesChecked'
    BY <1>1, RulesStay DEF VisitInv, ReferencesChecked
<1> QED
    BY <1>5, <1>6, <1>7, <1>8, <1>9 DEF VisitInv

\* An identifier is checked.
LEMMA VisitReference ==
    ASSUME VisitInv, NEW f \in Functions, VisitIdentifier(f), UNCHANGED <<written, completing, status>>
    PROVE  VisitInv'
<1>1. /\ declaration' = declaration /\ visiting' = visiting /\ visited' = visited /\ file' = file
      /\ inSpeedyJSFunction' = inSpeedyJSFunction /\ entryFunctions' = entryFunctions /\ removed' = removed
      /\ references' = references \cup {[file |-> file, within |-> Path, to |-> f]}
    BY DEF VisitIdentifier
<1>2. VisitTypes'
    BY <1>1 DEF VisitInv, VisitTypes
<1>3. FlagsNest'
    BY <1>1, RulesStay DEF VisitInv, FlagsNest, FlagAgrees
<1>4. Place'
    BY <1>1 DEF VisitInv, Place
<1>5. Settled'
    BY <1>1, RulesStay DEF VisitInv, Settled, OnPath
<1>6. ReferencesChecked'
    <2>1. PICK path : path = Path
        OBVIOUS
    <2>2. DOMAIN path = 1..Len(visiting) /\ \A i \in 1..Len(visiting) : path[i] = visiting[i].function
        BY <2>1 DEF Path, VisitInv, VisitTypes
    <2>a. path \in Seq(Functions)
        <3>1. Len(visiting) \in Nat
            BY LenProperties DEF VisitInv, VisitTypes
        <3>2. \A i \in 1..Len(visiting) : visiting[i].function \in Functions
            <4>1. \A i \in 1..Len(visiting) : visiting[i] \in Visits
                BY ElementOfSeq DEF VisitInv, VisitTypes
            <4> QED
                BY <4>1 DEF Visits
        <3>3. path = [i \in 1..Len(visiting) |-> visiting[i].function]
            <4>1. DOMAIN visiting = 1..Len(visiting)
                BY DEF VisitInv, VisitTypes
            <4> QED
                BY <2>1, <4>1 DEF Path
        <3>4. path \in [1..Len(visiting) -> Functions]
            BY <3>2, <3>3
        <3> QED
            BY <3>1, <3>4
    <2>3. \A i \in DOMAIN path : path[i] \in visited
        BY <2>2 DEF VisitInv, Place
    <2>4. IsPrefix(Enclosing[f], path)
        BY <2>1 DEF VisitIdentifier, InScope
    <2>5. ASSUME FileOf[f] = file, ~CanBeCalledFromJs(f)
          PROVE  \E i \in DOMAIN path : IsSpeedyJSFunction(path[i])
        <3>1. inSpeedyJSFunction
            <4>1. ASSUME ~inSpeedyJSFunction
                  PROVE  FALSE
                <5>1. IdentifierError(f, inSpeedyJSFunction) = "ReferenceToNonEntrySpeedyJSFunctionFromJS"
                    BY <2>5, <4>1 DEF IdentifierError
                <5>2. IdentifierError(f, inSpeedyJSFunction) = "none"
                    BY DEF VisitIdentifier, None
                <5> QED
                    BY <5>1, <5>2
            <4> QED
                BY <4>1
        <3>2. PICK i \in 1..Len(visiting) : IsSpeedyJSFunction(visiting[i].function)
            BY <3>1 DEF VisitInv, VisitTypes, FlagsNest, FlagAgrees
        <3> QED
            BY <2>2, <3>2
    <2>6. PICK new : new = [file |-> file, within |-> path, to |-> f]
        OBVIOUS
    <2>7. new.file = file /\ new.within = path /\ new.to = f
        BY <2>6
    <2>8. references' = references \cup {new}
        BY <1>1, <2>1, <2>6
    <2> QED
        BY <1>1, <2>a, <2>3, <2>4, <2>5, <2>7, <2>8, RulesStay DEF VisitInv, ReferencesChecked
<1> QED
    BY <1>2, <1>3, <1>4, <1>5, <1>6 DEF VisitInv

\* A function is left: it has been removed or is an entry function now, or is none of those.
LEMMA VisitLeave ==
    ASSUME VisitInv, visiting # <<>>, file # 0, completing = 0, UNCHANGED <<written, completing, status>>,
           UNCHANGED <<declaration, file, visited, references>>,
           visiting' = Front(visiting),
           IsSpeedyJSFunction(Left) => inSpeedyJSFunction' = Last(visiting).flag,
           ~IsSpeedyJSFunction(Left) => inSpeedyJSFunction' = inSpeedyJSFunction,
           removed \subseteq removed', entryFunctions \subseteq entryFunctions',
           \A f \in removed' \ removed : Replaceable(f) /\ ~IsSpeedyJSEntryFunction(f),
           Replaceable(Left) => Left \in removed' \cup entryFunctions'
    PROVE  VisitInv'
<1>1. PICK n \in Nat : n = Len(visiting) - 1
    BY FrontProperties DEF VisitInv, VisitTypes
<1>2. /\ visiting' \in Seq(Visits) /\ Len(visiting) = n + 1 /\ Len(visiting') = n
      /\ \A i \in 1..n : visiting'[i] = visiting[i]
      /\ Last(visiting) = visiting[n + 1]
    BY <1>1, FrontProperties DEF VisitInv, VisitTypes
<1>3. Left = visiting[n + 1].function
    BY <1>2 DEF Left
<1>4. visiting[n + 1] \in Visits
    BY <1>1, <1>2, ElementOfSeq DEF VisitInv, VisitTypes
<1>5. Last(visiting).flag <=> \E j \in 1..n : IsSpeedyJSFunction(visiting[j].function)
    <2>1. (n + 1) \in 1..Len(visiting) /\ (n + 1) - 1 = n
        BY <1>1, <1>2
    <2>2. visiting[n + 1].flag <=> \E j \in 1..((n + 1) - 1) : IsSpeedyJSFunction(visiting[j].function)
        BY <2>1 DEF VisitInv, FlagsNest
    <2> QED
        BY <1>2, <2>1, <2>2
<1>6. inSpeedyJSFunction <=> \E i \in 1..(n + 1) : IsSpeedyJSFunction(visiting[i].function)
    <2>1. DOMAIN visiting = 1..(n + 1)
        BY <1>2 DEF VisitInv, VisitTypes
    <2> QED
        BY <2>1 DEF VisitInv, FlagsNest, FlagAgrees
<1>7. inSpeedyJSFunction' \in BOOLEAN /\ Last(visiting).flag \in BOOLEAN
    BY <1>2, <1>4 DEF VisitInv, VisitTypes, Visits
<1>8. VisitTypes'
    BY <1>2, <1>7 DEF VisitTypes
<1>9. FlagsNest'
    <2>1. inSpeedyJSFunction' <=> \E i \in 1..n : IsSpeedyJSFunction(visiting[i].function)
        <3>1. CASE IsSpeedyJSFunction(Left)
            BY <1>5, <3>1
        <3>2. CASE ~IsSpeedyJSFunction(Left)
            <4>1. ~IsSpeedyJSFunction(visiting[n + 1].function)
                BY <1>3, <3>2
            <4>2. \A i \in 1..(n + 1) : i \in 1..n \/ i = n + 1
                BY <1>1
            <4>3. \A i \in 1..n : i \in 1..(n + 1)
                BY <1>1
            <4> QED
                BY <1>6, <3>2, <4>1, <4>2, <4>3
        <3> QED
            BY <3>1, <3>2
    <2>2. FlagAgrees'
        <3>1. DOMAIN visiting' = 1..n
            BY <1>2
        <3> QED
            BY <1>2, <2>1, <3>1, RulesStay DEF FlagAgrees
    <2>3. ASSUME NEW i \in 1..Len(visiting')
          PROVE  visiting'[i].flag <=> \E j \in 1..(i - 1) : IsSpeedyJSFunction(visiting'[j].function)
        <3>1. i \in 1..Len(visiting) /\ visiting'[i] = visiting[i] /\ \A j \in 1..(i - 1) : visiting'[j] = visiting[j]
            BY <1>1, <1>2
        <3>2. visiting[i].flag <=> \E j \in 1..(i - 1) : IsSpeedyJSFunction(visiting[j].function)
            BY <3>1 DEF VisitInv, FlagsNest
        <3> QED
            BY <3>1, <3>2
    <2> QED
        BY <2>2, <2>3, RulesStay DEF FlagsNest
<1>10. Place'
    <2>1. \A i \in 1..n : visiting'[i].function \in visited' /\ FileOf[visiting'[i].function] = file'
        BY <1>1, <1>2 DEF VisitInv, Place
    <2> QED
        BY <1>2, <2>1 DEF VisitInv, Place
<1>11. Settled'
    <2>1. ASSUME NEW f, OnPath(f), f # Left
          PROVE  OnPath(f)'
        <3>1. PICK i \in 1..Len(visiting) : visiting[i].function = f
            BY <2>1 DEF OnPath
        <3>2. i # n + 1
            BY <1>3, <2>1, <3>1
        <3>3. i \in 1..n
            BY <1>1, <1>2, <3>2
        <3>4. i \in 1..Len(visiting') /\ visiting'[i].function = f
            BY <1>2, <3>1, <3>3
        <3> QED
            BY <3>4 DEF OnPath
    <2>2. ASSUME NEW f \in visited, status' \in {"starting", "emitting", "Success"}, Replaceable(f)
          PROVE  f \in removed' \cup entryFunctions' \/ OnPath(f)'
        <3>1. f \in removed \cup entryFunctions \/ OnPath(f)
            BY <2>2 DEF VisitInv, Settled
        <3> QED
            BY <2>1, <2>2, <3>1
    <2>3. \A f \in removed' : Replaceable(f) /\ ~IsSpeedyJSEntryFunction(f)
        BY DEF VisitInv, Settled
    <2> QED
        BY <2>2, <2>3, RulesStay DEF Settled
<1>12. ReferencesChecked'
    BY RulesStay DEF VisitInv, ReferencesChecked
<1> QED
    BY <1>8, <1>9, <1>10, <1>11, <1>12 DEF VisitInv

\* The visit of a file begins, is over, or is ended by an error: nothing is being visited.
LEMMA VisitBetween ==
    ASSUME VisitInv, UNCHANGED <<declaration, visited, references, entryFunctions, removed>>,
           visiting' = <<>>, ~inSpeedyJSFunction', inSpeedyJSFunction' \in BOOLEAN,
           completing' \in {0, file'}, written' \in {0, completing'},
           (visiting = <<>> /\ status' = status /\ status = "emitting") \/ status' \notin {"starting", "emitting", "Success"}
    PROVE  VisitInv'
<1>1. Len(visiting') = 0 /\ DOMAIN visiting' = {}
    OBVIOUS
<1>2. VisitTypes'
    <2>1. <<>> \in Seq(Visits)
        BY EmptySeq
    <2> QED
        BY <2>1 DEF VisitTypes
<1>3. FlagsNest'
    BY <1>1 DEF FlagsNest, FlagAgrees
<1>4. Place'
    BY <1>1 DEF Place
<1>5. Settled'
    <2>1. \A f \in removed' : Replaceable(f) /\ ~IsSpeedyJSEntryFunction(f)
        BY DEF VisitInv, Settled
    <2>2. ASSUME status' \in {"starting", "emitting", "Success"}, NEW f \in visited, Replaceable(f)
          PROVE  f \in removed \cup entryFunctions
        <3>1. f \in removed \cup entryFunctions \/ OnPath(f)
            BY <2>2 DEF VisitInv, Settled
        <3>2. ~OnPath(f)
            <4>1. Len(visiting) = 0
                BY <2>2
            <4> QED
                BY <4>1 DEF OnPath
        <3> QED
            BY <3>1, <3>2
    <2> QED
        BY <2>1, <2>2, RulesStay DEF Settled
<1>6. ReferencesChecked'
    BY RulesStay DEF VisitInv, ReferencesChecked
<1> QED
    BY <1>2, <1>3, <1>4, <1>5, <1>6 DEF VisitInv

\* When nothing is being visited the flag is off, and an exception restores what it was before.
LEMMA FlagOff ==
    ASSUME VisitInv
    PROVE  /\ visiting = <<>> => ~inSpeedyJSFunction
           /\ visiting # <<>> => ~visiting[1].flag /\ visiting[1].flag \in BOOLEAN
<1>1. ASSUME visiting = <<>>
      PROVE  ~inSpeedyJSFunction
    <2>1. DOMAIN visiting = {}
        BY <1>1
    <2> QED
        BY <2>1 DEF VisitInv, FlagsNest, FlagAgrees
<1>2. ASSUME visiting # <<>>
      PROVE  ~visiting[1].flag /\ visiting[1].flag \in BOOLEAN
    <2>1. 1 \in 1..Len(visiting)
        BY <1>2, FrontProperties DEF VisitInv, VisitTypes
    <2>2. visiting[1] \in Visits
        BY <2>1, ElementOfSeq DEF VisitInv, VisitTypes
    <2>3. visiting[1].flag <=> \E j \in 1..(1 - 1) : IsSpeedyJSFunction(visiting[j].function)
        BY <2>1 DEF VisitInv, FlagsNest
    <2> QED
        BY <2>2, <2>3 DEF Visits
<1> QED
    BY <1>1, <1>2

\* The invariant of the visitor is inductive.
LEMMA VisitNext == VisitInv /\ [Next]_vars => VisitInv'
<1> SUFFICES ASSUME VisitInv, [Next]_vars PROVE VisitInv'
    OBVIOUS
<1>1. CASE Refuse
    BY <1>1, VisitIdle DEF Refuse, End, pipelineVars
<1>2. CASE Compile
    BY <1>2, VisitIdle DEF Compile, pipelineVars
<1>3. ASSUME NEW f \in Files, BeginSourceFile(f)
      PROVE  VisitInv'
    <2>1. /\ UNCHANGED <<declaration, visited, references, entryFunctions, removed>>
          /\ visiting' = visiting /\ inSpeedyJSFunction' = inSpeedyJSFunction
          /\ completing' = completing /\ written' = written /\ status' = status /\ status = "emitting" /\ file = 0
        BY <1>3 DEF BeginSourceFile
    <2>2. visiting = <<>> /\ completing = 0 /\ written = 0
        BY <2>1 DEF VisitInv, Place
    <2>3. ~inSpeedyJSFunction
        BY <2>2, FlagOff
    <2> QED
        BY <2>1, <2>2, <2>3, VisitBetween DEF VisitInv, VisitTypes
<1>4. ASSUME NEW f \in Files, PrintFile(f)
      PROVE  VisitInv'
    BY <1>4, VisitIdle DEF PrintFile
<1>5. CASE Visit
    <2>1. /\ file # 0 /\ completing = 0 /\ status = "emitting"
          /\ UNCHANGED <<written, completing, status>>
        BY <1>5 DEF Visit, Visiting, pipelineVars, hostVars
    <2>2. ASSUME NEW f \in Functions, EnterFunction(f)
          PROVE  VisitInv'
        BY <2>1, <2>2, VisitEnter
    <2>3. ASSUME NEW f \in Functions, VisitIdentifier(f)
          PROVE  VisitInv'
        BY <2>1, <2>3, VisitReference
    <2>4. CASE LeaveFunction
        <3>1. /\ visiting # <<>> /\ ~IsSpeedyJSEntryFunction(Left)
              /\ UNCHANGED <<declaration, file, visited, references>> /\ entryFunctions' = entryFunctions
              /\ visiting' = Front(visiting)
              /\ inSpeedyJSFunction' = IF IsSpeedyJSFunction(Left) THEN Last(visiting).flag ELSE inSpeedyJSFunction
              /\ removed' = IF Replaceable(Left) THEN removed \cup {Left} ELSE removed
            BY <2>4 DEF LeaveFunction, Replaceable
        <3>2. \A f \in removed' \ removed : Replaceable(f) /\ ~IsSpeedyJSEntryFunction(f)
            BY <3>1
        <3>3. removed \subseteq removed' /\ (Replaceable(Left) => Left \in removed')
            BY <3>1
        <3> QED
            BY <2>1, <3>1, <3>2, <3>3, VisitLeave
    <2> QED
        BY <1>5, <2>2, <2>3, <2>4 DEF Visit
<1>6. CASE GenerateEntryFunction
    <2>1. /\ file # 0 /\ completing = 0 /\ UNCHANGED <<written, completing, status>>
          /\ LeaveEntryFunction
        BY <1>6 DEF GenerateEntryFunction, Visiting, hostVars
    <2>2. /\ visiting # <<>> /\ IsSpeedyJSEntryFunction(Left)
          /\ UNCHANGED <<declaration, file, visited, references>> /\ removed' = removed
          /\ visiting' = Front(visiting)
          /\ inSpeedyJSFunction' = Last(visiting).flag
          /\ entryFunctions' = entryFunctions \cup {Left}
        BY <2>1 DEF LeaveEntryFunction
    <2>3. IsSpeedyJSFunction(Left)
        BY <2>2 DEF IsSpeedyJSEntryFunction
    <2> QED
        BY <2>1, <2>2, <2>3, VisitLeave
<1>7. CASE FailVisit
    <2>1. /\ UNCHANGED <<declaration, visited, references, entryFunctions, removed, file, completing, written>>
          /\ visiting' = <<>> /\ Unwind
        BY <1>7 DEF FailVisit, Unwind, pipelineVars
    <2>2. status' \notin {"starting", "emitting", "Success"}
        BY <1>7 DEF FailVisit, End
    <2>3. inSpeedyJSFunction' \in BOOLEAN /\ ~inSpeedyJSFunction'
        <3>1. CASE visiting = <<>>
            <4>1. inSpeedyJSFunction' = inSpeedyJSFunction
                BY <2>1, <3>1 DEF Unwind
            <4> QED
                BY <3>1, <4>1, FlagOff DEF VisitInv, VisitTypes
        <3>2. CASE visiting # <<>>
            <4>1. inSpeedyJSFunction' = visiting[1].flag
                BY <2>1, <3>2 DEF Unwind
            <4> QED
                BY <3>2, <4>1, FlagOff
        <3> QED
            BY <3>1, <3>2
    <2>4. completing \in {0, file} /\ written \in {0, completing}
        BY DEF VisitInv, Place
    <2> QED
        BY <2>1, <2>2, <2>3, <2>4, VisitBetween
<1>8. CASE CompleteSourceFile
    <2>1. /\ UNCHANGED <<declaration, visited, references, entryFunctions, removed, visiting, inSpeedyJSFunction>>
          /\ visiting = <<>> /\ completing = 0 /\ written' = written /\ status' = status /\ status = "emitting"
          /\ (file' = 0 /\ completing' = completing) \/ (completing' = file /\ file' = file)
        BY <1>8 DEF CompleteSourceFile, FileVisited, Visiting, pipelineVars
    <2>2. ~inSpeedyJSFunction /\ inSpeedyJSFunction \in BOOLEAN /\ written = 0
        BY <2>1, FlagOff DEF VisitInv, VisitTypes, Place
    <2> QED
        BY <2>1, <2>2, VisitBetween
<1>9. CASE Build
    <2>1. UNCHANGED <<visitorVars, completing>> /\ status' = status
        BY <1>9 DEF Build, hostVars
    <2>2. written' = written \/ written' = completing
        BY <1>9 DEF Build, WriteModule, CleanDirectories, RemoveTempObject, Transform
    <2> QED
        BY <2>1, <2>2, VisitIdle
<1>10. CASE FailBuild
    BY <1>10, VisitIdle DEF FailBuild, End, pipelineVars
<1>11. CASE RewriteSourceFile
    <2>1. /\ UNCHANGED <<declaration, visited, references, entryFunctions, removed, visiting, inSpeedyJSFunction>>
          /\ file' = 0 /\ completing' = 0 /\ written' = 0 /\ status' = status /\ status = "emitting" /\ written # 0
        BY <1>11 DEF RewriteSourceFile, ModuleWritten
    <2>2. visiting = <<>>
        BY <2>1 DEF VisitInv, Place
    <2>3. ~inSpeedyJSFunction /\ inSpeedyJSFunction \in BOOLEAN
        BY <2>2, FlagOff DEF VisitInv, VisitTypes
    <2> QED
        BY <2>1, <2>2, <2>3, VisitBetween
<1>12. CASE FailPrint
    BY <1>12, VisitIdle DEF FailPrint, End, pipelineVars
<1>13. CASE Finish
    BY <1>13, VisitIdle DEF Finish, End, pipelineVars
<1>14. CASE Ended \/ UNCHANGED vars
    <2>1. UNCHANGED <<visitorVars, completing, written, status>>
        BY <1>14 DEF Ended, vars, pipelineVars
    <2> QED
        BY <2>1, VisitIdle
<1> QED
    BY <1>1, <1>2, <1>3, <1>4, <1>5, <1>6, <1>7, <1>8, <1>9, <1>10, <1>11, <1>12, <1>13, <1>14 DEF Next, Step

\* The invariant of the visitor: the flags that the calls of visitFunction keep are those of the
\* functions around the place, and every reference that was visited and stays has been checked
\* (speedyjs-transform-visitor.ts).
THEOREM VisitInvariant == Spec => []VisitInv
<1> QED
    BY VisitInit, VisitNext, PTL DEF Spec

\* The flag of the visitor says in every state whether a function it stands in has the directive,
\* for any nesting of functions and after any error (visitFunctionLikeDeclaration).
THEOREM FlagAlwaysAgrees == Spec => []FlagAgrees
<1>1. VisitInv => FlagAgrees
    BY DEF VisitInv, FlagsNest
<1> QED
    BY <1>1, VisitInvariant, PTL

\* For any program: what a successful compilation leaves in the JavaScript refers to functions
\* that are still there (visitIdentifier).
THEOREM EmittedReferencesAlwaysResolve == Spec => []EmittedReferencesResolve
<1>1. VisitInv => EmittedReferencesResolve
    <2> SUFFICES ASSUME VisitInv, status = "Success", ~compilerOptions.emitLLVM, NEW r \in Emitted,
                        r.file = FileOf[r.to], ~InSpeedyJSMethod(r.within)
                 PROVE  Declared(r.to, Replaced, Original)
        BY DEF EmittedReferencesResolve
    <2>1. r \in references /\ Survives(r.within, Replaced, Original)
        BY DEF Emitted
    <2>2. Replaced = entryFunctions /\ Original = {}
        BY DEF Replaced, Original
    <2>3. \A i \in DOMAIN r.within : r.within[i] \notin removed \cup entryFunctions
        BY <2>1, <2>2 DEF Survives
    <2>4. \A i \in 1..Len(Enclosing[r.to]) : i \in 1..Len(r.within) /\ Enclosing[r.to][i] = r.within[i]
        <3>1. r.to \in Functions /\ r.within \in Seq(Functions) /\ IsPrefix(Enclosing[r.to], r.within)
            BY <2>1 DEF VisitInv, ReferencesChecked
        <3>2. Enclosing[r.to] \in Seq(Functions)
            BY <3>1, VisitorAssumption
        <3> QED
            BY <3>1, <3>2, PrefixElements
    <2>5. Survives(Enclosing[r.to], Replaced, Original)
        <3>1. r.to \in Functions /\ r.within \in Seq(Functions)
            BY <2>1 DEF VisitInv, ReferencesChecked
        <3>2. Enclosing[r.to] \in Seq(Functions)
            BY <3>1, VisitorAssumption
        <3>3. DOMAIN Enclosing[r.to] = 1..Len(Enclosing[r.to]) /\ DOMAIN r.within = 1..Len(r.within)
            BY <3>1, <3>2
        <3>4. \A i \in DOMAIN Enclosing[r.to] : Enclosing[r.to][i] \notin removed \cup entryFunctions
            BY <2>3, <2>4, <3>3
        <3> QED
            BY <2>2, <3>4 DEF Survives
    <2>6. r.to \notin removed
        <3>1. ASSUME r.to \in removed
              PROVE  FALSE
            <4>1. ~CanBeCalledFromJs(r.to)
                BY <3>1 DEF VisitInv, Settled, Replaceable, CanBeCalledFromJs
            <4>2. PICK i \in DOMAIN r.within : IsSpeedyJSFunction(r.within[i])
                BY <2>1, <4>1 DEF VisitInv, ReferencesChecked
            <4>3. Replaceable(r.within[i])
                BY <4>2 DEF InSpeedyJSMethod, Replaceable
            <4>4. r.within[i] \in visited
                BY <2>1 DEF VisitInv, ReferencesChecked
            <4>5. ~OnPath(r.within[i])
                <5>1. Len(visiting) = 0
                    BY DEF VisitInv, Place
                <5> QED
                    BY <5>1 DEF OnPath
            <4> QED
                BY <2>3, <4>3, <4>4, <4>5 DEF VisitInv, Settled
        <3> QED
            BY <3>1
    <2> QED
        BY <2>5, <2>6 DEF Declared
<1> QED
    BY <1>1, VisitInvariant, PTL

-----------------------------------------------------------------------------
(* The chain of tools.                                                     *)

\* The chain of the options is ordered.
LEMMA ChainOrder ==
    ASSUME NEW o, NEW c, c = CreateTransformationChain(o)
    PROVE  /\ Ordered(c, 1, 10)
           /\ \E i \in 1..Len(c) : c[i] = "link runtime"
           /\ \E i \in 1..Len(c) : c[i] = "link libs"
           /\ \E i \in 1..Len(c) : c[i] = "llc"
           /\ \E i \in 1..Len(c) : c[i] = "s2wasm"
           /\ \E i \in 1..Len(c) : c[i] = "wasm-as"
<1>1. Ordered(c, 1, 10)
    BY ChainOrdered
<1>2. \A s \in {"link runtime", "link libs", "llc", "s2wasm", "wasm-as"} : Occurs(s, c)
    BY ChainOrdered
<1> QED
    BY <1>1, <1>2 DEF Occurs

\* What a tool reads is what the one before it wrote.
LEMMA ChainReads ==
    ASSUME NEW o, NEW c, c = CreateTransformationChain(o)
    PROVE  /\ c \in Seq(Steps) /\ Len(c) \in Nat /\ Len(c) > 0
           /\ Reads(c[1]) = "bc"
           /\ \A n \in 1..(Len(c) - 1) : Reads(c[n + 1]) = Writes(c[n])
<1>1. Ordered(c, 1, 10)
    BY ChainOrder
<1>2. PICK r \in 1..Len(c) : c[r] = "link runtime"
    BY ChainOrder
<1>3. PICK l \in 1..Len(c) : c[l] = "llc"
    BY ChainOrder
<1>4. PICK a \in 1..Len(c) : c[a] = "s2wasm"
    BY ChainOrder
<1>5. Rank(c[r]) = 1 /\ Rank(c[l]) = 6 /\ Rank(c[a]) = 7
    BY <1>2, <1>3, <1>4, RankOf
<1>6. c \in Seq(Steps)
    BY <1>1 DEF Ordered
<1> QED
    BY <1>1, <1>5, <1>6, ChainFormats

\* The module is what the last step writes, and what s2wasm wrote has been looked at before.
LEMMA ChainModule ==
    ASSUME NEW o, NEW c, c = CreateTransformationChain(o)
    PROVE  /\ c[Len(c)] = "wasm-as"
           /\ \A n \in 1..Len(c) : c[n] = "wasm-as" => \E a \in 1..(n - 1) : c[a] = "s2wasm"
<1>1. Ordered(c, 1, 10) /\ Len(c) \in Nat
    BY ChainOrder, ChainReads
<1>2. c[Len(c)] = "wasm-as"
    <2>1. PICK w \in 1..Len(c) : c[w] = "wasm-as"
        BY ChainOrder
    <2>2. w = Len(c)
        BY <1>1, <2>1, ChainEnds
    <2> QED
        BY <2>1, <2>2
<1>3. ASSUME NEW n \in 1..Len(c), c[n] = "wasm-as"
      PROVE  \E a \in 1..(n - 1) : c[a] = "s2wasm"
    <2>1. PICK a \in 1..Len(c) : c[a] = "s2wasm"
        BY ChainOrder
    <2>2. Rank(c[a]) = 7 /\ Rank(c[n]) = 10
        BY <1>3, <2>1, RankOf
    <2>3. a < n <=> Rank(c[a]) < Rank(c[n])
        BY <1>1, OrderedPositions
    <2>4. a \in 1..(n - 1)
        BY <1>1, <2>2, <2>3
    <2> QED
        BY <2>1, <2>4
<1> QED
    BY <1>2, <1>3

\* One more tool has run.
LEMMA DoneNext ==
    ASSUME NEW c, NEW n \in Nat
    PROVE  DoneBy(c, n + 1) = IF c[n + 1] \in Changes THEN DoneBy(c, n) \cup {c[n + 1]} ELSE DoneBy(c, n)
<1>1. \A i \in 1..(n + 1) : i \in 1..n \/ i = n + 1
    OBVIOUS
<1>2. \A i \in 1..n : i \in 1..(n + 1)
    OBVIOUS
<1>3. (n + 1) \in 1..(n + 1)
    OBVIOUS
<1> QED
    BY <1>1, <1>2, <1>3 DEF DoneBy

\* In the end both the runtime and the libraries have been linked.
LEMMA ChainLinks ==
    ASSUME NEW o, NEW c, c = CreateTransformationChain(o)
    PROVE  {"link runtime", "link libs"} \subseteq DoneBy(c, Len(c))
<1>1. "link runtime" \in DoneBy(c, Len(c))
    BY ChainOrder DEF DoneBy, Changes
<1>2. "link libs" \in DoneBy(c, Len(c))
    BY ChainOrder DEF DoneBy, Changes
<1> QED
    BY <1>1, <1>2

Chain == CreateTransformationChain(compilerOptions)

(* n steps of the chain are done.                                          *)
Position(n) ==
    /\ Len(transforms) = Len(Chain) - n
    /\ \A i \in 1..Len(transforms) : transforms[i] = Chain[n + i]
    /\ input.done = DoneBy(Chain, n)
    /\ input.format = IF n = 0 THEN "bc" ELSE Writes(Chain[n])

(* The rewriter has been told what the steps so far found out.             *)
Told(n) ==
    /\ (\E i \in 1..n : Chain[i] = "s2wasm") => rewriter[written].metaData
    /\ (\E i \in 1..n : Chain[i] = "wasm-as") => rewriter[written].url

ChainPosition ==
    /\ transforms \in Seq(Steps)
    /\ written = 0 \/ compilerOptions.emitLLVM => transforms = <<>>
    /\ ~(written = 0 \/ compilerOptions.emitLLVM) => \E n \in 0..Len(Chain) : Position(n) /\ Told(n)

OutputsDone ==
    \A o \in outputs :
        /\ o.extension = "bc" => o.done = DoneBy(Chain, Len(Chain)) \ {"binaryen"}
        /\ o.extension \in {"wast", "wasm"} => o.done = DoneBy(Chain, Len(Chain))

PipeTypes ==
    /\ file \in Files \cup {0}
    /\ rewriter \in [Files -> [loader : BOOLEAN, url : BOOLEAN, metaData : BOOLEAN]]

(* The build directory comes first, and goes last.                         *)
DirectoryFirst ==
    /\ tempObjects \in Seq({"directory", "file", "archive"})
    /\ \E k \in 0..Len(tempObjects) : disk = 1..k
    /\ \A i \in 1..Len(tempObjects) : tempObjects[i] = "directory" => i = 1
    /\ written = 0 => disk = {} /\ tempObjects = <<>>

PipeInv == VisitInv /\ PipeTypes /\ ChainPosition /\ OutputsDone /\ DirectoryFirst

\* No chain has begun at the start.
LEMMA PipeInit == Init => PipeInv
<1> SUFFICES ASSUME Init PROVE PipeInv
    OBVIOUS
<1>1. /\ written = 0 /\ transforms = <<>> /\ tempObjects = <<>> /\ disk = {} /\ outputs = {} /\ file = 0
      /\ rewriter = [f \in Files |-> [loader |-> FALSE, url |-> FALSE, metaData |-> FALSE]]
    BY DEF Init, VisitorInit, PipelineInit
<1>2. PipeTypes
    BY <1>1 DEF PipeTypes
<1>3. ChainPosition
    BY <1>1, EmptySeq DEF ChainPosition
<1>4. OutputsDone
    BY <1>1 DEF OutputsDone
<1>5. DirectoryFirst
    <2>1. tempObjects \in Seq({"directory", "file", "archive"}) /\ Len(tempObjects) = 0
        BY <1>1, EmptySeq
    <2>2. disk = 1..0
        BY <1>1
    <2> QED
        BY <1>1, <2>1, <2>2 DEF DirectoryFirst
<1> QED
    BY <1>2, <1>3, <1>4, <1>5, VisitInit DEF PipeInv

\* The steps that leave the chain and the build directory alone.
LEMMA PipeIdle ==
    ASSUME PipeInv, VisitInv', PipeTypes',
           UNCHANGED <<compilerOptions, written, transforms, input, tempObjects, disk>>,
           written = 0 \/ rewriter' = rewriter,
           \A o \in outputs' \ outputs : o.extension \notin {"bc", "wast", "wasm"}
    PROVE  PipeInv'
<1>1. Chain' = Chain
    BY DEF Chain
<1>2. ChainPosition'
    <2>1. CASE written = 0
        BY <2>1 DEF PipeInv, ChainPosition
    <2>2. CASE rewriter' = rewriter
        BY <1>1, <2>2 DEF PipeInv, ChainPosition, Position, Told
    <2> QED
        BY <2>1, <2>2
<1>3. OutputsDone'
    BY <1>1 DEF PipeInv, OutputsDone
<1>4. DirectoryFirst'
    BY DEF PipeInv, DirectoryFirst
<1> QED
    BY <1>2, <1>3, <1>4 DEF PipeInv

\* writeModule begins.
LEMMA PipeWrite ==
    ASSUME PipeInv, VisitInv', PipeTypes', NEW f \in Files, WriteModule(f)
    PROVE  PipeInv'
<1>1. /\ written = 0 /\ written' = f /\ f # 0 /\ disk = {} /\ tempObjects = <<>> /\ transforms = <<>>
      /\ compilerOptions' = compilerOptions /\ disk' = DOMAIN tempObjects'
    BY PipelineAssumption DEF WriteModule, PipeInv, DirectoryFirst, ChainPosition
<1>2. Chain' = Chain
    BY <1>1 DEF Chain
<1>3. CASE /\ compilerOptions.emitLLVM /\ tempObjects' = <<"directory">>
           /\ outputs' = outputs \cup {[file |-> f, extension |-> "ll", done |-> {}]}
           /\ UNCHANGED <<transforms, input>>
    <2>1. ChainPosition'
        BY <1>1, <1>3, EmptySeq DEF ChainPosition
    <2>2. OutputsDone'
        BY <1>2, <1>3 DEF PipeInv, OutputsDone
    <2>3. DirectoryFirst'
        <3>1. Len(tempObjects') = 1 /\ DOMAIN tempObjects' = 1..1
            BY <1>3
        <3> QED
            BY <1>1, <1>3, <3>1 DEF DirectoryFirst
    <2> QED
        BY <2>1, <2>2, <2>3 DEF PipeInv
<1>4. CASE /\ ~compilerOptions.emitLLVM /\ tempObjects' = <<"directory", "file">>
           /\ transforms' = CreateTransformationChain(compilerOptions)
           /\ input' = [format |-> "bc", done |-> {}] /\ outputs' = outputs
    <2>1. ChainPosition'
        <3>1. transforms' = Chain' /\ Chain' \in Seq(Steps) /\ Len(Chain') \in Nat
            <4>1. PICK c : c = CreateTransformationChain(compilerOptions)
                OBVIOUS
            <4>2. c \in Seq(Steps) /\ Len(c) \in Nat
                BY <4>1, ChainReads
            <4> QED
                BY <1>2, <1>4, <4>1, <4>2 DEF Chain
        <3>2. DoneBy(Chain', 0) = {}
            BY DEF DoneBy
        <3>3. Position(0)'
            BY <1>4, <3>1, <3>2 DEF Position
        <3>4. Told(0)'
            BY DEF Told
        <3>5. 0 \in 0..Len(Chain')
            BY <3>1
        <3> QED
            BY <1>1, <1>4, <3>1, <3>3, <3>4, <3>5 DEF ChainPosition
    <2>2. OutputsDone'
        BY <1>2, <1>4 DEF PipeInv, OutputsDone
    <2>3. DirectoryFirst'
        <3>1. Len(tempObjects') = 2 /\ DOMAIN tempObjects' = 1..2
            BY <1>4
        <3>2. tempObjects'[1] = "directory" /\ tempObjects'[2] = "file"
            BY <1>4
        <3>3. tempObjects' \in Seq({"directory", "file", "archive"})
            BY <1>4
        <3>4. \A i \in 1..Len(tempObjects') : tempObjects'[i] = "directory" => i = 1
            BY <3>1, <3>2
        <3>5. \E k \in 0..Len(tempObjects') : disk' = 1..k
            BY <1>1, <3>1
        <3>6. written' # 0
            BY <1>1
        <3> QED
            BY <3>3, <3>4, <3>5, <3>6 DEF DirectoryFirst
    <2> QED
        BY <2>1, <2>2, <2>3 DEF PipeInv
<1> QED
    BY <1>3, <1>4 DEF WriteModule

\* Removing what the build directory holds.
LEMMA PipeRemove ==
    ASSUME PipeInv, VisitInv', CleanDirectories \/ RemoveTempObject, file' = file
    PROVE  PipeInv'
<1>1. /\ written # 0 /\ transforms = <<>>
      /\ UNCHANGED <<compilerOptions, written, transforms, input, tempObjects, rewriter, outputs>>
    BY DEF CleanDirectories, RemoveTempObject
<1>2. Chain' = Chain
    BY <1>1 DEF Chain
<1>3. PipeTypes'
    BY <1>1 DEF PipeInv, PipeTypes
<1>4. ChainPosition'
    BY <1>1, <1>2 DEF PipeInv, ChainPosition, Position, Told
<1>5. OutputsDone'
    BY <1>1, <1>2 DEF PipeInv, OutputsDone
<1>6. PICK k \in 0..Len(tempObjects) : disk = 1..k
    BY DEF PipeInv, DirectoryFirst
<1>7. Len(tempObjects) \in Nat
    BY LenProperties DEF PipeInv, DirectoryFirst
<1>8. \E m \in 0..Len(tempObjects) : disk' = 1..m
    <2>1. CASE CleanDirectories
        BY <1>6, <2>1 DEF CleanDirectories
    <2>2. CASE RemoveTempObject
        <3>1. disk # {} /\ disk' = disk \ {CHOOSE i \in disk : \A j \in disk : i >= j}
            BY <2>2 DEF RemoveTempObject
        <3>2. k \in disk /\ \A j \in disk : k >= j
            BY <1>6, <1>7, <3>1
        <3>3. (CHOOSE i \in disk : \A j \in disk : i >= j) = k
            <4>1. \A i \in disk : (\A j \in disk : i >= j) => i = k
                BY <1>6, <1>7, <3>2
            <4> QED
                BY <3>2, <4>1
        <3>4. disk' = (1..k) \ {k}
            BY <1>6, <3>1, <3>3
        <3>5. k \in 1..k /\ (k - 1) \in 0..Len(tempObjects)
            BY <1>6, <1>7, <3>2
        <3>6. (1..k) \ {k} = 1..(k - 1)
            BY <3>5
        <3>7. disk' = 1..(k - 1)
            BY <3>4, <3>6
        <3> QED
            BY <3>5, <3>7
    <2> QED
        BY <2>1, <2>2
<1>9. DirectoryFirst'
    BY <1>1, <1>8 DEF PipeInv, DirectoryFirst
<1> QED
    BY <1>3, <1>4, <1>5, <1>9 DEF PipeInv

\* Where the chain stands while a module is written.
LEMMA ChainPoint ==
    ASSUME PipeInv, transforms # <<>>, NEW c, c = Chain
    PROVE  /\ written # 0 /\ ~compilerOptions.emitLLVM
           /\ \E n \in 0..(Len(c) - 1) :
                  /\ n \in Nat /\ (n + 1) \in 1..Len(c)
                  /\ Position(n) /\ Told(n)
                  /\ Head(transforms) = c[n + 1] /\ c[n + 1] \in Steps
                  /\ Tail(transforms) \in Seq(Steps)
                  /\ Len(Tail(transforms)) = Len(c) - (n + 1)
                  /\ \A i \in 1..Len(Tail(transforms)) : Tail(transforms)[i] = c[(n + 1) + i]
<1>1. /\ written # 0 /\ ~compilerOptions.emitLLVM /\ transforms \in Seq(Steps)
      /\ \E n \in 0..Len(Chain) : Position(n) /\ Told(n)
    BY DEF PipeInv, ChainPosition
<1>2. PICK n \in 0..Len(Chain) : Position(n) /\ Told(n)
    BY <1>1
<1>3. Len(c) \in Nat /\ c \in Seq(Steps)
    BY ChainReads DEF Chain
<1>4. /\ Len(transforms) \in Nat /\ Len(transforms) > 0
      /\ Tail(transforms) \in Seq(Steps)
      /\ Len(Tail(transforms)) = Len(transforms) - 1
      /\ \A i \in 1..Len(Tail(transforms)) : Tail(transforms)[i] = transforms[i + 1]
      /\ Head(transforms) = transforms[1]
    BY <1>1, EmptySeq, HeadTailProperties
<1>5. Len(transforms) = Len(c) - n /\ \A i \in 1..Len(transforms) : transforms[i] = c[n + i]
    BY <1>2 DEF Position
<1>6. n \in Nat /\ n \in 0..(Len(c) - 1) /\ (n + 1) \in 1..Len(c)
    BY <1>3, <1>4, <1>5
<1>7. transforms[1] = c[n + 1]
    BY <1>4, <1>5
<1>8. c[n + 1] \in Steps
    BY <1>3, <1>6, ElementOfSeq
<1>9. ASSUME NEW i \in 1..Len(Tail(transforms))
      PROVE  Tail(transforms)[i] = c[(n + 1) + i]
    <2>1. i \in Nat /\ (i + 1) \in 1..Len(transforms)
        BY <1>4
    <2>2. transforms[i + 1] = c[n + (i + 1)]
        BY <1>5, <2>1
    <2>3. n + (i + 1) = (n + 1) + i
        BY <1>6, <2>1
    <2> QED
        BY <1>4, <2>2, <2>3
<1>10. Len(Tail(transforms)) = Len(c) - (n + 1)
    BY <1>3, <1>4, <1>5, <1>6
<1> QED
    BY <1>1, <1>2, <1>4, <1>6, <1>7, <1>8, <1>9, <1>10

\* What a tool leaves in the build directory is a file or an archive.
LEMMA CreatesObjects ==
    ASSUME NEW step
    PROVE  Creates(step) \in Seq({"file", "archive"})
<1>1. <<"file">> \in Seq({"file", "archive"}) /\ <<>> \in Seq({"file", "archive"})
    BY EmptySeq
<1>2. [i \in 1 .. Archives |-> "archive"] \in Seq({"file", "archive"})
    BY PipelineAssumption
<1>3. ([i \in 1 .. Archives |-> "archive"] \o <<"file">>) \in Seq({"file", "archive"})
    BY <1>1, <1>2, ConcatProperties
<1> QED
    BY <1>1, <1>3 DEF Creates

\* What is only at the start of a sequence stays so when others follow.
LEMMA FirstStays ==
    ASSUME NEW S, NEW T, T \subseteq S, NEW d, d \notin T, NEW t \in Seq(S), NEW u \in Seq(T),
           \A i \in 1..Len(t) : t[i] = d => i = 1
    PROVE  /\ t \o u \in Seq(S)
           /\ Len(t \o u) \in Nat
           /\ DOMAIN (t \o u) = 1..Len(t \o u)
           /\ \A i \in 1..Len(t \o u) : (t \o u)[i] = d => i = 1
<1>1. u \in Seq(S)
    OBVIOUS
<1>2. /\ t \o u \in Seq(S)
      /\ Len(t) \in Nat /\ Len(u) \in Nat
      /\ Len(t \o u) = Len(t) + Len(u)
      /\ \A i \in 1..(Len(t) + Len(u)) : (t \o u)[i] = IF i <= Len(t) THEN t[i] ELSE u[i - Len(t)]
    BY <1>1, ConcatProperties, LenProperties
<1>3. \A i \in 1..Len(u) : u[i] # d
    BY ElementOfSeq
<1>4. ASSUME NEW i \in 1..Len(t \o u), (t \o u)[i] = d
      PROVE  i = 1
    <2>1. CASE i \in 1..Len(t)
        BY <1>2, <1>4, <2>1
    <2>2. CASE i > Len(t)
        <3>1. (i - Len(t)) \in 1..Len(u) /\ (t \o u)[i] = u[i - Len(t)]
            BY <1>2, <2>2
        <3> QED
            BY <1>3, <1>4, <3>1
    <2> QED
        BY <1>2, <2>1, <2>2
<1>5. DOMAIN (t \o u) = 1..Len(t \o u)
    BY <1>2
<1> QED
    BY <1>2, <1>4, <1>5

\* A tool runs.
LEMMA PipeTransform ==
    ASSUME PipeInv, VisitInv', Transform, file' = file
    PROVE  PipeInv'
<1>1. PICK c : c = Chain
    OBVIOUS
<1>2. PICK n \in 0..(Len(c) - 1) :
          /\ n \in Nat /\ (n + 1) \in 1..Len(c)
          /\ Position(n) /\ Told(n)
          /\ Head(transforms) = c[n + 1] /\ c[n + 1] \in Steps
          /\ Tail(transforms) \in Seq(Steps)
          /\ Len(Tail(transforms)) = Len(c) - (n + 1)
          /\ \A i \in 1..Len(Tail(transforms)) : Tail(transforms)[i] = c[(n + 1) + i]
    BY <1>1, ChainPoint DEF Transform
<1>3. PICK step : step = Head(transforms)
    OBVIOUS
<1>4. /\ transforms' = Tail(transforms)
      /\ input' = Result(step)
      /\ tempObjects' = tempObjects \o Creates(step)
      /\ disk' = DOMAIN tempObjects'
      /\ rewriter' = [rewriter EXCEPT ![written].metaData = @ \/ step = "s2wasm",
                                      ![written].url = @ \/ step = "wasm-as"]
      /\ outputs' = CASE step = "save bc" -> Saved("bc")
                      [] step = "save wast" -> Saved("wast")
                      [] step = "wasm-as" -> Saved("wasm")
                      [] OTHER -> outputs
      /\ compilerOptions' = compilerOptions /\ written' = written
    BY <1>3 DEF Transform
<1>5. written # 0 /\ ~compilerOptions.emitLLVM /\ written \in Files
    <2>1. written # 0 /\ ~compilerOptions.emitLLVM
        BY ChainPoint, <1>1 DEF Transform
    <2> QED
        BY <2>1 DEF PipeInv, VisitInv, Place, PipeTypes
<1>6. Chain' = Chain
    BY <1>4 DEF Chain
<1>7. step = c[n + 1] /\ step \in Steps
    BY <1>2, <1>3
<1>8. /\ rewriter'[written].metaData = (rewriter[written].metaData \/ step = "s2wasm")
      /\ rewriter'[written].url = (rewriter[written].url \/ step = "wasm-as")
      /\ rewriter' \in [Files -> [loader : BOOLEAN, url : BOOLEAN, metaData : BOOLEAN]]
    BY <1>4, <1>5 DEF PipeInv, PipeTypes
<1>9. PipeTypes'
    BY <1>8 DEF PipeInv, PipeTypes
<1>10. ChainPosition'
    <2>1. Position(n + 1)'
        <3>1. n + 1 # 0
            BY <1>2
        <3>2. input'.done = DoneBy(c, n + 1) /\ input'.format = Writes(c[n + 1])
            <4>1. input.done = DoneBy(c, n)
                BY <1>1, <1>2 DEF Position
            <4>2. DoneBy(c, n + 1) = IF c[n + 1] \in Changes THEN DoneBy(c, n) \cup {c[n + 1]} ELSE DoneBy(c, n)
                BY <1>2, DoneNext
            <4> QED
                BY <1>4, <1>7, <4>1, <4>2 DEF Result
        <3> QED
            BY <1>1, <1>2, <1>4, <1>6, <3>1, <3>2 DEF Position
    <2>2. Told(n + 1)'
        <3>1. \A i \in 1..(n + 1) : i \in 1..n \/ i = n + 1
            BY <1>2
        <3>2. /\ (\E i \in 1..n : c[i] = "s2wasm") => rewriter[written].metaData
              /\ (\E i \in 1..n : c[i] = "wasm-as") => rewriter[written].url
            BY <1>1, <1>2 DEF Told
        <3>3. (\E i \in 1..(n + 1) : c[i] = "s2wasm") => rewriter'[written].metaData
            BY <1>7, <1>8, <3>1, <3>2
        <3>4. (\E i \in 1..(n + 1) : c[i] = "wasm-as") => rewriter'[written].url
            BY <1>7, <1>8, <3>1, <3>2
        <3> QED
            BY <1>1, <1>4, <1>6, <3>3, <3>4 DEF Told
    <2>3. transforms' \in Seq(Steps) /\ (n + 1) \in 0..Len(Chain')
        <3>1. transforms' = Tail(transforms) /\ Tail(transforms) \in Seq(Steps)
            BY <1>2, <1>4
        <3>2. (n + 1) \in 0..Len(c)
            BY <1>2
        <3> QED
            BY <1>1, <1>6, <3>1, <3>2
    <2> QED
        BY <1>4, <1>5, <2>1, <2>2, <2>3 DEF ChainPosition
<1>11. OutputsDone'
    <2>1. input.done = DoneBy(c, n)
        BY <1>1, <1>2 DEF Position
    <2>2. n = (n + 1) - 1
        BY <1>2
    <2>3. ASSUME step = "save bc"
          PROVE  input.done = DoneBy(c, Len(c)) \ {"binaryen"}
        <3>1. Ordered(c, 1, 10)
            BY <1>1, ChainOrder DEF Chain
        <3>2. DoneBy(c, (n + 1) - 1) = DoneBy(c, Len(c)) \ {"binaryen"}
            BY <1>2, <1>7, <2>3, <3>1, ChainSaves
        <3> QED
            BY <2>1, <2>2, <3>2
    <2>4. ASSUME step \in {"save wast", "wasm-as"}
          PROVE  input.done = DoneBy(c, Len(c))
        <3>1. Ordered(c, 1, 10)
            BY <1>1, ChainOrder DEF Chain
        <3>2. DoneBy(c, (n + 1) - 1) = DoneBy(c, Len(c))
            BY <1>2, <1>7, <2>4, <3>1, ChainSaves
        <3> QED
            BY <2>1, <2>2, <3>2
    <2>5. ASSUME NEW o \in outputs'
          PROVE  /\ o.extension = "bc" => o.done = DoneBy(c, Len(c)) \ {"binaryen"}
                 /\ o.extension \in {"wast", "wasm"} => o.done = DoneBy(c, Len(c))
        <3>1. CASE o \in outputs
            BY <1>1, <3>1 DEF PipeInv, OutputsDone
        <3>2. CASE step = "save bc" /\ o = [file |-> written, extension |-> "bc", done |-> input.done]
            BY <2>3, <3>2
        <3>3. CASE step = "save wast" /\ o = [file |-> written, extension |-> "wast", done |-> input.done]
            BY <2>4, <3>3
        <3>4. CASE step = "wasm-as" /\ o = [file |-> written, extension |-> "wasm", done |-> input.done]
            BY <2>4, <3>4
        <3> QED
            BY <1>4, <2>5, <3>1, <3>2, <3>3, <3>4 DEF Saved
    <2> QED
        BY <1>1, <1>6, <2>5 DEF OutputsDone
<1>12. DirectoryFirst'
    <2>1. PICK new : new = Creates(step)
        OBVIOUS
    <2>2. new \in Seq({"file", "archive"})
        BY <2>1, CreatesObjects
    <2>3. PICK t : t = tempObjects
        OBVIOUS
    <2>4. /\ t \in Seq({"directory", "file", "archive"})
          /\ \A i \in 1..Len(t) : t[i] = "directory" => i = 1
        BY <2>3 DEF PipeInv, DirectoryFirst
    <2>5. /\ {"file", "archive"} \subseteq {"directory", "file", "archive"}
          /\ "directory" \notin {"file", "archive"}
        OBVIOUS
    <2>6. /\ t \o new \in Seq({"directory", "file", "archive"})
          /\ Len(t \o new) \in Nat
          /\ DOMAIN (t \o new) = 1..Len(t \o new)
          /\ \A i \in 1..Len(t \o new) : (t \o new)[i] = "directory" => i = 1
        BY <2>2, <2>4, <2>5, FirstStays
    <2>7. tempObjects' = t \o new
        BY <1>4, <2>1, <2>3
    <2>8. \E k \in 0..Len(tempObjects') : disk' = 1..k
        <3>1. disk' = DOMAIN tempObjects'
            BY <1>4
        <3>2. disk' = 1..Len(tempObjects') /\ Len(tempObjects') \in 0..Len(tempObjects')
            BY <2>6, <2>7, <3>1
        <3> QED
            BY <3>2
    <2>9. written' # 0
        BY <1>4, <1>5
    <2>10. tempObjects' \in Seq({"directory", "file", "archive"})
        BY <2>6, <2>7
    <2>11. \A i \in 1..Len(tempObjects') : tempObjects'[i] = "directory" => i = 1
        BY <2>6, <2>7
    <2> QED
        BY <2>8, <2>9, <2>10, <2>11 DEF DirectoryFirst
<1> QED
    BY <1>9, <1>10, <1>11, <1>12 DEF PipeInv

\* The invariant of the pipeline is inductive.
LEMMA PipeNext == PipeInv /\ [Next]_vars => PipeInv'
<1> SUFFICES ASSUME PipeInv, [Next]_vars PROVE PipeInv'
    OBVIOUS
<1>0. VisitInv'
    BY VisitNext DEF PipeInv
<1>1. CASE Refuse
    <2>1. file' = file /\ UNCHANGED pipelineVars
        BY <1>1 DEF Refuse, visitorVars
    <2> QED
        BY <1>0, <2>1, PipeIdle DEF PipeInv, PipeTypes, pipelineVars
<1>2. CASE Compile
    <2>1. file' = file /\ UNCHANGED pipelineVars
        BY <1>2 DEF Compile, visitorVars
    <2> QED
        BY <1>0, <2>1, PipeIdle DEF PipeInv, PipeTypes, pipelineVars
<1>3. ASSUME NEW f \in Files, BeginSourceFile(f)
      PROVE  PipeInv'
    <2>1. /\ file' = f /\ file = 0 /\ outputs' = outputs
          /\ UNCHANGED <<compilerOptions, written, transforms, input, tempObjects, disk>>
          /\ rewriter' = [rewriter EXCEPT ![f] = [loader |-> FALSE, url |-> FALSE, metaData |-> FALSE]]
        BY <1>3 DEF BeginSourceFile
    <2>2. written = 0
        BY <2>1 DEF PipeInv, VisitInv, Place
    <2>3. PipeTypes'
        BY <2>1 DEF PipeInv, PipeTypes
    <2> QED
        BY <1>0, <2>1, <2>2, <2>3, PipeIdle
<1>4. ASSUME NEW f \in Files, PrintFile(f)
      PROVE  PipeInv'
    <2>1. /\ UNCHANGED <<file, rewriter, compilerOptions, written, transforms, input, tempObjects, disk>>
          /\ outputs' = outputs \cup {[file |-> f, extension |-> "js", done |-> {}]}
        BY <1>4 DEF PrintFile, visitorVars
    <2>2. \A o \in outputs' \ outputs : o.extension \notin {"bc", "wast", "wasm"}
        BY <2>1
    <2>3. PipeTypes'
        BY <2>1 DEF PipeInv, PipeTypes
    <2> QED
        BY <1>0, <2>1, <2>2, <2>3, PipeIdle
<1>5. CASE Visit
    <2>1. file' = file /\ UNCHANGED pipelineVars
        BY <1>5 DEF Visit, EnterFunction, VisitIdentifier, LeaveFunction
    <2> QED
        BY <1>0, <2>1, PipeIdle DEF PipeInv, PipeTypes, pipelineVars
<1>6. CASE GenerateEntryFunction
    <2>1. /\ file' = file /\ file # 0 /\ completing = 0 /\ outputs' = outputs
          /\ UNCHANGED <<compilerOptions, written, transforms, input, tempObjects, disk>>
          /\ rewriter' = [rewriter EXCEPT ![file].loader = ~compilerOptions.emitLLVM]
        BY <1>6 DEF GenerateEntryFunction, Visiting, LeaveEntryFunction
    <2>2. written = 0
        BY <2>1 DEF PipeInv, VisitInv, Place
    <2>3. PipeTypes'
        BY <2>1 DEF PipeInv, PipeTypes
    <2> QED
        BY <1>0, <2>1, <2>2, <2>3, PipeIdle
<1>7. CASE FailVisit
    <2>1. file' = file /\ UNCHANGED pipelineVars
        BY <1>7 DEF FailVisit
    <2> QED
        BY <1>0, <2>1, PipeIdle DEF PipeInv, PipeTypes, pipelineVars
<1>8. CASE CompleteSourceFile
    <2>1. file' \in {0, file} /\ UNCHANGED pipelineVars
        BY <1>8 DEF CompleteSourceFile
    <2> QED
        BY <1>0, <2>1, PipeIdle DEF PipeInv, PipeTypes, pipelineVars
<1>9. CASE Build
    <2>1. file' = file /\ completing # 0
        BY <1>9 DEF Build, visitorVars
    <2>2. completing \in Files
        BY <2>1 DEF PipeInv, PipeTypes, VisitInv, Place
    <2>3. CASE WriteModule(completing)
        <3>1. PipeTypes'
            BY <2>1, <2>3 DEF PipeInv, PipeTypes, WriteModule
        <3> QED
            BY <1>0, <2>2, <2>3, <3>1, PipeWrite
    <2>4. CASE CleanDirectories \/ RemoveTempObject
        BY <1>0, <2>1, <2>4, PipeRemove
    <2>5. CASE Transform
        BY <1>0, <2>1, <2>5, PipeTransform
    <2> QED
        BY <1>9, <2>3, <2>4, <2>5 DEF Build
<1>10. CASE FailBuild
    <2>1. file' = file /\ UNCHANGED pipelineVars
        BY <1>10 DEF FailBuild, visitorVars
    <2> QED
        BY <1>0, <2>1, PipeIdle DEF PipeInv, PipeTypes, pipelineVars
<1>11. CASE RewriteSourceFile
    <2>1. /\ file' = 0 /\ written' = 0 /\ tempObjects' = <<>> /\ disk' = disk /\ disk = {} /\ transforms = <<>>
          /\ UNCHANGED <<compilerOptions, transforms, rewriter, outputs>>
        BY <1>11 DEF RewriteSourceFile, ModuleWritten
    <2>2. Chain' = Chain
        BY <2>1 DEF Chain
    <2>3. PipeTypes'
        BY <2>1 DEF PipeInv, PipeTypes
    <2>4. ChainPosition'
        BY <2>1, EmptySeq DEF ChainPosition
    <2>5. OutputsDone'
        BY <2>1, <2>2 DEF PipeInv, OutputsDone
    <2>6. DirectoryFirst'
        <3>1. tempObjects' \in Seq({"directory", "file", "archive"}) /\ Len(tempObjects') = 0
            BY <2>1, EmptySeq
        <3>2. disk' = 1..0
            BY <2>1
        <3> QED
            BY <2>1, <3>1, <3>2 DEF DirectoryFirst
    <2> QED
        BY <1>0, <2>3, <2>4, <2>5, <2>6 DEF PipeInv
<1>12. CASE FailPrint
    <2>1. file' = file /\ UNCHANGED pipelineVars
        BY <1>12 DEF FailPrint, visitorVars
    <2> QED
        BY <1>0, <2>1, PipeIdle DEF PipeInv, PipeTypes, pipelineVars
<1>13. CASE Finish
    <2>1. file' = file /\ UNCHANGED pipelineVars
        BY <1>13 DEF Finish, visitorVars
    <2> QED
        BY <1>0, <2>1, PipeIdle DEF PipeInv, PipeTypes, pipelineVars
<1>14. CASE Ended \/ UNCHANGED vars
    <2>1. file' = file /\ UNCHANGED pipelineVars
        BY <1>14 DEF Ended, vars, visitorVars
    <2> QED
        BY <1>0, <2>1, PipeIdle DEF PipeInv, PipeTypes, pipelineVars
<1> QED
    BY <1>1, <1>2, <1>3, <1>4, <1>5, <1>6, <1>7, <1>8, <1>9, <1>10, <1>11, <1>12, <1>13, <1>14 DEF Next, Step

\* The invariant of the pipeline: where the chain of tools stands, what the saved files have been
\* through, and that the build directory is the first of the temporary objects
\* (createTransformationChain, BuildDirectory).
THEOREM PipeInvariant == Spec => []PipeInv
<1> QED
    BY PipeInit, PipeNext, PTL DEF Spec

\* Whatever the options: every tool reads the format the one before it wrote, and the saved files
\* are what the options promise beside the module (createTransformationChain).
THEOREM ChainAlwaysFits == Spec => []ChainFits
<1>1. PipeInv => ToolsReadTheirFormat
    <2> SUFFICES ASSUME PipeInv, transforms # <<>> PROVE Reads(Head(transforms)) = input.format
        BY DEF ToolsReadTheirFormat
    <2>1. PICK c : c = Chain
        OBVIOUS
    <2>2. PICK n \in 0..(Len(c) - 1) : n \in Nat /\ Position(n) /\ Head(transforms) = c[n + 1]
        BY <2>1, ChainPoint
    <2>3. input.format = IF n = 0 THEN "bc" ELSE Writes(c[n])
        BY <2>1, <2>2 DEF Position
    <2>4. Len(c) \in Nat /\ Reads(c[1]) = "bc" /\ \A m \in 1..(Len(c) - 1) : Reads(c[m + 1]) = Writes(c[m])
        BY <2>1, ChainReads DEF Chain
    <2>5. CASE n = 0
        BY <2>2, <2>3, <2>4, <2>5
    <2>6. CASE n # 0
        <3>1. n \in 1..(Len(c) - 1)
            BY <2>2, <2>6
        <3> QED
            BY <2>2, <2>3, <2>4, <2>6, <3>1
    <2> QED
        BY <2>5, <2>6
<1>2. PipeInv => SavedFilesMatch
    <2> SUFFICES ASSUME PipeInv, NEW w \in outputs, NEW s \in outputs, w.extension = "wasm"
                 PROVE  /\ s.extension = "bc" => s.done = w.done \ {"binaryen"}
                                                 /\ {"link runtime", "link libs"} \subseteq s.done
                        /\ s.extension = "wast" => s.done = w.done
        BY DEF SavedFilesMatch
    <2>1. PICK all : all = DoneBy(Chain, Len(Chain))
        OBVIOUS
    <2>2. w.done = all
        BY <2>1 DEF PipeInv, OutputsDone
    <2>3. s.extension = "bc" => s.done = all \ {"binaryen"}
        BY <2>1 DEF PipeInv, OutputsDone
    <2>4. s.extension = "wast" => s.done = all
        BY <2>1 DEF PipeInv, OutputsDone
    <2>5. {"link runtime", "link libs"} \subseteq all
        BY <2>1, ChainLinks DEF Chain
    <2>6. {"link runtime", "link libs"} \subseteq all \ {"binaryen"}
        BY <2>5
    <2> QED
        BY <2>2, <2>3, <2>4, <2>6
<1>3. PipeInv => ChainFits
    BY <1>1, <1>2 DEF ChainFits
<1> QED
    BY <1>3, PipeInvariant, PTL

\* The build directory is removed last, and no directory that still holds files (remove).
THEOREM DirectoriesAlwaysRemovedEmpty == Spec => DirectoriesRemovedEmpty
<1>1. ASSUME PipeInv, [Next]_vars, NEW i \in disk \ disk'
      PROVE  (tempObjects[i] = "directory" => disk' = {}) /\ i \notin extracted
    <2>1. UNCHANGED disk \/ Build
        BY <1>1 DEF Next, Step, Ended, vars, pipelineVars, Refuse, Compile, BeginSourceFile, Visit, GenerateEntryFunction,
           FailVisit, CompleteSourceFile, FailBuild, RewriteSourceFile, PrintFile, FailPrint, Finish
    <2>2. PICK k \in 0..Len(tempObjects) : disk = 1..k
        BY <1>1 DEF PipeInv, DirectoryFirst
    <2>3. Len(tempObjects) \in Nat
        BY <1>1, LenProperties DEF PipeInv, DirectoryFirst
    <2>4. ~WriteModule(completing)
        BY <1>1 DEF WriteModule, PipeInv, DirectoryFirst
    <2>5. ~Transform
        <3>1. ASSUME Transform
              PROVE  FALSE
            <4>1. PICK step : step = Head(transforms)
                OBVIOUS
            <4>2. tempObjects' = tempObjects \o Creates(step) /\ disk' = DOMAIN tempObjects'
                BY <3>1, <4>1 DEF Transform
            <4>3. PICK new : new = Creates(step)
                OBVIOUS
            <4>4. new \in Seq({"file", "archive"})
                BY <4>3, CreatesObjects
            <4>5. PICK t : t = tempObjects
                OBVIOUS
            <4>6. t \in Seq({"directory", "file", "archive"})
                BY <1>1, <4>5 DEF PipeInv, DirectoryFirst
            <4>7. Len(new) \in Nat /\ Len(t) \in Nat /\ DOMAIN (t \o new) = 1..(Len(t) + Len(new))
                BY <4>4, <4>6
            <4>8. disk' = 1..(Len(t) + Len(new))
                BY <4>2, <4>3, <4>5, <4>7
            <4>9. i \in 1..k /\ k <= Len(t)
                BY <1>1, <2>2, <2>3, <4>5
            <4>10. i \in disk'
                BY <4>7, <4>8, <4>9, <2>2
            <4> QED
                BY <1>1, <4>10
        <3> QED
            BY <3>1
    <2>6. ~CleanDirectories
        BY <1>1 DEF CleanDirectories
    <2>7. RemoveTempObject
        BY <1>1, <2>1, <2>4, <2>5, <2>6 DEF Build
    <2>8. extracted = {} /\ disk' = disk \ {CHOOSE m \in disk : \A j \in disk : m >= j}
        BY <2>7 DEF RemoveTempObject
    <2>9. ASSUME tempObjects[i] = "directory"
          PROVE  disk' = {}
        <3>1. i \in 1..k /\ i \in 1..Len(tempObjects)
            BY <1>1, <2>2, <2>3
        <3>2. i = 1
            BY <1>1, <2>9, <3>1 DEF PipeInv, DirectoryFirst
        <3>3. i = CHOOSE m \in disk : \A j \in disk : m >= j
            BY <1>1, <2>8
        <3>4. k \in disk /\ \A j \in disk : k >= j
            BY <2>2, <2>3, <3>1
        <3>5. i >= k
            <4>1. \E m \in disk : \A j \in disk : m >= j
                BY <3>4
            <4>2. \A j \in disk : i >= j
                BY <3>3, <4>1
            <4> QED
                BY <3>4, <4>2
        <3>6. disk = {1}
            BY <2>2, <2>3, <3>1, <3>2, <3>5
        <3> QED
            BY <2>8, <3>2, <3>3, <3>6
    <2> QED
        BY <2>8, <2>9
<1>2. PipeInv /\ [Next]_vars
        => [\A i \in disk \ disk' : /\ tempObjects[i] = "directory" => disk' = {}
                                    /\ i \notin extracted]_pipelineVars
    BY <1>1
<1> QED
    BY <1>2, PipeInvariant, PTL DEF Spec, DirectoriesRemovedEmpty

-----------------------------------------------------------------------------
(* What is written for each file.                                          *)

HasOutput(f, extension) == \E o \in outputs : o.file = f /\ o.extension = extension

ModuleExtension == IF compilerOptions.emitLLVM THEN "ll" ELSE "wasm"

(* Files that are waiting or being visited have no JavaScript yet.         *)
Fresh ==
    /\ pending \subseteq Files
    /\ javaScript \in [Files -> {"none", "transformed", "rewritten"}]
    /\ \A f \in pending : javaScript[f] = "none" /\ EntryFunctionsOf(f) = {}
    /\ file # 0 => javaScript[file] = "none" /\ file \notin pending
    /\ status = "starting" => entryFunctions = {} /\ \A f \in Files : javaScript[f] = "none"

(* Modules are written of files with entry functions.                      *)
Modules ==
    /\ \A f \in Files : HasOutput(f, ModuleExtension) => EntryFunctionsOf(f) # {}
    /\ completing # 0 => EntryFunctionsOf(completing) # {}
    /\ written # 0 /\ transforms = <<>> => HasOutput(written, ModuleExtension)

(* A transformed file has its module, and its loader what it needs.        *)
Scripts ==
    /\ \A f \in Files : javaScript[f] # "none" =>
           /\ EntryFunctionsOf(f) # {} => HasOutput(f, ModuleExtension)
           /\ javaScript[f] = "rewritten" <=> EntryFunctionsOf(f) # {} /\ ~compilerOptions.emitLLVM
    /\ \A f \in Files : javaScript[f] = "rewritten" => rewriter[f].url
    /\ \A f \in Files : rewriter[f].url => rewriter[f].metaData /\ HasOutput(f, "wasm")
    /\ file # 0 => (rewriter[file].loader <=> ~compilerOptions.emitLLVM /\ EntryFunctionsOf(file) # {})

(* No file is forgotten.                                                   *)
Prints ==
    /\ \A f \in printed : f \in Files /\ [file |-> f, extension |-> "js", done |-> {}] \in outputs
    /\ status = "Success" => pending = {} /\ printed = {f \in Files : javaScript[f] # "none"}
    /\ status \in {"emitting", "Success"} /\ RootFileNames(request) # {} =>
           \A f \in Files : f \in pending \/ f = file \/ javaScript[f] # "none"

FilesInv == PipeInv /\ Fresh /\ Modules /\ Scripts /\ Prints

\* The outputs are what they were, or one more.
LEMMA OutputsStay ==
    ASSUME outputs' = outputs
    PROVE  \A f, e : HasOutput(f, e)' <=> HasOutput(f, e)
BY DEF HasOutput

LEMMA OutputsGrow ==
    ASSUME NEW g, NEW extension, NEW d, outputs' = outputs \cup {[file |-> g, extension |-> extension, done |-> d]}
    PROVE  /\ \A f, e : HasOutput(f, e)' <=> HasOutput(f, e) \/ (f = g /\ e = extension)
           /\ outputs \subseteq outputs'
<1>1. PICK new : new = [file |-> g, extension |-> extension, done |-> d]
    OBVIOUS
<1>2. new.file = g /\ new.extension = extension /\ outputs' = outputs \cup {new}
    BY <1>1
<1> QED
    BY <1>2 DEF HasOutput

LEMMA EntriesStay ==
    ASSUME entryFunctions' = entryFunctions
    PROVE  \A f : EntryFunctionsOf(f)' = EntryFunctionsOf(f)
BY DEF EntryFunctionsOf

\* No file has been compiled at the start.
LEMMA FilesStart == Init => FilesInv
<1> SUFFICES ASSUME Init PROVE FilesInv
    OBVIOUS
<1>1. /\ file = 0 /\ entryFunctions = {} /\ written = 0 /\ outputs = {} /\ pending = {} /\ completing = 0
      /\ javaScript = [f \in Files |-> "none"] /\ printed = {} /\ status = "starting"
      /\ rewriter = [f \in Files |-> [loader |-> FALSE, url |-> FALSE, metaData |-> FALSE]]
    BY DEF Init, VisitorInit, PipelineInit
<1>2. Fresh
    BY <1>1 DEF Fresh
<1>3. Modules
    BY <1>1 DEF Modules, HasOutput
<1>4. Scripts
    BY <1>1 DEF Scripts
<1>5. Prints
    BY <1>1 DEF Prints
<1> QED
    BY <1>2, <1>3, <1>4, <1>5, PipeInit DEF FilesInv

\* The steps that leave all of this alone.
LEMMA FilesIdle ==
    ASSUME FilesInv, PipeInv',
           UNCHANGED <<file, entryFunctions, written, completing, transforms, rewriter, outputs, compilerOptions,
                       request, pending, javaScript, printed>>,
           status' = status \/ status' \notin {"starting", "emitting", "Success"}
             \/ (status' = "Success" /\ status = "emitting" /\ pending = {} /\ printed = {f \in Files : javaScript[f] # "none"})
    PROVE  FilesInv'
<1>1. ModuleExtension' = ModuleExtension
    BY DEF ModuleExtension
<1>2. Fresh'
    BY EntriesStay DEF FilesInv, Fresh
<1>3. Modules'
    BY <1>1, EntriesStay, OutputsStay DEF FilesInv, Modules
<1>4. Scripts'
    BY <1>1, EntriesStay, OutputsStay DEF FilesInv, Scripts
<1>5. Prints'
    BY DEF FilesInv, Prints, RootFileNames
<1> QED
    BY <1>2, <1>3, <1>4, <1>5 DEF FilesInv

\* The files of the program are given to the compiler.
LEMMA FilesCompile ==
    ASSUME FilesInv, PipeInv', Compile
    PROVE  FilesInv'
<1>1. /\ status = "starting" /\ status' = "emitting"
      /\ UNCHANGED <<file, entryFunctions, written, completing, transforms, rewriter, outputs, compilerOptions,
                     request, javaScript, printed>>
      /\ pending' = IF RootFileNames(request) = {} THEN {} ELSE Files
    BY DEF Compile, visitorVars, pipelineVars
<1>2. ModuleExtension' = ModuleExtension
    BY <1>1 DEF ModuleExtension
<1>3. file = 0
    BY <1>1 DEF FilesInv, PipeInv, VisitInv, Place
<1>4. Fresh'
    <2>1. \A f \in Files : EntryFunctionsOf(f)' = {} /\ javaScript'[f] = "none"
        BY <1>1 DEF FilesInv, Fresh, EntryFunctionsOf
    <2> QED
        BY <1>1, <1>3, <2>1 DEF FilesInv, Fresh
<1>5. Modules'
    BY <1>1, <1>2, EntriesStay, OutputsStay DEF FilesInv, Modules
<1>6. Scripts'
    BY <1>1, <1>2, EntriesStay, OutputsStay DEF FilesInv, Scripts
<1>7. Prints'
    BY <1>1 DEF FilesInv, Prints, RootFileNames
<1> QED
    BY <1>4, <1>5, <1>6, <1>7 DEF FilesInv

\* The visit of the next file begins.
LEMMA FilesBegin ==
    ASSUME FilesInv, PipeInv', NEW g \in Files, BeginSourceFile(g)
    PROVE  FilesInv'
<1>1. /\ status' = status /\ file = 0 /\ file' = g /\ g \in pending /\ pending' = pending \ {g}
      /\ UNCHANGED <<entryFunctions, written, completing, transforms, outputs, compilerOptions,
                     request, javaScript, printed>>
      /\ status = "emitting"
      /\ rewriter' = [rewriter EXCEPT ![g] = [loader |-> FALSE, url |-> FALSE, metaData |-> FALSE]]
    BY DEF BeginSourceFile
<1>2. ModuleExtension' = ModuleExtension
    BY <1>1 DEF ModuleExtension
<1>3. /\ \A f \in Files : f # g => rewriter'[f] = rewriter[f]
      /\ ~rewriter'[g].loader /\ ~rewriter'[g].url
    BY <1>1 DEF FilesInv, PipeInv, PipeTypes
<1>4. Fresh'
    BY <1>1, EntriesStay DEF FilesInv, Fresh
<1>5. Modules'
    BY <1>1, <1>2, EntriesStay, OutputsStay DEF FilesInv, Modules
<1>6. Scripts'
    <2>1. javaScript[g] = "none" /\ EntryFunctionsOf(g) = {}
        BY <1>1 DEF FilesInv, Fresh
    <2> QED
        BY <1>1, <1>2, <1>3, <2>1, EntriesStay, OutputsStay DEF FilesInv, Scripts
<1>7. Prints'
    BY <1>1, PipelineAssumption DEF FilesInv, Prints, RootFileNames
<1> QED
    BY <1>4, <1>5, <1>6, <1>7 DEF FilesInv

\* A file is printed.
LEMMA FilesPrint ==
    ASSUME FilesInv, PipeInv', NEW g \in Files, PrintFile(g)
    PROVE  FilesInv'
<1>1. /\ status' = status /\ status = "emitting" /\ printed' = printed \cup {g}
      /\ UNCHANGED <<file, entryFunctions, written, completing, transforms, rewriter, compilerOptions,
                     request, pending, javaScript>>
      /\ outputs' = outputs \cup {[file |-> g, extension |-> "js", done |-> {}]}
    BY DEF PrintFile, visitorVars
<1>2. ModuleExtension' = ModuleExtension /\ ModuleExtension # "js"
    BY <1>1 DEF ModuleExtension
<1>a. \A f, e : HasOutput(f, e)' <=> HasOutput(f, e) \/ (f = g /\ e = "js")
    BY <1>1, OutputsGrow
<1>3. /\ \A f, e : e # "js" => (HasOutput(f, e)' <=> HasOutput(f, e))
      /\ "wasm" # "js"
    BY <1>a
<1>4. Fresh'
    BY <1>1, EntriesStay DEF FilesInv, Fresh
<1>5. Modules'
    BY <1>1, <1>2, <1>3, EntriesStay DEF FilesInv, Modules
<1>6. Scripts'
    BY <1>1, <1>2, <1>3, EntriesStay DEF FilesInv, Scripts
<1>7. Prints'
    BY <1>1 DEF FilesInv, Prints, RootFileNames
<1> QED
    BY <1>4, <1>5, <1>6, <1>7 DEF FilesInv

\* An entry function joins those of the file being visited.
LEMMA FilesEntry ==
    ASSUME FilesInv, PipeInv', GenerateEntryFunction
    PROVE  FilesInv'
<1>1. /\ status' = status /\ status = "emitting" /\ file # 0 /\ completing = 0
      /\ UNCHANGED <<file, written, completing, transforms, outputs, compilerOptions, request, pending, javaScript, printed>>
      /\ rewriter' = [rewriter EXCEPT ![file].loader = ~compilerOptions.emitLLVM]
      /\ visiting # <<>> /\ entryFunctions' = entryFunctions \cup {Left}
    BY DEF GenerateEntryFunction, LeaveEntryFunction, Visiting, hostVars
<1>2. file \in Files /\ written = 0
    BY <1>1 DEF FilesInv, PipeInv, PipeTypes, VisitInv, Place
<1>3. ModuleExtension' = ModuleExtension
    BY <1>1 DEF ModuleExtension
<1>4. FileOf[Left] = file
    <2>1. Last(visiting) = visiting[Len(visiting)] /\ Len(visiting) \in 1..Len(visiting)
        <3>1. visiting \in Seq(Visits) /\ visiting # <<>>
            BY <1>1 DEF FilesInv, PipeInv, VisitInv, VisitTypes
        <3>2. Last(visiting) = visiting[Len(visiting)] /\ Len(visiting) \in Nat /\ Len(visiting) > 0
            BY <3>1, FrontProperties
        <3> QED
            BY <3>2
    <2>2. FileOf[visiting[Len(visiting)].function] = file
        BY <2>1 DEF FilesInv, PipeInv, VisitInv, Place
    <2> QED
        BY <2>1, <2>2 DEF Left
<1>5. /\ \A f : f # file => EntryFunctionsOf(f)' = EntryFunctionsOf(f)
      /\ EntryFunctionsOf(file)' # {}
    <2>1. ASSUME NEW f, f # file
          PROVE  EntryFunctionsOf(f)' = EntryFunctionsOf(f)
        BY <1>1, <1>4, <2>1 DEF EntryFunctionsOf
    <2>2. Left \in EntryFunctionsOf(file)'
        <3>1. EntryFunctionsOf(file)' = {g \in entryFunctions' : FileOf[g] = file}
            BY <1>1 DEF EntryFunctionsOf
        <3> QED
            BY <1>1, <1>4, <3>1
    <2> QED
        BY <2>1, <2>2
<1>6. /\ \A f \in Files : f # file => rewriter'[f] = rewriter[f]
      /\ rewriter'[file].loader <=> ~compilerOptions.emitLLVM
      /\ rewriter'[file].url = rewriter[file].url /\ rewriter'[file].metaData = rewriter[file].metaData
    BY <1>1, <1>2 DEF FilesInv, PipeInv, PipeTypes
<1>7. javaScript[file] = "none" /\ file \notin pending
    BY <1>1 DEF FilesInv, Fresh
<1>8. Fresh'
    BY <1>1, <1>5, <1>7 DEF FilesInv, Fresh
<1>9. Modules'
    BY <1>1, <1>2, <1>3, <1>5, OutputsStay DEF FilesInv, Modules
<1>10. Scripts'
    BY <1>1, <1>2, <1>3, <1>5, <1>6, <1>7, OutputsStay DEF FilesInv, Scripts
<1>11. Prints'
    BY <1>1 DEF FilesInv, Prints, RootFileNames
<1> QED
    BY <1>8, <1>9, <1>10, <1>11 DEF FilesInv

\* The visit of a file is over.
LEMMA FilesComplete ==
    ASSUME FilesInv, PipeInv', CompleteSourceFile
    PROVE  FilesInv'
<1>1. /\ status' = status /\ status = "emitting" /\ file # 0 /\ completing = 0
      /\ UNCHANGED <<entryFunctions, written, transforms, rewriter, outputs, compilerOptions, request, pending, printed>>
    BY DEF CompleteSourceFile, Visiting, pipelineVars
<1>2. file \in Files /\ written = 0 /\ 0 \notin Files
    BY <1>1, PipelineAssumption DEF FilesInv, PipeInv, PipeTypes, VisitInv, Place
<1>3. ModuleExtension' = ModuleExtension
    BY <1>1 DEF ModuleExtension
<1>4. javaScript[file] = "none" /\ file \notin pending
    BY <1>1 DEF FilesInv, Fresh
<1>5. CASE EntryFunctionsOf(file) = {} /\ javaScript' = [javaScript EXCEPT ![file] = "transformed"] /\ file' = 0 /\ completing' = completing
    <2>1. /\ \A f \in Files : f # file => javaScript'[f] = javaScript[f]
          /\ javaScript'[file] = "transformed"
          /\ javaScript' \in [Files -> {"none", "transformed", "rewritten"}]
        BY <1>2, <1>5 DEF FilesInv, Fresh
    <2>2. Fresh'
        <3>1. \A f \in pending : javaScript'[f] = "none"
            BY <1>4, <2>1 DEF FilesInv, Fresh
        <3> QED
            BY <1>1, <1>5, <2>1, <3>1, EntriesStay DEF FilesInv, Fresh
    <2>3. Modules'
        BY <1>1, <1>3, <1>5, EntriesStay, OutputsStay DEF FilesInv, Modules
    <2>4. Scripts'
        BY <1>1, <1>3, <1>5, <2>1, EntriesStay, OutputsStay DEF FilesInv, Scripts
    <2>5. Prints'
        BY <1>1, <1>5, <2>1 DEF FilesInv, Prints, RootFileNames
    <2> QED
        BY <2>2, <2>3, <2>4, <2>5 DEF FilesInv
<1>6. CASE EntryFunctionsOf(file) # {} /\ completing' = file /\ UNCHANGED <<file, javaScript>>
    <2>1. Fresh'
        BY <1>1, <1>6, EntriesStay DEF FilesInv, Fresh
    <2>2. Modules'
        BY <1>1, <1>2, <1>3, <1>6, EntriesStay, OutputsStay DEF FilesInv, Modules
    <2>3. Scripts'
        BY <1>1, <1>3, <1>6, EntriesStay, OutputsStay DEF FilesInv, Scripts
    <2>4. Prints'
        BY <1>1, <1>6 DEF FilesInv, Prints, RootFileNames
    <2> QED
        BY <2>1, <2>2, <2>3, <2>4 DEF FilesInv
<1> QED
    BY <1>5, <1>6 DEF CompleteSourceFile

\* The module of a file is about to be written.
LEMMA FilesWrite ==
    ASSUME FilesInv, PipeInv', WriteModule(completing), completing # 0, status' = status, status = "emitting",
           UNCHANGED <<file, completing, entryFunctions, request, pending, javaScript, printed>>
    PROVE  FilesInv'
<1>1. /\ written = 0 /\ written' = completing
      /\ UNCHANGED <<compilerOptions, rewriter>>
      /\ \/ /\ compilerOptions.emitLLVM
            /\ outputs' = outputs \cup {[file |-> completing, extension |-> "ll", done |-> {}]}
         \/ /\ ~compilerOptions.emitLLVM /\ outputs' = outputs
            /\ transforms' = CreateTransformationChain(compilerOptions)
    BY DEF WriteModule
<1>2. ModuleExtension' = ModuleExtension
    BY <1>1 DEF ModuleExtension
<1>3. completing \in Files /\ EntryFunctionsOf(completing) # {} /\ completing = file
    BY DEF FilesInv, PipeInv, PipeTypes, VisitInv, Place, Modules
<1>4. /\ \A f, e : HasOutput(f, e) => HasOutput(f, e)'
      /\ \A f, e : HasOutput(f, e)' => HasOutput(f, e) \/ f = completing
      /\ \A f : HasOutput(f, "wasm")' <=> HasOutput(f, "wasm")
      /\ outputs \subseteq outputs'
    <2>1. CASE outputs' = outputs
        BY <2>1, OutputsStay
    <2>2. CASE outputs' = outputs \cup {[file |-> completing, extension |-> "ll", done |-> {}]}
        <3>1. \A f, e : HasOutput(f, e)' <=> HasOutput(f, e) \/ (f = completing /\ e = "ll")
            BY <2>2, OutputsGrow
        <3>2. outputs \subseteq outputs' /\ "wasm" # "ll"
            BY <2>2
        <3> QED
            BY <3>1, <3>2
    <2> QED
        BY <1>1, <2>1, <2>2
<1>5. transforms' = <<>> => HasOutput(completing, ModuleExtension)'
    <2>1. CASE /\ compilerOptions.emitLLVM
               /\ outputs' = outputs \cup {[file |-> completing, extension |-> "ll", done |-> {}]}
        <3>1. ModuleExtension' = "ll"
            BY <1>2, <2>1 DEF ModuleExtension
        <3>2. \A f, e : HasOutput(f, e)' <=> HasOutput(f, e) \/ (f = completing /\ e = "ll")
            BY <2>1, OutputsGrow
        <3> QED
            BY <3>1, <3>2
    <2>2. CASE transforms' = CreateTransformationChain(compilerOptions)
        <3>1. PICK c : c = CreateTransformationChain(compilerOptions)
            OBVIOUS
        <3>2. Len(c) > 0
            BY <3>1, ChainReads
        <3>3. c # <<>>
            BY <3>2
        <3> QED
            BY <2>2, <3>1, <3>3
    <2> QED
        BY <1>1, <2>1, <2>2
<1>6. Fresh'
    BY EntriesStay DEF FilesInv, Fresh
<1>7. Modules'
    BY <1>1, <1>2, <1>3, <1>4, <1>5, EntriesStay DEF FilesInv, Modules
<1>8. Scripts'
    BY <1>1, <1>2, <1>3, <1>4, EntriesStay DEF FilesInv, Scripts
<1>9. Prints'
    BY <1>4 DEF FilesInv, Prints, RootFileNames
<1> QED
    BY <1>6, <1>7, <1>8, <1>9 DEF FilesInv

\* A tool runs for a file.
LEMMA FilesTransform ==
    ASSUME FilesInv, PipeInv', Transform, status' = status, status = "emitting",
           UNCHANGED <<file, completing, entryFunctions, request, pending, javaScript, printed>>
    PROVE  FilesInv'
<1>1. PICK c : c = Chain
    OBVIOUS
<1>2. /\ written # 0 /\ ~compilerOptions.emitLLVM
      /\ \E n \in 0..(Len(c) - 1) :
             /\ n \in Nat /\ (n + 1) \in 1..Len(c)
             /\ Told(n)
             /\ Head(transforms) = c[n + 1]
             /\ Len(Tail(transforms)) = Len(c) - (n + 1)
    BY <1>1, ChainPoint DEF FilesInv, Transform
<1>3. PICK n \in 0..(Len(c) - 1) :
          /\ n \in Nat /\ (n + 1) \in 1..Len(c)
          /\ Told(n)
          /\ Head(transforms) = c[n + 1]
          /\ Len(Tail(transforms)) = Len(c) - (n + 1)
    BY <1>2
<1>4. PICK step : step = Head(transforms)
    OBVIOUS
<1>5. /\ transforms' = Tail(transforms)
      /\ rewriter' = [rewriter EXCEPT ![written].metaData = @ \/ step = "s2wasm",
                                      ![written].url = @ \/ step = "wasm-as"]
      /\ outputs' = CASE step = "save bc" -> Saved("bc")
                      [] step = "save wast" -> Saved("wast")
                      [] step = "wasm-as" -> Saved("wasm")
                      [] OTHER -> outputs
      /\ compilerOptions' = compilerOptions /\ written' = written
    BY <1>4 DEF Transform
<1>s. written' = written
    BY <1>5
<1>6. written \in Files /\ completing = written /\ EntryFunctionsOf(written) # {}
    BY <1>2 DEF FilesInv, PipeInv, VisitInv, Place, PipeTypes, Modules
<1>7. ModuleExtension' = "wasm" /\ ModuleExtension = "wasm"
    BY <1>2, <1>5 DEF ModuleExtension
<1>8. /\ rewriter'[written].metaData = (rewriter[written].metaData \/ step = "s2wasm")
      /\ rewriter'[written].url = (rewriter[written].url \/ step = "wasm-as")
      /\ rewriter'[written].loader = rewriter[written].loader
      /\ \A f \in Files : f # written => rewriter'[f] = rewriter[f]
    BY <1>5, <1>6 DEF FilesInv, PipeInv, PipeTypes
<1>9. /\ \A f : HasOutput(f, "wasm") => HasOutput(f, "wasm")'
      /\ \A f : HasOutput(f, "wasm")' => HasOutput(f, "wasm") \/ f = written
      /\ step = "wasm-as" => HasOutput(written, "wasm")'
      /\ outputs \subseteq outputs'
    <2>1. CASE step \in {"save bc", "save wast", "wasm-as"}
        <3>1. PICK extension \in {"bc", "wast", "wasm"} :
                  /\ outputs' = outputs \cup {[file |-> written, extension |-> extension, done |-> input.done]}
                  /\ step = "wasm-as" => extension = "wasm"
            BY <1>5, <2>1 DEF Saved
        <3>2. /\ \A f, e : HasOutput(f, e)' <=> HasOutput(f, e) \/ (f = written /\ e = extension)
              /\ outputs \subseteq outputs'
            BY <3>1, OutputsGrow
        <3>3. HasOutput(written, extension)'
            BY <1>s, <3>2
        <3>4. step = "wasm-as" => HasOutput(written, "wasm")'
            BY <3>1, <3>3
        <3> QED
            BY <3>2, <3>4
    <2>2. CASE step \notin {"save bc", "save wast", "wasm-as"}
        <3>1. outputs' = outputs
            BY <1>5, <2>2
        <3> QED
            BY <2>2, <3>1, OutputsStay
    <2> QED
        BY <2>1, <2>2
<1>10. step = "wasm-as" => rewriter[written].metaData
    <2>1. ASSUME step = "wasm-as"
          PROVE  rewriter[written].metaData
        <3>1. c[n + 1] = "wasm-as"
            BY <1>3, <1>4, <2>1
        <3>2. \E a \in 1..((n + 1) - 1) : c[a] = "s2wasm"
            BY <1>1, <1>3, <3>1, ChainModule DEF Chain
        <3>3. (n + 1) - 1 = n
            BY <1>3
        <3> QED
            BY <1>1, <1>3, <3>2, <3>3 DEF Told
    <2> QED
        BY <2>1
<1>11. transforms' = <<>> => HasOutput(written, "wasm")'
    <2>1. ASSUME transforms' = <<>>
          PROVE  step = "wasm-as"
        <3>a. Tail(transforms) = <<>>
            BY <1>5, <2>1
        <3>b. PICK t : t = Tail(transforms)
            OBVIOUS
        <3>1. Len(t) = 0
            BY <3>a, <3>b
        <3>d. Len(t) = Len(c) - (n + 1)
            BY <1>3, <3>b
        <3>e. Len(c) \in Nat
            BY <1>1, ChainReads DEF Chain
        <3>g. n \in Nat
            BY <1>3
        <3>2. n + 1 = Len(c)
            BY <3>1, <3>d, <3>e, <3>g
        <3>3. c[Len(c)] = "wasm-as"
            BY <1>1, ChainModule DEF Chain
        <3> QED
            BY <1>3, <1>4, <3>2, <3>3
    <2> QED
        BY <1>9, <2>1
<1>12. Fresh'
    BY EntriesStay DEF FilesInv, Fresh
<1>13. Modules'
    <2>1. \A f \in Files : HasOutput(f, "wasm")' => EntryFunctionsOf(f) # {}
        BY <1>6, <1>7, <1>9 DEF FilesInv, Modules
    <2>2. \A f \in Files : HasOutput(f, ModuleExtension)' => EntryFunctionsOf(f)' # {}
        BY <1>7, <2>1, EntriesStay
    <2>3. written' # 0 /\ transforms' = <<>> => HasOutput(written, ModuleExtension)'
        BY <1>5, <1>7, <1>11
    <2>4. completing' # 0 => EntryFunctionsOf(completing)' # {}
        BY <1>6, EntriesStay
    <2> QED
        BY <2>2, <2>3, <2>4 DEF Modules
<1>14. Scripts'
    <2>1. ASSUME NEW f \in Files, javaScript[f] # "none"
          PROVE  /\ EntryFunctionsOf(f)' # {} => HasOutput(f, ModuleExtension)'
                 /\ javaScript[f] = "rewritten" <=> EntryFunctionsOf(f)' # {} /\ ~compilerOptions'.emitLLVM
        BY <1>5, <1>7, <1>9, <2>1, EntriesStay DEF FilesInv, Scripts
    <2>2. ASSUME NEW f \in Files
          PROVE  /\ javaScript[f] = "rewritten" => rewriter'[f].url
                 /\ rewriter'[f].url => rewriter'[f].metaData /\ HasOutput(f, "wasm")'
        <3>1. CASE f = written
            <4>1. javaScript[f] = "rewritten" => rewriter[f].url
                BY DEF FilesInv, Scripts
            <4>2. rewriter[f].url => rewriter[f].metaData /\ HasOutput(f, "wasm")
                BY DEF FilesInv, Scripts
            <4>3. rewriter[written].url => rewriter'[written].url
                BY <1>8
            <4>4. rewriter[written].metaData => rewriter'[written].metaData
                BY <1>8
            <4>5. rewriter'[written].url => rewriter[written].url \/ step = "wasm-as"
                BY <1>8
            <4> QED
                BY <1>s, <1>9, <1>10, <3>1, <4>1, <4>2, <4>3, <4>4, <4>5
        <3>2. CASE f # written
            BY <1>8, <1>9, <3>2 DEF FilesInv, Scripts
        <3> QED
            BY <3>1, <3>2
    <2>3. file # 0 => (rewriter'[file].loader <=> ~compilerOptions.emitLLVM /\ EntryFunctionsOf(file) # {})
        <3>1. file # 0 => file \in Files
            BY DEF FilesInv, PipeInv, PipeTypes
        <3>2. file # 0 => (rewriter[file].loader <=> ~compilerOptions.emitLLVM /\ EntryFunctionsOf(file) # {})
            BY DEF FilesInv, Scripts
        <3>3. file # 0 => rewriter'[file].loader = rewriter[file].loader
            BY <1>8, <3>1
        <3> QED
            BY <3>2, <3>3
    <2> QED
        BY <1>5, <2>1, <2>2, <2>3, EntriesStay DEF Scripts
<1>15. Prints'
    BY <1>9 DEF FilesInv, Prints, RootFileNames
<1> QED
    BY <1>12, <1>13, <1>14, <1>15 DEF FilesInv

\* The loader is added to a file whose module was written.
LEMMA FilesRewrite ==
    ASSUME FilesInv, PipeInv', RewriteSourceFile
    PROVE  FilesInv'
<1>1. /\ status' = status /\ status = "emitting" /\ written # 0 /\ transforms = <<>>
      /\ UNCHANGED <<entryFunctions, transforms, rewriter, outputs, compilerOptions, request, pending, printed>>
      /\ file' = 0 /\ completing' = 0 /\ written' = 0
      /\ compilerOptions.emitLLVM \/ rewriter[written].url
      /\ javaScript' = [javaScript EXCEPT ![written] = IF rewriter[written].loader THEN "rewritten" ELSE "transformed"]
    BY DEF RewriteSourceFile, ModuleWritten
<1>2. /\ written = file /\ completing = file /\ file # 0 /\ file \in Files /\ 0 \notin Files
      /\ EntryFunctionsOf(file) # {} /\ HasOutput(file, ModuleExtension)
    BY <1>1, PipelineAssumption DEF FilesInv, PipeInv, VisitInv, Place, PipeTypes, Modules
<1>3. ModuleExtension' = ModuleExtension
    BY <1>1 DEF ModuleExtension
<1>4. rewriter[file].loader <=> ~compilerOptions.emitLLVM
    BY <1>2 DEF FilesInv, Scripts
<1>5. /\ \A f \in Files : f # file => javaScript'[f] = javaScript[f]
      /\ javaScript'[file] # "none"
      /\ javaScript'[file] = "rewritten" <=> ~compilerOptions.emitLLVM
      /\ javaScript' \in [Files -> {"none", "transformed", "rewritten"}]
    BY <1>1, <1>2, <1>4 DEF FilesInv, Fresh
<1>6. Fresh'
    <2>1. \A f \in pending : javaScript'[f] = "none"
        BY <1>2, <1>5 DEF FilesInv, Fresh
    <2> QED
        BY <1>1, <1>5, <2>1, EntriesStay DEF FilesInv, Fresh
<1>7. Modules'
    BY <1>1, <1>3, EntriesStay, OutputsStay DEF FilesInv, Modules
<1>8. Scripts'
    BY <1>1, <1>2, <1>3, <1>5, EntriesStay, OutputsStay DEF FilesInv, Scripts
<1>9. Prints'
    BY <1>1, <1>2, <1>5 DEF FilesInv, Prints, RootFileNames
<1> QED
    BY <1>6, <1>7, <1>8, <1>9 DEF FilesInv

\* The invariant of the files is inductive.
LEMMA FilesNext == FilesInv /\ [Next]_vars => FilesInv'
<1> SUFFICES ASSUME FilesInv, [Next]_vars PROVE FilesInv'
    OBVIOUS
<1>0. PipeInv'
    BY PipeNext DEF FilesInv
<1>1. CASE Refuse
    BY <1>0, <1>1, FilesIdle DEF Refuse, End, visitorVars, pipelineVars
<1>2. CASE Compile
    BY <1>0, <1>2, FilesCompile
<1>3. ASSUME NEW f \in Files, BeginSourceFile(f)
      PROVE  FilesInv'
    BY <1>0, <1>3, FilesBegin
<1>4. ASSUME NEW f \in Files, PrintFile(f)
      PROVE  FilesInv'
    BY <1>0, <1>4, FilesPrint
<1>5. CASE Visit
    <2>1. UNCHANGED <<pipelineVars, hostVars>> /\ file' = file /\ entryFunctions' = entryFunctions
        BY <1>5 DEF Visit, EnterFunction, VisitIdentifier, LeaveFunction
    <2> QED
        BY <1>0, <2>1, FilesIdle DEF pipelineVars, hostVars
<1>6. CASE GenerateEntryFunction
    BY <1>0, <1>6, FilesEntry
<1>7. CASE FailVisit
    BY <1>0, <1>7, FilesIdle DEF FailVisit, End, pipelineVars
<1>8. CASE CompleteSourceFile
    BY <1>0, <1>8, FilesComplete
<1>9. CASE Build
    <2>1. /\ status' = status /\ status = "emitting" /\ completing # 0
          /\ UNCHANGED <<file, completing, entryFunctions, request, pending, javaScript, printed>>
        BY <1>9 DEF Build, visitorVars, hostVars
    <2>2. CASE WriteModule(completing)
        BY <1>0, <2>1, <2>2, FilesWrite
    <2>3. CASE CleanDirectories \/ RemoveTempObject
        <3>1. UNCHANGED <<written, transforms, rewriter, outputs, compilerOptions>>
            BY <2>3 DEF CleanDirectories, RemoveTempObject
        <3> QED
            BY <1>0, <2>1, <3>1, FilesIdle
    <2>4. CASE Transform
        BY <1>0, <2>1, <2>4, FilesTransform
    <2> QED
        BY <1>9, <2>2, <2>3, <2>4 DEF Build
<1>10. CASE FailBuild
    BY <1>0, <1>10, FilesIdle DEF FailBuild, End, visitorVars, pipelineVars
<1>11. CASE RewriteSourceFile
    BY <1>0, <1>11, FilesRewrite
<1>12. CASE FailPrint
    BY <1>0, <1>12, FilesIdle DEF FailPrint, End, visitorVars, pipelineVars
<1>13. CASE Finish
    BY <1>0, <1>13, FilesIdle DEF Finish, End, visitorVars, pipelineVars
<1>14. CASE Ended \/ UNCHANGED vars
    BY <1>0, <1>14, FilesIdle DEF Ended, vars, visitorVars, pipelineVars
<1> QED
    BY <1>1, <1>2, <1>3, <1>4, <1>5, <1>6, <1>7, <1>8, <1>9, <1>10, <1>11, <1>12, <1>13, <1>14 DEF Next, Step

\* The invariant of the files: which of them have their modules, which JavaScript was printed and
\* what it loads, at every point of a compilation (Compiler.emit,
\* PerFileCodeGenerator.completeSourceFile).
THEOREM FilesInvariant == Spec => []FilesInv
<1> QED
    BY FilesStart, FilesNext, PTL DEF Spec

\* JavaScript that loads a module is printed after the module was written, and a compilation that
\* succeeds has left nothing out and nothing behind, whatever failed or was tried before.
THEOREM OutputsAlwaysComplete == Spec => []OutputsComplete
<1>1. FilesInv => LoaderReady
    <2> SUFFICES ASSUME FilesInv, NEW f \in printed, javaScript[f] = "rewritten"
                 PROVE  rewriter[f].url /\ rewriter[f].metaData /\ \E o \in outputs : o.file = f /\ o.extension = "wasm"
        BY DEF LoaderReady
    <2>1. f \in Files
        BY DEF FilesInv, Prints
    <2> QED
        BY <2>1 DEF FilesInv, Scripts, HasOutput
<1>2. FilesInv => SuccessIsComplete
    <2> SUFFICES ASSUME FilesInv, status = "Success", RootFileNames(request) # {}
                 PROVE  /\ disk = {} /\ tempObjects = <<>>
                        /\ \A f \in Files :
                             /\ [file |-> f, extension |-> "js", done |-> {}] \in outputs
                             /\ (\E o \in outputs : o.file = f
                                     /\ o.extension = IF compilerOptions.emitLLVM THEN "ll" ELSE "wasm")
                                  <=> EntryFunctionsOf(f) # {}
                             /\ javaScript[f] = "rewritten" <=> EntryFunctionsOf(f) # {} /\ ~compilerOptions.emitLLVM
        BY DEF SuccessIsComplete
    <2>1. file = 0 /\ completing = 0 /\ written = 0
        BY DEF FilesInv, PipeInv, VisitInv, Place
    <2>2. disk = {} /\ tempObjects = <<>>
        BY <2>1 DEF FilesInv, PipeInv, DirectoryFirst
    <2>3. ASSUME NEW f \in Files
          PROVE  /\ [file |-> f, extension |-> "js", done |-> {}] \in outputs
                 /\ HasOutput(f, ModuleExtension) <=> EntryFunctionsOf(f) # {}
                 /\ javaScript[f] = "rewritten" <=> EntryFunctionsOf(f) # {} /\ ~compilerOptions.emitLLVM
        <3>1. f # 0 /\ f # file
            BY <2>1, PipelineAssumption
        <3>2. javaScript[f] # "none" /\ f \in printed
            BY <3>1 DEF FilesInv, Prints
        <3> QED
            BY <3>2 DEF FilesInv, Prints, Modules, Scripts
    <2>4. \A f : HasOutput(f, ModuleExtension)
                   <=> \E o \in outputs : o.file = f /\ o.extension = IF compilerOptions.emitLLVM THEN "ll" ELSE "wasm"
        BY DEF HasOutput, ModuleExtension
    <2> QED
        BY <2>2, <2>3, <2>4
<1>3. FilesInv => OutputsComplete
    BY <1>1, <1>2 DEF OutputsComplete
<1> QED
    BY <1>3, FilesInvariant, PTL
=============================================================================
