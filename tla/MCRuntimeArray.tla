--------------------------- MODULE MCRuntimeArray ---------------------------
(***************************************************************************)
(* Arrays of up to three elements in a scaled address space: 64 elements   *)
(* fill it, half of it can be allocated, and the integers are InReach.     *)
(***************************************************************************)
EXTENDS RuntimeArray

MCBases == {40}

MCInts == {-4, -1, 0, 1, 2, 3}

MCValues == {0, 1, 9}

MCItems == {<<>>, <<1>>, <<0, 1>>}

MCBoth == {TRUE, FALSE}

MCSafe == {TRUE}

(* What the theorems about RuntimeArray suppose of the constants.          *)
ASSUME MCHypotheses == NoWrap /\ JunkApart /\ <<>> \in Items
=============================================================================
