---------------------------- MODULE MCControlFlow ---------------------------
(* Bodies with at most MaxStatements statements, and two labels, which are  *)
(* interchangeable.                                                         *)
EXTENDS ControlFlow, TLC

CONSTANTS a, b

MCLabels == {a, b}
MCSymmetry == Permutations(MCLabels)
=============================================================================
