---------------------------- MODULE MCWasmMemory ----------------------------
(***************************************************************************)
(* WasmMemory scaled down: 2^31 is 64, a page 4, the alignment 4 and a     *)
(* pointer 1, in the same order as the real sizes.  The initial memory of  *)
(* 16 is doubled once and then grows slowly to the limit of 60.            *)
(***************************************************************************)
EXTENDS WasmMemory

(* Requests of every kind: none, small, more than a page, more than the    *)
(* limit, so large that rounding wraps around; and releases.               *)
MCIncrements == {-64, -9, 0, 1, 13, 50, 63}

MCFrameSizes == {2}

(* A word of a frame that covers the break: zero or some large value.      *)
MCGarbage == {0, 50}
=============================================================================
