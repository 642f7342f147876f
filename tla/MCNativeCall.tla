---------------------------- MODULE MCNativeCall ----------------------------
(***************************************************************************)
(* Two threads that call anything, and memory for four blocks.             *)
(***************************************************************************)
EXTENDS NativeCall, TLC

CONSTANTS t1, t2, a1, a2, a3, a4

MCSymmetry == Permutations({t1, t2}) \cup Permutations({a1, a2, a3, a4})
=============================================================================
