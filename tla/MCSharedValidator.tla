-------------------------- MODULE MCSharedValidator --------------------------
(***************************************************************************)
(* Three threads that register or use two classes; one of them forks.  A   *)
(* validator for each thread and one to be shared are all that is ever in  *)
(* use at a time.                                                          *)
(***************************************************************************)
EXTENDS SharedValidator

CONSTANTS t1, t2, t3, a, b

MCCalls == {{a}, {a, b}}
=============================================================================
