---------------------------- MODULE MCLoopContext ----------------------------
(***************************************************************************)
(* Constants for the run of LoopContext.                                   *)
(***************************************************************************)
EXTENDS LoopContext, TLC

CONSTANTS t1, t2, l1, l2, c1, g1

\* The loops are alike.
Symmetry == Permutations({l1, l2})
=============================================================================
