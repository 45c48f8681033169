--------------------------- MODULE MCSignalHandlers ---------------------------
(***************************************************************************)
(* Constants for the run of SignalHandlers, which checks safety only.      *)
(***************************************************************************)
EXTENDS SignalHandlers, TLC

CONSTANTS x1, g1, g2, a1, w1

SignalsSymmetry == Permutations(Signals)
=============================================================================
