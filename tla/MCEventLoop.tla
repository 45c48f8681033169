----------------------------- MODULE MCEventLoop -----------------------------
(***************************************************************************)
(* Constants for the run of EventLoop with timers.                         *)
(***************************************************************************)
EXTENDS EventLoop

CONSTANTS x1, a1, t1, t2

=============================================================================
