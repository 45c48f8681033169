---------------------------- MODULE MCChildWaiter ----------------------------
(***************************************************************************)
(* Constants for the runs of ChildWaiter.                                  *)
(***************************************************************************)
EXTENDS ChildWaiter

CONSTANTS t1, t2, t3, p1, p2, w1, w2, w3

\* The first task is alone with its child; the others share one.
MCWaits == [t \in Task |-> IF t = t1 THEN p1 ELSE p2]

\* The pid of the shared child is used again.
MCBirths == [p \in Pid |-> IF p = p1 THEN 1 ELSE 2]
=============================================================================
