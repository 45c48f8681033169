------------------------------ MODULE MCOpenLoop ------------------------------
(***************************************************************************)
(* Constants for the run of OpenLoop, which has one asyncio task.          *)
(***************************************************************************)
EXTENDS OpenLoop

CONSTANTS a1, wake1, done1, sync

MCWakeOf == [a \in AioTasks |-> wake1]
MCDoneOf == [a \in AioTasks |-> done1]
=============================================================================
