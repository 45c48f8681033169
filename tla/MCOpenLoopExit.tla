---------------------------- MODULE MCOpenLoopExit ----------------------------
(***************************************************************************)
(* Constants for the runs of OpenLoopExit, which have one asyncio task and *)
(* at most one asynchronous generator.                                     *)
(***************************************************************************)
EXTENDS OpenLoopExit

CONSTANTS a1, wake1, done1, sync, s1, t1,
          gen1, sentinel, fin1, close1, closeS, set1, fin2

MCWakeOf == [a \in AioTasks |-> wake1]
MCDoneOf == [a \in AioTasks |-> done1]
MCCloseOf == [g \in Closing |-> IF g = Sentinel THEN closeS ELSE close1]
=============================================================================
