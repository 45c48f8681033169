----------------------------- MODULE AsyncHandle -----------------------------
(***************************************************************************)
(* Calls from asyncio into Trio: the AsyncHandles made by trio_as_future() *)
(* and run_trio_task() (_handles.py), from the queued handle through the   *)
(* Trio task running AsyncHandle._run to the resolved future.              *)
(*                                                                         *)
(* An exception group is the set of the kinds of its leaves.  The future   *)
(* is resolved by the handle only; whoever holds it may cancel() it.       *)
(***************************************************************************)
EXTENDS FiniteSets

CONSTANTS
  Handle,      \* the AsyncHandles
  WithFuture   \* those of trio_as_future(); the others are run_trio_task()'s

ASSUME FutureAssumption == WithFuture \subseteq Handle

VARIABLES
  task,       \* how far the Trio task of each handle is
  fut,        \* state of _fut
  cancelled,  \* _cancelled of each handle
  scope,      \* _scope.cancel_called
  finished,   \* _finished
  outer,      \* is the nursery the tasks run in cancelled?
  returned,   \* history: the function returned a value
  leaves,     \* history: the kinds of exceptions it raised
  raised,     \* what left _run and reached the nursery
  reported    \* what went to the loop's exception handler

vars == <<task, fut, cancelled, scope, finished, outer, returned, leaves, raised, reported>>

\* trio.Cancelled, other Exceptions, and SystemExit, KeyboardInterrupt etc.
Kinds == {"Cancelled", "Exception", "Base"}

TypeOK ==
  /\ task \in [Handle -> {"queued", "starting", "running", "ended"}]
  /\ fut \in [Handle -> {"none", "pending", "result", "exception", "cancelled"}]
  /\ \A h \in Handle : fut[h] = "none" <=> h \notin WithFuture
  /\ cancelled \in [Handle -> BOOLEAN]
  /\ scope \in [Handle -> BOOLEAN]
  /\ finished \in [Handle -> BOOLEAN]
  /\ outer \in BOOLEAN
  /\ returned \in [Handle -> BOOLEAN]
  /\ leaves \in [Handle -> SUBSET Kinds]
  /\ raised \in [Handle -> SUBSET Kinds]
  /\ reported \in [Handle -> SUBSET Kinds]

Init ==
  /\ task = [h \in Handle |-> "queued"]
  /\ fut = [h \in Handle |-> IF h \in WithFuture THEN "pending" ELSE "none"]
  /\ cancelled = [h \in Handle |-> FALSE]
  /\ scope = [h \in Handle |-> FALSE]
  /\ finished = [h \in Handle |-> FALSE]
  /\ outer = FALSE
  /\ returned = [h \in Handle |-> FALSE]
  /\ leaves = [h \in Handle |-> {}]
  /\ raised = [h \in Handle |-> {}]
  /\ reported = [h \in Handle |-> {}]

Resolve(h, f) == fut' = [fut EXCEPT ![h] = IF @ = "pending" THEN f ELSE @]

-----------------------------------------------------------------------------
(* Cancellation.                                                            *)

\* Mutant of HandleCancel: the scope is not cancelled.
HandleCancelOnly(h) ==
  /\ cancelled' = [cancelled EXCEPT ![h] = TRUE]
  /\ UNCHANGED scope

\* ScopedHandle.cancel()
HandleCancel(h) ==
  /\ cancelled' = [cancelled EXCEPT ![h] = TRUE]
  /\ scope' = [scope EXCEPT ![h] = TRUE]

\* cancel() on the handle that run_trio_task() returned.
CancelTask(h) ==
  /\ h \notin WithFuture
  /\ HandleCancel(h)
  /\ UNCHANGED <<task, fut, finished, outer, returned, leaves, raised, reported>>

\* Mutant of WrappedCancel: the future is cancelled at once.
WrappedCancelAtOnce(h) ==
  /\ fut[h] = "pending"
  /\ HandleCancel(h)
  /\ Resolve(h, "cancelled")

\* wrapped_cancel: pass the request to the Trio task and leave the future
\* alone until that has completed.
WrappedCancel(h) ==
  \/ /\ finished[h]
     /\ Resolve(h, "cancelled")
     /\ UNCHANGED <<cancelled, scope>>
  \/ /\ ~finished[h] /\ fut[h] = "pending"
     /\ HandleCancel(h)
     /\ UNCHANGED fut

CancelFuture(h) ==
  /\ h \in WithFuture
  /\ WrappedCancel(h)
  /\ UNCHANGED <<task, finished, outer, returned, leaves, raised, reported>>

\* open_loop() shuts its tasks down, or another task there has failed.
NurseryCancelled ==
  /\ ~outer
  /\ outer' = TRUE
  /\ UNCHANGED <<task, fut, cancelled, scope, finished, returned, leaves, raised, reported>>

-----------------------------------------------------------------------------
(* The Trio task.                                                           *)

\* The main loop starts a task for the handle, cancelled or not.
Spawn(h) ==
  /\ task[h] = "queued"
  /\ task' = [task EXCEPT ![h] = "starting"]
  /\ UNCHANGED <<fut, cancelled, scope, finished, outer, returned, leaves, raised, reported>>

\* _run of a handle that was cancelled before it started.
RunCancelled(h) ==
  /\ task[h] = "starting" /\ cancelled[h]
  /\ finished' = [finished EXCEPT ![h] = TRUE]
  /\ Resolve(h, "cancelled")
  /\ task' = [task EXCEPT ![h] = "ended"]
  /\ UNCHANGED <<cancelled, scope, outer, returned, leaves, raised, reported>>

RunCallback(h) ==
  /\ task[h] = "starting" /\ ~cancelled[h]
  /\ task' = [task EXCEPT ![h] = "running"]
  /\ UNCHANGED <<fut, cancelled, scope, finished, outer, returned, leaves, raised, reported>>

Finish(h) ==
  /\ task[h] = "running"
  /\ finished' = [finished EXCEPT ![h] = TRUE]
  /\ task' = [task EXCEPT ![h] = "ended"]

\* The function returns, whether or not it was asked to stop.
Returns(h) ==
  /\ Finish(h)
  /\ returned' = [returned EXCEPT ![h] = TRUE]
  /\ Resolve(h, "result")
  /\ UNCHANGED <<cancelled, scope, outer, leaves, raised, reported>>

\* Mutant of PastScope: the function runs outside the scope.
PastNoScope(h, exc) == exc

\* What is left of the exception outside "with self._scope": the scope takes
\* the Cancelled leaves if it was cancelled and nothing around it was.
PastScope(h, exc) == IF scope[h] /\ ~outer THEN exc \ {"Cancelled"} ELSE exc

\* Only the scope took an exception.
RaiseCaught(h, exc) ==
  /\ PastScope(h, exc) = {}
  /\ Resolve(h, "cancelled")
  /\ UNCHANGED <<raised, reported>>

\* Mutant of RaiseToLoop: Exceptions are reported only if nothing else is raised.
RaiseBaseOnly(h, exc) ==
  /\ PastScope(h, exc) # {} /\ h \notin WithFuture
  /\ reported' = [reported EXCEPT ![h] =
                    IF PastScope(h, exc) = {"Exception"} THEN {"Exception"} ELSE {}]
  /\ raised' = [raised EXCEPT ![h] = PastScope(h, exc) \ {"Exception"}]
  /\ UNCHANGED fut

\* Exceptions go to the exception handler, the rest escapes.
RaiseToLoop(h, exc) ==
  /\ PastScope(h, exc) # {} /\ h \notin WithFuture
  /\ reported' = [reported EXCEPT ![h] = PastScope(h, exc) \cap {"Exception"}]
  /\ raised' = [raised EXCEPT ![h] = PastScope(h, exc) \ {"Exception"}]
  /\ UNCHANGED fut

\* Mutant of RaiseToFuture: Cancelled takes precedence over errors.
RaiseCancelledFirst(h, exc) ==
  /\ PastScope(h, exc) # {} /\ h \in WithFuture
  /\ Resolve(h, IF "Cancelled" \in PastScope(h, exc) THEN "cancelled" ELSE "exception")
  /\ raised' = [raised EXCEPT ![h] = PastScope(h, exc) \cap {"Cancelled"}]
  /\ UNCHANGED reported

\* The future gets all but Cancelled, which escapes.
RaiseToFuture(h, exc) ==
  /\ PastScope(h, exc) # {} /\ h \in WithFuture
  /\ Resolve(h, IF PastScope(h, exc) \ {"Cancelled"} # {} THEN "exception" ELSE "cancelled")
  /\ raised' = [raised EXCEPT ![h] = PastScope(h, exc) \cap {"Cancelled"}]
  /\ UNCHANGED reported

\* The function raises; Trio injects Cancelled only under a cancelled scope.
Raises(h, exc) ==
  /\ Finish(h)
  /\ exc # {} /\ ("Cancelled" \in exc => scope[h] \/ outer)
  /\ leaves' = [leaves EXCEPT ![h] = exc]
  /\ RaiseCaught(h, exc) \/ RaiseToLoop(h, exc) \/ RaiseToFuture(h, exc)
  /\ UNCHANGED <<cancelled, scope, outer, returned>>

-----------------------------------------------------------------------------
Ends(h) == Returns(h) \/ \E exc \in SUBSET Kinds : Raises(h, exc)

Next ==
  \/ NurseryCancelled
  \/ \E h \in Handle :
       \/ CancelTask(h) \/ CancelFuture(h)
       \/ Spawn(h) \/ RunCancelled(h) \/ RunCallback(h) \/ Ends(h)

Spec == Init /\ [][Next]_vars

(* The main loop serves every queued handle (EventLoop), Trio runs every    *)
(* task, and a function that is being cancelled returns or raises; one that *)
(* nobody cancels may run for ever.                                         *)
Fairness ==
  \A h \in Handle :
    /\ WF_vars(Spawn(h))
    /\ WF_vars(RunCancelled(h) \/ RunCallback(h))
    /\ WF_vars((scope[h] \/ outer) /\ Ends(h))

FairSpec == Spec /\ Fairness

-----------------------------------------------------------------------------
(* Properties.                                                              *)

Done(h) == fut[h] \in {"result", "exception", "cancelled"}

(* A Trio task never ends leaving its future pending, and the future is     *)
(* never resolved, by result, error or cancellation, while the Trio         *)
(* function can still run: "don't mark future as cancelled until it         *)
(* completes" (_handles.py, wrapped_cancel).                                *)
FutureFollowsTask ==
  \A h \in WithFuture : Done(h) <=> task[h] = "ended"

(* The future tells what happened: a value that was returned is not lost to *)
(* a cancellation that came too late, an error raised during cancellation   *)
(* is not hidden by it, and a future is cancelled only if somebody          *)
(* cancelled the future or the loop's tasks.                                *)
FutureTellsOutcome ==
  \A h \in WithFuture :
    /\ returned[h] => fut[h] = "result"
    /\ leaves[h] \ {"Cancelled"} # {} => fut[h] = "exception"
    /\ fut[h] = "cancelled" => cancelled[h] \/ outer

(* Cancelled escapes into the nursery only when the nursery was cancelled:  *)
(* cancelling one call neither kills the loop nor its other tasks.          *)
CancelStaysLocal ==
  \A h \in Handle : "Cancelled" \in raised[h] => outer

(* What a run_trio_task() function raises is never lost: Exceptions reach   *)
(* the exception handler and BaseExceptions the nursery.                    *)
ErrorsSurface ==
  \A h \in Handle \ WithFuture :
    /\ "Exception" \in leaves[h] => "Exception" \in reported[h]
    /\ "Base" \in leaves[h] => "Base" \in raised[h]

=============================================================================
