------------------------------- MODULE OpenLoop -------------------------------
(***************************************************************************)
(* The life of "async with open_loop()" (_loop.py) around the main loop of *)
(* EventLoop: leaving the body, synchronizing with the queue, cancelling   *)
(* and awaiting the asyncio tasks and the Trio tasks together, closing the *)
(* nursery, and _main_loop_exit().                                         *)
(*                                                                         *)
(* An asyncio task is a chain of callbacks of the loop: the call that wakes*)
(* it when what it awaits is done or cancelled, and the done-callback that *)
(* wakes the run_aio_future() waiting for it.  A woken task finishes.      *)
(***************************************************************************)
EXTENDS EventLoop

CONSTANTS
  AioTasks,    \* the asyncio tasks alive when the model begins
  WakeOf,      \* WakeOf[a]: the Task.__wakeup callback of a
  DoneOf,      \* DoneOf[a]: the done_cb callback of run_aio_future(a)
  SyncHandle,  \* the w.set callback of synchronize()
  Own,         \* all callbacks of the loop's own code
  EarlyStop    \* may user code stop the loop, or a callback raise SystemExit?

Internal == {SyncHandle} \cup {WakeOf[a] : a \in AioTasks} \cup {DoneOf[a] : a \in AioTasks}

ASSUME OpenLoopAssumption ==
  /\ Internal \subseteq Own /\ Own \subseteq Soon
  /\ \A a \in AioTasks : SyncHandle \notin {WakeOf[a], DoneOf[a]}
  /\ QueueLen = Unbounded
  /\ EarlyStop \in BOOLEAN

VARIABLES
  body,       \* where the task running open_loop() is
  aio,        \* state of each asyncio task
  watch,      \* the run_aio_future() task that teardown starts for it
  live,       \* Trio tasks started and not yet ended
  submitted   \* history: the callbacks and tasks accepted when the body was left

ovars == <<body, aio, watch, live, submitted>>
allvars == <<vars, ovars>>

OpenTypeOK ==
  /\ TypeOK
  /\ body \in {"inside", "leaving", "syncing", "teardown"}
  /\ aio \in [AioTasks -> {"pending", "waking", "finished"}]
  /\ watch \in [AioTasks -> {"none", "starting", "waiting", "over"}]
  /\ live \in SUBSET Asyncs
  /\ submitted \in SUBSET (Handles \ Timers)

OpenInit ==
  /\ Init
  /\ body = "inside"
  /\ aio = [a \in AioTasks |-> "pending"]
  /\ watch = [a \in AioTasks |-> "none"]
  /\ live = {} /\ submitted = {}

Queues(h) == QueueHandle(h) /\ UNCHANGED <<entry, cancelled, clock, halt, life>>
LoopIdle == UNCHANGED vars

-----------------------------------------------------------------------------
(* Leaving the body.                                                        *)

BodyExit ==
  /\ Yielded /\ body = "inside"
  /\ body' = "leaving"
  /\ submitted' = {h \in Handles \ Timers : fate[h] = "accepted"}
  /\ LoopIdle /\ UNCHANGED <<aio, watch, live>>

\* wait_for_sync() calls synchronize().
Synchronize ==
  /\ Yielded /\ body = "leaving"
  /\ body' = "syncing"
  /\ Queues(SyncHandle)
  /\ UNCHANGED <<aio, watch, live, submitted>>

\* Mutant of CancelTasks: does not wait for synchronize().
CancelTasksEarly ==
  /\ Yielded /\ body \in {"leaving", "syncing"}
  /\ body' = "teardown"
  /\ watch' = [a \in AioTasks |-> IF aio[a] = "finished" THEN "none" ELSE "starting"]
  /\ LoopIdle /\ UNCHANGED <<aio, live, submitted>>

\* Either synchronize() or wait_stopped() returns.  Every unfinished asyncio
\* task gets a run_aio_future() in tasks_nursery, which is cancelled.
CancelTasks ==
  /\ Yielded
  /\ \/ body = "syncing" /\ fate[SyncHandle] = "ran"
     \/ body \in {"leaving", "syncing"} /\ stopped
  /\ body' = "teardown"
  /\ watch' = [a \in AioTasks |-> IF aio[a] = "finished" THEN "none" ELSE "starting"]
  /\ LoopIdle /\ UNCHANGED <<aio, live, submitted>>

\* Mutant of WatchStart: the callback of a finished task is not queued.
WatchStartLate(a) ==
  /\ Yielded /\ watch[a] = "starting"
  /\ watch' = [watch EXCEPT ![a] = "waiting"]
  /\ \/ aio[a] = "pending" /\ aio' = [aio EXCEPT ![a] = "waking"] /\ Queues(WakeOf[a])
     \/ aio[a] \in {"waking", "finished"} /\ LoopIdle /\ UNCHANGED aio
  /\ UNCHANGED <<body, live, submitted>>

\* run_aio_future(): add_done_callback(), park, and have abort_cb cancel the
\* future, all in one go as the scope is cancelled already.  cancel() wakes a
\* waiting task through the loop; the callback of a finished one is queued.
WatchStart(a) ==
  /\ Yielded /\ watch[a] = "starting"
  /\ watch' = [watch EXCEPT ![a] = "waiting"]
  /\ \/ aio[a] = "pending" /\ aio' = [aio EXCEPT ![a] = "waking"] /\ Queues(WakeOf[a])
     \/ aio[a] = "waking" /\ LoopIdle /\ UNCHANGED aio
     \/ aio[a] = "finished" /\ Queues(DoneOf[a]) /\ UNCHANGED aio
  /\ UNCHANGED <<body, live, submitted>>

-----------------------------------------------------------------------------
(* asyncio tasks.                                                           *)

\* What the task awaits comes about by itself.
AioReady(a) ==
  /\ UserRuns /\ aio[a] = "pending" /\ ~closed
  /\ aio' = [aio EXCEPT ![a] = "waking"]
  /\ Queues(WakeOf[a])
  /\ UNCHANGED <<body, watch, live, submitted>>

\* The wake-up callback runs the task to its end, which schedules the
\* done-callback if somebody waits.
AioFinish(a) ==
  /\ pc = "calling" /\ obj = WakeOf[a] /\ aio[a] = "waking"
  /\ aio' = [aio EXCEPT ![a] = "finished"]
  /\ \/ watch[a] = "waiting" /\ Queues(DoneOf[a])
     \/ watch[a] # "waiting" /\ LoopIdle
  /\ UNCHANGED <<body, watch, live, submitted>>

\* done_cb reschedules the Trio task in run_aio_future(), which then ends.
Return ==
  /\ CallbackReturn
  /\ \A a \in AioTasks : obj = WakeOf[a] => aio[a] = "finished"
  /\ watch' = [a \in AioTasks |-> IF obj = DoneOf[a] THEN "over" ELSE watch[a]]
  /\ UNCHANGED <<body, aio, live, submitted>>

-----------------------------------------------------------------------------
(* Trio tasks and their nursery.                                            *)

TrioTaskRuns ==
  /\ TaskRuns
  /\ live' = IF fate'[obj] = "ran" THEN live \cup {obj} ELSE live
  /\ UNCHANGED <<body, aio, watch, submitted>>

TrioTaskEnds(h) ==
  /\ Yielded /\ h \in live
  /\ live' = live \ {h}
  /\ LoopIdle /\ UNCHANGED <<body, aio, watch, submitted>>

\* Trio closes a nursery when its last task ends; here that is a step of its
\* own, before which the loop may still start another task.
TasksNurseryCloses ==
  /\ body = "teardown" /\ live = {}
  /\ \A a \in AioTasks : watch[a] \notin {"starting", "waiting"}
  /\ NurseryCloses
  /\ UNCHANGED ovars

-----------------------------------------------------------------------------
(* Calls into the loop come from the body, a Trio task of the loop, or the  *)
(* callback (of a user or of an asyncio task) that the loop is running.     *)
UserCode ==
  \/ body = "inside" \/ live # {}
  \/ pc = "calling" /\ obj \notin {SyncHandle} \cup {DoneOf[a] : a \in AioTasks}

UserCalls ==
  /\ UserCode
  /\ \/ \E h \in Soon \ Own : CallSoon(h) \/ Cancel(h)
     \/ \E h \in Asyncs : TrioAsFuture(h) \/ Cancel(h)
     \/ EarlyStop /\ (Stop \/ \E w \in Waiters : StopWith(w))

LoopRuns ==
  LoopSteps \/ (EarlyStop /\ obj \notin Own /\ CallbackExits)

OpenNext ==
  \/ BodyExit \/ Synchronize \/ CancelTasks
  \/ \E a \in AioTasks : WatchStart(a) \/ AioReady(a) \/ AioFinish(a)
  \/ Return \/ TrioTaskRuns \/ TasksNurseryCloses
  \/ \E h \in Asyncs : TrioTaskEnds(h)
  \/ (UserCalls \/ LoopRuns \/ ExitSteps) /\ UNCHANGED ovars

OpenSpec == OpenInit /\ [][OpenNext]_allvars

(* Trio runs every runnable task and callbacks return; the body is left at  *)
(* some time, and cancelled Trio tasks end.                                 *)
OpenFairness ==
  /\ WF_allvars(LoopSteps /\ UNCHANGED ovars)
  /\ WF_allvars(Return) /\ WF_allvars(TrioTaskRuns)
  /\ WF_allvars(BodyExit) /\ WF_allvars(Synchronize) /\ WF_allvars(CancelTasks)
  /\ \A a \in AioTasks : WF_allvars(WatchStart(a)) /\ WF_allvars(AioFinish(a))
  /\ \A h \in Asyncs : WF_allvars(body = "teardown" /\ TrioTaskEnds(h))
  /\ WF_allvars(TasksNurseryCloses)
  /\ WF_allvars(ExitSteps /\ UNCHANGED ovars)

OpenFairSpec == OpenSpec /\ OpenFairness

-----------------------------------------------------------------------------
(* Properties.                                                              *)

(* The asyncio tasks found at shutdown are over when open_loop() has exited:*)
(* "the loop waits for them to exit in response to this cancellation before *)
(* proceeding".                                                             *)
TasksFinished ==
  exit \in {"drain", "finished"} => \A a \in AioTasks : aio[a] = "finished"

(* A loop that is stopped in the body of open_loop(), which the code expects*)
(* ("unless the loop stops (due to someone else calling stop())") and a test*)
(* asserts to be no "possible deadlock", is shut down all the same.         *)
ShutdownCompletes ==
  body = "inside" /\ stopped ~> exit \in {"finished", "failed"}

=============================================================================
