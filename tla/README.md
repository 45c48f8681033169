# A TLA+ model of trio-asyncio

trio-asyncio runs an asyncio event loop on top of Trio: asyncio callbacks are
handles in a Trio memory channel, a Trio task takes them out one by one, and
functions of either world can be called from the other. This directory models
the parts of the library that decide *what runs, when, and how it ends*, checks
them with TLC and proves the central invariants with TLAPS. Paths are relative
to the repository; line numbers are those of the commit the models were written
from.

## Inventory

| part | source | state | operations | what is hard |
|---|---|---|---|---|
| event loop core | `src/trio_asyncio/_base.py`, `_async.py` | channel `_q_send/_q_recv`, heap `_timers`, `_stopped`, `_stop_wait`, `_closed`, `_token`, `_nursery` | `call_soon`, `call_at`, `call_later`, `trio_as_future`, `run_trio_task`, `call_soon_threadsafe`, `stop`, `close`, `_main_loop_one`, `_main_loop_exit` | tasks act while the loop is suspended with a handle in hand; foreign threads; a timeout against an arriving handle; stopping and draining |
| `open_loop` | `_loop.py` 410-624 | two nurseries, cancel scopes, the asyncio tasks | enter, leave, synchronize, cancel, close | asyncio and Trio tasks waiting for each other through a loop that may have stopped |
| cross-calls into Trio | `_handles.py` | `_cancelled`, `_scope`, `_fut`, `_finished` | `cancel`, `wrapped_cancel`, `_run` | cancellation of a future, its handle, its nursery; mixed exception groups |
| calls into asyncio | `_util.py` 10-54, `_base.py` 268-291 | `raise_cancel`, the parked task | `done_cb`, `abort_cb` | cancellation racing completion; its way through two schedulers |
| async iterators | `_util.py` 60-136 | `current_read`, `raise_cancel` | `consume_next`, `abort_cb` | a cancelled read that answers, or one that never does |
| child processes | `_child.py`, `_loop.py` 359-407 | `_children`, `__result`, `__thread`, `__event` | `wait`, `_wait_pid`, `_wait_thread` | poll and thread both call `waitpid()`; retries |
| descriptor readers and writers | `_base.py` 494-507, 545-690 | selector map, `ScopedHandle`s, `_close_files` | `add_reader`, `add_writer`, `remove_reader`, `_io_task`, `synchronize`, `autoclose`, `_cancel_fds` | replacing or cancelling a handler at any point of its task; calling it again too early |
| signal handlers | `_base.py` 509-541, 857-865 | `_signal_handlers`, `_orig_signals` | add, remove, `_handle_sig`, removal at `close` | a signal between two assignments, or with its handle on the way to the loop when the handler is removed |
| executor | `_base.py` 62-92, 407-412 | limiter, `_running` | `submit`, `shutdown` | little: delegates to Trio |
| async generator hooks | `_base.py` 94-160 | `prev_hooks`, `refcnt` | install, uninstall, firstiter, finalizer | loops that share the hooks and end in any order; a drain that fails; generators collected elsewhere |
| finalization of generators | `_loop.py` 557-599 | `asyncgens_done`, the shield | `sentinel`, `shutdown_asyncgens_from_aio`, `shutdown_asyncgens_from_trio` | finalizers must start before cancellation reaches them, and cancellation must reach them |
| sync loop | `_sync.py` | greenlet, `_loop_running`, `_stop_pending` | `run_until_complete`, `run_forever`, `stop`, `close` | a stop left over from an earlier run |
| policy, monkeypatching | `_loop.py` 1-355 | `current_loop` in contexts, thread-local policy | get/set/new event loop, get running loop | which loop code finds: contexts travel with handles and tasks |
| adapters | `_adapter.py` | `_shim_running` in contexts | `aio_as_trio`, `trio_as_aio`, `allow_asyncio` | the same, and nested calls |
| exception groups | `_handles.py` 57-117 | none | collapse, split | groups within groups |
| exception handler | `_async.py` 17-57 | none | `default_exception_handler` | an error cancels the nursery at any point of the exit |
| subprocess transport, deprecation | `_base.py`, `_deprecate.py` | none that lasts | wrappers | - |

How they interact: everything that asyncio schedules, and every call back into
Trio, is a handle in the loop's channel (`_queue_handle`). The loop task starts
Trio tasks in `tasks_nursery` (AsyncHandles). A Trio task that calls asyncio
parks until a callback of the loop reschedules it. Threads and signals reach the
channel through Trio's `run_sync_soon`. `open_loop` starts the loop, and at exit
cancels both kinds of task, waits for them through the loop, and ends the loop.

What makes each part correct: the loop serves what it accepted, once, in order,
and never misses a wake-up; `stop()` is a barrier; exit terminates and leaves
nothing; a cross-call behaves like a call (nothing of it outlives it, its outcome
is told, cancellation gets through and is not turned into something else); an
iteration loses no item; a lone waiter gets its child's status; a descriptor has
one living handler, called when ready and never after its removal; a signal calls
the handler that is registered and the process gets its own handling back; the
hooks last as long as a loop that uses them; generators are finalized where they
belong; code finds the loop that runs it; a call of the sync loop ends for its
own reasons only, and when it should.

## Modules

| module | models | variables and code |
|---|---|---|
| `EventLoop` | the loop core | `queue` is the channel buffer, `entry` Trio's queue of `run_sync_soon` calls, `timers`/`when`/`now` the heap and the clock, `pc` and `obj` where `_main_loop_one` is and what it has in hand, `fate` what became of each handle; `stopped`, `stopWait`, `closed`, `token`, `nursery` are the fields of the same names; `exit` is the progress of `_main_loop_exit` |
| `LoopContract` | what schedulers of handles may rely on | an abstract first-come-first-served server with timers; `EventLoop` implements it (`ImplementsContract`) |
| `SignalHandlers` | signal handlers on top of the core (EXTENDS `EventLoop`) | `disposition` is what the process does on the signal, `registered` and `orig` the entries of `_signal_handlers` and `_orig_signals`, `step` the statement of a method that the main thread is at, `local` its handle `h`; a signal's handle is posted like a thread's |
| `OpenLoop` | `open_loop` around the core (EXTENDS `EventLoop`) | `body` is where the task in `open_loop` is, `aio` the asyncio tasks, `watch` the `run_aio_future` tasks of teardown, `live` the Trio tasks |
| `OpenLoopExit` | what else ends `open_loop` (EXTENDS `OpenLoop`): outer cancellation, errors, async generators | `outer` and `scope` are the cancel scopes outside and around the body, `failure` an error for `tasks_nursery`, `fin` the task of `shutdown_asyncgens_from_aio`, `gen` the generators, `shield` that of `shield_asyncgen_finalizers` |
| `AsyncHandle` | `AsyncHandle._run`, `wrapped_cancel`, `ScopedHandle.cancel` | one record field per attribute of the handle, and the Trio task; an exception group is the set of the kinds of its leaves |
| `CrossCall` | `run_aio_coroutine`/`run_aio_future` around a coroutine that calls `trio_as_future` (EXTENDS `AsyncHandle`) | `caller` is the parked Trio task, `aborting` is `raise_cancel`, `aio` and `mustCancel` the asyncio task |
| `ExceptionGroups` | `collapse_exception_group`, `collapse_aware_exception_split` | functions on trees of exceptions, no state |
| `LoopContext` | current loops, contexts, `allow_asyncio`, generator hooks | `ctx` is each Trio task's context, handles carry a copy; `opened` the `open_loop` blocks a task is in, `phase` and `mainCtx` a loop and its main task's context, `stopped` the loops whose main loop ended in the body, `hook`/`refcnt`/`uses` the dispatcher in force, its count and each loop's `_asyncgen_dispatcher`, `gen`/`born` the generators |
| `RunAioGenerator` | `run_aio_generator` | `consumer` the Trio task, `read` is `current_read` |
| `ChildWaiter` | `ProcessWaiter` on POSIX | `children` is `_children`, `result`/`thread`/`event` the attributes of each object, `target` the child that the thread's `waitpid()` is for, `child` and `birth` the operating system's view: the state of the process with each pid, and which in turn has that pid |
| `IoHandlers` | readers and writers, `_io_task`, `synchronize`, `_cancel_fds` | `slot` is the selector's map, `task` where each handler's `_io_task` is, `closeFiles` is `_close_files`, `queue` the loop's channel with the callbacks and events that matter here, `ready`/`open` the operating system's view |
| `SyncLoop` | the calls of `SyncTrioEventLoop` | `where` is what the Trio greenlet does (`idle`: in the loop of `__trio_main`, `main`: in `_main_loop`, `drain`: in the drain of `_run_coroutine`, `exit`: in `_main_loop_exit`, `dead`: ended by an exception), `stopPending` is `_stop_pending`, `fut`/`got` the future and `result` of each `run_until_complete()` |
| `EventLoopProofs`, `OpenLoopExitProofs`, `CrossCallProofs`, `RunAioGeneratorProofs`, `ChildWaiterProofs`, `IoHandlersProofs`, `SyncLoopProofs`, `LoopContextProofs` | theorems | `EventLoopProofs` has those of `SignalHandlers` too, `OpenLoopExitProofs` those of `OpenLoop`, `CrossCallProofs` those of `AsyncHandle` |
| `MCEventLoop`, `MCSignalHandlers`, `MCOpenLoop`, `MCOpenLoopExit`, `MCCrossCall`, `MCChildWaiter`, `MCLoopContext` | constants and symmetries of the runs | `MCCrossCall` also compares, by an assumption that TLC evaluates, the split of exception trees with the sets of kinds that `AsyncHandle` computes with |

Decisions that shape the models:

* Trio is cooperative: an action of a Trio task is everything up to its next
  checkpoint, and other tasks act only in the states `Yielded` of the loop.
  `receive()` takes a handle and then yields, so a handle in hand can still be
  cancelled; `receive_nowait()` in the drain does not yield.
* A handle is submitted once. Trio hands an item to a parked receiver directly,
  which `SendNowait` models.
* In `OpenLoop` the close of `tasks_nursery` is a step of its own after the
  last task has ended; before it the loop may still start a task. User code
  calls the loop from the body, from a Trio task, or from a callback; it does
  not call `close()` there.
* In `OpenLoopExit` an error is raised by a callback of a user or by a Trio
  task; which exceptions leave `open_loop` in the end is left out. The first
  steps of the tasks that finalize generators are callbacks of the loop, like
  any others, and go through its channel. A generator's own `finally` may await
  something once, and may never get it.
* In `SignalHandlers` every statement of `add_signal_handler` and
  `remove_signal_handler` is a step, and the signal may arrive between any two.
  Handlers are added and removed one after the other for one signal number, each
  handle once, and each is posted at most once. A signal that finds no handler
  or no token raises an exception in the main thread, which ends the method that
  is under way; only the first is modelled.
* In `LoopContext` a callback is one step, and it schedules at most one other. The
  main loop may end while the body runs, by `stop()` or by an exception, which
  are one action (`MainLoopEnds`): from then to the drain no callback runs. A
  task sets the event loop only while it has no loop of its own open: with one
  open, the callbacks that the drain runs in that task would be told another
  loop than the one that runs them.
* In `ChildWaiter` a call of `wait_for_child()` up to its first checkpoint, the
  look-up in `_children` and the poll, is one step. The background thread's call
  of `waitpid()`, its return and the storing of the answer are three, and
  between them Trio's thread may poll and the system may use the pid for another
  child, which it may do at any time once the old one is reaped. A `waitpid()`
  is for the child that has the pid when it is called: it fails when another has
  reaped that child, also if the pid is in use again. `_children` is a weak dictionary:
  an object disappears from it once no task and no thread uses it, but one that
  has stored `ChildProcessError` may stay, since the traceback in it refers to
  a frame that refers to it, until the cyclic collector runs (`Lingers`).
* In `IoHandlers` a task that waits in `wait_readable()` leaves its place in
  Trio's table when it is woken or aborted, both at once; a descriptor that is
  closed while a task waits never wakes it, and its number is not reused. The
  loop appears with its channel and its stop only: what else it does is
  `EventLoop`'s matter.
* In `SyncLoop` callbacks are submitted from the caller's greenlet between calls
  (through a switch that runs only the submission), from callbacks, and from
  threads and Trio tasks while the loop sleeps in its main loop. The main
  coroutine of a call waits at most once.
* Operators marked "Mutant of ..." are faulty variants of the definition that
  follows. No specification uses them: they document, for each property, a bug
  it would catch.

## Runs

`CHECK_DEADLOCK FALSE` everywhere: each of these systems comes to rest, a closed
loop or a finished call, and then nothing is enabled. That it does not come to
rest too early is what the liveness properties say.

| run | expected | question and bounds |
|---|---|---|
| `EventLoopStop` | pass | a thread's post, a Trio task, two signal handlers in turn, a `stop(waiter)`, `stop()` and the exit through a channel of two handles, so refusals and a crash of the Trio run occur: `NoHandleLost`, `ParkedMeansIdle`, `StopBarrier`, `ImplementsContract`, `CallsRegistered`, `OriginalRestored`. Work comes before, between and after the stops and during the drain; the two handlers let a signal for the first arrive when the second is registered |
| `EventLoopTimers` | pass | two timers with deadlines 0 or 1, a thread's post, a Trio task, `stop()`, the exit, unbounded channel: `TimerOrder`, `ExitLeavesNothing`, and under fairness `Served`. Two timers suffice for order; two clock values for due and not due |
| `OpenLoop` | pass | one asyncio task, one Trio task, one user callback, one generator beside the sentinel, cancellation from outside, errors and early stops: `NobodyWaitsForSleeper`, `SubmittedRunFirst`, `FinalizersStart`, and under fairness `ExitCompletes`, `CancellationGetsIn`. One of each kind meets one of each other kind at every point of the exit |
| `OpenLoopStopped` | violation | `ShutdownCompletes`, one asyncio task and a `stop()` in the body |
| `OpenLoopFailed` | violation | `TasksFinished`, one asyncio task and a callback that may raise, no early stops |
| `CrossCall` | pass | one call with a future and one Trio task without, all sets of exception kinds: `FutureFollowsTask`, `FutureTellsOutcome`, `CancelStaysLocal`, `ErrorsSurface`, `NothingOutlivesCall`, `RightCancellation`, and under fairness `CancelGetsThrough`; `LoneErrorIsBare` on all trees of two levels of groups of at most two. Calls share only the nursery |
| `ChildWaiter` | pass | a child with one waiter, and two children in turn with one pid and two waiters, one of which waits again; three `ProcessWaiter` objects; `waitpid()` elsewhere; a pid that is used again at any time: `AloneGetsStatus`, `OwnStatus`, `ExitIsNoticed`. Two children in turn give every order of a reuse and the steps of one thread |
| `RunAioGenerator` | pass | one generator that handles `CancelledError`, one whose reads others cancel and which may raise a `SystemExit`, two items each: `NoStrayReschedule`, `EveryItemYielded`, and under fairness `CancelEndsWait`: a cancelled iteration ends and leaves no read behind |
| `IoHandlers` | pass | one descriptor with both directions, two handles, one callback that the handlers schedule: `NeverBusy`, `RegisteredIsWatched`, `ServedBetweenCalls`, and under fairness `ReadyIsServed`. Two handles give every replacement of one by another; descriptors share nothing but the loop |
| `SyncLoop` | pass | three calls, each `run_forever()` or `run_until_complete()`, one user callback beside the main coroutines, `stop()`, `SystemExit`, `close()`: `StopPendingIsQueued`, `SysExitIsNotStop`, `CompletedIsReturned`, and under fairness `CallEnds`. Leavings of a first call can meet those of a second in a third |
| `SyncLoopStale` | violation | `StopsOwnCall` in two calls without other callbacks |
| `LoopContext` | pass | two tasks, two loops that they open nested or overlapping, one callback, one generator, nested `allow_asyncio()` calls, loops stopped in their bodies: `RunsAtHome`, `HooksFollowLoops`, `GeneratorsGoHome`, `ShimCoversCall`. Two loops are the least that can close in the wrong order or lend each other a context |

Fairness. Weak fairness of the loop's steps, of Trio's `run_sync_soon` calls, of
the exit steps and of task starts: Trio runs every runnable task in each pass of
its scheduler, and none of these can be disabled by others for good. Weak
fairness of the return of a callback: one that never returns blocks the whole
Trio thread. The clock advances. A Trio function must end only once it is
cancelled; users need not call anything; a child need not exit; a generator
need not answer unless cancelled. In `IoHandlers` the handlers' tasks and the
loop have strong fairness: they compete with callbacks that run in between, and
Trio runs each runnable task once per pass and polls in every pass. A sync loop
serves its channel while called; nobody need call it. In `OpenLoopExit` the body,
the Trio tasks and the generators need not end unless they are cancelled;
`ExitCompletes` begins where the body is left, and excepts a generator that
awaits for ever.

Each module with state has one type invariant, which is part of its inductive
invariant and proved with it.

### What the violations show

* **`OpenLoopStopped`.** The body calls `stop()`, and the loop stops while the
  body goes on and an asyncio task is unfinished. When the body is left,
  `wait_stopped()` returns at once and `run_aio_future()` is started for the task
  (552-554). The task's wake-up, from this cancellation or, as in TLC's trace,
  already from what it awaited, lies in the channel of a loop that runs no callback
  any more: `run_aio_future()` never returns and `tasks_nursery` never closes. The
  comment above these lines (526-529) expects such a stop, and `test_too_many_stops`,
  which has no such task, asserts that it is no deadlock. A task that calls
  `stop()` itself as it is cancelled has the same effect: it finishes, but the
  callback that would tell `run_aio_future()` stands behind `stop_me`.
* **`OpenLoopFailed`.** A callback raises, so `default_exception_handler` starts a
  task in `tasks_nursery` that raises the error, and the nursery is cancelled.
  The body is left, and in the `finally` that follows, `wait_stopped()`
  (`_loop.py:539`) is inside the cancelled nursery: it raises `Cancelled`, which
  `sync_nursery` passes on, since the scope around it is cancelled too. Lines
  552-555 are not executed: the asyncio tasks are neither cancelled nor waited
  for, where the docstring (433-438) says that the loop waits for them to exit.
* **`SyncLoopStale`.** The function of `run_until_complete()` calls
  `loop.stop()` and completes. `do_stop` ends the main loop with `is_done` still
  in the channel; the drain in `_run_coroutine` runs `is_done`, which calls
  `stop()` again (`_sync.py:150`), and the `do_stop` this queues is left for the
  next `run_forever()` or `run_until_complete()`, which ends at once.

### What else the models tell

A full channel. `stop()` sets `_stop_wait` (`_async.py:73`) before it queues
`stop_me`. If the channel is full the call raises, and every later `stop()`
returns the event of the failed one. `_main_loop_exit`, whose comment calls this
"deadlock-proof", then waits for ever. This needs `queue_len`; `StopIsPending`
proves that it cannot happen without.

Signals. If the signal arrives between two statements of `add_signal_handler` or
`remove_signal_handler`, `_handle_sig` raises `KeyError` there. In `add`, before
the result of `signal.signal()` is stored, that loses the original handler; in
`remove`, before it is restored, `_handle_sig` stays installed; and if the signal
arrives after `pop()` and before `h.cancel()` (`_base.py:533-536`), the method
ends, with `False` if the `KeyError` comes inside its `try`, and the handle is
never cancelled: if an earlier signal has posted it, its callback is called
although it is no longer registered. Between `_token = None` in
`_main_loop_exit` and the removal of the handlers in `close()` `_handle_sig`
raises `AttributeError`. `OriginalRestored` excepts a struck method (`struck`),
`CallsRegistered` the one handle that was popped and not cancelled (`spared`).

Generators. A loop that was stopped in its body finalizes nothing when the body
is left: `open_loop` only warns (`_loop.py:568-570`, `612-617`) and closes it, and
a generator that it still knows and that is collected later is lost, as
`finalizer()` finds the loop closed. `GeneratorsGoHome` excepts the loops in
`stopped` there, and only there. A loop that is stopped while `shutdown_asyncgens_from_aio` runs never
sets `asyncgens_done`, for which `open_loop` waits in a shielded scope
(`StoppedInUse` in `ExitCompletes`). A drain that meets a late Trio task raises
before `uninstall()`, so the hooks stay after the last loop: `HooksFollowLoops`
has `hook = Trio` only if no drain failed.

Whose loop. `run_trio()`, `run_aio_coroutine()` and the adapters take
`current_loop.get()`, the loop of the code's context, which is that of whoever
scheduled the callback. Their docstrings (`_loop.py:654-680`) speak of the loop
that `asyncio.get_event_loop()` returns, which is that of the task. In a callback
scheduled from another loop's context the two differ. A task started inside
`allow_asyncio()` inherits the mark that makes its own calls take themselves for
nested, although its frames are not inside the trampoline; `ShimCoversCall`
excepts these tasks.

Pids. The system may use a pid again as soon as its child is reaped. Twice that
is too early for a `ProcessWaiter`. Between the return of the thread's
`waitpid()` (`_child.py:131`) and the removal of the entry and the storing of the
status (`:140-145`), a `wait_for_child()` for the new child finds the old object
in `_children`, polls, finds the new child alive, waits for the old event, and is
told the old child's status. If the new child exits before that poll, the poll
stores its status and removes the entry, and the thread's `del` then raises
`KeyError`: the thread dies without setting the event, and whoever waited for the
old child waits for ever. The same `del` can remove the entry of a newer
`ProcessWaiter`. And a thread that was started but has not called `waitpid()` yet
waits for whatever child has the pid then. The history variable `overtaken` names
the waiters that a reuse has met in these windows; `OwnStatus` and `ExitIsNoticed`
hold of all others. A `ProcessWaiter` that has stored `ChildProcessError` may stay
in `_children` until the cyclic collector runs, and tells whoever waits for the
next child of that pid that it cannot be found. `OwnStatus` is about statuses.

Exception groups. A group that `collapse_exception_group` rebuilds with `derive()`
has lost Trio's mark: if a later split leaves one exception in it, that exception
stays in the group.

Divergences between documents and code that no run of the project is kept for:
callbacks added during the drain do run, where `docs/source/usage.rst:95-96`
says they are ignored; `_run` gives every exception but `Cancelled` to the
future, where the comment at `_handles.py:205-206` has BaseExceptions propagate;
`abort_cb` of `run_aio_generator` reports success when the read has only been
asked to stop (`_util.py:93-96`), so a generator that handles `CancelledError`
can make it reschedule a task that has gone on; a Trio task accepted as the
last one ends meets a closed nursery, which ends loop and drain with callbacks
left (`open_loop`'s docstring, lines 440-441). When somebody other than the
consumer cancels the task `consume_next()` of `run_aio_generator`, it ends
without `reschedule()` and the consumer waits for ever, even if cancelled, since
`current_read.cancel()` is then `False`; and the same when the generator raises
`SystemExit`, `KeyboardInterrupt` or another exception that is no `Exception`,
which `consume_next()` does not catch (`_util.py:79`). `CancelEndsWait`
is claimed for the other consumers (neither `Exposed` nor `Fatal`). After a wait that was cancelled its thread
reaps the child, and a second `wait_for_child()` of the pid is told
`ChildProcessError`, which the comment at `_child.py:133-134` explains by a
`waitpid()` elsewhere. `autoclose()` marks a descriptor to be "auto-closed along
with this loop", but `_cancel_fds` closes it only if a reader or writer is still
registered. `SyncTrioEventLoop.stop()` says that callbacks queued before it are
processed before stopping; a second `stop()` while one is pending does nothing,
so the callbacks between the two are not covered. The same method sets
`_stop_pending` before `_queue_handle`, so a full bounded channel would leave it
set (`SyncLoop` has the unbounded channel that `new_event_loop()` makes).

## Proofs

Every invariant and every action property that a run checks is also a theorem,
for every value of the constants, with the exception of `LoneErrorIsBare`. For
each module an inductive invariant is proved (`Invariant`, `SignalsInvariant`,
`ExitInvariant`, `CrossInvariant`), one lemma or step per action, and the
properties follow from it.

What is assumed of the constants is named in the module that declares them and
says three things only: constants have their types, and different kinds of
handles, tasks and generators are different objects (`KindsAssumption`,
`HandleAssumption`, `IoAssumption`, `ContextAssumption`, `TasksAssumption`,
`OpenLoopAssumption`, `ExitAssumption`, `FutureAssumption`,
`SignalsAssumption`), bounds are numbers (`BoundsAssumption`, `RunsAssumption`,
`GeneratorAssumption`), and `open_loop()` has the unbounded channel that it
makes (`OpenLoopAssumption`) and finitely many generators (`ExitAssumption`).

`EventLoopProofs`. `NoHandleLost` is not inductive: that a handle in hand is not
disposed of twice needs `HandInv` (what `obj` is at each `pc`), that the drain
and the main loop never overlap needs `PhaseInv`, and the barrier needs
`BarrierInv`: for a queued stop, every handle recorded as accepted before it
that is still accepted stands ahead of it in the channel or is in hand. One
lemma per action shows that it preserves each part; lemmas on `Append` and
`Tail` of sequences without repetitions carry the order. From the invariant
follow `HandlesAreKept`, `NoLostWakeup`, `QuietAfterStop`, `ExitIsClean` (the
drain ends with an empty channel and an empty hand, and the timers are all that
is left) and the action properties `StopIsABarrier` and `CancelIsRespected`.
`TimersInOrder` uses the further invariant `TimerInv` (a popped timer is due and
earliest), and `StopIsPending` uses `StopsNotCancelled` and assumes an unbounded
channel, without which it is false.

`LoopImplementsContract` is the refinement: under the mapping of `EventLoop`
every step is one of `LoopContract` or invisible there. A handle that the loop
has received stays at the head of the abstract queue until it is disposed of
(`HeldFromQueue`), so a hand-off to a parked receiver and a buffered item are
both an append at its tail (`AcceptSeen`), and what is in Trio's entry queue
does not show at all (`PostUnseen`). That the handle in hand is never another
one's equal, and that the drain finishes with nothing in hand, comes from the
invariant.

The last part of the module is about `SignalHandlers`. Its steps are steps of
`EventLoop` except for two: `_handle_sig()` posts without the check of
`call_soon_threadsafe()`, and `remove_signal_handler()` cancels from any point
of `close()`. Both keep the loop's invariant, so everything above holds with
signals too, the contract included (`SignalsImplementContract`), and so do the
promises of `EventLoop` one by one (`PromisesWithSignals`): the cancellation
from `close()` adds no way to run a cancelled handle, and the last step of the
drain is the one of `EventLoop`.
`OnlyRegisteredAreCalled` rests on `PostedInv`, a handle that was posted is
registered or cancelled, or is in the hand of `remove_signal_handler()`, which
cancels it before the loop runs again, unless a signal strikes just then; and on
`RanStep`, the loop runs no cancelled handle.
`SigTypeOK` is not inductive by itself: that `remove_signal_handler()` has an
answer to restore needs `PostedInv` as well. `AnswerIsRestored` follows from
`RestoreInv`, what is true at each statement of the methods.

`OpenLoopExitProofs`. Each step of `open_loop()` is a step of `EventLoop` or
leaves it alone (`StepIsNext`), except `FinStarts`, in which `gather()` submits
several handles at once; that it keeps the loop's invariant (`FinStartsKeeps`)
needs that an order of all generators names none twice, a fact on cardinalities
(`OrderFacts`). `FinalizersStart` needs two orders: the first steps of all
`aclose()` tasks are ahead of the callback that wakes the sentinel (`EventInv`),
and none of them is lost (`CloseInv`), whatever order `gather()` takes.
`SynchronizeIsABarrier` needs that what was submitted before the body was left
stays ahead of the callback that `synchronize()` waits for (`SyncInv`) and that
nobody cancels that callback (`OwnKept`). The lemma `OrderKept` shows that no
step of the loop changes the order of two accepted handles.
That no Trio task or watcher is left when `tasks_nursery` has closed is what Trio
guarantees, an assumption of the model (`TasksNurseryCloses`) and a part of the
invariant (`NurseryEmpty`), not a result.
`PromisesInOpenLoop` repeats the promises of the loop for this module, in which
`FinStarts` adds handles and nothing else.

`NobodyWaitsInVain` is the safety below `ExitCompletes` and
`CancellationGetsIn`: a loop that is parked keeps nobody waiting. Its invariant,
`WaitInv`, says of everyone who waits (a cancelled asyncio task and its watcher,
`synchronize()`, the sentinel, the tasks that run `aclose()`, and
`_main_loop_exit()`) that the callback it waits for is accepted, or is the one
that runs now (`Coming`). It holds as no such callback is cancelled, and the
callback of the loop's own handles does not return before it has done its work
(`CloseReturns`); a parked loop has no accepted handle in its channel, by
`ParkedMeansIdle`. What fairness adds is that a loop that is not parked goes on.

`OpenLoopImplementsContract` is the refinement once more. Where `gather()`
submits the first steps of its tasks, one step of the model accepts several
handles, so the contract here is `ContractInRows`, in which `AcceptInARow` takes
a row of new handles. The contract's clients see no difference: a row is what as
many acceptances leave, one after the other (`RowIsOneByOne`).

`CrossCallProofs`. One invariant relates handle, task and future of an
`AsyncHandle`; `FutureAndTaskAgree`, `OutcomeIsTold`, `CancelIsLocal` and
`NoErrorIsLost` follow. `CrossCallImplementsHandle` proves `CrossSpec => Spec`:
an asyncio coroutine that awaits the future, and is cancelled from either side,
uses the handle as `AsyncHandle` allows, so those results hold of it. `CallInv`
adds where the caller, the coroutine and the Trio task can be together, and who
must have asked for a cancellation that is on its way; `CallsAreStructured` and
`CancellationIsTranslated` follow. `CancellationReaches` is the safety below
`CancelGetsThrough`: where the request has got, it stays until the task takes it
(`ReachedStays`), as neither a resolved future nor a cancelled scope is taken
back.

`RunAioGeneratorProofs`. `EveryItemYielded` holds because a wake-up always finds
its task waiting (`ReadIsAwaited`): an item delivered to a task that has gone on
would be lost. `YieldsTaken` bounds what any generator yields, also one that
handles `CancelledError`. From the invariant follow `TypeCorrect`,
`WakeUpsAreExpected` and `ItemsAreKept`. `CancelledDoNotWait`, the safety below
`CancelEndsWait`, is inductive by itself: `abort_cb` finds the read unfinished
whenever the task waits.

`ChildWaiterProofs`. `AloneInv` says, for a task that waits alone, that nobody
has reaped its child while the answer is neither stored nor on its way, and that
only other code can be the reason for "not found". `ChildInv`, `TaskInv`
and `AskedInv` tie a `ProcessWaiter` that no reuse of its pid has overtaken to
one child: one that has stored a status is not in `_children`, and while its
thread awaits the child, or has reaped it, every task that waits has asked for
that child. `EntryInv` has what the thread relies on when it stores: its waiter
is still the entry of the pid, and nobody has got a status from it. `ThreadInv`
says of every waiter, overtaken or not, that its `waitpid()` is for a child that
has had the pid, and fails only once that child is reaped. `StatusIsNotLost`,
`StatusIsOfTheChild` and `AnswerComes`, the safety below `ExitIsNoticed`, follow.

`IoHandlersProofs`. `Registered` says that a handler that nobody cancelled is
the one the selector has for its place, and that a cancelled one no longer
sleeps in Trio's table; `Synchronized` says that the event of its
`synchronize()` is in the channel once, behind the callbacks of its last call.
`HandlersNeverMeet`, `HandlersAreServed` and `CallsAreSynchronized` follow, and
with `SyncDue` (a task that synchronizes has its event in the channel)
`CallComes`, the safety below `ReadyIsServed`.

`SyncLoopProofs`. The difficulty is what one call leaves to the next.
`CompletionInv` says that the completion of a function is in the channel only
while its call runs, or after that call was ended by an exit; `StopInv` names
the cause of every `do_stop` that is due. `StopIsPendingOnce`, `ExitIsNotAStop`
and `CompletionIsNotLost` follow. `EndInv` says that a `stop()` or an
`is_done()` of the call that runs has left a do_stop in the channel; `EndComes`,
the safety below `CallEnds`, follows.

`LoopContextProofs`. `HookInv` has the count of references: `refcnt[d] =
Cardinality(Users(d))`, from which `HooksAreShared`. `HomeInv` says that a
task's context names the loop it has opened last and that a block which is left
restores the one before; `GenInv` that a generator whose `aclose()` is due has a
handle in its loop, and that one which nobody has finalized belongs to a loop
whose body runs or that was stopped in it (`StoppedStays`: it stays so);
`ShimInv` that the shim was started by the outermost call.
The proof showed a step of the model that the code does not have: a callback
could schedule another from a context that names no loop, where `trio_as_aio()`
raises. Its guard is `IsOpen(l)` with `l` a loop.

`QuietAfterStop` and `CancelIsRespected` state properties that no run is spent
on any more: `CallsRegistered` and `ImplementsContract` ask more. Nor is one
spent on what the other liveness properties rest on, `CancellationIsUnderWay`,
`WaitsForRead`, `AnswerIsDue`, `CallIsDue` and `EndIsDue`: TLC agreed on each with the constants of its component's run before
it was proved, and each is one argument with the liveness property that the run
checks. Such an invariant says that whoever waits has what ends its wait in
store; that it then comes is left to fairness.

Model-checked only: the liveness properties (`Served`, `ExitCompletes`,
`CancellationGetsIn`, `CancelGetsThrough`, `ExitIsNoticed`, `CancelEndsWait`,
`ReadyIsServed`, `CallEnds`), since fairness and ENABLED are outside what the
prover handles; and what the functions of `ExceptionGroups` compute
(`LoneErrorIsBare`, `SplitAgrees`), which would need induction over trees. None
of the modules declares a recursive operator.

## Plan

Done: 1. `EventLoop`, `LoopContract`; 2. `AsyncHandle`; 3. `OpenLoop`;
4. `CrossCall`; 5. `RunAioGenerator`; 6. `ChildWaiter`; 7. `IoHandlers`;
8. `SyncLoop`; 9. proofs of `EventLoop`, `AsyncHandle` and `RunAioGenerator`;
10. `SignalHandlers`; 11. `OpenLoopExit`; 12. `LoopContext`;
13. `ExceptionGroups`; 14. pids used again in `ChildWaiter`; 15. proofs of
`CrossCall`, `IoHandlers`, `SyncLoop`, `ChildWaiter`, `LoopContext`, `OpenLoop`,
`OpenLoopExit` and `SignalHandlers`; 16. the refinements of `LoopContract` and of
`AsyncHandle`; 17. `OpenLoopExit` implements the contract; 18. the safety below
the liveness properties (for `Served` that is `ParkedMeansIdle` and
`NoHandleLost`, proved under 9).

Left undone: liveness itself, and what the functions of `ExceptionGroups`
compute, which are beyond the prover; both are model-checked.

## Not modelled

* The executor: `trio.to_thread.run_sync` with a limiter, and one flag.
* The subprocess transport and its pipes: asyncio's code does the work.
* `TrioChildWatcher`, which nothing in the repository calls, and the Windows
  branches of `ProcessWaiter`.
* Policies of threads without Trio (`_faked_policy`), the clean-up after
  `fork()`, and the replacement of asyncio's functions at import.
* The trampoline of `_allow_asyncio`, a loop of `send` and `throw`, and
  `run_trio_generator`, a loop around `trio_as_future` without state.
* The wrappers that carry `_add_reader` and others into the greenlet of a sync
  loop, Trio tasks in a sync loop, and its signal wake-up descriptor.
* Tracebacks, logging, deprecation helpers.
