------------------------------ MODULE EventLoop ------------------------------
(***************************************************************************)
(* The main loop of a TrioEventLoop (_base.py, _async.py): the memory      *)
(* channel of handles, the timer heap, the one-handle-at-a-time dispatch   *)
(* of _main_loop_one, stop(), and the shutdown in _main_loop_exit.         *)
(*                                                                         *)
(* Trio schedules cooperatively: other Trio tasks act only while the loop  *)
(* task is suspended, and a callback the loop is running may itself call   *)
(* into the loop.  Foreign threads (call_soon_threadsafe) and the clock    *)
(* act at any time.  A handle is submitted at most once.                   *)
(***************************************************************************)
EXTENDS Naturals, Sequences, FiniteSets

CONSTANTS
  Soon,        \* handles of call_soon()
  Threaded,    \* handles of call_soon_threadsafe(), created by other threads
  Timers,      \* TimerHandles of call_later() and call_at()
  Asyncs,      \* AsyncHandles of trio_as_future() and run_trio_task()
  Waiters,     \* stop_me handles of stop(waiter), one per waiter passed in
  ExitStop,    \* the stop_me handle of stop() without a waiter
  QueueLen,    \* capacity of the channel, or Unbounded
  Unbounded,   \* math.inf, the default
  MaxTime,     \* bound of the clock
  NoHandle     \* "obj is None"

Stops == Waiters \cup {ExitStop}
Callbacks == Soon \cup Threaded \cup Timers
Handles == Callbacks \cup Asyncs \cup Stops

ASSUME KindsAssumption ==
  /\ Soon \cap Threaded = {}
  /\ Timers \cap (Soon \cup Threaded) = {}
  /\ Asyncs \cap Callbacks = {}
  /\ Stops \cap (Callbacks \cup Asyncs) = {}
  /\ ExitStop \notin Waiters
  /\ NoHandle \notin Handles

ASSUME BoundsAssumption ==
  /\ MaxTime \in Nat
  /\ Unbounded \notin Nat
  /\ QueueLen \in Nat \cup {Unbounded}

VARIABLES
  queue,       \* buffered handles of the memory channel _q_send/_q_recv
  entry,       \* run_sync_soon() calls Trio has yet to make, oldest first
  timers,      \* the heap _timers; its order is that of "when"
  when,        \* deadline of each TimerHandle
  now,         \* the Trio clock
  pc,          \* where _main_loop_one is
  obj,         \* the handle it has in hand
  fate,        \* what has become of each handle
  cancelled,   \* handles whose cancel() was called
  stopped,     \* _stopped.is_set()
  stopWait,    \* _stop_wait is not None
  waiters,     \* stop() calls whose waiter is set
  nursery,     \* state of the nursery that trio tasks are started in
  exit,        \* progress of _main_loop_exit()
  closed,      \* _closed
  token,       \* _token is not None
  before       \* history: the handles accepted ahead of each accepted stop

chan == <<queue, pc, obj>>
clock == <<timers, when, now>>
halt == <<stopped, stopWait, waiters, before>>
life == <<nursery, exit, closed, token>>
vars == <<queue, entry, timers, when, now, pc, obj, fate, cancelled, stopped,
          stopWait, waiters, nursery, exit, closed, token, before>>

PCs == {"top", "parked", "received", "taken", "due", "calling", "starting",
        "ended", "crashed"}
Fates == {"new", "checked", "posted", "accepted", "refused", "ran", "skipped",
          "lost"}
Exits == {"no", "wait", "drain", "finished", "failed", "skipped"}

TypeOK ==
  /\ queue \in Seq(Handles)
  /\ entry \in Seq(Threaded)
  /\ timers \in SUBSET Timers
  /\ when \in [Timers -> 0 .. MaxTime]
  /\ now \in 0 .. MaxTime
  /\ pc \in PCs
  /\ obj \in Handles \cup {NoHandle}
  /\ fate \in [Handles -> Fates]
  /\ cancelled \in SUBSET Handles
  /\ stopped \in BOOLEAN
  /\ stopWait \in BOOLEAN
  /\ waiters \in SUBSET Stops
  /\ nursery \in {"open", "closed", "none"}
  /\ exit \in Exits
  /\ closed \in BOOLEAN
  /\ token \in BOOLEAN
  /\ before \in [Stops -> SUBSET Handles]

-----------------------------------------------------------------------------
(* Init: open_loop() has entered _main_loop() and is about to yield.        *)

Init ==
  /\ queue = <<>> /\ entry = <<>>
  /\ timers = {} /\ when = [t \in Timers |-> 0] /\ now = 0
  /\ pc = "top" /\ obj = NoHandle
  /\ fate = [h \in Handles |-> "new"]
  /\ cancelled = {}
  /\ stopped = FALSE /\ stopWait = FALSE /\ waiters = {}
  /\ nursery = "open" /\ exit = "no" /\ closed = FALSE /\ token = TRUE
  /\ before = [s \in Stops |-> {}]

\* The loop task is suspended (or gone): other Trio tasks run.
Yielded == pc \in {"parked", "received", "starting", "ended"}

\* Trio-side user code runs: another task, or the callback being called.
UserRuns == Yielded \/ pc = "calling"

Draining == exit = "drain"

(* trio's MemorySendChannel.send_nowait: a parked receiver is handed the    *)
(* item, otherwise it is buffered if there is room.                         *)
HasRoom == QueueLen # Unbounded => Len(queue) < QueueLen

SendNowait(h) ==
  \/ /\ pc = "parked"
     /\ pc' = "received" /\ obj' = h
     /\ UNCHANGED queue
  \/ /\ pc # "parked" /\ HasRoom
     /\ queue' = Append(queue, h)
     /\ UNCHANGED <<pc, obj>>

WouldBlock == pc # "parked" /\ ~HasRoom

Becomes(h, f) == fate' = [fate EXCEPT ![h] = f]

-----------------------------------------------------------------------------
(* Calls into the loop from the Trio thread.                                *)

\* TrioEventLoop._queue_handle; on a closed loop the call raises and changes
\* nothing, on a full channel the caller gets WouldBlock.
QueueHandle(h) ==
  /\ ~closed /\ fate[h] = "new"
  /\ \/ SendNowait(h) /\ Becomes(h, "accepted")
     \/ WouldBlock /\ Becomes(h, "refused") /\ UNCHANGED chan

CallSoon(h) ==
  /\ UserRuns
  /\ QueueHandle(h)
  /\ UNCHANGED <<entry, cancelled, clock, halt, life>>

TrioAsFuture(h) ==
  /\ UserRuns
  /\ QueueHandle(h)
  /\ UNCHANGED <<entry, cancelled, clock, halt, life>>

CallAt(t, deadline) ==
  /\ UserRuns
  /\ QueueHandle(t)
  /\ when' = [when EXCEPT ![t] = deadline]
  /\ UNCHANGED <<entry, cancelled, timers, now, halt, life>>

CallLater(t, delay) ==
  /\ now + delay <= MaxTime
  /\ CallAt(t, now + delay)

\* Handle.cancel() on a handle the loop has not disposed of.  A cancelled
\* timer stays in the heap; call_soon_threadsafe() returns no handle.
Cancel(h) ==
  /\ UserRuns
  /\ fate[h] = "accepted"
  /\ cancelled' = cancelled \cup {h}
  /\ UNCHANGED <<entry, fate, chan, clock, halt, life>>

\* Mutant of Halt: stop_me goes to the head of the channel.
HaltAtOnce(s) ==
  \/ /\ stopped
     /\ waiters' = waiters \cup {s}
     /\ UNCHANGED <<chan, fate, before>>
  \/ /\ ~stopped /\ ~closed /\ fate[s] = "new"
     /\ pc # "parked" /\ HasRoom
     /\ queue' = <<s>> \o queue
     /\ Becomes(s, "accepted")
     /\ before' = [before EXCEPT ![s] = {h \in Handles \ Timers : fate[h] = "accepted"}]
     /\ UNCHANGED <<pc, obj, waiters>>

\* The tail of stop(): set the waiter of a stopped loop, else queue stop_me.
Halt(s) ==
  \/ /\ stopped
     /\ waiters' = waiters \cup {s}
     /\ UNCHANGED <<chan, fate, before>>
  \/ /\ ~stopped
     /\ QueueHandle(s)
     /\ before' = [before EXCEPT ![s] =
                     IF fate'[s] = "accepted"
                       THEN {h \in Handles \ Timers : fate[h] = "accepted"}
                       ELSE {}]
     /\ UNCHANGED waiters

StopNoWaiter ==
  \/ /\ stopWait
     /\ UNCHANGED <<chan, fate, before, waiters, stopWait>>
  \/ /\ ~stopWait
     /\ stopWait' = TRUE
     /\ Halt(ExitStop)

Stop ==
  /\ UserRuns
  /\ ~stopWait /\ StopNoWaiter
  /\ UNCHANGED <<entry, cancelled, stopped, clock, life>>

StopWith(w) ==
  /\ UserRuns
  /\ Halt(w)
  /\ UNCHANGED <<entry, cancelled, stopped, stopWait, clock, life>>

\* close() called by the user; it raises while the loop runs.
Close ==
  /\ UserRuns
  /\ stopped /\ ~closed
  /\ closed' = TRUE
  /\ UNCHANGED <<entry, cancelled, fate, chan, clock, halt, nursery, exit, token>>

-----------------------------------------------------------------------------
(* call_soon_threadsafe: the check and the post are two steps of a foreign  *)
(* thread; Trio makes the posted call between two task steps.               *)

ThreadCheck(h) ==
  /\ ~closed /\ fate[h] = "new"
  /\ Becomes(h, "checked")
  /\ UNCHANGED <<entry, cancelled, chan, clock, halt, life>>

\* Without a token the call fails with AttributeError.
ThreadPost(h) ==
  /\ fate[h] = "checked"
  /\ \/ /\ token
        /\ entry' = Append(entry, h)
        /\ Becomes(h, "posted")
     \/ /\ ~token
        /\ Becomes(h, "refused")
        /\ UNCHANGED entry
  /\ UNCHANGED <<cancelled, chan, clock, halt, life>>

\* A send_nowait() that raises here takes the whole Trio run down.
EntryRun ==
  /\ Yielded /\ entry # <<>>
  /\ entry' = Tail(entry)
  /\ \/ SendNowait(Head(entry)) /\ Becomes(Head(entry), "accepted")
     \/ /\ WouldBlock
        /\ pc' = "crashed"
        /\ Becomes(Head(entry), "refused")
        /\ UNCHANGED <<queue, obj>>
  /\ UNCHANGED <<cancelled, clock, halt, life>>

Tick ==
  /\ now < MaxTime
  /\ now' = now + 1
  /\ UNCHANGED <<queue, entry, timers, when, pc, obj, fate, cancelled, halt, life>>

-----------------------------------------------------------------------------
(* _main_loop_one, run by _main_loop until stopped and by _main_loop_exit   *)
(* with no_wait=True while draining.                                        *)

\* Mutant of Due: rounds the deadline down.
DueEarly(t) == when[t] <= now + 1

Due(t) == when[t] <= now

PopTimer ==
  /\ pc = "top"
  /\ \E t \in timers :
       /\ Due(t)
       /\ \A u \in timers : when[t] <= when[u]
       /\ obj' = t
       /\ timers' = timers \ {t}
  /\ pc' = "due"
  /\ UNCHANGED <<queue, entry, when, now, fate, cancelled, halt, life>>

NoneDue == \A t \in timers : ~Due(t)

\* Mutant of Receive: peeks.
ReceivePeeks ==
  /\ pc = "top" /\ NoneDue /\ queue # <<>>
  /\ obj' = Head(queue)
  /\ pc' = IF Draining THEN "taken" ELSE "received"
  /\ UNCHANGED <<queue, entry, fate, cancelled, clock, halt, life>>

\* receive() takes the item first and then yields; receive_nowait() does not.
Receive ==
  /\ pc = "top" /\ NoneDue /\ queue # <<>>
  /\ obj' = Head(queue)
  /\ queue' = Tail(queue)
  /\ pc' = IF Draining THEN "taken" ELSE "received"
  /\ UNCHANGED <<entry, fate, cancelled, clock, halt, life>>

\* Mutant of Park: does not look into the channel.
ParkBlindly ==
  /\ pc = "top" /\ NoneDue /\ ~Draining
  /\ pc' = "parked"
  /\ UNCHANGED <<queue, obj, entry, fate, cancelled, clock, halt, life>>

Park ==
  /\ pc = "top" /\ NoneDue /\ queue = <<>> /\ ~Draining
  /\ pc' = "parked"
  /\ UNCHANGED <<queue, obj, entry, fate, cancelled, clock, halt, life>>

\* Mutant of TimeoutReached: the timeout is looked at when a handle arrives.
TimeoutForgotten ==
  /\ pc = "parked" /\ ~NoneDue /\ queue # <<>>
  /\ pc' = "top"
  /\ UNCHANGED <<queue, obj, entry, fate, cancelled, clock, halt, life>>

\* move_on_after(timeout) cancels the receive().
TimeoutReached ==
  /\ pc = "parked" /\ ~NoneDue
  /\ pc' = "top"
  /\ UNCHANGED <<queue, obj, entry, fate, cancelled, clock, halt, life>>

Arm ==
  /\ pc \in {"received", "taken"} /\ obj \in Timers
  /\ timers' = timers \cup {obj}
  /\ obj' = NoHandle /\ pc' = "top"
  /\ UNCHANGED <<queue, entry, when, now, fate, cancelled, halt, life>>

\* obj is a handle to run now: popped from the heap, or not a timer.
InHand == pc = "due" \/ (pc \in {"received", "taken"} /\ obj \notin Timers)

NextRound == pc' = "top" /\ obj' = NoHandle

\* An exception leaves _main_loop_one: the main loop is over, or the drain,
\* and then open_loop() closes the loop.
Unwind ==
  /\ pc' = "ended" /\ obj' = NoHandle
  /\ stopped' = TRUE
  /\ exit' = IF Draining THEN "failed" ELSE exit
  /\ closed' = (closed \/ Draining)

SkipCancelled ==
  /\ InHand /\ obj \notin Asyncs /\ obj \in cancelled
  /\ Becomes(obj, "skipped")
  /\ NextRound
  /\ UNCHANGED <<queue, entry, cancelled, clock, halt, life>>

CallbackStart ==
  /\ InHand /\ obj \in Callbacks \ cancelled
  /\ Becomes(obj, "ran")
  /\ pc' = "calling"
  /\ UNCHANGED <<queue, obj, entry, cancelled, clock, halt, life>>

\* The callback returns, or raises what Handle._run() reports and swallows.
CallbackReturn ==
  /\ pc = "calling"
  /\ NextRound
  /\ UNCHANGED <<queue, entry, fate, cancelled, clock, halt, life>>

\* The callback raises SystemExit or KeyboardInterrupt.
CallbackExits ==
  /\ pc = "calling"
  /\ Unwind
  /\ UNCHANGED <<queue, entry, fate, cancelled, clock, stopWait, waiters, before,
                 nursery, token>>

\* stop_me(): set the waiter and raise TrioAsyncioExit, which ends the main
\* loop and is ignored by the drain.
StopMe ==
  /\ InHand /\ obj \in Stops \ cancelled
  /\ Becomes(obj, "ran")
  /\ waiters' = waiters \cup {obj}
  /\ \/ Draining /\ NextRound /\ UNCHANGED <<stopped, exit, closed>>
     \/ ~Draining /\ Unwind
  /\ UNCHANGED <<queue, entry, cancelled, clock, stopWait, before, nursery, token>>

\* nursery.start_soon(obj._run), then wait for obj._started.
TaskSpawn ==
  /\ InHand /\ obj \in Asyncs /\ nursery = "open"
  /\ pc' = "starting"
  /\ UNCHANGED <<queue, obj, entry, fate, cancelled, clock, halt, life>>

\* start_soon() on a nursery that has closed raises RuntimeError.
TaskSpawnFails ==
  /\ InHand /\ obj \in Asyncs /\ nursery # "open"
  /\ Becomes(obj, "lost")
  /\ Unwind
  /\ UNCHANGED <<queue, entry, cancelled, clock, stopWait, waiters, before, nursery,
                 token>>

\* The first step of AsyncHandle._run.
TaskRuns ==
  /\ pc = "starting" /\ fate[obj] = "accepted"
  /\ Becomes(obj, IF obj \in cancelled THEN "skipped" ELSE "ran")
  /\ UNCHANGED <<entry, cancelled, chan, clock, halt, life>>

TaskStarted ==
  /\ pc = "starting" /\ fate[obj] # "accepted"
  /\ NextRound
  /\ UNCHANGED <<queue, entry, fate, cancelled, clock, halt, life>>

-----------------------------------------------------------------------------
(* Leaving open_loop(): the nursery of Trio tasks closes when its last task *)
(* has exited, then _main_loop_exit() stops, waits, drains and cleans up.   *)

NurseryCloses ==
  /\ Yielded /\ pc # "starting"
  /\ nursery = "open"
  /\ nursery' = "closed"
  /\ UNCHANGED <<entry, fate, cancelled, chan, clock, halt, exit, closed, token>>

ExitBegin ==
  /\ Yielded /\ nursery = "closed" /\ exit = "no" /\ ~closed
  /\ StopNoWaiter
  /\ exit' = IF fate'[ExitStop] = "refused" /\ ~stopWait THEN "failed" ELSE "wait"
  /\ UNCHANGED <<entry, cancelled, stopped, clock, nursery, closed, token>>

\* "if self._closed: return": nothing is drained or cleaned up.
ExitSkipped ==
  /\ Yielded /\ nursery = "closed" /\ exit = "no" /\ closed
  /\ exit' = "skipped"
  /\ UNCHANGED <<entry, fate, cancelled, chan, clock, halt, nursery, closed, token>>

\* wait_stopped() returns.
DrainBegin ==
  /\ Yielded /\ exit = "wait" /\ stopped
  /\ exit' = "drain" /\ pc' = "top"
  /\ UNCHANGED <<queue, obj, entry, fate, cancelled, clock, halt, nursery, closed,
                 token>>

\* Mutant of ExitFinish: _cancel_timers() is not called.
ExitKeepsTimers ==
  /\ pc = "top" /\ Draining /\ NoneDue /\ queue = <<>>
  /\ exit' = "finished" /\ pc' = "ended"
  /\ nursery' = "none" /\ token' = FALSE /\ closed' = TRUE
  /\ UNCHANGED <<queue, obj, entry, timers, when, now, fate, cancelled, halt>>

\* receive_nowait() raises WouldBlock: cancel the timers, clear the fields;
\* open_loop() closes the loop before anything else runs.
ExitFinish ==
  /\ pc = "top" /\ Draining /\ NoneDue /\ queue = <<>>
  /\ exit' = "finished" /\ pc' = "ended"
  /\ cancelled' = cancelled \cup timers
  /\ fate' = [h \in Handles |-> IF h \in timers THEN "skipped" ELSE fate[h]]
  /\ timers' = {}
  /\ nursery' = "none" /\ token' = FALSE /\ closed' = TRUE
  /\ UNCHANGED <<queue, obj, entry, when, now, halt>>

-----------------------------------------------------------------------------
Calls ==
  \/ \E h \in Soon : CallSoon(h)
  \/ \E h \in Asyncs : TrioAsFuture(h)
  \/ \E t \in Timers, d \in 0 .. MaxTime : CallAt(t, d) \/ CallLater(t, d)
  \/ \E h \in Soon \cup Timers \cup Asyncs : Cancel(h)
  \/ \E w \in Waiters : StopWith(w)
  \/ Stop
  \/ Close

ThreadSteps == \E h \in Threaded : ThreadCheck(h) \/ ThreadPost(h)

LoopSteps ==
  \/ PopTimer \/ Receive \/ Park \/ TimeoutReached \/ Arm
  \/ SkipCancelled \/ CallbackStart \/ StopMe
  \/ TaskSpawn \/ TaskSpawnFails \/ TaskStarted

ExitSteps == ExitBegin \/ ExitSkipped \/ DrainBegin \/ ExitFinish

Next ==
  \/ Calls \/ ThreadSteps \/ EntryRun \/ Tick
  \/ LoopSteps \/ CallbackReturn \/ CallbackExits \/ TaskRuns
  \/ NurseryCloses \/ ExitSteps

Spec == Init /\ [][Next]_vars

(* Trio runs every runnable task and every run_sync_soon() call, the clock  *)
(* advances, and callbacks return (a callback that never does blocks the    *)
(* whole Trio thread).  Users need not call anything.                       *)
Fairness ==
  /\ WF_vars(LoopSteps) /\ WF_vars(CallbackReturn \/ CallbackExits) /\ WF_vars(TaskRuns)
  /\ WF_vars(EntryRun) /\ WF_vars(Tick)
  /\ WF_vars(DrainBegin) /\ WF_vars(ExitFinish)

FairSpec == Spec /\ Fairness

-----------------------------------------------------------------------------
(* Properties.                                                              *)

SeqSet(s) == {s[i] : i \in DOMAIN s}

Distinct(s) == \A i, j \in DOMAIN s : s[i] = s[j] => i = j

\* Trio's entry queue holds the posts of threads, each once.
EntryInv ==
  /\ Distinct(entry)
  /\ SeqSet(entry) = {h \in Handles : fate[h] = "posted"}

\* Channel, heap and hand share out the accepted handles.
OnePlace ==
  /\ Distinct(queue)
  /\ SeqSet(queue) \cap timers = {}
  /\ obj \notin SeqSet(queue) \cup timers
  /\ \A h \in SeqSet(queue) \cup timers : fate[h] = "accepted"
  /\ \A h \in Handles :
       fate[h] = "accepted" => h \in SeqSet(queue) \cup timers \cup {obj}

(* A handle that call_soon(), call_at(), stop() or trio_as_future() took is *)
(* in exactly one place until it is disposed of: the channel, the heap, or  *)
(* the hand of the loop; a thread's post is in Trio's entry queue.  Nothing *)
(* already run or skipped can come up again.                                *)
NoHandleLost == EntryInv /\ OnePlace

(* No lost wake-up: the loop never sleeps in receive() with a callback      *)
(* waiting in the channel.                                                  *)
ParkedMeansIdle == pc = "parked" => queue = <<>> /\ obj = NoHandle

(* _base.py, _main_loop: "everything you schedule before stop() will run    *)
(* before the loop stops", whoever else queues handles, stops, or cancels   *)
(* in between: when stop_me runs, every callback and task accepted before   *)
(* its stop() has been run or skipped.                                      *)
StopBarrier ==
  [][\A s \in Stops :
       fate[s] = "accepted" /\ fate'[s] = "ran" =>
         \A h \in before[s] : fate[h] # "accepted"]_vars

(* A handle cancelled before its turn is never called, even when the loop   *)
(* had already taken it out of the channel or the heap.                     *)
CancelledNeverRuns ==
  [][\A h \in cancelled : fate'[h] = "ran" => fate[h] = "ran"]_vars

(* A timer never fires early, and never ahead of an armed timer with an     *)
(* earlier deadline.                                                        *)
TimerOrder ==
  [][\A t \in Timers :
       fate[t] = "accepted" /\ fate'[t] = "ran" =>
         /\ when[t] <= now
         /\ \A u \in timers : when[t] <= when[u]]_vars

(* stop() without a waiter only ever hands out an event that will be set: a *)
(* loop that remembers a stop request has stopped or has stop_me in store.  *)
(* "this should be deadlock-proof", _base.py, _main_loop_exit.              *)
StopPending == stopWait /\ ~stopped => fate[ExitStop] = "accepted"

(* Once the loop has stopped, no callback runs until the drain, and none    *)
(* after it: a parked or half-received handle is not acted upon.            *)
StoppedMeansQuiet == stopped /\ ~Draining => pc \in {"ended", "crashed"} /\ obj = NoHandle

(* _main_loop_exit() leaves nothing behind that the loop had accepted.      *)
ExitLeavesNothing ==
  [][exit # "finished" /\ exit' = "finished" =>
       /\ timers' = {}
       /\ \A h \in Handles : fate'[h] # "accepted"]_vars

(* Every accepted handle is disposed of while the loop runs, timers and     *)
(* posts of foreign threads included: due timers, cancellations and         *)
(* hand-offs starve none.                                                   *)
Served ==
  \A h \in Handles :
    fate[h] \in {"posted", "accepted"} ~> fate[h] \in {"ran", "skipped"} \/ stopped

-----------------------------------------------------------------------------
(* The inductive strengthening of the safety properties.                    *)

\* What the loop has in hand at each point of _main_loop_one.
HandInv ==
  /\ pc \in {"top", "parked", "ended"} => obj = NoHandle
  /\ pc \in {"received", "taken"} => obj \in Handles /\ fate[obj] = "accepted"
  /\ pc = "due" => obj \in Timers /\ fate[obj] = "accepted"
  /\ pc = "calling" => obj \in Callbacks /\ fate[obj] = "ran"
  /\ pc = "starting" => obj \in Asyncs /\ fate[obj] \in {"accepted", "ran", "skipped"}
  /\ pc = "crashed" /\ obj # NoHandle => fate[obj] \in {"accepted", "ran", "skipped"}

\* Which task may be in _main_loop_one: _main_loop, the drain, or neither.
PhaseInv ==
  /\ pc = "ended" => stopped /\ ~Draining
  /\ pc \in {"parked", "received"} => ~stopped
  /\ Draining => stopped
  /\ exit = "finished" => stopped

\* h is served before the accepted stop handle s.
ServedBefore(h, s) ==
  \/ h = obj /\ s \in SeqSet(queue)
  \/ \E i, j \in DOMAIN queue : i < j /\ queue[i] = h /\ queue[j] = s

BarrierInv ==
  \A s \in Stops : fate[s] = "accepted" =>
    \A h \in before[s] :
      /\ h \notin Timers
      /\ fate[h] \in {"accepted", "ran", "skipped", "lost"}
      /\ fate[h] = "accepted" => ServedBefore(h, s)

\* A timer popped from the heap is due and has the earliest deadline; only
\* user code changes the heap or a deadline, and none runs meanwhile.
TimerInv == pc = "due" => Due(obj) /\ \A u \in timers : when[obj] <= when[u]

\* stop() hands out no handle that could be cancelled.
StopsNotCancelled == cancelled \cap Stops = {}

IInv ==
  /\ NoHandleLost /\ ParkedMeansIdle /\ StoppedMeansQuiet
  /\ HandInv /\ PhaseInv /\ BarrierInv

-----------------------------------------------------------------------------
(* Refinement of LoopContract.                                              *)

\* A handle received from the channel is still "todo" until it is disposed
\* of; a timer popped from the heap is still armed until it fires.
HeldFromQueue ==
  IF pc \in {"received", "taken", "starting", "crashed"} /\ obj # NoHandle
    THEN IF fate[obj] = "accepted" THEN <<obj>> ELSE <<>>
    ELSE <<>>

ArmedTimers == timers \cup (IF pc = "due" THEN {obj} ELSE {})

PublicStatus ==
  [h \in Handles |-> IF fate[h] \in {"checked", "posted"} THEN "new" ELSE fate[h]]

LC == INSTANCE LoopContract WITH
        Handle <- Handles, TimerHandle <- Timers, TaskHandle <- Asyncs,
        todo <- HeldFromQueue \o queue, armed <- ArmedTimers,
        dropped <- cancelled, status <- PublicStatus

(* The loop services handles first come first served, each at most once,    *)
(* never a cancelled one; hand-offs to a parked receiver, suspension with a *)
(* handle in hand, threads and shutdown do not show.                        *)
ImplementsContract == LC!Contract
=============================================================================
