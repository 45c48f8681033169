------------------------------ MODULE SyncLoop ------------------------------
(***************************************************************************)
(* The sync loop (src/trio_asyncio/_sync.py): calls of run_until_complete() *)
(* and run_forever() that follow each other on one channel.  Trio runs in a *)
(* greenlet that user code switches to; between the calls the loop sleeps   *)
(* and what one call left in the channel is found by the next.              *)
(***************************************************************************)
EXTENDS Naturals, Sequences

CONSTANTS
  Callback,    \* user callbacks, each submitted once
  MaxRuns,     \* bound on the number of calls
  DoStop,      \* the handle of do_stop()
  NoHandle

ASSUME RunsAssumption == MaxRuns \in Nat

Run == 1 .. MaxRuns

Step(r) == <<"step", r>>        \* the main coroutine of call r
IsDone(r) == <<"is_done", r>>   \* is_done() of call r

Steps == {Step(r) : r \in Run}
User == Callback \cup Steps
Handle == User \cup {IsDone(r) : r \in Run} \cup {DoStop}

ASSUME HandleAssumption ==
  /\ NoHandle \notin Handle /\ DoStop \notin User
  /\ \A r \in Run : DoStop # IsDone(r)
  /\ \A r \in Run : Callback \cap {Step(r), IsDone(r)} = {}

VARIABLES
  queue,       \* the memory channel; unbounded, as new_event_loop() makes it
  where,       \* what the Trio greenlet is doing
  cur,         \* the user handle whose callback is running
  run,         \* number of the present or latest call
  form,        \* form[r]: which call r is
  fut,         \* the future of run_until_complete()
  waits,       \* main coroutines that wait for something
  waited,      \* those that have waited; each does so once, a bound of the model
  got,         \* calls whose is_done() has set "result"
  stopPending, \* _stop_pending
  outcome,     \* how each call ended
  fresh,       \* callbacks not submitted yet
  asked        \* history: calls during which user code called stop()

vars == <<queue, where, cur, run, form, fut, waits, waited, got, stopPending,
          outcome, fresh, asked>>
calls == <<run, form, waited>>

SeqSet(s) == {s[i] : i \in DOMAIN s}

TypeOK ==
  /\ queue \in Seq(Handle)
  /\ where \in {"idle", "main", "drain", "exit", "closed", "dead"}
  /\ cur \in User \cup {NoHandle}
  /\ cur # NoHandle => where \in {"main", "drain", "exit"}
  /\ run \in 0 .. MaxRuns
  /\ form \in [Run -> {"none", "forever", "until"}]
  /\ fut \in [Run -> {"none", "pending", "result", "exit"}]
  /\ \A r \in Run : fut[r] = "none" <=> form[r] # "until"
  /\ waits \subseteq waited /\ waited \subseteq Run
  /\ got \subseteq Run
  /\ stopPending \in BOOLEAN
  /\ outcome \in [Run -> {"none", "returned", "unfinished", "exit"}]
  /\ fresh \subseteq Callback
  /\ asked \subseteq Run

Init ==
  /\ queue = <<>> /\ where = "idle" /\ cur = NoHandle
  /\ run = 0 /\ form = [r \in Run |-> "none"]
  /\ fut = [r \in Run |-> "none"] /\ waits = {} /\ waited = {} /\ got = {}
  /\ stopPending = FALSE
  /\ outcome = [r \in Run |-> "none"]
  /\ fresh = Callback /\ asked = {}

LoopRunning == where \in {"main", "drain"}     \* _loop_running
AtRest == cur = NoHandle

\* add_done_callback(is_done) is in force during the call only.
Watched(r) == LoopRunning /\ r = run

-----------------------------------------------------------------------------
(* Calls of user code, from the caller's greenlet or from a callback.       *)

\* Mutant of RequestStop: does not look at _stop_pending.
RequestStopAgain(chan) ==
  \/ /\ LoopRunning
     /\ queue' = Append(chan, DoStop) /\ stopPending' = TRUE
  \/ /\ ~LoopRunning
     /\ queue' = chan /\ UNCHANGED stopPending

\* SyncTrioEventLoop.stop() called with the channel holding "chan".
RequestStop(chan) ==
  \/ /\ LoopRunning /\ ~stopPending
     /\ queue' = Append(chan, DoStop) /\ stopPending' = TRUE
  \/ /\ ~LoopRunning \/ stopPending
     /\ queue' = chan /\ UNCHANGED stopPending

Stop ==
  /\ ~AtRest
  /\ RequestStop(queue)
  /\ asked' = IF LoopRunning THEN asked \cup {run} ELSE asked
  /\ UNCHANGED <<where, cur, calls, fut, waits, got, outcome, fresh>>

\* From a callback, from the sleeping loop's caller through the greenlet, and
\* in the main loop from threads and Trio tasks.
CallSoon(c) ==
  /\ c \in fresh
  /\ ~AtRest \/ where \in {"idle", "main", "dead"}
  /\ fresh' = fresh \ {c}
  /\ queue' = Append(queue, c)
  /\ UNCHANGED <<where, cur, calls, fut, waits, got, stopPending, outcome, asked>>

\* What a main coroutine waits for comes about, now or after its call ended.
Awaken(r) ==
  /\ r \in waits
  /\ ~AtRest \/ where \in {"idle", "main"}
  /\ waits' = waits \ {r}
  /\ queue' = Append(queue, Step(r))
  /\ UNCHANGED <<where, cur, calls, fut, got, stopPending, outcome, fresh, asked>>

-----------------------------------------------------------------------------
(* The calls that run the loop; __run_in_greenlet() refuses nested ones.    *)

Enter(f) ==
  /\ where = "idle" /\ run < MaxRuns
  /\ where' = "main"
  /\ run' = run + 1
  /\ form' = [form EXCEPT ![run + 1] = f]
  /\ UNCHANGED <<cur, waits, waited, got, stopPending, outcome, fresh, asked>>

RunForever ==
  /\ Enter("forever")
  /\ UNCHANGED <<queue, fut>>

\* The argument is a coroutine, or a future that is already done.
RunUntilComplete ==
  /\ Enter("until")
  /\ \/ /\ fut' = [fut EXCEPT ![run + 1] = "pending"]
        /\ queue' = Append(queue, Step(run + 1))
     \/ /\ fut' = [fut EXCEPT ![run + 1] = "result"]
        /\ queue' = Append(queue, IsDone(run + 1))

\* The call returns to its caller, or raises.
Leave(o) ==
  /\ outcome' = [outcome EXCEPT ![run] = o]
  /\ where' = "idle"

-----------------------------------------------------------------------------
(* Serving the channel: _main_loop_one() in the main loop, in the drain of  *)
(* _run_coroutine() and in that of _main_loop_exit().                       *)

Serving ==
  /\ AtRest /\ queue # <<>>
  /\ \/ where \in {"main", "exit"}
     \/ where = "drain" /\ run \notin got

CallbackRuns ==
  /\ Serving /\ Head(queue) \in User
  /\ queue' = Tail(queue)
  /\ cur' = Head(queue)
  /\ UNCHANGED <<where, calls, fut, waits, got, stopPending, outcome, fresh, asked>>

\* Mutant of DoStopRuns: _stop_pending is not reset.
DoStopForgets ==
  /\ Serving /\ Head(queue) = DoStop
  /\ queue' = Tail(queue)
  /\ \/ where = "main" /\ form[run] = "forever" /\ Leave("returned")
     \/ where = "main" /\ form[run] = "until" /\ where' = "drain" /\ UNCHANGED outcome
     \/ where # "main" /\ UNCHANGED <<where, outcome>>
  /\ UNCHANGED <<cur, calls, fut, waits, got, stopPending, fresh, asked>>

\* do_stop() raises TrioAsyncioExit, which ends the main loop and is ignored
\* by the drains.
DoStopRuns ==
  /\ Serving /\ Head(queue) = DoStop
  /\ queue' = Tail(queue)
  /\ stopPending' = FALSE
  /\ \/ where = "main" /\ form[run] = "forever" /\ Leave("returned")
     \/ where = "main" /\ form[run] = "until" /\ where' = "drain" /\ UNCHANGED outcome
     \/ where # "main" /\ UNCHANGED <<where, outcome>>
  /\ UNCHANGED <<cur, calls, fut, waits, got, fresh, asked>>

\* Mutant of IsDoneRuns: stops the loop whatever the result.
IsDoneStops(r) ==
  /\ Serving /\ Head(queue) = IsDone(r)
  /\ got' = got \cup {r}
  /\ RequestStop(Tail(queue))
  /\ UNCHANGED <<where, cur, calls, fut, waits, outcome, fresh, asked>>

\* is_done(), possibly of an earlier call: it sets that call's result and,
\* unless this is a SystemExit, stops the loop.
IsDoneRuns(r) ==
  /\ Serving /\ Head(queue) = IsDone(r)
  /\ got' = got \cup {r}
  /\ \/ fut[r] = "exit" /\ queue' = Tail(queue) /\ UNCHANGED stopPending
     \/ fut[r] # "exit" /\ RequestStop(Tail(queue))
  /\ UNCHANGED <<where, cur, calls, fut, waits, outcome, fresh, asked>>

\* A callback returns; the main coroutine waits or comes to its end.
CallbackReturns ==
  /\ ~AtRest /\ cur' = NoHandle
  /\ \/ cur \in Callback /\ UNCHANGED <<queue, fut, waits, waited>>
     \/ \E r \in Run :
          /\ cur = Step(r)
          /\ \/ /\ r \notin waited
                /\ waits' = waits \cup {r} /\ waited' = waited \cup {r}
                /\ UNCHANGED <<queue, fut>>
             \/ /\ fut' = [fut EXCEPT ![r] = "result"]
                /\ queue' = IF Watched(r) THEN Append(queue, IsDone(r)) ELSE queue
                /\ UNCHANGED <<waits, waited>>
  /\ UNCHANGED <<where, run, form, got, stopPending, outcome, fresh, asked>>

\* The exception ends the call, or kills the greenlet that is closing.
Raised ==
  /\ cur' = NoHandle
  /\ \/ LoopRunning /\ Leave("exit")
     \/ where = "exit" /\ where' = "dead" /\ UNCHANGED outcome

\* A callback raises SystemExit or KeyboardInterrupt.  The main coroutine's
\* goes to its future as well, whose done-callback stays in the channel.
CallbackExits ==
  /\ ~AtRest /\ Raised
  /\ \/ cur \in Callback /\ UNCHANGED <<queue, fut>>
     \/ \E r \in Run :
          /\ cur = Step(r)
          /\ fut' = [fut EXCEPT ![r] = "exit"]
          /\ queue' = IF Watched(r) THEN Append(queue, IsDone(r)) ELSE queue
  /\ UNCHANGED <<calls, waits, got, stopPending, fresh, asked>>

\* Mutant of DrainEnds: gives up without draining.
DrainSkipped ==
  /\ where = "drain" /\ AtRest
  /\ \/ run \in got /\ Leave("returned")
     \/ run \notin got /\ Leave("unfinished")
  /\ UNCHANGED <<queue, cur, calls, fut, waits, got, stopPending, fresh, asked>>

\* The result is there, or receive_nowait() raises WouldBlock.
DrainEnds ==
  /\ where = "drain" /\ AtRest
  /\ \/ run \in got /\ Leave("returned")
     \/ run \notin got /\ queue = <<>> /\ Leave("unfinished")
  /\ UNCHANGED <<queue, cur, calls, fut, waits, got, stopPending, fresh, asked>>

\* close(): a living greenlet drains the channel first.
Close ==
  /\ \/ where = "idle" /\ where' = "exit"
     \/ where = "dead" /\ where' = "closed"
  /\ UNCHANGED <<queue, cur, calls, fut, waits, got, stopPending, outcome, fresh, asked>>

ExitEnds ==
  /\ where = "exit" /\ AtRest /\ queue = <<>>
  /\ where' = "closed"
  /\ UNCHANGED <<queue, cur, calls, fut, waits, got, stopPending, outcome, fresh, asked>>

-----------------------------------------------------------------------------
LoopSteps ==
  CallbackRuns \/ DoStopRuns \/ (\E r \in Run : IsDoneRuns(r)) \/ DrainEnds \/ ExitEnds

Next ==
  \/ Stop
  \/ \E c \in Callback : CallSoon(c)
  \/ \E r \in Run : Awaken(r)
  \/ RunForever \/ RunUntilComplete \/ Close
  \/ LoopSteps
  \/ CallbackReturns \/ CallbackExits

Spec == Init /\ [][Next]_vars

(* The greenlet keeps serving its channel, and a callback that never ended  *)
(* would block the thread.                                                  *)
FairSpec ==
  Spec /\ WF_vars(LoopSteps) /\ WF_vars(CallbackReturns \/ CallbackExits)

-----------------------------------------------------------------------------
(* Properties.                                                              *)

(* _stop_pending tells the truth whatever becomes of a call: it is set when *)
(* a do_stop is in the channel, of which there is never more than one.  Set *)
(* without one, it would swallow every later stop().                        *)
StopPendingIsQueued ==
  /\ stopPending <=> DoStop \in SeqSet(queue)
  /\ \A i, j \in DOMAIN queue : queue[i] = DoStop /\ queue[j] = DoStop => i = j

\* Call r was ended by a stop: run_forever() returned, or run_until_complete()
\* said "Event loop stopped before Future completed."
Stopped(r) ==
  \/ outcome[r] = "unfinished"
  \/ form[r] = "forever" /\ outcome[r] = "returned"

(* Calling sys.exit() is not a stop: when nobody calls stop(), a call is    *)
(* only cut short if an earlier call's function had completed and another   *)
(* callback then exited.  In particular a function that itself calls        *)
(* sys.exit() disturbs no later call (docs/source/history.rst:41-43, and    *)
(* the comment in is_done()).                                               *)
SysExitIsNotStop ==
  \A r \in Run : Stopped(r) =>
    \/ \E q \in 1 .. r : q \in asked
    \/ \E q \in 1 .. (r - 1) : fut[q] = "result" /\ outcome[q] = "exit"

(* run_until_complete() says that the loop was stopped before the future    *)
(* completed only if the future has not: completion that is still on its    *)
(* way through the channel when the loop stops counts.                      *)
CompletedIsReturned ==
  [][\A r \in Run :
       outcome[r] # "unfinished" /\ outcome'[r] = "unfinished" => fut[r] = "pending"]_vars

(* A stop(), or the completion of the function, ends the call: none of the  *)
(* leavings of earlier calls can swallow it.                                *)
CallEnds ==
  \A r \in Run :
    (r = run /\ (r \in asked \/ fut[r] = "result")) ~> outcome[r] # "none"

(* What CallEnds rests on: while such a call runs, its do_stop is in the    *)
(* channel, or is_done() is, which will stop it, or the drain has begun.    *)
EndIsDue ==
  \A r \in Run :
    r = run /\ outcome[r] = "none" /\ (r \in asked \/ fut[r] = "result") =>
      \/ where = "drain"
      \/ where = "main" /\ DoStop \in SeqSet(queue)
      \/ where = "main" /\ IsDone(r) \in SeqSet(queue) /\ fut[r] = "result"

(* run_forever() is to "run the loop until it is stopped" (_base.py), and   *)
(* run_until_complete() to raise "if the loop is stopped before the future  *)
(* completes" (_sync.py): a call ends early only if stop() is called during *)
(* it, at least while no callback exits.  Does not hold: the stop() that    *)
(* is_done() makes in the drain is left to the next call.                   *)
StopsOwnCall ==
  (\A q \in Run : outcome[q] # "exit") => \A r \in Run : Stopped(r) => r \in asked

=============================================================================
