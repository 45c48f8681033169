------------------------------ MODULE CrossCall ------------------------------
(***************************************************************************)
(* A call through both worlds: a Trio task calls an asyncio coroutine with *)
(* run_aio_coroutine() (_base.py) and run_aio_future() (_util.py), and the *)
(* coroutine calls a Trio function with trio_as_future(), which is an      *)
(* AsyncHandle.  Results travel back and cancellation travels forth across *)
(* both borders.                                                           *)
(*                                                                         *)
(* The handle stands for the whole call.  The loop's part, to run queued   *)
(* callbacks, is EventLoop's; the asyncio task is modelled from asyncio.   *)
(***************************************************************************)
EXTENDS AsyncHandle

VARIABLES
  caller,      \* the Trio task in run_aio_coroutine(), and how the call ended
  callerScope, \* is the cancel scope around the call cancelled?
  aborting,    \* raise_cancel is set
  aio,         \* the asyncio task made of the coroutine
  mustCancel,  \* its _must_cancel
  asked        \* history: asyncio code has cancelled the asyncio task

cvars == <<caller, callerScope, aborting, aio, mustCancel, asked>>
ccvars == <<vars, cvars>>

Results == {"result", "exception", "cancelled"}

CrossTypeOK ==
  /\ TypeOK
  /\ caller \in [Handle -> {"idle", "waiting", "resumed", "returned", "raised",
                            "Cancelled", "CancelledError"}]
  /\ callerScope \in [Handle -> BOOLEAN]
  /\ aborting \in [Handle -> BOOLEAN]
  /\ aio \in [Handle -> {"none", "ready", "waiting"} \cup Results]
  /\ mustCancel \in [Handle -> BOOLEAN]
  /\ asked \in [Handle -> BOOLEAN]

CrossInit ==
  /\ Init
  /\ caller = [h \in Handle |-> "idle"]
  /\ callerScope = [h \in Handle |-> FALSE]
  /\ aborting = [h \in Handle |-> FALSE]
  /\ aio = [h \in Handle |-> "none"]
  /\ mustCancel = [h \in Handle |-> FALSE]
  /\ asked = [h \in Handle |-> FALSE]

AioDone(h) == aio[h] \in Results
AioBecomes(h, s) == aio' = [aio EXCEPT ![h] = s]

\* task.cancel(): cancel the future it waits for; if that declines, or there
\* is none, throw CancelledError at the next step.
AioCancel(h) ==
  \/ /\ AioDone(h)
     /\ UNCHANGED <<mustCancel, vars>>
  \/ /\ aio[h] = "waiting" /\ ~Done(h)
     /\ CancelFuture(h)
     /\ UNCHANGED mustCancel
  \/ /\ aio[h] = "ready" \/ (aio[h] = "waiting" /\ Done(h))
     /\ mustCancel' = [mustCancel EXCEPT ![h] = TRUE]
     /\ UNCHANGED vars

-----------------------------------------------------------------------------
(* The Trio caller.                                                         *)

\* run_aio_coroutine() makes an asyncio task and parks in run_aio_future().
\* Under a scope already cancelled Trio calls abort_cb as soon as it parks.
Call(h) ==
  /\ caller[h] = "idle" /\ h \in WithFuture
  /\ caller' = [caller EXCEPT ![h] = "waiting"]
  /\ AioBecomes(h, "ready")
  /\ aborting' = [aborting EXCEPT ![h] = callerScope[h]]
  /\ mustCancel' = [mustCancel EXCEPT ![h] = callerScope[h]]
  /\ UNCHANGED <<vars, callerScope, asked>>

\* Mutant of CancelCaller: abort_cb answers Abort.SUCCEEDED.
CancelCallerAtOnce(h) ==
  /\ ~callerScope[h] /\ h \in WithFuture
  /\ callerScope' = [callerScope EXCEPT ![h] = TRUE]
  /\ \/ /\ caller[h] = "waiting"
        /\ caller' = [caller EXCEPT ![h] = "Cancelled"]
        /\ AioCancel(h)
     \/ /\ caller[h] # "waiting"
        /\ UNCHANGED <<vars, caller, mustCancel>>
  /\ UNCHANGED <<aborting, aio, asked>>

\* The scope is cancelled.  While the caller is parked that runs abort_cb.
CancelCaller(h) ==
  /\ ~callerScope[h] /\ h \in WithFuture
  /\ callerScope' = [callerScope EXCEPT ![h] = TRUE]
  /\ \/ /\ caller[h] = "waiting"
        /\ aborting' = [aborting EXCEPT ![h] = TRUE]
        /\ AioCancel(h)
     \/ /\ caller[h] # "waiting"
        /\ UNCHANGED <<vars, aborting, mustCancel>>
  /\ UNCHANGED <<caller, aio, asked>>

\* done_cb reschedules the caller.
DoneCb(h) ==
  /\ caller[h] = "waiting" /\ AioDone(h)
  /\ caller' = [caller EXCEPT ![h] = "resumed"]
  /\ UNCHANGED <<vars, callerScope, aborting, aio, mustCancel, asked>>

\* Mutant of Outcome: translates every CancelledError.
OutcomeTranslated(h) ==
  CASE aio[h] = "result" -> "returned"
    [] aio[h] = "exception" -> "raised"
    [] aio[h] = "cancelled" -> "Cancelled"

\* The outcome; CancelledError becomes Cancelled if abort_cb was called.
Outcome(h) ==
  CASE aio[h] = "result" -> "returned"
    [] aio[h] = "exception" -> "raised"
    [] aio[h] = "cancelled" -> IF aborting[h] THEN "Cancelled" ELSE "CancelledError"

CallEnds(h) ==
  /\ caller[h] = "resumed"
  /\ caller' = [caller EXCEPT ![h] = Outcome(h)]
  /\ UNCHANGED <<vars, callerScope, aborting, aio, mustCancel, asked>>

-----------------------------------------------------------------------------
(* The asyncio task.                                                        *)

\* Its first step.  The coroutine calls trio_as_future() and awaits it, or
\* ends without.
AioStart(h) ==
  /\ aio[h] = "ready"
  /\ mustCancel' = [mustCancel EXCEPT ![h] = FALSE]
  /\ \/ mustCancel[h] /\ AioBecomes(h, "cancelled")
     \/ ~mustCancel[h] /\ \E s \in {"waiting", "result", "exception"} : AioBecomes(h, s)
  /\ UNCHANGED <<vars, caller, callerScope, aborting, asked>>

\* It is woken when the future is resolved.  A coroutine into which
\* CancelledError is thrown may handle it.
AioWakes(h) ==
  /\ aio[h] = "waiting" /\ Done(h)
  /\ mustCancel' = [mustCancel EXCEPT ![h] = FALSE]
  /\ \/ \E s \in {"result", "exception"} : AioBecomes(h, s)
     \/ (mustCancel[h] \/ fut[h] = "cancelled") /\ AioBecomes(h, "cancelled")
  /\ UNCHANGED <<vars, caller, callerScope, aborting, asked>>

\* Asyncio code cancels the task.
CancelAio(h) ==
  /\ aio[h] \in {"ready", "waiting"}
  /\ asked' = [asked EXCEPT ![h] = TRUE]
  /\ AioCancel(h)
  /\ UNCHANGED <<caller, callerScope, aborting, aio>>

-----------------------------------------------------------------------------
\* run_trio_task() has no asyncio task that waits for it.
TrioSide(h) ==
  \/ (aio[h] = "waiting" \/ h \notin WithFuture) /\ Spawn(h)
  \/ CancelTask(h)
  \/ RunCancelled(h) \/ RunCallback(h) \/ Ends(h)

CrossNext ==
  \/ \E h \in Handle :
       \/ Call(h) \/ CancelCaller(h) \/ DoneCb(h) \/ CallEnds(h)
       \/ AioStart(h) \/ AioWakes(h) \/ CancelAio(h)
       \/ TrioSide(h) /\ UNCHANGED cvars
  \/ NurseryCancelled /\ UNCHANGED cvars

CrossSpec == CrossInit /\ [][CrossNext]_ccvars

(* Both schedulers run what is runnable; a Trio function ends when it is    *)
(* cancelled, and need not otherwise.                                       *)
CrossFairness ==
  \A h \in Handle :
    /\ WF_ccvars(DoneCb(h)) /\ WF_ccvars(CallEnds(h))
    /\ WF_ccvars(AioStart(h)) /\ WF_ccvars(AioWakes(h))
    /\ WF_ccvars(aio[h] = "waiting" /\ Spawn(h) /\ UNCHANGED cvars)
    /\ WF_ccvars((RunCancelled(h) \/ RunCallback(h)) /\ UNCHANGED cvars)
    /\ WF_ccvars((scope[h] \/ outer) /\ Ends(h) /\ UNCHANGED cvars)

CrossFairSpec == CrossSpec /\ CrossFairness

-----------------------------------------------------------------------------
(* Properties.                                                              *)

CallOver(h) == caller[h] \in {"returned", "raised", "Cancelled", "CancelledError"}

(* A cross-call is as structured as a Trio call: once run_aio_coroutine()   *)
(* has returned or raised, neither the coroutine nor the Trio function it   *)
(* called is still running, however the call was cancelled.                 *)
NothingOutlivesCall ==
  \A h \in Handle : CallOver(h) => AioDone(h) /\ task[h] \in {"queued", "ended"}

(* run_aio_future(): trio.Cancelled is raised only in a cancelled scope, and*)
(* asyncio's CancelledError only gets through to a Trio caller if somebody  *)
(* else cancelled the coroutine.                                            *)
RightCancellation ==
  \A h \in Handle :
    /\ caller[h] = "Cancelled" => callerScope[h]
    /\ caller[h] = "CancelledError" => asked[h] \/ outer

(* Cancelling the Trio scope around the call reaches through the coroutine  *)
(* to the Trio function, wherever the call is, and ends it.                 *)
CancelGetsThrough ==
  \A h \in Handle : callerScope[h] /\ caller[h] = "waiting" ~> CallOver(h)

(* What CancelGetsThrough rests on: while a caller whose scope is cancelled *)
(* waits, the asyncio task is over or will find the request at its next     *)
(* step, or the future it waits for is resolved, or the scope of the Trio   *)
(* task is cancelled.                                                       *)
CancellationIsUnderWay ==
  \A h \in Handle : callerScope[h] /\ caller[h] = "waiting" =>
    \/ AioDone(h)
    \/ aio[h] = "ready" /\ mustCancel[h]
    \/ aio[h] = "waiting" /\ (Done(h) \/ (scope[h] /\ task[h] # "ended"))
=============================================================================
