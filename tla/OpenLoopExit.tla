----------------------------- MODULE OpenLoopExit -----------------------------
(***************************************************************************)
(* OpenLoop with what else ends "async with open_loop()" (_loop.py):       *)
(* cancellation from outside, which the shielded nursery keeps off and     *)
(* forward_cancellation() carries to the body; an error in a callback or a *)
(* Trio task, which cancels the nursery; and the asynchronous generators   *)
(* of the loop, which are closed before the loop is.                       *)
(*                                                                         *)
(* Which exception leaves open_loop() in the end is not modelled.          *)
(***************************************************************************)
EXTENDS OpenLoop

CONSTANTS
  Gens,      \* asynchronous generators of the loop, iterated and not at their end
  Sentinel,  \* the generator sentinel()
  FinStart,  \* the first Task.__step of shutdown_asyncgens_from_aio()
  CloseOf,   \* CloseOf[g]: the first Task.__step of g.aclose()
  SetEvent,  \* the w.set callback of sentinel(), and what it wakes
  FinDone,   \* the Task.__wakeup of shutdown_asyncgens_from_aio()
  MayFail    \* may callbacks and Trio tasks raise errors?

Closing == Gens \cup {Sentinel}
Finalizing == {FinStart, SetEvent, FinDone} \cup {CloseOf[g] : g \in Closing}

ASSUME ExitAssumption ==
  /\ Sentinel \notin Gens /\ IsFiniteSet(Gens)
  /\ Finalizing \subseteq Own \ Internal
  /\ \A g, k \in Closing : CloseOf[g] = CloseOf[k] => g = k
  /\ \A g \in Closing : CloseOf[g] \notin {FinStart, SetEvent, FinDone}
  /\ SetEvent \notin {FinStart, FinDone}
  /\ MayFail \in BOOLEAN

VARIABLES
  outer,    \* a scope around open_loop() is cancelled
  scope,    \* body_scope is cancelled
  failure,  \* an error on its way to, or in, tasks_nursery
  fin,      \* shutdown_asyncgens_from_trio()
  finCancelled, \* its asyncio task was cancelled
  gen,      \* the generators
  shield    \* shield_asyncgen_finalizers.shield

evars == <<outer, scope, failure, fin, finCancelled, gen, shield>>
exitvars == <<allvars, evars>>
finvars == <<fin, finCancelled, gen, shield>>

ExitTypeOK ==
  /\ OpenTypeOK
  /\ {outer, scope, finCancelled, shield} \subseteq BOOLEAN
  /\ failure \in {"none", "raising", "raised"}
  /\ fin \in {"no", "starting", "queued", "running", "ending", "done", "lost"}
  /\ gen \in [Closing -> {"open", "closing", "closed"}]

ExitInit ==
  /\ OpenInit
  /\ outer = FALSE /\ scope = FALSE /\ failure = "none"
  /\ fin = "no" /\ finCancelled = FALSE /\ shield = TRUE
  /\ gen = [g \in Closing |-> "open"]

-----------------------------------------------------------------------------
(* Cancellation and errors.                                                 *)

OuterCancel ==
  /\ UserRuns /\ ~outer /\ exit = "no"
  /\ outer' = TRUE
  /\ UNCHANGED <<allvars, scope, failure, finvars>>

\* Mutant of Forward: the body is not told.
ForwardNothing == FALSE /\ UNCHANGED exitvars

\* forward_cancellation() is cancelled, and cancels body_scope.
Forward ==
  /\ Yielded /\ outer /\ body = "inside" /\ ~scope
  /\ scope' = TRUE
  /\ UNCHANGED <<allvars, outer, failure, finvars>>

\* The body is left, by itself or by a Cancelled that open_loop() catches.
Leave ==
  /\ BodyExit
  /\ UNCHANGED evars

\* A callback raises an Exception: default_exception_handler() starts a task
\* in tasks_nursery that raises it, if the nursery is open.
CallbackFails ==
  /\ MayFail /\ obj \notin Own /\ CallbackReturn
  /\ failure' = IF nursery = "open" /\ failure = "none" THEN "raising" ELSE failure
  /\ UNCHANGED <<ovars, outer, scope, finvars>>

\* A Trio task whose error no future takes: AsyncHandle tells where it goes.
TrioTaskFails(h) ==
  /\ MayFail /\ failure = "none" /\ TrioTaskEnds(h)
  /\ failure' = "raising"
  /\ UNCHANGED <<outer, scope, finvars>>

\* The nursery gets the error and is cancelled.
NurseryFails ==
  /\ Yielded /\ failure = "raising"
  /\ failure' = "raised"
  /\ UNCHANGED <<allvars, outer, scope, finvars>>

\* The nursery around wait_for_sync() passes the Cancelled on, so what comes
\* after it in the "finally" is not executed.
SyncCancelled ==
  /\ Yielded /\ body = "syncing" /\ failure = "raised"
  /\ body' = "teardown"
  /\ UNCHANGED <<vars, aio, watch, live, submitted, evars>>

\* It returns, and the tasks are cancelled.
SyncReturns ==
  /\ failure # "raised" /\ CancelTasks
  /\ UNCHANGED evars

-----------------------------------------------------------------------------
(* The asynchronous generators.                                             *)

\* tasks_nursery closes.  Unless there is no generator, or the loop does not
\* run, shutdown_asyncgens_from_trio() is started.
GensDecided ==
  /\ failure # "raising"
  /\ TasksNurseryCloses
  /\ fin' = IF Gens = {} \/ stopped THEN "done" ELSE "starting"
  /\ UNCHANGED <<outer, scope, failure, finCancelled, gen, shield>>

\* Its run_aio_coroutine() creates the asyncio task.
FinTask ==
  /\ Yielded /\ fin = "starting"
  /\ fin' = "queued"
  /\ Queues(FinStart)
  /\ UNCHANGED <<ovars, outer, scope, failure, finCancelled, gen, shield>>

\* Mutant of FinAborted: without a shield.
FinAbortedAtOnce ==
  /\ Yielded /\ outer /\ fin \in {"queued", "running"} /\ ~finCancelled
  /\ finCancelled' = TRUE
  /\ UNCHANGED <<allvars, outer, scope, failure, fin, gen, shield>>

\* Cancellation reaches run_aio_coroutine(), which cancels the asyncio task.
FinAborted ==
  /\ Yielded /\ outer /\ ~shield /\ fin \in {"queued", "running"} /\ ~finCancelled
  /\ finCancelled' = TRUE
  /\ UNCHANGED <<allvars, outer, scope, failure, fin, gen, shield>>

\* The asyncio task starts: shutdown_asyncgens() makes a task of each aclose().
\* A task that is cancelled before it starts does nothing at all.
FinStarts ==
  /\ pc = "calling" /\ obj = FinStart /\ fin = "queued"
  /\ \/ /\ finCancelled /\ fin' = "lost"
        /\ LoopIdle
     \/ /\ ~finCancelled /\ fin' = "running"
        /\ \E order \in [1 .. Cardinality(Closing) -> Closing] :
             /\ \A g \in Closing : \E i \in DOMAIN order : order[i] = g
             /\ queue' = queue \o [i \in DOMAIN order |-> CloseOf[order[i]]]
        /\ fate' = [h \in Handles |->
                      IF h \in {CloseOf[g] : g \in Closing} THEN "accepted" ELSE fate[h]]
        /\ UNCHANGED <<pc, obj, entry, cancelled, clock, halt, life>>
  /\ UNCHANGED <<ovars, outer, scope, failure, finCancelled, gen, shield>>

\* gather() is done with the last aclose(), and wakes the task.
Closes(g) ==
  /\ gen' = [gen EXCEPT ![g] = "closed"]
  /\ \/ /\ \A i \in Closing : gen'[i] = "closed"
        /\ fin' = "ending" /\ Queues(FinDone)
     \/ /\ \E i \in Closing : gen'[i] # "closed"
        /\ UNCHANGED <<fin, vars>>

\* aclose() of a generator ends, or awaits something in its "finally".
GenClosing(g) ==
  /\ pc = "calling" /\ obj = CloseOf[g] /\ gen[g] = "open"
  /\ \/ Closes(g)
     \/ gen' = [gen EXCEPT ![g] = "closing"] /\ LoopIdle /\ UNCHANGED fin
  /\ UNCHANGED <<ovars, outer, scope, failure, finCancelled, shield>>

\* What it awaits comes about, or is cancelled, and the loop runs the rest.
GenCloses(g) ==
  /\ Yielded /\ ~stopped /\ gen[g] = "closing"
  /\ Closes(g)
  /\ UNCHANGED <<ovars, outer, scope, failure, finCancelled, shield>>

\* Mutant of SentinelClosing: drops the shield without a turn of the loop.
SentinelHasty ==
  /\ pc = "calling" /\ obj = CloseOf[Sentinel] /\ gen[Sentinel] = "open"
  /\ Closes(Sentinel)
  /\ shield' = FALSE
  /\ UNCHANGED <<ovars, outer, scope, failure, finCancelled>>

\* sentinel() lets the loop run what it has queued.
SentinelClosing ==
  /\ pc = "calling" /\ obj = CloseOf[Sentinel] /\ gen[Sentinel] = "open"
  /\ gen' = [gen EXCEPT ![Sentinel] = "closing"]
  /\ Queues(SetEvent)
  /\ UNCHANGED <<ovars, outer, scope, failure, fin, finCancelled, shield>>

SentinelCloses ==
  /\ pc = "calling" /\ obj = SetEvent /\ gen[Sentinel] = "closing"
  /\ Closes(Sentinel)
  /\ shield' = FALSE
  /\ UNCHANGED <<ovars, outer, scope, failure, finCancelled>>

\* asyncgens_done is set, with or without a CancelledError.
FinEnds ==
  /\ pc = "calling" /\ obj = FinDone /\ fin = "ending"
  /\ fin' = "done"
  /\ LoopIdle /\ UNCHANGED <<ovars, outer, scope, failure, finCancelled, gen, shield>>

\* The callbacks of the finalization return when they have done their work.
ReturnDone ==
  /\ Return
  /\ obj = FinStart => fin # "queued"
  /\ \A g \in Closing : obj = CloseOf[g] => gen[g] # "open"
  /\ obj = SetEvent => ~shield
  /\ obj = FinDone => fin = "done"
  /\ UNCHANGED evars

-----------------------------------------------------------------------------
\* Callbacks of the finalization other than the generators' own code call
\* nothing of the loop.
OthersCall == pc = "calling" => obj \notin Finalizing \ {CloseOf[g] : g \in Gens}

Exiting == ExitSteps /\ fin = "done"

ExitNext ==
  \/ OuterCancel \/ Forward \/ Leave
  \/ CallbackFails \/ NurseryFails \/ SyncCancelled \/ SyncReturns
  \/ GensDecided \/ FinTask \/ FinStarts \/ FinAborted \/ FinEnds
  \/ \E g \in Gens : GenClosing(g) \/ GenCloses(g)
  \/ SentinelClosing \/ SentinelCloses
  \/ ReturnDone
  \/ \E h \in Asyncs : TrioTaskFails(h) \/ (TrioTaskEnds(h) /\ UNCHANGED evars)
  \/ /\ \/ Synchronize \/ TrioTaskRuns
        \/ \E a \in AioTasks : WatchStart(a) \/ AioReady(a) \/ AioFinish(a)
     /\ UNCHANGED evars
  \/ ((OthersCall /\ UserCalls) \/ LoopRuns \/ Exiting) /\ UNCHANGED <<ovars, evars>>

ExitSpec == ExitInit /\ [][ExitNext]_exitvars

\* The body, and the Trio tasks, are cancelled.
BodyCancelled == scope \/ failure = "raised"
TasksCancelled == body = "teardown" \/ failure = "raised"

(* OpenLoop's fairness, but for the body and the generators: they may go on *)
(* for ever unless they are cancelled.                                      *)
ExitFairness ==
  /\ WF_exitvars(LoopSteps /\ UNCHANGED <<ovars, evars>>)
  /\ WF_exitvars(ReturnDone) /\ WF_exitvars(TrioTaskRuns /\ UNCHANGED evars)
  /\ WF_exitvars(Forward) /\ WF_exitvars(BodyCancelled /\ Leave)
  /\ WF_exitvars(Synchronize /\ UNCHANGED evars)
  /\ WF_exitvars(SyncReturns \/ SyncCancelled) /\ WF_exitvars(NurseryFails)
  /\ \A a \in AioTasks :
       WF_exitvars((WatchStart(a) \/ AioFinish(a)) /\ UNCHANGED evars)
  /\ \A h \in Asyncs : WF_exitvars(TasksCancelled /\ TrioTaskEnds(h) /\ UNCHANGED evars)
  /\ WF_exitvars(GensDecided) /\ WF_exitvars(FinTask) /\ WF_exitvars(FinStarts)
  /\ WF_exitvars(FinAborted) /\ WF_exitvars(FinEnds)
  /\ \A g \in Gens :
       WF_exitvars(GenClosing(g)) /\ WF_exitvars(finCancelled /\ GenCloses(g))
  /\ WF_exitvars(SentinelClosing \/ SentinelCloses)
  /\ WF_exitvars(Exiting /\ UNCHANGED <<ovars, evars>>)

ExitFairSpec == ExitSpec /\ ExitFairness

-----------------------------------------------------------------------------
(* Properties.                                                              *)

\* The loop stops although open_loop() still needs it.
StoppedInUse == stopped /\ (nursery = "open" \/ fin \in {"starting", "queued", "running", "ending"})

Over == exit \in {"finished", "failed"}

(* open_loop(), left by its body, is over sooner or later: its tasks and    *)
(* generators wait for each other only through the loop.  The exceptions are*)
(* a loop that is stopped early, and a generator that does not end.         *)
ExitCompletes ==
  \/ body = "leaving" ~> Over
  \/ <>StoppedInUse
  \/ <>[](\E g \in Gens : gen[g] = "closing")

(* "we need to forward cancellation from outside open_loop() into its body":*)
(* cancellation from outside ends the body, the tasks and the generators,   *)
(* however many shields are between, and open_loop() is over.               *)
CancellationGetsIn == (outer ~> Over) \/ <>StoppedInUse

(* "Make sure that the finalizers have a chance to actually start before    *)
(* they're exposed to any external cancellation".                           *)
FinalizersStart == finCancelled => \A g \in Closing : gen[g] # "open"

(* No shutdown hangs on a sleeping loop: when the main loop sleeps in       *)
(* receive(), nobody in open_loop() waits for a callback of it, neither     *)
(* synchronize(), nor an asyncio task or the run_aio_future() watching it,  *)
(* nor _main_loop_exit(), nor the task that closes the generators, except   *)
(* for what a generator's own "finally" awaits.                             *)
NobodyWaitsForSleeper ==
  pc = "parked" =>
    /\ body = "syncing" => fate[SyncHandle] = "ran"
    /\ exit # "wait"
    /\ \A a \in AioTasks : aio[a] # "waking" /\ watch[a] # "waiting"
    /\ fin \notin {"queued", "ending", "lost"}
    /\ fin = "running" => \E g \in Gens : gen[g] = "closing"

(* open_loop(): "All call_soon() callbacks that are submitted before exiting*)
(* the context manager will run before starting this shutdown sequence", and*)
(* tasks get a chance to start: unless the loop is stopped early, or an     *)
(* error cancels the nursery.                                               *)
SubmittedRunFirst ==
  [][body # "teardown" /\ body' = "teardown" /\ ~stopped /\ failure # "raised" =>
       \A h \in submitted : fate[h] # "accepted"]_exitvars

=============================================================================
