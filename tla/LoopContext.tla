----------------------------- MODULE LoopContext -----------------------------
(***************************************************************************)
(* Whose loop is it?  Loops that tasks open in any order (_loop.py), the   *)
(* contexts that carry current_loop and allow_asyncio()'s shim_running     *)
(* (_adapter.py) from tasks to callbacks and back, and the async generator *)
(* hooks that the loops share (AsyncGeneratorDispatcher, _base.py).        *)
(*                                                                         *)
(* Trio copies the context of whoever starts a task, asyncio that of       *)
(* whoever schedules a callback.  A callback is one step here.             *)
(***************************************************************************)
EXTENDS Naturals, Sequences, SequencesExt

CONSTANTS
  Task,     \* Trio tasks
  Main,     \* the one that is there at first
  Loop,     \* loops of open_loop()
  Call,     \* asyncio callbacks
  Gen,      \* async generators
  MaxAllow, \* bound: nested calls of allow_asyncio() in a task
  Trio      \* the Trio run: its hooks, its generators, and no loop

ASSUME ContextAssumption ==
  /\ Main \in Task /\ Trio \notin Loop /\ MaxAllow \in Nat
  /\ Call \cap Task = {} /\ Gen \cap (Call \cup Task) = {}

VARIABLES
  ctx,      \* the context of each task
  started,  \* the tasks that have been started
  opened,   \* the open_loop() blocks each task is in, with their old_loop
  phase,    \* how far each loop is
  stopped,  \* the loops whose main loop had ended before the body was left
  mainCtx,  \* the context of each loop's main loop task
  queued,   \* the handles in the loops' channels
  hook,     \* the dispatcher in sys.get_asyncgen_hooks(), or Trio's hooks
  refcnt,   \* refcnt of each dispatcher, named for the loop that made it
  uses,     \* _asyncgen_dispatcher of each loop
  gen,      \* the generators: where the hooks put each, and who finalized it
  allow,    \* the allow_asyncio() calls each task is in
  inside,   \* history: the tasks that were started with the shim running
  born      \* history: where each generator was first iterated

taskVars == <<ctx, started, opened, allow, inside>>
hookVars == <<hook, refcnt, uses>>
genVars == <<gen, born>>
loopVars == <<mainCtx, stopped>>
vars == <<taskVars, phase, loopVars, queued, hookVars, genVars>>

\* "late": first iterated in the drain, when its loop finalizes no more.
GenState == {"new", "live", "late", "closing", "closed", "lost"}

Context == [loop : Loop \cup {Trio}, shim : BOOLEAN]
Empty == [loop |-> Trio, shim |-> FALSE]

TypeOK ==
  /\ ctx \in [Task -> Context]
  /\ started \in SUBSET Task /\ inside \in SUBSET started
  /\ opened \in [Task -> Seq([loop : Loop, old : Loop \cup {Trio}])]
  /\ phase \in [Loop -> {"new", "running", "draining", "closed", "failed"}]
  /\ mainCtx \in [Loop -> Context] /\ stopped \subseteq Loop
  /\ queued \subseteq [what : Call \cup Task \cup Gen, loop : Loop, ctx : Context]
  /\ hook \in Loop \cup {Trio} /\ refcnt \in [Loop -> Nat]
  /\ uses \in [Loop -> Loop \cup {Trio}]
  /\ gen \in [Gen -> [state : GenState, home : Loop \cup {Trio}]]
  /\ allow \in [Task -> Seq({"trampoline", "plain"})]
  /\ born \in [Gen -> Loop \cup {Trio}]

Init ==
  /\ ctx = [t \in Task |-> Empty]
  /\ started = {Main} /\ inside = {}
  /\ opened = [t \in Task |-> <<>>]
  /\ phase = [l \in Loop |-> "new"]
  /\ mainCtx = [l \in Loop |-> Empty] /\ stopped = {}
  /\ queued = {}
  /\ hook = Trio
  /\ refcnt = [l \in Loop |-> 0] /\ uses = [l \in Loop |-> Trio]
  /\ gen = [g \in Gen |-> [state |-> "new", home |-> Trio]]
  /\ allow = [t \in Task |-> <<>>]
  /\ born = [g \in Gen |-> Trio]

IsOpen(l) == l \in Loop /\ phase[l] \in {"running", "draining"}

Innermost(t) == Last(opened[t]).loop

\* The task runs user code; it does not while it leaves open_loop().
Free(t) ==
  t \in started /\ (opened[t] # <<>> => phase[Innermost(t)] = "running")

Opener(l) == CHOOSE t \in Task : \E i \in DOMAIN opened[t] : opened[t][i].loop = l

-----------------------------------------------------------------------------
(* Finding the loop: asyncio's own functions ask the context of the task,   *)
(* the adapters and the aliases of _loop.py the context of the code.        *)

\* Mutant of RunningLoop: takes the loop of the code's context.
RunningLoopOfCode(taskCtx, codeCtx) == codeCtx.loop

\* asyncio.get_running_loop() and get_event_loop() in Trio context.
RunningLoop(taskCtx, codeCtx) == taskCtx.loop

\* current_loop.get() in aio_as_trio(), trio_as_aio(), run_trio() and others.
WrapperLoop(codeCtx) == codeCtx.loop

\* A callback of l runs in the main loop task, or in the drain of whoever
\* leaves open_loop().
TaskCtx(l) == IF phase[l] = "running" THEN mainCtx[l] ELSE ctx[Opener(l)]

Handle(what, l, context) == [what |-> what, loop |-> l, ctx |-> context]

\* Each callback and each task is used once.
Unused(what) ==
  what \notin started /\ ~\E h \in queued : h.what = what

-----------------------------------------------------------------------------
(* Hooks.                                                                   *)

\* Mutant of Install: a new dispatcher for every loop.
InstallAnother(l) ==
  /\ hook' = l
  /\ refcnt' = [refcnt EXCEPT ![l] = 1]
  /\ uses' = [uses EXCEPT ![l] = l]

\* AsyncGeneratorDispatcher.install()
Install(l) ==
  LET dispatcher == IF hook = Trio THEN l ELSE hook
  IN  /\ hook' = dispatcher
      /\ refcnt' = [refcnt EXCEPT ![dispatcher] = @ + 1]
      /\ uses' = [uses EXCEPT ![l] = dispatcher]

Uninstall(l) ==
  /\ refcnt' = [refcnt EXCEPT ![uses[l]] = @ - 1]
  /\ hook' = IF refcnt'[uses[l]] = 0 THEN Trio ELSE hook
  /\ uses' = [uses EXCEPT ![l] = Trio]

\* firstiter(): by sniffio, asyncio code is in a callback of a loop.
FirstIter(g, home, state) ==
  /\ gen[g].state = "new"
  /\ gen' = [gen EXCEPT ![g] = [state |-> state, home |-> home]]

\* Mutant of FinalizerHook: asks for the loop running at the time.
FinalizerHookOfNow(g) ==
  \E l \in Loop :
    /\ phase[l] = "running"
    /\ gen' = [gen EXCEPT ![g] = [state |-> "closing", home |-> l]]
    /\ queued' = queued \cup {Handle(g, l, Empty)}

\* finalizer() and the loop's _asyncgen_finalizer_hook(): the loop, unless it
\* is closed, will run aclose(); Trio finalizes its own.
FinalizerHook(g) ==
  LET home == gen[g].home
  IN  \/ /\ home = Trio
         /\ gen' = [gen EXCEPT ![g].state = "closed"]
         /\ UNCHANGED queued
      \/ /\ home # Trio /\ IsOpen(home)
         /\ gen' = [gen EXCEPT ![g].state = "closing"]
         /\ queued' = queued \cup {Handle(g, home, Empty)}
      \/ /\ home # Trio /\ ~IsOpen(home)
         /\ gen' = [gen EXCEPT ![g].state = "lost"]
         /\ UNCHANGED queued

\* A generator is dropped and collected, wherever the interpreter is.
Collect(g) ==
  /\ gen[g].state \in {"live", "late"}
  /\ FinalizerHook(g)
  /\ UNCHANGED <<taskVars, phase, loopVars, hookVars, born>>

-----------------------------------------------------------------------------
(* open_loop().                                                             *)

OpenLoop(t, l) ==
  /\ Free(t) /\ phase[l] = "new"
  /\ ctx' = [ctx EXCEPT ![t].loop = l]
  /\ opened' = [opened EXCEPT ![t] = Append(@, [loop |-> l, old |-> ctx[t].loop])]
  /\ Install(l)
  /\ mainCtx' = [mainCtx EXCEPT ![l] = ctx'[t]]
  /\ phase' = [phase EXCEPT ![l] = "running"]
  /\ UNCHANGED <<started, allow, inside, stopped, queued, genVars>>

\* Mutant of LeaveBody: async generators are left to the collector.
LeaveBodyOnly(t, l) ==
  /\ opened[t] # <<>> /\ l = Innermost(t) /\ phase[l] = "running"
  /\ phase' = [phase EXCEPT ![l] = "draining"]
  /\ UNCHANGED <<taskVars, loopVars, queued, hookVars, genVars>>

\* The main loop runs stop_me, or an exception ends it, while the body goes on.
MainLoopEnds(l) ==
  /\ phase[l] = "running" /\ l \notin stopped
  /\ stopped' = stopped \cup {l}
  /\ UNCHANGED <<taskVars, phase, mainCtx, queued, hookVars, genVars>>

\* The body is left: the loop finalizes the generators it knows, in its main
\* loop task, and is stopped.  If it is stopped already they stay as they are.
LeaveBody(t, l) ==
  /\ opened[t] # <<>> /\ l = Innermost(t) /\ phase[l] = "running"
  /\ gen' = [g \in Gen |-> IF gen[g] = [state |-> "live", home |-> l] /\ l \notin stopped
                           THEN [gen[g] EXCEPT !.state = "closed"] ELSE gen[g]]
  /\ phase' = [phase EXCEPT ![l] = "draining"]
  /\ UNCHANGED <<taskVars, loopVars, queued, hookVars, born>>

\* loop.close() and current_loop.reset(old_loop)
Exit(t, l, end) ==
  /\ opened[t] # <<>> /\ l = Innermost(t) /\ phase[l] = "draining"
  /\ phase' = [phase EXCEPT ![l] = end]
  /\ ctx' = [ctx EXCEPT ![t].loop = Last(opened[t]).old]
  /\ opened' = [opened EXCEPT ![t] = Front(@)]
  /\ UNCHANGED <<started, allow, inside, loopVars, genVars>>

\* The drain has found the channel empty.
CloseLoop(t, l) ==
  /\ Exit(t, l, "closed")
  /\ ~\E h \in queued : h.loop = l
  /\ Uninstall(l)
  /\ UNCHANGED queued

\* The drain takes an AsyncHandle, whose nursery has closed: the exception
\* leaves _main_loop_exit() before the hooks are restored.
DrainFails(t, l) ==
  /\ Exit(t, l, "failed")
  /\ \E h \in queued : h.loop = l /\ h.what \in Task
  /\ queued' = {h \in queued : h.loop # l}
  /\ UNCHANGED hookVars

-----------------------------------------------------------------------------
(* Trio tasks.                                                              *)

Starts(t, context) ==
  /\ started' = started \cup {t}
  /\ ctx' = [ctx EXCEPT ![t] = context]
  /\ inside' = IF context.shim THEN inside \cup {t} ELSE inside

StartSoon(t, child) ==
  /\ Free(t) /\ Unused(child)
  /\ Starts(child, ctx[t])
  /\ UNCHANGED <<opened, allow, phase, loopVars, queued, hookVars, genVars>>

\* asyncio.set_event_loop() in a task that has no loop open itself.
SetEventLoop(t, l) ==
  /\ t \in started /\ opened[t] = <<>>
  /\ ctx' = [ctx EXCEPT ![t].loop = l]
  /\ UNCHANGED <<started, opened, allow, inside, phase, loopVars, queued, hookVars, genVars>>

\* aio_as_trio() and run_aio_coroutine() make an asyncio task, that is call
\* its first step, in the loop they find; call_soon() takes any loop.
AioAsTrio(t, c) ==
  /\ Free(t) /\ Unused(c) /\ c \in Call
  /\ \E l \in {k \in Loop : IsOpen(k)} : queued' = queued \cup {Handle(c, l, ctx[t])}
  /\ UNCHANGED <<taskVars, phase, loopVars, hookVars, genVars>>

\* A Trio task is the first to iterate the generator.
TrioIterates(t, g) ==
  /\ Free(t)
  /\ FirstIter(g, Trio, "live")
  /\ born' = [born EXCEPT ![g] = Trio]
  /\ UNCHANGED <<taskVars, phase, loopVars, queued, hookVars>>

AllowAsyncio(t) ==
  /\ Free(t) /\ Len(allow[t]) < MaxAllow
  /\ allow' = [allow EXCEPT ![t] = Append(@, IF ctx[t].shim THEN "plain" ELSE "trampoline")]
  /\ ctx' = [ctx EXCEPT ![t].shim = TRUE]
  /\ UNCHANGED <<started, opened, inside, phase, loopVars, queued, hookVars, genVars>>

\* Mutant of AllowReturns: the shim stays marked as running.
AllowReturnsUnreset(t) ==
  /\ Free(t) /\ allow[t] # <<>>
  /\ allow' = [allow EXCEPT ![t] = Front(@)]
  /\ UNCHANGED <<ctx, started, opened, inside, phase, loopVars, queued, hookVars, genVars>>

\* The call that set the variable resets it.
AllowReturns(t) ==
  /\ Free(t) /\ allow[t] # <<>>
  /\ ctx' = [ctx EXCEPT ![t].shim = @ /\ Last(allow[t]) = "plain"]
  /\ allow' = [allow EXCEPT ![t] = Front(@)]
  /\ UNCHANGED <<started, opened, inside, phase, loopVars, queued, hookVars, genVars>>

-----------------------------------------------------------------------------
(* Callbacks.                                                               *)

\* The loop takes a handle out of its channel: not between its stop and the drain.
Takes(h) ==
  h \in queued /\ IsOpen(h.loop) /\ (phase[h.loop] = "running" => h.loop \notin stopped)

\* What get_running_loop() tells the code that the handle calls.
Finds(h) == RunningLoop(TaskCtx(h.loop), h.ctx)

\* The callback returns, or calls a Trio function with trio_as_aio() first, or
\* schedules another callback.
Runs(h) ==
  /\ Takes(h) /\ h.what \in Call
  /\ \/ queued' = queued \ {h}
     \/ \E t \in Task, c \in Call :
          \/ /\ Unused(t) /\ IsOpen(WrapperLoop(h.ctx))
             /\ queued' = (queued \ {h}) \cup {Handle(t, WrapperLoop(h.ctx), h.ctx)}
          \/ /\ Unused(c)
             /\ \E l \in {k \in Loop : IsOpen(k)} :
                  queued' = (queued \ {h}) \cup {Handle(c, l, h.ctx)}
  /\ UNCHANGED <<taskVars, phase, loopVars, hookVars, genVars>>

\* The callback is the first to iterate a generator.
Iterates(h, g) ==
  /\ Takes(h) /\ h.what \in Call
  /\ queued' = queued \ {h}
  /\ FirstIter(g, Finds(h), IF phase[h.loop] = "running" THEN "live" ELSE "late")
  /\ born' = [born EXCEPT ![g] = h.loop]
  /\ UNCHANGED <<taskVars, phase, loopVars, hookVars>>

\* AsyncHandles start a Trio task in the handle's context.
Spawns(h) ==
  /\ Takes(h) /\ h.what \in Task
  /\ phase[h.loop] = "running"
  /\ queued' = queued \ {h}
  /\ Starts(h.what, h.ctx)
  /\ UNCHANGED <<opened, allow, phase, loopVars, hookVars, genVars>>

\* The aclose() that the finalizer hook has asked for.
Finalizes(h) ==
  /\ Takes(h) /\ h.what \in Gen
  /\ queued' = queued \ {h}
  /\ gen' = [gen EXCEPT ![h.what].state = "closed"]
  /\ UNCHANGED <<taskVars, phase, loopVars, hookVars, born>>

-----------------------------------------------------------------------------
Next ==
  \/ \E l \in Loop : MainLoopEnds(l)
  \/ \E t \in Task, l \in Loop :
       OpenLoop(t, l) \/ LeaveBody(t, l) \/ CloseLoop(t, l) \/ DrainFails(t, l) \/ SetEventLoop(t, l)
  \/ \E t \in Task :
       \/ AllowAsyncio(t) \/ AllowReturns(t)
       \/ \E child \in Task : StartSoon(t, child)
       \/ \E c \in Call : AioAsTrio(t, c)
       \/ \E g \in Gen : TrioIterates(t, g)
  \/ \E h \in queued :
       Runs(h) \/ Spawns(h) \/ Finalizes(h) \/ \E g \in Gen : Iterates(h, g)
  \/ \E g \in Gen : Collect(g)

Spec == Init /\ [][Next]_vars

-----------------------------------------------------------------------------
(* Properties.                                                              *)

(* Whatever context a callback is scheduled from ("e.g. in the case of a    *)
(* loop1.call_later() in loop2's context", _loop.py), the loop that asyncio *)
(* takes to be running is the loop that runs it.                            *)
RunsAtHome ==
  \A h \in queued : IsOpen(h.loop) => Finds(h) = h.loop

(* The hooks are the loops' own as long as one of them is open, all of them *)
(* using the one dispatcher, and Trio's again when the last has closed, in  *)
(* whatever order loops open and close, unless the drain of one has failed. *)
HooksFollowLoops ==
  /\ hook = Trio <=> \A l \in Loop : phase[l] \in {"new", "closed"}
  /\ \A l \in Loop : IsOpen(l) => uses[l] = hook

(* A generator is finalized where it was first iterated: by its loop, or by *)
(* Trio; a loop that closes has finalized all that it was told of before it *)
(* shut its generators down, those that were collected meanwhile included,  *)
(* unless it was stopped in the body: then it only warns that "weird stuff  *)
(* might happen", and finalizes none but those that were collected.         *)
GeneratorsGoHome ==
  \A g \in Gen :
    /\ gen[g].state \in {"closing", "closed"} => gen[g].home = born[g]
    /\ gen[g].state = "closing" => phase[gen[g].home] # "closed"
    /\ gen[g].state = "live" /\ born[g] # Trio =>
         phase[born[g]] = "running" \/ born[g] \in stopped

(* allow_asyncio(): "Execute fn in a context that allows fn to call both    *)
(* Trio-flavored and asyncio-flavored functions": a call that takes itself  *)
(* for nested, in a task not started by such a call, is inside another.     *)
ShimCoversCall ==
  \A t \in started \ inside :
    allow[t] # <<>> => "trampoline" \in ToSet(allow[t])

=============================================================================
