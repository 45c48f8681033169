----------------------------- MODULE IoHandlers -----------------------------
(***************************************************************************)
(* Readers and writers of file descriptors (src/trio_asyncio/_base.py,      *)
(* add_reader() to _cancel_fds()) inside open_loop().  Each handler has a   *)
(* Trio task that waits for its descriptor, calls the callback, waits until *)
(* the loop has served what the callback scheduled, and starts over.        *)
(***************************************************************************)
EXTENDS Naturals, Sequences

CONSTANTS
  Fd,          \* file descriptors
  Handle,      \* ScopedHandles, each for one call of add_reader/add_writer
  Callback,    \* what the handlers' callbacks pass to call_soon(), once each
  NoHandle, NoPlace

ASSUME IoAssumption ==
  /\ NoHandle \notin Handle /\ Handle \cap Callback = {}
  /\ NoPlace \notin Fd \X {"read", "write"}

Place == Fd \X {"read", "write"}

VARIABLES
  slot,        \* the selector: the handler registered for each place
  at,          \* the place each handle was added for
  cancelled,   \* handles with _cancelled set and their scope cancelled
  task,        \* where each handle's _io_task() is
  failed,      \* handles whose task has reported an exception ...
  busy,        \* ... and those for which it was BusyResourceError
  ready,       \* places where the descriptor can be read or written
  open,        \* open descriptors
  closeFiles,  \* _close_files
  queue,       \* the loop's channel: callbacks, and the event of a handle's
               \* synchronize()
  user,        \* the handle whose callback is running
  by,          \* history: whose callback scheduled each callback
  loop, nursery

vars == <<slot, at, cancelled, task, failed, busy, ready, open, closeFiles, queue, user, by,
          loop, nursery>>
sel == <<slot, at, cancelled>>
world == <<ready, open, closeFiles>>
life == <<loop, nursery>>

SeqSet(s) == {s[i] : i \in DOMAIN s}

(* The selector has every handler at the place it was added for.            *)
TypeOK ==
  /\ slot \in [Place -> Handle \cup {NoHandle}]
  /\ at \in [Handle -> Place \cup {NoPlace}]
  /\ \A p \in Place : slot[p] # NoHandle => at[slot[p]] = p
  /\ cancelled \subseteq Handle
  /\ task \in [Handle -> {"none", "starting", "waiting", "woken", "calling",
                          "syncing", "synced", "ended"}]
  /\ failed \subseteq Handle /\ busy \subseteq failed
  /\ ready \subseteq Place /\ open \subseteq Fd /\ closeFiles \subseteq Fd
  /\ queue \in Seq(Handle \cup Callback)
  /\ user \in Handle \cup {NoHandle}
  /\ by \in [Callback -> Handle \cup {NoHandle}]
  /\ loop \in {"running", "stopped", "closed"}
  /\ nursery \in {"open", "cancelled", "closed"}

Init ==
  /\ slot = [p \in Place |-> NoHandle]
  /\ at = [h \in Handle |-> NoPlace]
  /\ cancelled = {}
  /\ task = [h \in Handle |-> "none"]
  /\ failed = {} /\ busy = {}
  /\ ready = {} /\ open = Fd /\ closeFiles = {}
  /\ queue = <<>> /\ user = NoHandle
  /\ by = [c \in Callback |-> NoHandle]
  /\ loop = "running" /\ nursery = "open"

Becomes(h, t) == task' = [task EXCEPT ![h] = t]

Blocked(h) == task[h] \in {"waiting", "syncing"}

\* Trio aborts the sleep of a blocked task when a scope around it is
\* cancelled; any other task goes on to its next checkpoint.
Aborted(S) == [h \in Handle |-> IF h \in S /\ Blocked(h) THEN "ended" ELSE task[h]]

-----------------------------------------------------------------------------
(* Calls, by the running callback or by any other task of the program.      *)

\* _set_read_handle, _set_write_handle
SetHandle(h, p) == slot' = [slot EXCEPT ![p] = h]

\* Mutant of Add: forgets the old handle.
AddAnother(h, p) ==
  /\ loop # "closed" /\ at[h] = NoPlace
  /\ SetHandle(h, p)
  /\ at' = [at EXCEPT ![h] = p]
  /\ nursery # "closed" /\ Becomes(h, "starting")
  /\ UNCHANGED <<cancelled, failed, busy, world, queue, user, by, life>>

\* _add_io_handler: register, cancel the handler that was there, start the
\* task.  In the drain the nursery is gone and start_soon() raises.
Add(h, p) ==
  /\ loop # "closed" /\ at[h] = NoPlace
  /\ SetHandle(h, p)
  /\ at' = [at EXCEPT ![h] = p]
  /\ cancelled' = cancelled \cup ({slot[p]} \ {NoHandle})
  /\ \/ /\ nursery # "closed"
        /\ task' = [Aborted({slot[p]}) EXCEPT ![h] = "starting"]
     \/ nursery = "closed" /\ UNCHANGED task
  /\ UNCHANGED <<failed, busy, world, queue, user, by, life>>

\* remove_reader() and remove_writer(), which trio-asyncio inherits.
Remove(p) ==
  /\ loop # "closed" /\ slot[p] # NoHandle
  /\ slot' = [slot EXCEPT ![p] = NoHandle]
  /\ cancelled' = cancelled \cup {slot[p]}
  /\ task' = Aborted({slot[p]})
  /\ UNCHANGED <<at, failed, busy, world, queue, user, by, life>>

\* cancel() on the handle that add_reader() returned: it stays registered.
Cancel(h) ==
  /\ at[h] # NoPlace /\ h \notin cancelled
  /\ cancelled' = cancelled \cup {h}
  /\ task' = Aborted({h})
  /\ UNCHANGED <<slot, at, failed, busy, world, queue, user, by, life>>

CallSoon(c) ==
  /\ user # NoHandle /\ by[c] = NoHandle /\ loop # "closed"
  /\ by' = [by EXCEPT ![c] = user]
  /\ queue' = Append(queue, c)
  /\ UNCHANGED <<sel, task, failed, busy, world, user, life>>

-----------------------------------------------------------------------------
(* The operating system and its users.                                      *)

\* Only where it makes a difference: somebody may be waiting there.
Changes(p) ==
  /\ nursery = "open" /\ \E h \in Handle : at[h] = p
  /\ ready' = IF p \in ready THEN ready \ {p} ELSE ready \cup {p}
  /\ UNCHANGED <<sel, task, failed, busy, open, closeFiles, queue, user, by, life>>

\* Who has marked a descriptor leaves closing it to the loop.
CloseFd(fd) ==
  /\ fd \in open \ closeFiles
  /\ open' = open \ {fd}
  /\ UNCHANGED <<sel, task, failed, busy, ready, closeFiles, queue, user, by, life>>

\* autoclose(), no_autoclose()
Mark(fd) ==
  /\ closeFiles' = IF fd \in closeFiles THEN closeFiles \ {fd} ELSE closeFiles \cup {fd}
  /\ fd \in open
  /\ UNCHANGED <<sel, task, failed, busy, ready, open, queue, user, by, life>>

-----------------------------------------------------------------------------
(* The task of a handler, from one checkpoint to the next.                  *)

AtTop(h) == task[h] \in {"starting", "synced"} /\ user = NoHandle

Taken(h) == \E g \in Handle \ {h} : at[g] = at[h] /\ task[g] = "waiting"

\* "if handle._cancelled: break"
Breaks(h) ==
  /\ AtTop(h) \/ (task[h] = "woken" /\ user = NoHandle)
  /\ h \in cancelled
  /\ Becomes(h, "ended")
  /\ UNCHANGED <<sel, failed, busy, world, queue, user, by, life>>

\* wait_ready(fd) raises, as another task waits there or the descriptor has
\* been closed, and handle._raise() reports it.
WaitFails(h) ==
  /\ AtTop(h) /\ h \notin cancelled
  /\ Taken(h) \/ at[h][1] \notin open
  /\ Becomes(h, "ended")
  /\ failed' = failed \cup {h}
  /\ busy' = IF Taken(h) THEN busy \cup {h} ELSE busy
  /\ UNCHANGED <<sel, world, queue, user, by, life>>

\* wait_ready(fd) blocks, or is cancelled with the nursery.
Waits(h) ==
  /\ AtTop(h) /\ h \notin cancelled
  /\ ~Taken(h) /\ at[h][1] \in open
  /\ Becomes(h, IF nursery = "open" THEN "waiting" ELSE "ended")
  /\ UNCHANGED <<sel, failed, busy, world, queue, user, by, life>>

\* Trio polls the descriptor and reschedules the task, which from then on
\* cannot be cancelled out of its sleep.
Wake(h) ==
  /\ task[h] = "waiting" /\ at[h] \in ready /\ at[h][1] \in open
  /\ Becomes(h, "woken")
  /\ UNCHANGED <<sel, failed, busy, world, queue, user, by, life>>

\* handle._run()
Runs(h) ==
  /\ task[h] = "woken" /\ user = NoHandle /\ h \notin cancelled
  /\ Becomes(h, "calling")
  /\ user' = h
  /\ UNCHANGED <<sel, failed, busy, world, queue, by, life>>

\* Mutant of Returns: does not synchronize.
ReturnsToTop(h) ==
  /\ user = h /\ user' = NoHandle
  /\ Becomes(h, "synced")
  /\ UNCHANGED <<sel, failed, busy, world, queue, by, life>>

\* Mutant of Returns: a handler for one event.
ReturnsOnce(h) ==
  /\ user = h /\ user' = NoHandle
  /\ Becomes(h, "ended")
  /\ UNCHANGED <<sel, failed, busy, world, queue, by, life>>

\* Mutant of Returns: waits for an event that nobody sets.
ReturnsUnqueued(h) ==
  /\ user = h /\ user' = NoHandle
  /\ Becomes(h, IF h \in cancelled \/ nursery # "open" THEN "ended" ELSE "syncing")
  /\ UNCHANGED <<sel, failed, busy, world, queue, by, life>>

\* The callback returns and synchronize() queues the setting of its event,
\* then waits for it unless it is cancelled there.
Returns(h) ==
  /\ user = h /\ user' = NoHandle
  /\ queue' = Append(queue, h)
  /\ Becomes(h, IF h \in cancelled \/ nursery # "open" THEN "ended" ELSE "syncing")
  /\ UNCHANGED <<sel, failed, busy, world, by, life>>

\* The callback raises SystemExit, which fails the nursery.
Exits(h) ==
  /\ user = h /\ user' = NoHandle
  /\ task' = [Aborted(Handle) EXCEPT ![h] = "ended"]
  /\ nursery' = "cancelled"
  /\ UNCHANGED <<sel, failed, busy, world, queue, by, loop>>

-----------------------------------------------------------------------------
(* The loop, as far as it matters here: see EventLoop and OpenLoop.         *)

\* The loop, or the drain of its exit, calls the oldest callback; that of
\* synchronize() wakes its task.
Serve ==
  /\ queue # <<>> /\ user = NoHandle
  /\ loop = "running" \/ nursery = "closed"
  /\ task' = [h \in Handle |->
                IF h = Head(queue) /\ task[h] = "syncing" THEN "synced" ELSE task[h]]
  /\ queue' = Tail(queue)
  /\ UNCHANGED <<sel, failed, busy, world, user, by, life>>

\* Somebody calls stop() early.
LoopStops ==
  /\ loop = "running" /\ loop' = "stopped"
  /\ UNCHANGED <<sel, task, failed, busy, world, queue, user, by, nursery>>

\* open_loop() cancels its tasks, or one of them has failed.
NurseryCancelled ==
  /\ nursery = "open" /\ nursery' = "cancelled"
  /\ task' = Aborted(Handle)
  /\ UNCHANGED <<sel, failed, busy, world, queue, user, by, loop>>

NurseryCloses ==
  /\ nursery = "cancelled" /\ nursery' = "closed"
  /\ \A h \in Handle : task[h] \in {"none", "ended"}
  /\ UNCHANGED <<sel, task, failed, busy, world, queue, user, by, loop>>

\* _cancel_fds() at the end of _main_loop_exit(): no task is left to cancel;
\* marked descriptors are closed if they are still registered.
LoopExit ==
  /\ loop # "closed" /\ nursery = "closed" /\ queue = <<>>
  /\ loop' = "closed"
  /\ open' = open \ {fd \in closeFiles :
                       \E d \in {"read", "write"} : slot[<<fd, d>>] # NoHandle}
  /\ UNCHANGED <<sel, task, failed, busy, ready, closeFiles, queue, user, by, nursery>>

-----------------------------------------------------------------------------
TaskStep(h) == Breaks(h) \/ WaitFails(h) \/ Waits(h) \/ Runs(h)

Next ==
  \/ \E h \in Handle, p \in Place : Add(h, p)
  \/ \E p \in Place : Remove(p) \/ Changes(p)
  \/ \E c \in Callback : CallSoon(c)
  \/ \E fd \in Fd : CloseFd(fd) \/ Mark(fd)
  \/ \E h \in Handle :
       Cancel(h) \/ TaskStep(h) \/ Wake(h) \/ Returns(h) \/ Exits(h)
  \/ Serve \/ LoopStops \/ NurseryCancelled \/ NurseryCloses \/ LoopExit

Spec == Init /\ [][Next]_vars

(* Trio polls in every pass and runs each runnable task once per pass, even *)
(* if others are always runnable too; hence strong fairness.  A callback    *)
(* that did not end would block the thread.                                 *)
FairSpec ==
  /\ Spec
  /\ SF_vars(Serve)
  /\ \A h \in Handle :
       SF_vars(TaskStep(h)) /\ SF_vars(Wake(h)) /\ WF_vars(Returns(h) \/ Exits(h))

-----------------------------------------------------------------------------
(* Properties.                                                              *)

(* No handler ever meets another at its descriptor: replacing, removing or  *)
(* cancelling one ends its wait before the next begins, also when it is     *)
(* done from its own callback or before its task has started.  Otherwise    *)
(* the new handler would be lost to trio's BusyResourceError.               *)
NeverBusy == busy = {}

(* As long as the program runs, a registered handler that nobody cancelled  *)
(* has a task that serves it; only one that reported an error has not.      *)
RegisteredIsWatched ==
  \A p \in Place :
    slot[p] \in Handle \ (cancelled \cup failed) /\ nursery = "open" =>
      task[slot[p]] \notin {"none", "ended"}

(* A callback is not called again before what it scheduled has been served: *)
(* asyncio's protocols rely on it, or they would be called without end for  *)
(* the same data.                                                           *)
ServedBetweenCalls ==
  [][\A h \in Handle, c \in Callback :
       user # h /\ user' = h /\ by[c] = h => c \notin SeqSet(queue)]_vars

(* A descriptor that stays ready has its handler called again and again, or *)
(* the program has stopped the loop, or removed or failed the handler.      *)
Serviceable(h) ==
  /\ at[h] \in ready /\ at[h][1] \in open
  /\ slot[at[h]] = h /\ h \notin cancelled \cup failed
  /\ loop = "running" /\ nursery = "open"

ReadyIsServed ==
  \A h \in Handle : <>[](at[h] # NoPlace /\ Serviceable(h)) => []<>(user = h)

(* What ReadyIsServed rests on: a handler that is to be called has a task   *)
(* that waits for nothing but its descriptor, where no other is in its way, *)
(* or for an event whose setting is in the channel.                         *)
CallIsDue ==
  \A h \in Handle : at[h] # NoPlace /\ Serviceable(h) =>
    /\ task[h] \notin {"none", "ended"} /\ ~Taken(h)
    /\ task[h] = "syncing" => h \in SeqSet(queue)
    /\ task[h] = "calling" => user = h

=============================================================================
