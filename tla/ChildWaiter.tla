----------------------------- MODULE ChildWaiter -----------------------------
(***************************************************************************)
(* Waiting for child processes (_child.py): wait_for_child(), the          *)
(* ProcessWaiters shared through _children, and the background thread that *)
(* blocks in waitpid().                                                    *)
(*                                                                         *)
(* The system may use a pid again for a new child as soon as the old one is*)
(* reaped, whatever the threads are about to do.  _children is a           *)
(* WeakValueDictionary: a ProcessWaiter that nobody uses any more is gone. *)
(***************************************************************************)
EXTENDS Naturals

CONSTANTS
  Pid,       \* child processes
  Task,      \* Trio tasks that call wait_for_child()
  Waiter,    \* ProcessWaiter objects; a bound, no more are created
  Waits,     \* Waits[t]: the pid that t waits for
  MayRetry,  \* the tasks that may wait again after a cancellation
  Elsewhere, \* may other code of the process call waitpid()?
  Births,    \* Births[p], a bound: how many children in turn get the pid p
  NoWaiter   \* _children has no entry

ASSUME TasksAssumption ==
  /\ Waits \in [Task -> Pid]
  /\ MayRetry \subseteq Task /\ Elsewhere \in BOOLEAN
  /\ NoWaiter \notin Waiter
  /\ Births \in [Pid -> Nat \ {0}]

\* The children, by the pid and the turn in which they got it.
Child == UNION {{p} \X (1 .. Births[p]) : p \in Pid}

VARIABLES
  child,     \* the process that has each pid
  birth,     \* which of the children with that pid it is
  reaper,    \* history: who has reaped each child
  children,  \* _children: the ProcessWaiter of each pid
  pid,       \* __pid of each ProcessWaiter created so far
  mine,      \* the ProcessWaiter each task uses
  result,    \* __result of each ProcessWaiter
  thread,    \* its __thread
  target,    \* which of the children with that pid the thread's waitpid() is for
  event,     \* its __event is set
  call,      \* the wait_for_child() call of each task, and how it ended
  asked,     \* history: the child that had the pid when the task called
  source,    \* history: the child whose status __result is
  overtaken  \* history: the ProcessWaiters that a reused pid has thrown off

vars == <<child, birth, reaper, children, pid, mine, result, thread, target, event, call,
          asked, source, overtaken>>
history == <<asked, source, overtaken>>
system == <<child, birth, reaper>>

Answers == {"none", "status", "NOT_FOUND"}

TypeOK ==
  /\ child \in [Pid -> {"running", "zombie", "reaped"}]
  /\ birth \in [Pid -> Nat] /\ \A p \in Pid : <<p, birth[p]>> \in Child
  /\ reaper \in [Child -> {"nobody", "us", "elsewhere"}]
  /\ children \in [Pid -> Waiter \cup {NoWaiter}]
  /\ DOMAIN pid \subseteq Waiter /\ \A w \in DOMAIN pid : pid[w] \in Pid
  /\ mine \in [Task -> Waiter \cup {NoWaiter}]
  /\ result \in [Waiter -> Answers]
  /\ thread \in [Waiter -> {"none", "starting", "waiting", "reaped", "failed", "posted",
                             "over", "died"}]
  /\ target \in [Waiter -> Nat]
  /\ event \in [Waiter -> BOOLEAN]
  /\ call \in [Task -> {"idle", "waiting", "cancelled"} \cup (Answers \ {"none"})]
  /\ asked \in [Task -> Nat] /\ source \in [Waiter -> Nat]
  /\ overtaken \subseteq Waiter

Init ==
  /\ child = [p \in Pid |-> "running"]
  /\ birth = [p \in Pid |-> 1]
  /\ reaper = [b \in Child |-> "nobody"]
  /\ children = [p \in Pid |-> NoWaiter]
  /\ pid = <<>>
  /\ mine = [t \in Task |-> NoWaiter]
  /\ result = [w \in Waiter |-> "none"]
  /\ thread = [w \in Waiter |-> "none"] /\ target = [w \in Waiter |-> 1]
  /\ event = [w \in Waiter |-> FALSE]
  /\ call = [t \in Task |-> "idle"]
  /\ asked = [t \in Task |-> 1] /\ source = [w \in Waiter |-> 1]
  /\ overtaken = {}

-----------------------------------------------------------------------------
(* The operating system.                                                    *)

ChildExits(p) ==
  /\ child[p] = "running"
  /\ child' = [child EXCEPT ![p] = "zombie"]
  /\ UNCHANGED <<birth, reaper, children, pid, mine, result, thread, target, event, call,
                 history>>

\* waitpid() on a zombie.
Reaps(p, who) ==
  /\ child[p] = "zombie"
  /\ child' = [child EXCEPT ![p] = "reaped"]
  /\ reaper' = [reaper EXCEPT ![<<p, birth[p]>>] = who]
  /\ UNCHANGED birth

ReapedElsewhere(p) ==
  /\ Elsewhere
  /\ Reaps(p, "elsewhere")
  /\ UNCHANGED <<children, pid, mine, result, thread, target, event, call,
                 history>>

\* The system starts another child with the pid of a reaped one.  This throws
\* off the ProcessWaiters whose thread has reaped the old child and not yet said
\* so, or has not yet called waitpid() for it.
PidReused(p) ==
  /\ child[p] = "reaped" /\ birth[p] < Births[p]
  /\ birth' = [birth EXCEPT ![p] = @ + 1]
  /\ child' = [child EXCEPT ![p] = "running"]
  /\ overtaken' = overtaken \cup
       {w \in DOMAIN pid : pid[w] = p /\ thread[w] \in {"starting", "reaped"}}
  /\ UNCHANGED <<reaper, children, pid, mine, result, thread, target, event, call,
                 asked, source>>

-----------------------------------------------------------------------------
(* wait_for_child() up to its first checkpoint.                             *)

\* A task in wait() or the thread refers to the ProcessWaiter.
InUse(w) ==
  /\ w \in DOMAIN pid
  /\ \/ \E t \in Task : call[t] = "waiting" /\ mine[t] = w
     \/ thread[w] \in {"starting", "waiting", "reaped", "failed"}

\* Nobody does, but it is not freed yet: its thread is about to return, or the
\* ChildProcessError it raised and the frame of wait() are a reference cycle.
Lingers(w) ==
  thread[w] = "posted" \/ \E t \in Task : call[t] = "NOT_FOUND" /\ mine[t] = w

\* ProcessWaiter.__new__ and __init__: the existing object or a new one.
Use(t, w) ==
  /\ mine' = [mine EXCEPT ![t] = w]
  /\ asked' = [asked EXCEPT ![t] = birth[Waits[t]]]
  /\ \/ /\ children[Waits[t]] = w
        /\ InUse(w) \/ Lingers(w)
        /\ UNCHANGED pid
     \/ /\ ~InUse(children[Waits[t]])
        /\ w \notin DOMAIN pid
        /\ pid' = [v \in DOMAIN pid \cup {w} |-> IF v = w THEN Waits[t] ELSE pid[v]]

\* What a poll leaves alone.
kept == <<target, event, overtaken>>

Ends(t, answer) == call' = [call EXCEPT ![t] = answer]

\* wait() finds the result known.
AlreadyKnown(t, w) ==
  /\ result[w] # "none"
  /\ Ends(t, result[w])
  /\ UNCHANGED <<system, children, result, thread, source, kept>>

\* Mutant of PollReaps: the status is forgotten, and a thread waits for it.
PollForgets(t, w) ==
  /\ result[w] = "none"
  /\ Reaps(Waits[t], "us")
  /\ children' = [children EXCEPT ![Waits[t]] = NoWaiter]
  /\ thread' = [thread EXCEPT ![w] = "starting"]
  /\ Ends(t, "waiting")
  /\ UNCHANGED <<result, source, kept>>

\* _wait_pid(blocking=False) gets the status.
PollReaps(t, w) ==
  /\ result[w] = "none"
  /\ Reaps(Waits[t], "us")
  /\ children' = [children EXCEPT ![Waits[t]] = NoWaiter]
  /\ result' = [result EXCEPT ![w] = "status"]
  /\ source' = [source EXCEPT ![w] = birth[Waits[t]]]
  /\ Ends(t, "status")
  /\ UNCHANGED <<thread, kept>>

\* It raises ChildProcessError.
PollFails(t, w) ==
  /\ result[w] = "none" /\ child[Waits[t]] = "reaped"
  /\ children' = [children EXCEPT ![Waits[t]] = w]
  /\ result' = [result EXCEPT ![w] = "NOT_FOUND"]
  /\ Ends(t, "NOT_FOUND")
  /\ UNCHANGED <<system, thread, source, kept>>

\* The child is alive: start the thread unless there is one, and wait.
PollWaits(t, w) ==
  /\ result[w] = "none" /\ child[Waits[t]] = "running"
  /\ children' = [children EXCEPT ![Waits[t]] = w]
  /\ thread' = [thread EXCEPT ![w] = IF @ = "none" THEN "starting" ELSE @]
  /\ Ends(t, "waiting")
  /\ UNCHANGED <<system, result, source, kept>>

WaitForChild(t) ==
  /\ call[t] = "idle" \/ (t \in MayRetry /\ call[t] = "cancelled")
  /\ \E w \in Waiter :
       /\ Use(t, w)
       /\ AlreadyKnown(t, w) \/ PollReaps(t, w) \/ PollFails(t, w) \/ PollWaits(t, w)

\* The task goes on after event.wait().
Wake(t) ==
  /\ call[t] = "waiting" /\ event[mine[t]]
  /\ Ends(t, result[mine[t]])
  /\ UNCHANGED <<system, children, pid, mine, result, thread, target, event, history>>

\* event.wait() is cancelled before the event is set; the thread stays.
CancelWait(t) ==
  /\ call[t] = "waiting" /\ ~event[mine[t]]
  /\ Ends(t, "cancelled")
  /\ UNCHANGED <<system, children, pid, mine, result, thread, target, event, history>>

-----------------------------------------------------------------------------
(* _wait_thread: the call of waitpid(), its return, what is done with its   *)
(* result, and the post to the Trio thread are steps between which Trio's   *)
(* thread and the system act.                                               *)

ThreadBecomes(w, s) == thread' = [thread EXCEPT ![w] = s]

\* waitpid() is for the child that has the pid when it is called.
ThreadEnters(w) ==
  /\ thread[w] = "starting"
  /\ ThreadBecomes(w, "waiting")
  /\ target' = [target EXCEPT ![w] = birth[pid[w]]]
  /\ UNCHANGED <<system, children, pid, mine, result, event, call, history>>

\* It returns the child's status, or fails once another has reaped the child.
ThreadWaitpid(w) ==
  /\ thread[w] = "waiting"
  /\ \/ /\ target[w] = birth[pid[w]]
        /\ Reaps(pid[w], "us") /\ ThreadBecomes(w, "reaped")
     \/ /\ target[w] # birth[pid[w]] \/ child[pid[w]] = "reaped"
        /\ ThreadBecomes(w, "failed") /\ UNCHANGED system
  /\ UNCHANGED <<children, pid, mine, result, target, event, call, history>>

\* Mutant of ThreadStores: ChildProcessError ends the thread.
ThreadDies(w) ==
  /\ \/ /\ thread[w] = "reaped"
        /\ children' = [children EXCEPT ![pid[w]] = NoWaiter]
        /\ result' = [result EXCEPT ![w] = "status"]
        /\ source' = [source EXCEPT ![w] = target[w]]
        /\ ThreadBecomes(w, "posted")
     \/ /\ thread[w] = "failed"
        /\ ThreadBecomes(w, "over")
        /\ UNCHANGED <<children, result, source>>
  /\ UNCHANGED <<system, pid, mine, target, event, call, asked, overtaken>>

\* Mutant of ThreadStores: the ProcessWaiter stays in _children.
ThreadKeepsEntry(w) ==
  /\ \/ /\ thread[w] = "reaped"
        /\ result' = [result EXCEPT ![w] = "status"]
        /\ source' = [source EXCEPT ![w] = target[w]]
     \/ /\ thread[w] = "failed"
        /\ result' = [result EXCEPT ![w] = "NOT_FOUND"]
        /\ UNCHANGED source
  /\ ThreadBecomes(w, "posted")
  /\ UNCHANGED <<system, children, pid, mine, target, event, call, asked, overtaken>>

\* The entry in _children is deleted, also if it is another's by now, and the
\* status stored.  If there is none any more, KeyError ends the thread.
ThreadStores(w) ==
  /\ LET entry == children[pid[w]] IN
     \/ /\ thread[w] = "reaped"
        /\ entry \in DOMAIN pid /\ (InUse(entry) \/ Lingers(entry))
        /\ children' = [children EXCEPT ![pid[w]] = NoWaiter]
        /\ overtaken' = overtaken \cup ({entry} \ {w})
        /\ result' = [result EXCEPT ![w] = "status"]
        /\ source' = [source EXCEPT ![w] = target[w]]
        /\ ThreadBecomes(w, "posted")
     \/ /\ thread[w] = "reaped" /\ ~InUse(entry)
        /\ ThreadBecomes(w, "died")
        /\ UNCHANGED <<children, result, source, overtaken>>
     \/ /\ thread[w] = "failed"
        /\ result' = [result EXCEPT ![w] = "NOT_FOUND"]
        /\ ThreadBecomes(w, "posted")
        /\ UNCHANGED <<children, source, overtaken>>
  /\ UNCHANGED <<system, pid, mine, target, event, call, asked>>

\* Trio makes the run_sync_soon() call.
EventSet(w) ==
  /\ thread[w] = "posted"
  /\ event' = [event EXCEPT ![w] = TRUE]
  /\ ThreadBecomes(w, "over")
  /\ UNCHANGED <<system, children, pid, mine, result, target, call, history>>

-----------------------------------------------------------------------------
Next ==
  \/ \E p \in Pid : ChildExits(p) \/ ReapedElsewhere(p) \/ PidReused(p)
  \/ \E t \in Task : WaitForChild(t) \/ Wake(t) \/ CancelWait(t)
  \/ \E w \in Waiter : ThreadEnters(w) \/ ThreadWaitpid(w) \/ ThreadStores(w) \/ EventSet(w)

Spec == Init /\ [][Next]_vars

(* Threads and Trio run; a child need not exit.                             *)
Fairness ==
  /\ \A t \in Task : WF_vars(Wake(t))
  /\ \A w \in Waiter :
       /\ WF_vars(ThreadEnters(w)) /\ WF_vars(ThreadWaitpid(w))
       /\ WF_vars(ThreadStores(w)) /\ WF_vars(EventSet(w))

FairSpec == Spec /\ Fairness

-----------------------------------------------------------------------------
(* Properties.                                                              *)

\* Only one wait is ever made for the child.
WaitedOnce(p) ==
  \A t, u \in Task : Waits[t] = p /\ Waits[u] = p => t = u /\ t \notin MayRetry

(* A task that is alone in waiting for its child gets the child's status,   *)
(* unless other code has reaped the child: the poll and the thread do not   *)
(* take it from each other.                                                 *)
AloneGetsStatus ==
  \A t \in Task :
    WaitedOnce(Waits[t]) /\ call[t] = "NOT_FOUND" =>
      reaper[<<Waits[t], asked[t]>>] = "elsewhere"

(* The status that a task gets is that of the child that had the pid when   *)
(* it called, also if it shares the ProcessWaiter of an earlier call or the *)
(* pid belongs to another child by then; unless the pid was used again      *)
(* before the thread called waitpid() or between its return and the removal *)
(* of the entry in _children.                                               *)
OwnStatus ==
  \A t \in Task :
    call[t] = "status" /\ mine[t] \notin overtaken => source[mine[t]] = asked[t]

(* A task that waits is answered once its child has exited, also if it      *)
(* shares the waiter or waits again: neither a thread that found nothing to *)
(* reap nor another waiter that was cancelled keeps it, nor a pid that is   *)
(* used again but in those two windows.                                     *)
ExitIsNoticed ==
  \A t \in Task : call[t] = "waiting" /\ child[Waits[t]] # "running" ~>
    call[t] # "waiting" \/ mine[t] \in overtaken

\* The thread's waitpid() has failed, or will: its child is another's by now.
Fails(w) ==
  thread[w] = "failed" \/ (thread[w] = "waiting" /\ target[w] # birth[pid[w]])

(* What ExitIsNoticed rests on: while a task waits, the event is set and    *)
(* the answer stored, or a thread is under way that will set it: it waits   *)
(* for the task's child, or for none.                                       *)
AnswerIsDue ==
  \A t \in Task : call[t] = "waiting" /\ mine[t] \notin overtaken =>
    \/ event[mine[t]] /\ result[mine[t]] # "none"
    \/ thread[mine[t]] = "posted"
    \/ Fails(mine[t])
    \/ /\ thread[mine[t]] \in {"starting", "waiting", "reaped"}
       /\ pid[mine[t]] = Waits[t] /\ asked[t] = birth[Waits[t]]
=============================================================================
