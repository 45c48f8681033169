----------------------------- MODULE LoopContract -----------------------------
(***************************************************************************)
(* What an event loop promises those who schedule on it, without channel,  *)
(* scheduler, suspension points or shutdown: handles are taken one at a    *)
(* time in the order they were accepted; a timer's turn arms it, and an    *)
(* armed timer fires later; a cancelled handle is skipped; a handle is     *)
(* disposed of once.  EventLoop implements it.                             *)
(***************************************************************************)
EXTENDS Sequences

CONSTANTS
  Handle,       \* whatever can be scheduled
  TimerHandle,  \* those that wait for a deadline
  TaskHandle    \* those that start a Trio task

VARIABLES
  todo,       \* accepted and not yet taken, oldest first
  armed,      \* timers waiting for their deadline
  dropped,    \* handles whose cancel() was called
  status      \* what the scheduler of a handle can tell about it

cvars == <<todo, armed, dropped, status>>

CInit ==
  /\ todo = <<>> /\ armed = {} /\ dropped = {}
  /\ status = [h \in Handle |-> "new"]

Settle(h, s) == status' = [status EXCEPT ![h] = s]

Accept(h) ==
  /\ status[h] = "new"
  /\ todo' = Append(todo, h)
  /\ Settle(h, "accepted")
  /\ UNCHANGED <<armed, dropped>>

Refuse(h) ==
  /\ status[h] = "new"
  /\ Settle(h, "refused")
  /\ UNCHANGED <<todo, armed, dropped>>

\* A handle may be cancelled at any time; once it is served that is in vain.
Drop(h) ==
  /\ dropped' = dropped \cup {h}
  /\ UNCHANGED <<todo, armed, status>>

\* It is called unless cancelled.
Resolve(h) == Settle(h, IF h \in dropped THEN "skipped" ELSE "ran")

Serve ==
  /\ todo # <<>>
  /\ Head(todo) \notin TimerHandle
  /\ todo' = Tail(todo)
  /\ \/ Resolve(Head(todo))
     \/ Head(todo) \in TaskHandle /\ Settle(Head(todo), "lost")
  /\ UNCHANGED <<armed, dropped>>

ArmTimer ==
  /\ todo # <<>>
  /\ Head(todo) \in TimerHandle
  /\ todo' = Tail(todo)
  /\ armed' = armed \cup {Head(todo)}
  /\ UNCHANGED <<dropped, status>>

Fire(t) ==
  /\ t \in armed
  /\ armed' = armed \ {t}
  /\ Resolve(t)
  /\ UNCHANGED <<todo, dropped>>

\* The end of the loop cancels the timers, when nothing else is left to do.
Purge ==
  /\ todo = <<>>
  /\ dropped' = dropped \cup armed
  /\ status' = [h \in Handle |-> IF h \in armed THEN "skipped" ELSE status[h]]
  /\ armed' = {}
  /\ UNCHANGED todo

CNext ==
  \/ \E h \in Handle : Accept(h) \/ Refuse(h) \/ Drop(h)
  \/ Serve \/ ArmTimer \/ Purge
  \/ \E t \in TimerHandle : Fire(t)

Contract == CInit /\ [][CNext]_cvars

\* Those who submit several handles in a row, as asyncio's gather() does, may
\* be seen when they have done so.
AcceptedAfter(hs) ==
  [h \in Handle |-> IF \E i \in DOMAIN hs : hs[i] = h THEN "accepted" ELSE status[h]]

AcceptInARow(hs) ==
  /\ \A i \in DOMAIN hs : status[hs[i]] = "new"
  /\ \A i, j \in DOMAIN hs : hs[i] = hs[j] => i = j
  /\ todo' = todo \o hs
  /\ status' = AcceptedAfter(hs)
  /\ UNCHANGED <<armed, dropped>>

CNextInRows == CNext \/ \E hs \in Seq(Handle) : AcceptInARow(hs)

ContractInRows == CInit /\ [][CNextInRows]_cvars
=============================================================================
