--------------------------- MODULE RunAioGenerator ---------------------------
(***************************************************************************)
(* run_aio_generator() (_util.py): a Trio task iterates over an asyncio    *)
(* async generator.  Each item is read by an asyncio task, consume_next(), *)
(* that reschedules the Trio task; abort_cb() cancels that read when the   *)
(* scope of the Trio task is cancelled.                                    *)
(***************************************************************************)
EXTENDS Naturals

CONSTANTS
  Consumer,   \* Trio tasks, each with a generator of its own
  MaxItems,   \* bound on the items a generator has
  Handling,   \* those whose generator may handle CancelledError: yield, end or fail
  Exposed,    \* those whose reads other asyncio code (or the generator) may cancel
  Fatal       \* those that may raise SystemExit, KeyboardInterrupt or the like

ASSUME GeneratorAssumption ==
  /\ MaxItems \in Nat
  /\ Handling \cup Exposed \cup Fatal \subseteq Consumer

VARIABLES
  consumer,   \* the Trio task: in its own code, waiting for a read, ...
  cscope,     \* is the cancel scope around the iteration cancelled?
  read,       \* the asyncio task current_read
  taken,      \* items the generator has produced
  yielded,    \* items run_aio_generator() has yielded
  stray       \* history: reschedule() was called on a task not waiting for it

vars == <<consumer, cscope, read, taken, yielded, stray>>

TypeOK ==
  /\ consumer \in [Consumer -> {"user", "waiting", "item", "stop", "error",
                                "Cancelled", "over"}]
  /\ cscope \in [Consumer -> BOOLEAN]
  /\ read \in [Consumer -> {"none", "running", "cancelling", "over"}]
  /\ taken \in [Consumer -> 0 .. MaxItems]
  /\ yielded \in [Consumer -> 0 .. MaxItems]
  /\ stray \in [Consumer -> BOOLEAN]

Init ==
  /\ consumer = [c \in Consumer |-> "user"]
  /\ cscope = [c \in Consumer |-> FALSE]
  /\ read = [c \in Consumer |-> "none"]
  /\ taken = [c \in Consumer |-> 0]
  /\ yielded = [c \in Consumer |-> 0]
  /\ stray = [c \in Consumer |-> FALSE]

-----------------------------------------------------------------------------
(* The Trio task.                                                           *)

\* Mutant of Abort: the read goes on.
AbortOnly(c) ==
  /\ consumer' = [consumer EXCEPT ![c] = "Cancelled"]
  /\ UNCHANGED read

\* current_read.cancel() returns whether the read was still unfinished, and
\* abort_cb reports success if it was.
Abort(c) ==
  \/ /\ read[c] # "over"
     /\ read' = [read EXCEPT ![c] = "cancelling"]
     /\ consumer' = [consumer EXCEPT ![c] = "Cancelled"]
  \/ /\ read[c] = "over"
     /\ UNCHANGED <<read, consumer>>

\* ensure_future(consume_next()), then park; a task that parks in a cancelled
\* scope is aborted at once.
NextItem(c) ==
  /\ consumer[c] = "user"
  /\ read' = [read EXCEPT ![c] = IF cscope[c] THEN "cancelling" ELSE "running"]
  /\ consumer' = [consumer EXCEPT ![c] = IF cscope[c] THEN "Cancelled" ELSE "waiting"]
  /\ UNCHANGED <<cscope, taken, yielded, stray>>

CancelScope(c) ==
  /\ ~cscope[c] /\ consumer[c] # "over"
  /\ cscope' = [cscope EXCEPT ![c] = TRUE]
  /\ IF consumer[c] = "waiting" THEN Abort(c) ELSE UNCHANGED <<consumer, read>>
  /\ UNCHANGED <<taken, yielded, stray>>

\* Mutant of Yield: a checkpoint with the item in hand.
YieldCheckpoint(c) ==
  /\ consumer[c] = "item"
  /\ consumer' = [consumer EXCEPT ![c] = IF cscope[c] THEN "Cancelled" ELSE "user"]
  /\ yielded' = [yielded EXCEPT ![c] = IF cscope[c] THEN @ ELSE @ + 1]
  /\ UNCHANGED <<cscope, read, taken, stray>>

\* wait_task_rescheduled() returned an item, which is yielded.
Yield(c) ==
  /\ consumer[c] = "item"
  /\ consumer' = [consumer EXCEPT ![c] = "user"]
  /\ yielded' = [yielded EXCEPT ![c] = @ + 1]
  /\ UNCHANGED <<cscope, read, taken, stray>>

\* It returned STOP, raised the generator's exception, or raised Cancelled.
Leave(c) ==
  /\ consumer[c] \in {"stop", "error", "Cancelled"}
  /\ consumer' = [consumer EXCEPT ![c] = "over"]
  /\ UNCHANGED <<cscope, read, taken, yielded, stray>>

\* The user breaks out of the loop.
Break(c) ==
  /\ consumer[c] = "user"
  /\ consumer' = [consumer EXCEPT ![c] = "over"]
  /\ UNCHANGED <<cscope, read, taken, yielded, stray>>

-----------------------------------------------------------------------------
(* consume_next().                                                          *)

\* trio.lowlevel.reschedule(task, result)
Reschedule(c, result) ==
  \/ /\ consumer[c] = "waiting"
     /\ consumer' = [consumer EXCEPT ![c] = result]
     /\ UNCHANGED stray
  \/ /\ consumer[c] # "waiting"
     /\ stray' = [stray EXCEPT ![c] = TRUE]
     /\ UNCHANGED consumer

\* Mutant of ReadEnds: StopAsyncIteration is not handled.
ReadEndsSilently(c) ==
  /\ read[c] = "running" \/ (read[c] = "cancelling" /\ c \in Handling)
  /\ read' = [read EXCEPT ![c] = "over"]
  /\ \/ /\ taken[c] < MaxItems
        /\ taken' = [taken EXCEPT ![c] = @ + 1]
        /\ Reschedule(c, "item")
     \/ UNCHANGED <<consumer, stray, taken>>
  /\ UNCHANGED <<cscope, yielded>>

\* __anext__() yields, ends or fails; after a request to cancel only if the
\* generator handles CancelledError.  What is no Exception is not caught, and
\* ends consume_next() without a call of reschedule().
ReadEnds(c) ==
  /\ read[c] = "running" \/ (read[c] = "cancelling" /\ c \in Handling)
  /\ read' = [read EXCEPT ![c] = "over"]
  /\ \/ /\ taken[c] < MaxItems
        /\ taken' = [taken EXCEPT ![c] = @ + 1]
        /\ Reschedule(c, "item")
     \/ /\ Reschedule(c, "stop") \/ Reschedule(c, "error")
        /\ UNCHANGED taken
     \/ c \in Fatal /\ UNCHANGED <<consumer, stray, taken>>
  /\ UNCHANGED <<cscope, yielded>>

\* consume_next() gets CancelledError and does not reschedule.
ReadCancelled(c) ==
  /\ read[c] = "cancelling"
  /\ read' = [read EXCEPT ![c] = "over"]
  /\ UNCHANGED <<consumer, cscope, taken, yielded, stray>>

OutsiderCancels(c) ==
  /\ c \in Exposed /\ read[c] = "running"
  /\ read' = [read EXCEPT ![c] = "cancelling"]
  /\ UNCHANGED <<consumer, cscope, taken, yielded, stray>>

-----------------------------------------------------------------------------
Next ==
  \E c \in Consumer :
    \/ NextItem(c) \/ CancelScope(c) \/ Yield(c) \/ Leave(c) \/ Break(c)
    \/ ReadEnds(c) \/ ReadCancelled(c) \/ OutsiderCancels(c)

Spec == Init /\ [][Next]_vars

(* Both schedulers run; the generator itself may wait for ever, but not once*)
(* CancelledError is thrown into it.                                        *)
Fairness ==
  \A c \in Consumer :
    /\ WF_vars(Yield(c)) /\ WF_vars(Leave(c))
    /\ WF_vars(read[c] = "cancelling" /\ (ReadEnds(c) \/ ReadCancelled(c)))

FairSpec == Spec /\ Fairness

-----------------------------------------------------------------------------
(* Properties.                                                              *)

(* "Once we are cancelled, we do not call reschedule() anymore": a read     *)
(* reschedules its task only while the task waits for that read, provided   *)
(* the generator lets CancelledError pass.                                  *)
NoStrayReschedule == \A c \in Consumer \ Handling : ~stray[c]

(* No item of such a generator is lost or yielded twice: what was taken from*)
(* it has been yielded or is about to be, whoever cancelled what.           *)
EveryItemYielded ==
  \A c \in Consumer \ Handling :
    taken[c] = yielded[c] + (IF consumer[c] = "item" THEN 1 ELSE 0)

(* A task that is cancelled before or while it waits for an item gets out,  *)
(* and leaves no read behind, if nobody but its scope cancels the read and  *)
(* the generator raises nothing but Exceptions: abort_cb finds a read to    *)
(* cancel or an answer has been given.                                      *)
CancelEndsWait ==
  \A c \in Consumer \ (Exposed \cup Fatal) :
    cscope[c] /\ consumer[c] # "user" ~>
      consumer[c] \in {"user", "over"} /\ read[c] \in {"none", "over"}

(* What CancelEndsWait rests on: such a task only waits for a read that is  *)
(* under way, and not in a cancelled scope, as abort_cb ends the wait at    *)
(* once.                                                                    *)
WaitsForRead ==
  \A c \in Consumer \ (Exposed \cup Fatal) :
    consumer[c] = "waiting" => read[c] = "running" /\ ~cscope[c]

=============================================================================
