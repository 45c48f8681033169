---------------------------- MODULE SignalHandlers ----------------------------
(***************************************************************************)
(* Signal handlers of the loop (_base.py): add_signal_handler(),           *)
(* remove_signal_handler(), _handle_sig(), and the removal of all handlers *)
(* when the loop is closed, on top of EventLoop.                           *)
(*                                                                         *)
(* One signal, whose handlers are added and removed one after the other.   *)
(* Python calls _handle_sig() in the main thread between two bytecodes, so *)
(* a signal may arrive between any two statements of the methods; Trio     *)
(* tasks and callbacks do not run there.                                   *)
(***************************************************************************)
EXTENDS EventLoop

CONSTANT Signals   \* the handles of add_signal_handler(), one per call

\* _handle_sig() posts a handle as a foreign thread does.
ASSUME SignalsAssumption == Signals \subseteq Threaded

VARIABLES
  disposition, \* what the process does on the signal: as before, or _handle_sig
  found,       \* what signal.signal() has returned to add_signal_handler()
  orig,        \* _orig_signals[sig]
  registered,  \* _signal_handlers[sig]
  step,        \* where the main thread is in one of the methods
  local,       \* h, the handle that the method is about to register or cancel
  struck,      \* history: _handle_sig() has raised an exception
  spared       \* history: the handle it has kept a method from cancelling

svars == <<disposition, found, orig, registered, step, local, struck, spared>>
sigvars == <<vars, svars>>

SigTypeOK ==
  /\ TypeOK
  /\ {disposition, found} \subseteq {"original", "_handle_sig"}
  /\ orig \in {"none", "original", "_handle_sig"}
  /\ registered \in Signals \cup {NoHandle}
  /\ step \in {"none", "installed", "stored", "popped", "cancelled", "restored", "closing"}
  /\ {local, spared} \subseteq Signals \cup {NoHandle}
  /\ struck \in BOOLEAN

SigInit ==
  /\ Init
  /\ disposition = "original" /\ found = "original" /\ orig = "none"
  /\ registered = NoHandle
  /\ step = "none" /\ local = NoHandle
  /\ struck = FALSE /\ spared = NoHandle

-----------------------------------------------------------------------------
(* add_signal_handler().                                                    *)

\* signal.signal() has installed _handle_sig(); its result is stored next.
AddBegin(h) ==
  /\ step = "none" /\ UserRuns /\ ~closed
  /\ registered = NoHandle /\ h \notin cancelled \cup {spared} /\ fate[h] = "new"
  /\ found' = disposition /\ disposition' = "_handle_sig"
  /\ step' = "installed" /\ local' = h
  /\ UNCHANGED <<vars, orig, registered, struck, spared>>

AddStores ==
  /\ step = "installed"
  /\ orig' = found
  /\ step' = "stored"
  /\ UNCHANGED <<vars, disposition, found, registered, local, struck, spared>>

AddRegisters ==
  /\ step = "stored"
  /\ registered' = local
  /\ step' = "none" /\ local' = NoHandle
  /\ UNCHANGED <<vars, disposition, found, orig, struck, spared>>

-----------------------------------------------------------------------------
(* remove_signal_handler(), called by the user or by asyncio's close().     *)

\* pop().  With no handler registered the method returns False.
RemovePops ==
  /\ \/ step = "none" /\ UserRuns
     \/ step = "closing"
  /\ registered # NoHandle
  /\ registered' = NoHandle /\ local' = registered
  /\ step' = "popped"
  /\ UNCHANGED <<vars, disposition, found, orig, struck, spared>>

\* Mutant of RemoveCancels: the handle is not cancelled.
RemoveForgets ==
  /\ step = "popped"
  /\ step' = "cancelled" /\ local' = NoHandle
  /\ UNCHANGED <<vars, disposition, found, orig, registered, struck, spared>>

\* h.cancel().
RemoveCancels ==
  /\ step = "popped"
  /\ cancelled' = cancelled \cup {local}
  /\ step' = "cancelled" /\ local' = NoHandle
  /\ UNCHANGED <<queue, entry, timers, when, now, pc, obj, fate, stopped, stopWait,
                 waiters, nursery, exit, closed, token, before>>
  /\ UNCHANGED <<disposition, found, orig, registered, struck, spared>>

RemoveRestores ==
  /\ step = "cancelled"
  /\ disposition' = orig
  /\ step' = "restored"
  /\ UNCHANGED <<vars, found, orig, registered, local, struck, spared>>

RemoveReturns ==
  /\ step = "restored"
  /\ orig' = "none"
  /\ step' = "none"
  /\ UNCHANGED <<vars, disposition, found, registered, local, struck, spared>>

-----------------------------------------------------------------------------
(* The signal arrives while _handle_sig() is installed.                     *)

\* _handle_sig() posts the handle.  A bound: once for each handle.
Post ==
  /\ disposition = "_handle_sig" /\ registered # NoHandle /\ token
  /\ fate[registered] = "new"
  /\ entry' = Append(entry, registered)
  /\ Becomes(registered, "posted")
  /\ UNCHANGED <<cancelled, chan, clock, halt, life, svars>>

\* There is no handler (KeyError) or no token (AttributeError): the exception
\* leaves the method that the main thread is in, or, as a KeyError in its try,
\* makes remove_signal_handler() return False.  A handle that was popped is then
\* not cancelled.  A bound: only the first exception is modelled.
Strike ==
  /\ disposition = "_handle_sig" /\ ~struck
  /\ registered = NoHandle \/ ~token
  /\ struck' = TRUE /\ spared' = IF step = "popped" THEN local ELSE NoHandle
  /\ step' = "none" /\ local' = NoHandle
  /\ UNCHANGED <<vars, disposition, found, orig, registered>>

-----------------------------------------------------------------------------
\* Mutant of CloseRemoves: asyncio's close() is not reached.
CloseForgets == step' = "none"

\* close() of the event loop, once it is closed, removes the handlers.
CloseRemoves ==
  step' = IF closed' /\ ~closed /\ registered # NoHandle THEN "closing" ELSE "none"

\* What the main thread does for the loop outside these methods.
MainSteps ==
  \/ Calls \/ EntryRun \/ LoopSteps \/ CallbackReturn \/ CallbackExits \/ TaskRuns
  \/ NurseryCloses \/ ExitSteps

OtherThreads ==
  \/ \E h \in Threaded \ Signals : ThreadCheck(h) \/ ThreadPost(h)
  \/ Tick

SigSteps ==
  \/ \E h \in Signals : AddBegin(h)
  \/ AddStores \/ AddRegisters
  \/ RemovePops \/ RemoveCancels \/ RemoveRestores \/ RemoveReturns
  \/ Post \/ Strike

SigNext ==
  \/ /\ step = "none" /\ MainSteps /\ CloseRemoves
     /\ UNCHANGED <<disposition, found, orig, registered, local, struck, spared>>
  \/ OtherThreads /\ UNCHANGED svars
  \/ SigSteps

SigSpec == SigInit /\ [][SigNext]_sigvars

-----------------------------------------------------------------------------
(* Properties.                                                              *)

(* A signal's callback is called only while it is registered: not after     *)
(* remove_signal_handler(), nor for the handler that was added next, even   *)
(* when the signal came before and its handle is in Trio's queue, in the    *)
(* channel, or in the hand of the loop; unless another signal came after    *)
(* the method's pop() and before its h.cancel(), which is then left out.    *)
CallsRegistered ==
  [][\A h \in Signals : fate[h] # "ran" /\ fate'[h] = "ran" => h \in {registered, spared}]_sigvars

(* The process answers the signal as before whenever no handler is          *)
(* registered, and when the loop is closed, however handlers came and went  *)
(* and the loop ended; unless a signal struck the methods in between.       *)
OriginalRestored ==
  step = "none" /\ ~struck =>
    /\ disposition = "original" <=> registered = NoHandle
    /\ closed => registered = NoHandle

=============================================================================
