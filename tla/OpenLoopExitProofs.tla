------------------------- MODULE OpenLoopExitProofs -------------------------
(***************************************************************************)
(* What open_loop() guarantees when it ends, for every number of asyncio   *)
(* tasks, Trio tasks, callbacks and generators: in which order its parts   *)
(* end, whoever cancels, fails or stops the loop meanwhile.                *)
(***************************************************************************)
EXTENDS OpenLoopExit, EventLoopProofs, FiniteSetTheorems

-----------------------------------------------------------------------------
(* The inductive invariants.                                                *)

\* Trio closes the nursery over no task, and starts none in it afterwards.
NurseryEmpty ==
  nursery # "open" =>
    /\ live = {} /\ pc # "starting"
    /\ \A a \in AioTasks : watch[a] \notin {"starting", "waiting"}

\* The nursery is closed by the teardown, and _main_loop_exit() follows it.
NurseryInv ==
  /\ nursery # "open" => body = "teardown"
  /\ exit # "no" => nursery # "open"
  /\ NurseryEmpty

\* The loop gives nobody a handle of its own callbacks to cancel.
OwnKept == cancelled \cap Own = {}

\* What was submitted when the body was left is ahead of the callback that
\* synchronize() waits for.
SyncInv ==
  /\ \A h \in submitted : fate[h] \in {"accepted", "ran", "skipped", "lost"}
  /\ body \in {"inside", "leaving"} => fate[SyncHandle] = "new"
  /\ body = "syncing" =>
       \A h \in submitted :
         fate[h] = "accepted" => fate[SyncHandle] = "accepted" /\ ServedBefore(h, SyncHandle)

CloseNew == \A g \in Closing : fate[CloseOf[g]] = "new"

\* aclose() is called for all generators at once, and none is lost before its
\* generator has begun to close.
CloseInv ==
  /\ CloseNew \/ \A g \in Closing : fate[CloseOf[g]] # "new"
  /\ CloseNew => fate[SetEvent] = "new"
  /\ fin \in {"no", "starting", "queued"} => CloseNew
  /\ nursery = "open" => fin = "no"
  /\ \A g \in Closing : fate[CloseOf[g]] = "new" => gen[g] = "open"
  /\ \A g \in Closing :
       gen[g] = "open" =>
         \/ fate[CloseOf[g]] \in {"new", "accepted"}
         \/ fate[CloseOf[g]] = "ran" /\ pc = "calling" /\ obj = CloseOf[g]

\* The sentinel is woken behind whatever has not begun to close.
EventInv ==
  \A g \in Closing :
    gen[g] = "open" =>
      /\ fate[SetEvent] \in {"new", "accepted"}
      /\ fate[SetEvent] = "accepted" /\ fate[CloseOf[g]] = "accepted" =>
           ServedBefore(CloseOf[g], SetEvent)

ShieldInv ==
  /\ ~shield => \A g \in Closing : gen[g] # "open"
  /\ finCancelled => ~shield

ExitIInv ==
  /\ ExitTypeOK /\ IInv /\ NurseryInv /\ OwnKept
  /\ SyncInv /\ CloseInv /\ EventInv /\ ShieldInv

\* The loop has the callback, or is calling it.
Coming(h) == fate[h] = "accepted" \/ (pc = "calling" /\ obj = h)

\* Whoever waits has its callback in the loop: synchronize(), a woken asyncio
\* task, and the run_aio_future() that watches it;
TasksWait ==
  /\ body = "syncing" => fate[SyncHandle] \in {"accepted", "ran"}
  /\ \A a \in AioTasks :
       /\ aio[a] = "waking" => Coming(WakeOf[a])
       /\ watch[a] = "waiting" => aio[a] = "waking" \/ Coming(DoneOf[a])

\* the task that closes the generators, and each generator;
GensWait ==
  /\ fin # "lost"
  /\ fin = "queued" => Coming(FinStart)
  /\ fin = "running" =>
       /\ \A g \in Closing : gen[g] = "open" => Coming(CloseOf[g])
       /\ \E g \in Closing : gen[g] # "closed"
  /\ fin = "ending" => Coming(FinDone)
  /\ gen[Sentinel] # "closed" => shield
  /\ gen[Sentinel] = "closing" => Coming(SetEvent)

\* and _main_loop_exit(), whose stop_me cannot be cancelled.
ExitWait ==
  /\ exit = "wait" => stopped \/ stopWait
  /\ StopPending /\ StopsNotCancelled

WaitInv == TasksWait /\ GensWait /\ ExitWait

-----------------------------------------------------------------------------
(* What the steps do to the loop.                                           *)

LEMMA OwnFacts ==
  /\ Own \subseteq Soon /\ Soon \subseteq Handles
  /\ Soon \cap (Timers \cup Asyncs \cup Stops) = {}
  /\ SyncHandle \in Own /\ SetEvent \in Own /\ FinStart \in Own /\ FinDone \in Own
  /\ \A a \in AioTasks : WakeOf[a] \in Own /\ DoneOf[a] \in Own
  /\ \A a \in AioTasks : SyncHandle \notin {WakeOf[a], DoneOf[a]}
  /\ \A a \in AioTasks : {WakeOf[a], DoneOf[a]} \cap Finalizing = {}
  /\ SyncHandle \notin {FinStart, SetEvent, FinDone}
  /\ \A g \in Closing : CloseOf[g] \in Own \cap Finalizing
  /\ {FinStart, SetEvent, FinDone} \subseteq Finalizing
  /\ \A g \in Closing : CloseOf[g] \notin {SyncHandle, FinStart, SetEvent, FinDone}
  /\ \A g, k \in Closing : CloseOf[g] = CloseOf[k] => g = k
  /\ SetEvent \notin {SyncHandle, FinStart, FinDone}
  /\ Sentinel \in Closing /\ Gens \subseteq Closing
  /\ QueueLen = Unbounded
BY KindsAssumption, OpenLoopAssumption, ExitAssumption
DEF Internal, Finalizing, Closing, Handles, Callbacks

\* A callback of the loop's own code is submitted.
Submit(h) == UserRuns /\ Queues(h)

\* A callback of the loop's own code returns when it has done its work.
CloseReturns == CallbackReturn /\ (obj \in Own => ReturnDone)

\* The steps that submit none.
Others ==
  \/ UNCHANGED vars
  \/ UserCalls \/ LoopRuns \/ ExitSteps
  \/ CloseReturns \/ TaskRuns \/ GensDecided

LEMMA ClosesKinds ==
  ASSUME NEW g, Closes(g), UserRuns
  PROVE  UNCHANGED vars \/ Submit(FinDone)
BY DEF Closes, Submit

LEMMA StepKinds ==
  ASSUME [ExitNext]_exitvars
  PROVE  \/ Others
         \/ Synchronize /\ Submit(SyncHandle)
         \/ \E a \in AioTasks : Submit(WakeOf[a]) \/ Submit(DoneOf[a])
         \/ Submit(FinStart) \/ Submit(FinDone)
         \/ SentinelClosing /\ Submit(SetEvent)
         \/ FinStarts
<1>1. CASE UNCHANGED exitvars \/ OuterCancel \/ Forward \/ NurseryFails \/ SyncCancelled
           \/ FinAborted \/ FinEnds
  BY <1>1 DEF exitvars, allvars, OuterCancel, Forward, NurseryFails, SyncCancelled, FinAborted,
              FinEnds, LoopIdle, Others
<1>2. CASE Leave \/ SyncReturns \/ \E h \in Asyncs : TrioTaskFails(h) \/ TrioTaskEnds(h)
  BY <1>2 DEF Leave, BodyExit, SyncReturns, CancelTasks, TrioTaskFails, TrioTaskEnds, LoopIdle,
              Others
<1>3. CASE CallbackFails \/ GensDecided \/ ReturnDone \/ TrioTaskRuns
  BY <1>3, OwnFacts DEF CallbackFails, ReturnDone, Return, TrioTaskRuns, CloseReturns, Others
<1>4. CASE FinTask
  BY <1>4 DEF FinTask, Submit, UserRuns
<1>5. CASE FinStarts
  BY <1>5
<1>6. CASE \E g \in Gens : GenClosing(g) \/ GenCloses(g)
  BY <1>6, ClosesKinds DEF GenClosing, GenCloses, LoopIdle, UserRuns, Others
<1>7. CASE SentinelClosing
  BY <1>7 DEF SentinelClosing, Submit, UserRuns
<1>8. CASE SentinelCloses
  BY <1>8, ClosesKinds DEF SentinelCloses, UserRuns, Others
<1>9. CASE Synchronize
  BY <1>9 DEF Synchronize, Submit, UserRuns
<1>10. CASE \E a \in AioTasks : WatchStart(a) \/ AioReady(a) \/ AioFinish(a)
  BY <1>10 DEF WatchStart, AioReady, AioFinish, LoopIdle, Submit, UserRuns, Others
<1>11. CASE (OthersCall /\ UserCalls) \/ LoopRuns \/ Exiting
  BY <1>11 DEF Exiting, Others
<1> QED BY <1>1, <1>2, <1>3, <1>4, <1>5, <1>6, <1>7, <1>8, <1>9, <1>10, <1>11 DEF ExitNext

LEMMA SubmitFacts ==
  ASSUME ExitTypeOK, NEW h \in Own, Submit(h)
  PROVE  /\ Calls
         /\ fate[h] = "new" /\ SendNowait(h)
         /\ fate' = [fate EXCEPT ![h] = "accepted"]
         /\ UNCHANGED <<cancelled, exit, nursery, stopped>>
<1>1. h \in Soon /\ CallSoon(h)
  BY OwnFacts DEF Submit, Queues, CallSoon
<1> QED BY <1>1, OwnFacts
    DEF Calls, Submit, Queues, QueueHandle, WouldBlock, HasRoom, Becomes, halt, life

\* Except for FinStarts, a step of open_loop() is one of the loop or none.
LEMMA StepIsNext ==
  ASSUME ExitTypeOK, [ExitNext]_exitvars
  PROVE  [Next]_vars \/ FinStarts
<1>1. CASE Others
  BY <1>1, OwnFacts
  DEF Others, UserCalls, LoopRuns, CloseReturns, GensDecided, TasksNurseryCloses, Calls, Next
<1>2. ASSUME NEW h \in Own, Submit(h) PROVE [Next]_vars
  BY <1>2, SubmitFacts DEF Next
<1> QED BY <1>1, <1>2, StepKinds, OwnFacts

-----------------------------------------------------------------------------
(* All the aclose() calls at once.                                          *)

CloseHandles == {CloseOf[g] : g \in Closing}

LEMMA ConcatFacts ==
  ASSUME NEW S, NEW s \in Seq(S), NEW t \in Seq(S), Distinct(s), Distinct(t),
         SeqSet(s) \cap SeqSet(t) = {}
  PROVE  /\ s \o t \in Seq(S)
         /\ DOMAIN s \subseteq DOMAIN (s \o t)
         /\ \A i \in DOMAIN s : (s \o t)[i] = s[i]
         /\ SeqSet(s \o t) = SeqSet(s) \cup SeqSet(t)
         /\ Distinct(s \o t)
<1> DEFINE u == s \o t
<1>1. /\ u \in Seq(S) /\ Len(s) \in Nat /\ Len(t) \in Nat
      /\ DOMAIN s = 1 .. Len(s) /\ DOMAIN t = 1 .. Len(t) /\ DOMAIN u = 1 .. Len(s) + Len(t)
      /\ \A i \in 1 .. Len(s) + Len(t) : u[i] = IF i <= Len(s) THEN s[i] ELSE t[i - Len(s)]
  BY ConcatProperties, LenProperties
<1> HIDE DEF u
<1>2. \A i \in 1 .. Len(s) : i \in DOMAIN u /\ u[i] = s[i]
  BY <1>1
<1>3. ASSUME NEW i \in 1 .. Len(t) PROVE Len(s) + i \in DOMAIN u /\ u[Len(s) + i] = t[i]
  <2> DEFINE j == Len(s) + i
  <2>1. j \in 1 .. Len(s) + Len(t) /\ ~(j <= Len(s)) /\ j - Len(s) = i
    BY <1>1
  <2> HIDE DEF j
  <2>2. u[j] = t[i]
    BY <1>1, <2>1
  <2> QED BY <1>1, <2>1, <2>2 DEF j
<1>4. \A i \in DOMAIN u : \/ i \in 1 .. Len(s) /\ u[i] = s[i]
                          \/ i - Len(s) \in 1 .. Len(t) /\ u[i] = t[i - Len(s)]
  BY <1>1
<1>5. SeqSet(u) \subseteq SeqSet(s) \cup SeqSet(t)
  BY <1>1, <1>4 DEF SeqSet
<1>6. SeqSet(s) \subseteq SeqSet(u) /\ SeqSet(t) \subseteq SeqSet(u)
  <2>1. ASSUME NEW i \in 1 .. Len(s) PROVE s[i] \in SeqSet(u)
    BY <1>2 DEF SeqSet
  <2>2. ASSUME NEW i \in 1 .. Len(t) PROVE t[i] \in SeqSet(u)
    BY <1>3 DEF SeqSet
  <2> QED BY <1>1, <2>1, <2>2 DEF SeqSet
<1>7. Distinct(u)
  <2> SUFFICES ASSUME NEW i \in DOMAIN u, NEW j \in DOMAIN u, u[i] = u[j] PROVE i = j
    BY DEF Distinct
  <2>1. ASSUME NEW k \in 1 .. Len(s), NEW l \in 1 .. Len(t) PROVE s[k] # t[l]
    BY <1>1 DEF SeqSet
  <2>2. CASE i \in 1 .. Len(s) /\ j \in 1 .. Len(s)
    BY <1>1, <1>2, <2>2 DEF Distinct
  <2>3. CASE i - Len(s) \in 1 .. Len(t) /\ j - Len(s) \in 1 .. Len(t)
    <3>1. i \notin 1 .. Len(s) /\ j \notin 1 .. Len(s) /\ i \in Nat /\ j \in Nat
      BY <1>1, <2>3
    <3>2. t[i - Len(s)] = t[j - Len(s)]
      BY <1>4, <3>1
    <3>3. i - Len(s) = j - Len(s)
      BY <1>1, <2>3, <3>2 DEF Distinct
    <3> QED BY <1>1, <3>1, <3>3
  <2>4. CASE (i \in 1 .. Len(s)) # (j \in 1 .. Len(s))
    BY <1>4, <2>1, <2>4
  <2> QED BY <1>4, <2>2, <2>3, <2>4
<1> QED BY <1>1, <1>2, <1>5, <1>6, <1>7 DEF u

\* gather() gets each generator once, in some order.
LEMMA OrderFacts ==
  ASSUME NEW order \in [1 .. Cardinality(Closing) -> Closing],
         \A g \in Closing : \E i \in DOMAIN order : order[i] = g,
         NEW closes, closes = [i \in DOMAIN order |-> CloseOf[order[i]]]
  PROVE  closes \in Seq(Handles) /\ Distinct(closes) /\ SeqSet(closes) = CloseHandles
<1> DEFINE n == Cardinality(Closing)
<1>1. IsFiniteSet(Closing) /\ n \in Nat
  BY ExitAssumption, FS_AddElement, FS_CardinalityType DEF Closing
<1>2. IsFiniteSet(1 .. n) /\ Cardinality(1 .. n) = n
  BY <1>1, FS_Interval
<1>3. order \in Surjection(1 .. n, Closing)
  BY DEF Surjection
<1>4. \A i, j \in 1 .. n : order[i] = order[j] => i = j
  BY <1>2, <1>3, FS_SurjSameCardinalityImpliesInj DEF Injection, IsInjective
<1>5. \A i \in 1 .. n : closes[i] = CloseOf[order[i]] /\ closes[i] \in Handles
  BY OwnFacts
<1>6. closes \in [1 .. n -> Handles]
  BY <1>5
<1>7. closes \in Seq(Handles)
  BY <1>1, <1>6, SeqDef
<1>8. Distinct(closes)
  BY <1>4, <1>5, OwnFacts DEF Distinct
<1>9. SeqSet(closes) = CloseHandles
  BY <1>5 DEF SeqSet, CloseHandles
<1> QED BY <1>7, <1>8, <1>9

\* What shutdown_asyncgens() does to the channel when it is not cancelled.
LEMMA FinStartsFacts ==
  ASSUME ExitTypeOK, FinStarts
  PROVE  \/ UNCHANGED vars
         \/ /\ pc = "calling" /\ fin = "queued" /\ fin' = "running"
            /\ \E closes \in Seq(Handles) :
                 /\ Distinct(closes) /\ SeqSet(closes) = CloseHandles
                 /\ queue' = queue \o closes
            /\ fate' = [h \in Handles |-> IF h \in CloseHandles THEN "accepted" ELSE fate[h]]
            /\ UNCHANGED <<pc, obj, entry, cancelled, clock, halt, life>>
<1>1. CASE LoopIdle
  BY <1>1 DEF LoopIdle
<1>2. CASE ~LoopIdle
  <2>1. PICK order \in [1 .. Cardinality(Closing) -> Closing] :
          /\ \A g \in Closing : \E i \in DOMAIN order : order[i] = g
          /\ queue' = queue \o [i \in DOMAIN order |-> CloseOf[order[i]]]
    BY <1>2 DEF FinStarts
  <2>2. PICK closes : closes = [i \in DOMAIN order |-> CloseOf[order[i]]]
    OBVIOUS
  <2>3. closes \in Seq(Handles) /\ Distinct(closes) /\ SeqSet(closes) = CloseHandles
    BY <2>1, <2>2, OrderFacts
  <2> QED BY <1>2, <2>1, <2>2, <2>3 DEF FinStarts, CloseHandles
<1> QED BY <1>1, <1>2

\* The handles it adds are new, and go behind the others.
LEMMA FinStartsAppends ==
  ASSUME ExitTypeOK, IInv, CloseInv, FinStarts, ~UNCHANGED vars
  PROVE  /\ TypeOK /\ pc = "calling" /\ fin = "queued" /\ fin' = "running"
         /\ fate' = [h \in Handles |-> IF h \in CloseHandles THEN "accepted" ELSE fate[h]]
         /\ UNCHANGED <<pc, obj, entry, cancelled, timers, when, now, stopped, stopWait, waiters,
                        before, nursery, exit, closed, token>>
         /\ \A h \in CloseHandles : fate[h] = "new" /\ h \in Soon /\ h \in Handles
         /\ queue \in Seq(Handles) /\ queue' \in Seq(Handles) /\ Distinct(queue')
         /\ SeqSet(queue') = SeqSet(queue) \cup CloseHandles
         /\ \A h, s : ServedBefore(h, s) => ServedBefore(h, s)'
<1>1. /\ TypeOK /\ pc = "calling" /\ fin = "queued" /\ fin' = "running"
      /\ fate' = [h \in Handles |-> IF h \in CloseHandles THEN "accepted" ELSE fate[h]]
      /\ UNCHANGED <<pc, obj, entry, cancelled, timers, when, now, stopped, stopWait, waiters,
                     before, nursery, exit, closed, token>>
  BY FinStartsFacts DEF ExitTypeOK, OpenTypeOK, clock, halt, life
<1>2. PICK closes \in Seq(Handles) :
        /\ Distinct(closes) /\ SeqSet(closes) = CloseHandles
        /\ queue' = queue \o closes
  BY FinStartsFacts
<1>3. \A h \in CloseHandles : fate[h] = "new" /\ h \in Soon /\ h \in Handles
  BY <1>1, OwnFacts DEF CloseInv, CloseNew, CloseHandles
<1>4. SeqSet(queue) \cap SeqSet(closes) = {} /\ queue \in Seq(Handles) /\ Distinct(queue)
  BY <1>1, <1>2, <1>3 DEF IInv, NoHandleLost, OnePlace, TypeOK
<1>5. /\ queue' \in Seq(Handles) /\ DOMAIN queue \subseteq DOMAIN queue'
      /\ \A i \in DOMAIN queue : queue'[i] = queue[i]
      /\ SeqSet(queue') = SeqSet(queue) \cup CloseHandles
      /\ Distinct(queue')
  BY <1>2, <1>4, ConcatFacts
<1>6. \A h, s : ServedBefore(h, s) => ServedBefore(h, s)'
  BY <1>1, <1>5 DEF ServedBefore
<1> QED BY <1>1, <1>3, <1>4, <1>5, <1>6

\* It keeps what the loop relies on: no handle is submitted twice, and none
\* overtakes another.
LEMMA FinStartsKeeps ==
  ASSUME ExitTypeOK, IInv, CloseInv, FinStarts
  PROVE  TypeOK' /\ IInv'
<1> USE KindFacts
<1>1. CASE UNCHANGED vars
  BY <1>1, TypeStep, IInvStep DEF ExitTypeOK, OpenTypeOK
<1>2. CASE ~UNCHANGED vars
  <2>1. /\ TypeOK /\ pc = "calling"
        /\ fate' = [h \in Handles |-> IF h \in CloseHandles THEN "accepted" ELSE fate[h]]
        /\ UNCHANGED <<pc, obj, entry, cancelled, timers, when, now, stopped, stopWait, waiters,
                       before, nursery, exit, closed, token>>
    BY <1>2, FinStartsAppends
  <2>2. /\ \A h \in CloseHandles : fate[h] = "new" /\ h \in Soon /\ h \in Handles
        /\ queue \in Seq(Handles) /\ queue' \in Seq(Handles) /\ Distinct(queue')
        /\ SeqSet(queue') = SeqSet(queue) \cup CloseHandles
    BY <1>2, FinStartsAppends
  <2>3. obj \in Callbacks /\ fate[obj] = "ran" /\ obj \in Handles /\ obj \notin CloseHandles
    BY <2>1, <2>2 DEF IInv, HandInv, Handles
  <2>4. TypeOK'
    BY <2>1, <2>2 DEF TypeOK, Fates
  <2>5. EntryInv'
    BY <2>1, <2>2 DEF IInv, NoHandleLost, EntryInv
  <2>6. OnePlace'
    <3>1. CloseHandles \cap timers = {}
      BY <2>1, <2>2, OwnFacts DEF TypeOK
    <3>2. \A h \in SeqSet(queue) \cup timers : h \in Handles
      BY <2>1, <2>2, ElementOfSeq, LenProperties DEF TypeOK, SeqSet
    <3>3. /\ SeqSet(queue) \cap timers = {} /\ obj \notin SeqSet(queue) \cup timers
          /\ \A h \in SeqSet(queue) \cup timers : fate[h] = "accepted"
          /\ \A h \in Handles :
               fate[h] = "accepted" => h \in SeqSet(queue) \cup timers \cup {obj}
      BY DEF IInv, NoHandleLost, OnePlace
    <3>4. \A h \in SeqSet(queue') \cup timers : fate'[h] = "accepted"
      BY <2>1, <2>2, <3>2, <3>3
    <3>5. \A h \in Handles : fate'[h] = "accepted" => h \in SeqSet(queue') \cup timers \cup {obj}
      BY <2>1, <2>2, <3>3
    <3> QED BY <2>1, <2>2, <2>3, <3>1, <3>3, <3>4, <3>5 DEF OnePlace
  <2>7. BarrierInv'
    <3> SUFFICES ASSUME NEW s \in Stops, fate'[s] = "accepted", NEW h \in before[s]
                 PROVE  /\ h \notin Timers
                        /\ fate'[h] \in {"accepted", "ran", "skipped", "lost"}
                        /\ fate'[h] = "accepted" => ServedBefore(h, s)'
      BY <2>1 DEF BarrierInv
    <3>1. fate[s] = "accepted" /\ h \in Handles
      BY <2>1, <2>2, OwnFacts DEF TypeOK
    <3>2. /\ h \notin Timers /\ fate[h] \in {"accepted", "ran", "skipped", "lost"}
          /\ fate[h] = "accepted" => ServedBefore(h, s)
      BY <3>1 DEF IInv, BarrierInv
    <3>3. h \notin CloseHandles /\ fate'[h] = fate[h]
      BY <2>1, <2>2, <3>1, <3>2
    <3>4. ServedBefore(h, s) => ServedBefore(h, s)'
      BY <1>2, FinStartsAppends
    <3> QED BY <3>2, <3>3, <3>4
  <2> QED BY <2>1, <2>3, <2>4, <2>5, <2>6, <2>7
      DEF IInv, NoHandleLost, ParkedMeansIdle, StoppedMeansQuiet, HandInv, PhaseInv, Draining
<1> QED BY <1>1, <1>2

\* The loop's own invariant holds in open_loop().
LEMMA LoopKeeps ==
  ASSUME ExitTypeOK, IInv, CloseInv, [ExitNext]_exitvars
  PROVE  TypeOK' /\ IInv'
BY StepIsNext, FinStartsKeeps, TypeStep, IInvStep DEF ExitTypeOK, OpenTypeOK

-----------------------------------------------------------------------------
(* Type correctness.                                                        *)

LEMMA ExitTypeStep ==
  ASSUME ExitTypeOK, IInv, CloseInv, [ExitNext]_exitvars
  PROVE  ExitTypeOK'
<1>1. TypeOK'
  BY LoopKeeps
<1> USE DEF ExitTypeOK, OpenTypeOK
<1>2. CASE UNCHANGED exitvars \/ OuterCancel \/ Forward \/ NurseryFails \/ SyncCancelled
           \/ FinAborted \/ FinEnds \/ FinTask \/ FinStarts
  BY <1>1, <1>2 DEF exitvars, allvars, OuterCancel, Forward, NurseryFails, SyncCancelled,
                    FinAborted, FinEnds, FinTask, FinStarts, ovars, evars, finvars
<1>3. CASE Leave \/ SyncReturns \/ (Synchronize /\ UNCHANGED evars)
  <2>1. submitted' \in SUBSET (Handles \ Timers)
    BY <1>3 DEF Leave, BodyExit, SyncReturns, CancelTasks, Synchronize
  <2> QED BY <1>1, <1>3, <2>1
      DEF Leave, BodyExit, SyncReturns, CancelTasks, Synchronize, evars
<1>4. CASE CallbackFails \/ GensDecided
  BY <1>1, <1>4 DEF CallbackFails, GensDecided, TasksNurseryCloses, ovars, finvars
<1>5. CASE ReturnDone
  BY <1>1, <1>5 DEF ReturnDone, Return, evars
<1>6. CASE TrioTaskRuns /\ UNCHANGED evars
  <2>1. obj \in Asyncs
    BY <1>6 DEF TrioTaskRuns, TaskRuns, IInv, HandInv
  <2> QED BY <1>1, <1>6, <2>1 DEF TrioTaskRuns, evars
<1>7. CASE \E h \in Asyncs : TrioTaskFails(h) \/ (TrioTaskEnds(h) /\ UNCHANGED evars)
  BY <1>1, <1>7 DEF TrioTaskFails, TrioTaskEnds, evars, finvars
<1>8. CASE (\E g \in Gens : GenClosing(g) \/ GenCloses(g)) \/ SentinelClosing \/ SentinelCloses
  <2>1. CASE \E g \in Gens : GenClosing(g) \/ GenCloses(g)
    BY <1>1, <2>1, OwnFacts DEF GenClosing, GenCloses, Closes, ovars
  <2>2. CASE SentinelClosing \/ SentinelCloses
    BY <1>1, <2>2, OwnFacts DEF SentinelClosing, SentinelCloses, Closes, ovars
  <2> QED BY <1>8, <2>1, <2>2
<1>10. CASE (\E a \in AioTasks : WatchStart(a) \/ AioReady(a) \/ AioFinish(a)) /\ UNCHANGED evars
  BY <1>1, <1>10 DEF WatchStart, AioReady, AioFinish, evars
<1>11. CASE UNCHANGED <<ovars, evars>>
  BY <1>1, <1>11 DEF ovars, evars
<1> QED BY <1>2, <1>3, <1>4, <1>5, <1>6, <1>7, <1>8, <1>10, <1>11 DEF ExitNext

-----------------------------------------------------------------------------
(* The nursery, and the loop's own handles.                                 *)

\* No step of the loop but NurseryCloses closes the nursery, or begins the exit
\* while it is open.
LEMMA NurserySteps ==
  ASSUME ExitTypeOK, NurseryInv, [ExitNext]_exitvars
  PROVE  \/ nursery' = nursery /\ (exit' # "no" => exit # "no")
         \/ GensDecided
         \/ nursery # "open" /\ nursery' # "open"
<1>1. CASE UserCalls \/ LoopRuns \/ CloseReturns \/ TaskRuns \/ UNCHANGED vars
  BY <1>1 DEF UserCalls, LoopRuns, CallSoon, TrioAsFuture, Cancel, Stop, StopWith, LoopSteps,
              PopTimer, Receive, Park, TimeoutReached, Arm, SkipCancelled, CallbackStart, StopMe,
              TaskSpawn, TaskSpawnFails, TaskStarted, CallbackExits, CloseReturns, CallbackReturn,
              TaskRuns, NextRound, Unwind, Draining, life, vars
<1>2. CASE ExitSteps
  BY <1>2 DEF ExitSteps, ExitBegin, ExitSkipped, DrainBegin, ExitFinish, NurseryInv, Draining
<1>3. ASSUME NEW h \in Own, Submit(h) PROVE UNCHANGED <<nursery, exit>>
  BY <1>3, SubmitFacts
<1>4. CASE FinStarts
  BY <1>4, FinStartsFacts DEF vars, life
<1> QED BY <1>1, <1>2, <1>3, <1>4, StepKinds, OwnFacts DEF Others

LEMMA NurseryStep ==
  ASSUME ExitTypeOK, NurseryInv, [ExitNext]_exitvars
  PROVE  NurseryInv'
<1> USE DEF ExitTypeOK, OpenTypeOK
<1>1. body = "teardown" => body' = "teardown"
  BY DEF ExitNext, exitvars, allvars, ovars, OuterCancel, Forward, Leave, BodyExit, CallbackFails,
         NurseryFails, SyncCancelled, SyncReturns, CancelTasks, GensDecided, TasksNurseryCloses,
         FinTask, FinStarts, FinAborted, FinEnds, GenClosing, GenCloses, SentinelClosing,
         SentinelCloses, ReturnDone, Return, TrioTaskFails, TrioTaskEnds, Synchronize,
         TrioTaskRuns, WatchStart, AioReady, AioFinish
<1>2. CASE GensDecided
  BY <1>1, <1>2 DEF GensDecided, TasksNurseryCloses, NurseryCloses, chan, ovars, NurseryInv,
                    NurseryEmpty
<1>3. CASE nursery # "open" /\ ~GensDecided
  <2>1. /\ body = "teardown" /\ live = {} /\ pc # "starting"
        /\ \A a \in AioTasks : watch[a] \notin {"starting", "waiting"}
    BY <1>3 DEF NurseryInv, NurseryEmpty
  <2>2. pc' # "starting"
    <3>1. CASE Others
      BY <1>3, <2>1, <3>1
      DEF Others, UserCalls, LoopRuns, CallSoon, TrioAsFuture, Cancel, Stop, StopNoWaiter, StopWith,
          Halt, QueueHandle, SendNowait, LoopSteps, PopTimer, Receive, Park, TimeoutReached, Arm,
          SkipCancelled, CallbackStart, StopMe, TaskSpawn, TaskSpawnFails, TaskStarted,
          CloseReturns, CallbackReturn, CallbackExits, TaskRuns, ExitSteps, ExitBegin, ExitSkipped, DrainBegin,
          ExitFinish, NextRound, Unwind, chan, vars
    <3>2. ASSUME NEW h \in Own, Submit(h) PROVE pc' # "starting"
      BY <2>1, <3>2, SubmitFacts DEF SendNowait
    <3>3. CASE FinStarts
      BY <2>1, <3>3, FinStartsFacts DEF vars
    <3> QED BY <3>1, <3>2, <3>3, StepKinds, OwnFacts
  <2>3. live' = {} /\ \A a \in AioTasks : watch'[a] \notin {"starting", "waiting"}
    BY <2>1
    DEF ExitNext, exitvars, allvars, ovars, OuterCancel, Forward, Leave, BodyExit, CallbackFails,
        NurseryFails, SyncCancelled, SyncReturns, CancelTasks, GensDecided, TasksNurseryCloses,
        FinTask, FinStarts, FinAborted, FinEnds, GenClosing, GenCloses, SentinelClosing,
        SentinelCloses, ReturnDone, Return, TrioTaskFails, TrioTaskEnds, Synchronize,
        TrioTaskRuns, TaskRuns, WatchStart, AioReady, AioFinish
  <2> QED BY <1>1, <1>3, <2>1, <2>2, <2>3, NurserySteps DEF NurseryInv, NurseryEmpty
<1>4. CASE nursery = "open" /\ ~GensDecided
  BY <1>1, <1>4, NurserySteps DEF NurseryInv, NurseryEmpty
<1> QED BY <1>2, <1>3, <1>4

LEMMA OwnKeptStep ==
  ASSUME ExitTypeOK, OwnKept, [ExitNext]_exitvars
  PROVE  OwnKept'
<1>1. cancelled' \subseteq cancelled \cup (Soon \ Own) \cup Asyncs \cup Timers
  <2>1. CASE UserCalls
    BY <2>1 DEF UserCalls, CallSoon, TrioAsFuture, Cancel, Stop, StopWith
  <2>2. CASE LoopRuns \/ CloseReturns \/ TaskRuns \/ GensDecided \/ UNCHANGED vars
    BY <2>2 DEF LoopRuns, LoopSteps, PopTimer, Receive, Park, TimeoutReached, Arm, SkipCancelled,
                CallbackStart, StopMe, TaskSpawn, TaskSpawnFails, TaskStarted, CallbackExits,
                CloseReturns, CallbackReturn, TaskRuns, GensDecided, TasksNurseryCloses,
                NurseryCloses, vars
  <2>3. CASE ExitSteps
    BY <2>3 DEF ExitSteps, ExitBegin, ExitSkipped, DrainBegin, ExitFinish, ExitTypeOK, OpenTypeOK,
                TypeOK
  <2>4. ASSUME NEW h \in Own, Submit(h) PROVE cancelled' = cancelled
    BY <2>4, SubmitFacts
  <2>5. CASE FinStarts
    BY <2>5, FinStartsFacts DEF vars
  <2> QED BY <2>1, <2>2, <2>3, <2>4, <2>5, StepKinds, OwnFacts DEF Others
<1> QED BY <1>1, OwnFacts DEF OwnKept

-----------------------------------------------------------------------------
(* The fates of handles.                                                    *)

\* A handle that the loop has taken is disposed of once.
LEMMA TakenOnce ==
  ASSUME TypeOK, IInv, [Next]_vars, NEW h \in Handles,
         fate[h] \in {"accepted", "ran", "skipped", "lost"}
  PROVE  /\ fate'[h] \in {"accepted", "ran", "skipped", "lost"}
         /\ fate[h] # "accepted" => fate'[h] = fate[h]
<1> USE KindFacts
<1>1. fate \in [Handles -> Fates]
  BY DEF TypeOK
<1>2. CASE Calls \/ ThreadSteps \/ EntryRun \/ Tick \/ UNCHANGED vars
  <2>1. entry # <<>> => Head(entry) \in Threaded /\ fate[Head(entry)] = "posted"
    BY HeadTailFacts DEF TypeOK, IInv, NoHandleLost, EntryInv
  <2> QED BY <1>1, <1>2, <2>1
      DEF Calls, CallSoon, TrioAsFuture, CallAt, CallLater, Cancel, StopWith, Stop, StopNoWaiter,
          Halt, QueueHandle, Close, ThreadSteps, ThreadCheck, ThreadPost, EntryRun, Tick, Becomes,
          vars
<1>3. CASE LoopSteps \/ CallbackReturn \/ CallbackExits \/ TaskRuns
  BY <1>1, <1>3
  DEF LoopSteps, PopTimer, Receive, Park, TimeoutReached, Arm, SkipCancelled, CallbackStart,
      StopMe, TaskSpawn, TaskSpawnFails, TaskStarted, CallbackReturn, CallbackExits, TaskRuns,
      InHand, Becomes, IInv, HandInv
<1>4. CASE NurseryCloses \/ ExitSteps
  BY <1>1, <1>4
  DEF NurseryCloses, ExitSteps, ExitBegin, ExitSkipped, DrainBegin, ExitFinish, StopNoWaiter, Halt,
      QueueHandle, Becomes, IInv, NoHandleLost, OnePlace
<1> QED BY <1>2, <1>3, <1>4 DEF Next

\* What one step may do to the channel and the hand.
ChannelStep ==
  \/ queue' = queue /\ obj' = obj
  \/ pc = "parked" /\ queue' = queue
  \/ obj' = obj /\ \E e \in Handles : queue' = Append(queue, e)
  \/ obj = NoHandle /\ queue # <<>> /\ obj' = Head(queue) /\ queue' = Tail(queue)
  \/ queue' = queue /\ obj \in Timers \cup {NoHandle}
  \/ queue' = queue /\ (fate[obj] # "accepted" \/ fate'[obj] # "accepted")

LEMMA ChannelSteps ==
  ASSUME TypeOK, IInv, [Next]_vars
  PROVE  ChannelStep
<1> USE KindFacts
<1>1. CASE Calls
  BY <1>1
  DEF Calls, CallSoon, TrioAsFuture, CallAt, CallLater, Cancel, StopWith, Stop, StopNoWaiter,
      Halt, QueueHandle, SendNowait, Close, chan, ChannelStep
<1>2. CASE ThreadSteps \/ EntryRun \/ Tick \/ UNCHANGED vars
  <2>1. entry # <<>> => Head(entry) \in Handles
    BY HeadTailFacts DEF TypeOK
  <2> QED BY <1>2, <2>1
      DEF ThreadSteps, ThreadCheck, ThreadPost, EntryRun, SendNowait, Tick, chan, vars, ChannelStep
<1>3. CASE PopTimer \/ Receive \/ Park \/ TimeoutReached \/ Arm \/ TaskSpawn
  BY <1>3 DEF PopTimer, Receive, Park, TimeoutReached, Arm, TaskSpawn, IInv, HandInv, ChannelStep
<1>4. CASE SkipCancelled \/ CallbackStart \/ StopMe \/ TaskSpawnFails \/ TaskRuns
  <2>1. obj \in Handles /\ fate \in [Handles -> Fates]
    BY <1>4 DEF SkipCancelled, CallbackStart, StopMe, TaskSpawnFails, TaskRuns, InHand, IInv,
                HandInv, TypeOK
  <2> QED BY <1>4, <2>1
      DEF SkipCancelled, CallbackStart, StopMe, TaskSpawnFails, TaskRuns, Becomes, chan, ChannelStep
<1>5. CASE CallbackReturn \/ CallbackExits \/ TaskStarted
  BY <1>5 DEF CallbackReturn, CallbackExits, TaskStarted, IInv, HandInv, ChannelStep
<1>6. CASE NurseryCloses \/ ExitSteps
  BY <1>6
  DEF NurseryCloses, ExitSteps, ExitBegin, ExitSkipped, DrainBegin, ExitFinish, StopNoWaiter,
      Halt, QueueHandle, SendNowait, chan, ChannelStep
<1> QED BY <1>1, <1>2, <1>3, <1>4, <1>5, <1>6 DEF Next, LoopSteps

\* Nobody overtakes: of two accepted handles the one that is served first stays
\* so, until it is disposed of.
LEMMA OrderKept ==
  ASSUME TypeOK, IInv, [Next]_vars, NEW h \in Handles \ Timers, NEW s \in Handles,
         fate[h] = "accepted", fate'[h] = "accepted", ServedBefore(h, s)
  PROVE  ServedBefore(h, s)'
<1> USE KindFacts
<1>1. s \in SeqSet(queue) /\ queue # <<>> /\ pc # "parked" /\ queue \in Seq(Handles)
  BY EmptySeqSet DEF ServedBefore, SeqSet, TypeOK, IInv, ParkedMeansIdle
<1>2. CASE queue' = queue
  <2>1. obj' = obj \/ obj # h
    BY <1>1, <1>2, ChannelSteps DEF ChannelStep, TypeOK
  <2> QED BY <1>2, <2>1 DEF ServedBefore
<1>3. ASSUME NEW e \in Handles, queue' = Append(queue, e), obj' = obj PROVE ServedBefore(h, s)'
  BY <1>1, <1>3, AppendServedBefore
<1>4. CASE obj = NoHandle /\ obj' = Head(queue) /\ queue' = Tail(queue)
  <2>1. PICK i, j \in DOMAIN queue : i < j /\ queue[i] = h /\ queue[j] = s
    BY <1>4 DEF ServedBefore
  <2>2. /\ DOMAIN queue = 1 .. Len(queue) /\ DOMAIN queue' = 1 .. Len(queue) - 1
        /\ Len(queue) \in Nat /\ queue[1] = obj'
        /\ \A k \in 1 .. Len(queue) - 1 : queue'[k] = queue[k + 1]
    BY <1>1, <1>4, HeadTailFacts, LenProperties
  <2>3. j - 1 \in DOMAIN queue' /\ queue'[j - 1] = s
    BY <2>1, <2>2
  <2>4. CASE i = 1
    BY <2>1, <2>2, <2>3, <2>4 DEF ServedBefore, SeqSet
  <2>5. CASE i # 1
    <3>1. i - 1 \in DOMAIN queue' /\ queue'[i - 1] = h /\ i - 1 < j - 1
      BY <2>1, <2>2, <2>5
    <3> QED BY <2>3, <3>1 DEF ServedBefore
  <2> QED BY <2>4, <2>5
<1> QED BY <1>1, <1>2, <1>3, <1>4, ChannelSteps DEF ChannelStep

\* A handle that is queued behind all the others.
LEMMA QueuedLast ==
  ASSUME ExitTypeOK, IInv, NEW e \in Own, Submit(e), NEW h \in Handles \ Timers,
         fate[h] = "accepted"
  PROVE  ServedBefore(h, e)'
<1> USE KindFacts DEF ExitTypeOK, OpenTypeOK
<1>1. SendNowait(e) /\ e \in Handles
  BY SubmitFacts, OwnFacts
<1>2. pc # "parked"
  BY ParkedFacts
<1>3. queue' = Append(queue, e) /\ obj' = obj /\ queue \in Seq(Handles)
  BY <1>1, <1>2 DEF SendNowait, TypeOK
<1>4. h \in SeqSet(queue) \cup {obj}
  BY DEF IInv, NoHandleLost, OnePlace, TypeOK
<1> QED BY <1>1, <1>3, <1>4, AppendServedBefore

\* A handle of the loop's own is run unless something is ahead of it.
LEMMA OwnFate ==
  ASSUME ExitTypeOK, IInv, OwnKept, Others, NEW h \in Own, fate'[h] # fate[h]
  PROVE  /\ fate[h] = "accepted" /\ fate'[h] = "ran"
         /\ obj = h /\ obj' = h /\ pc' = "calling" /\ queue' = queue
         /\ \A k \in Handles : k # h => fate'[k] = fate[k]
<1> USE DEF ExitTypeOK, OpenTypeOK
<1>1. /\ h \in Soon /\ h \in Handles /\ h \notin Timers \cup Asyncs \cup Stops /\ h \notin cancelled
      /\ fate \in [Handles -> Fates]
  BY OwnFacts DEF OwnKept, TypeOK
<1>2. CASE UserCalls
  BY <1>1, <1>2, OwnFacts, KindFacts
  DEF UserCalls, CallSoon, TrioAsFuture, Cancel, Stop, StopNoWaiter, StopWith, Halt, QueueHandle,
      Becomes
<1>3. CASE CallbackStart
  BY <1>1, <1>3 DEF CallbackStart, Becomes, InHand, IInv, HandInv
<1>4. CASE LoopRuns /\ ~CallbackStart
  BY <1>1, <1>4
  DEF LoopRuns, LoopSteps, PopTimer, Receive, Park, TimeoutReached, Arm, SkipCancelled, StopMe,
      TaskSpawn, TaskSpawnFails, TaskStarted, CallbackExits, Becomes, InHand, IInv, HandInv
<1>5. CASE ExitSteps \/ GensDecided
  BY <1>1, <1>5, KindFacts
  DEF ExitSteps, ExitBegin, ExitSkipped, DrainBegin, ExitFinish, StopNoWaiter, Halt, QueueHandle,
      Becomes, GensDecided, TasksNurseryCloses, NurseryCloses, TypeOK
<1>6. CASE CloseReturns \/ TaskRuns \/ UNCHANGED vars
  BY <1>1, <1>6 DEF CloseReturns, CallbackReturn, TaskRuns, Becomes, IInv, HandInv, vars
<1> QED BY <1>2, <1>3, <1>4, <1>5, <1>6 DEF Others, LoopRuns, LoopSteps

-----------------------------------------------------------------------------
(* The barrier of synchronize().                                            *)

LEMMA BodySteps ==
  ASSUME [ExitNext]_exitvars
  PROVE  \/ Leave
         \/ Synchronize /\ Submit(SyncHandle)
         \/ submitted' = submitted /\ body' \in {body, "teardown"} /\ ~Synchronize
BY DEF ExitNext, exitvars, allvars, ovars, OuterCancel, Forward, Leave, BodyExit, CallbackFails,
       NurseryFails, SyncCancelled, SyncReturns, CancelTasks, GensDecided, TasksNurseryCloses,
       FinTask, FinStarts, FinAborted, FinEnds, GenClosing, GenCloses, SentinelClosing,
       SentinelCloses, ReturnDone, Return, TrioTaskFails, TrioTaskEnds, Synchronize,
       TrioTaskRuns, WatchStart, AioReady, AioFinish, Submit, UserRuns

LEMMA SubmittedStep ==
  ASSUME ExitTypeOK, IInv, CloseInv, [ExitNext]_exitvars, NEW h \in Handles,
         fate[h] \in {"accepted", "ran", "skipped", "lost"}
  PROVE  /\ fate'[h] \in {"accepted", "ran", "skipped", "lost"}
         /\ fate[h] # "accepted" => fate'[h] = fate[h]
<1>1. CASE [Next]_vars
  BY <1>1, TakenOnce DEF ExitTypeOK, OpenTypeOK
<1>2. CASE FinStarts /\ ~UNCHANGED vars
  BY <1>2, FinStartsAppends
<1> QED BY <1>1, <1>2, StepIsNext

\* What is ahead of one of the loop's own handles stays ahead of it, and is
\* disposed of before it.
LEMMA AheadStep ==
  ASSUME ExitTypeOK, IInv, OwnKept, CloseInv, [ExitNext]_exitvars,
         NEW h \in Handles \ Timers, NEW s \in Own, fate[s] = "accepted",
         fate[h] = "accepted", fate'[h] = "accepted", ServedBefore(h, s)
  PROVE  fate'[s] = "accepted" /\ ServedBefore(h, s)'
<1>1. s \in SeqSet(queue) /\ s # obj /\ s \in Handles
  BY OwnFacts DEF ServedBefore, SeqSet, IInv, NoHandleLost, OnePlace
<1>2. ServedBefore(h, s)'
  BY <1>1, OrderKept, StepIsNext, FinStartsAppends DEF ExitTypeOK, OpenTypeOK
<1>3. fate'[s] = "accepted"
  <2>1. CASE Others
    BY <1>1, <2>1, OwnFate
  <2>2. ASSUME NEW e \in Own, Submit(e) PROVE fate'[s] = "accepted"
    BY <1>1, <2>2, SubmitFacts DEF ExitTypeOK, OpenTypeOK, TypeOK
  <2>3. CASE FinStarts
    BY <1>1, <2>3, FinStartsAppends DEF vars
  <2> QED BY <2>1, <2>2, <2>3, StepKinds, OwnFacts
<1> QED BY <1>2, <1>3

LEMMA SyncStep ==
  ASSUME ExitTypeOK, IInv, OwnKept, CloseInv, SyncInv, [ExitNext]_exitvars
  PROVE  SyncInv'
<1> USE DEF ExitTypeOK, OpenTypeOK
<1>1. CASE Leave
  <2>1. /\ fate' = fate /\ body = "inside" /\ body' = "leaving"
        /\ submitted' = {h \in Handles \ Timers : fate[h] = "accepted"}
    BY <1>1 DEF Leave, BodyExit, LoopIdle, vars
  <2> QED BY <2>1 DEF SyncInv
<1>2. CASE Synchronize /\ Submit(SyncHandle)
  <2>1. /\ body = "leaving" /\ body' = "syncing" /\ submitted' = submitted
        /\ fate' = [fate EXCEPT ![SyncHandle] = "accepted"] /\ fate \in [Handles -> Fates]
        /\ fate[SyncHandle] = "new"
    BY <1>2, SubmitFacts, OwnFacts DEF Synchronize, TypeOK
  <2>2. ASSUME NEW h \in submitted, fate'[h] = "accepted"
        PROVE  fate'[SyncHandle] = "accepted" /\ ServedBefore(h, SyncHandle)'
    <3>1. h \in Handles \ Timers /\ fate[h] = "accepted"
      BY <2>1, <2>2 DEF SyncInv
    <3> QED BY <1>2, <2>1, <3>1, QueuedLast, OwnFacts
  <2> QED BY <2>1, <2>2 DEF SyncInv
<1>3. CASE submitted' = submitted /\ body' \in {body, "teardown"} /\ ~Synchronize
  <2>1. \A h \in submitted : h \in Handles \ Timers
    OBVIOUS
  <2>2. \A h \in submitted : fate'[h] \in {"accepted", "ran", "skipped", "lost"}
    BY <2>1, SubmittedStep DEF SyncInv
  <2>3. fate[SyncHandle] = "new" => fate'[SyncHandle] = "new"
    <3>1. CASE Others
      BY <3>1, OwnFate, OwnFacts
    <3>2. ASSUME NEW e \in Own, Submit(e), e # SyncHandle
          PROVE  fate'[SyncHandle] = fate[SyncHandle]
      BY <3>2, SubmitFacts, OwnFacts DEF TypeOK
    <3>3. CASE FinStarts
      BY <3>3, FinStartsFacts, OwnFacts DEF vars, CloseHandles
    <3> QED BY <1>3, <3>1, <3>2, <3>3, StepKinds, OwnFacts
  <2>4. ASSUME body' = "syncing", NEW h \in submitted, fate'[h] = "accepted"
        PROVE  fate'[SyncHandle] = "accepted" /\ ServedBefore(h, SyncHandle)'
    <3>1. body = "syncing" /\ fate[h] = "accepted"
      BY <1>3, <2>1, <2>4, SubmittedStep DEF SyncInv
    <3>2. fate[SyncHandle] = "accepted" /\ ServedBefore(h, SyncHandle)
      BY <3>1 DEF SyncInv
    <3> QED BY <2>1, <2>4, <3>1, <3>2, AheadStep, OwnFacts
  <2> QED BY <1>3, <2>2, <2>3, <2>4 DEF SyncInv
<1> QED BY <1>1, <1>2, <1>3, BodySteps

-----------------------------------------------------------------------------
(* The generators.                                                          *)

\* What changes the generators, the shield and their task.
LEMMA GenSteps ==
  ASSUME ExitTypeOK, [ExitNext]_exitvars
  PROVE  /\ \/ UNCHANGED <<gen, shield>>
            \/ \E g \in Gens : /\ (pc = "calling" /\ obj = CloseOf[g]) \/ gen[g] = "closing"
                               /\ \E s \in {"closing", "closed"} : gen' = [gen EXCEPT ![g] = s]
                               /\ shield' = shield
            \/ SentinelClosing
            \/ /\ pc = "calling" /\ obj = SetEvent /\ gen[Sentinel] = "closing"
               /\ gen' = [gen EXCEPT ![Sentinel] = "closed"] /\ shield' = FALSE
         /\ fin' # fin =>
              \/ GensDecided
              \/ fin = "starting" /\ fin' = "queued"
              \/ FinStarts
              \/ fin = "ending" /\ fin' = "done"
              \/ /\ fin' = "ending"
                 /\ \E g \in Closing : gen[g] # "open" \/ (pc = "calling" /\ obj = CloseOf[g])
         /\ finCancelled' # finCancelled => ~shield /\ shield' = shield
<1>1. CASE \E g \in Gens : GenClosing(g) \/ GenCloses(g)
  BY <1>1, OwnFacts DEF GenClosing, GenCloses, Closes
<1>2. CASE SentinelClosing
  BY <1>2 DEF SentinelClosing
<1>3. CASE SentinelCloses
  BY <1>3, OwnFacts DEF SentinelCloses, Closes
<1>4. CASE FinTask \/ FinStarts \/ FinEnds
  BY <1>4 DEF FinTask, FinStarts, FinEnds
<1>5. CASE FinAborted
  BY <1>5 DEF FinAborted
<1>6. CASE UNCHANGED finvars
  BY <1>6 DEF finvars
<1>7. CASE GensDecided
  BY <1>7 DEF GensDecided
<1> QED
  BY <1>1, <1>2, <1>3, <1>4, <1>5, <1>6, <1>7
  DEF ExitNext, exitvars, allvars, evars, finvars, OuterCancel, Forward, Leave, CallbackFails,
      NurseryFails, SyncCancelled, SyncReturns, ReturnDone, TrioTaskFails

LEMMA CloseSteps ==
  ASSUME ExitTypeOK, IInv, OwnKept, CloseInv, [ExitNext]_exitvars, NEW g \in Closing
  PROVE  \/ fate'[CloseOf[g]] = fate[CloseOf[g]]
         \/ /\ fate[CloseOf[g]] = "accepted" /\ fate'[CloseOf[g]] = "ran"
            /\ pc' = "calling" /\ obj' = CloseOf[g]
         \/ FinStarts /\ ~UNCHANGED vars
<1>1. CASE Others
  BY <1>1, OwnFate, OwnFacts
<1>2. ASSUME NEW e \in Own, Submit(e), e # CloseOf[g] PROVE fate'[CloseOf[g]] = fate[CloseOf[g]]
  BY <1>2, SubmitFacts, OwnFacts DEF ExitTypeOK, OpenTypeOK, TypeOK
<1>3. CASE FinStarts /\ UNCHANGED vars
  BY <1>3 DEF vars
<1> QED BY <1>1, <1>2, <1>3, StepKinds, OwnFacts

LEMMA EventSteps ==
  ASSUME ExitTypeOK, IInv, OwnKept, [ExitNext]_exitvars
  PROVE  \/ fate'[SetEvent] = fate[SetEvent]
         \/ fate[SetEvent] = "new" /\ SentinelClosing /\ Submit(SetEvent)
         \/ fate[SetEvent] = "accepted" /\ fate'[SetEvent] = "ran" /\ obj = SetEvent
<1>1. CASE Others
  BY <1>1, OwnFate, OwnFacts
<1>2. ASSUME NEW e \in Own, Submit(e), e # SetEvent PROVE fate'[SetEvent] = fate[SetEvent]
  BY <1>2, SubmitFacts, OwnFacts DEF ExitTypeOK, OpenTypeOK, TypeOK
<1>3. Submit(SetEvent) => fate[SetEvent] = "new"
  BY SubmitFacts, OwnFacts
<1>4. CASE FinStarts
  BY <1>4, FinStartsFacts, OwnFacts DEF vars, CloseHandles
<1> QED BY <1>1, <1>2, <1>3, <1>4, StepKinds, OwnFacts

\* The loop does not leave a callback of its own half-way.
LEMMA OwnCallingKept ==
  ASSUME ExitTypeOK, IInv, [ExitNext]_exitvars, NEW h \in Own, pc = "calling", obj = h
  PROVE  (pc' = "calling" /\ obj' = h) \/ (ReturnDone /\ CallbackReturn)
<1>1. CASE Others
  <2>1. CASE UserCalls \/ TaskRuns \/ GensDecided \/ UNCHANGED vars
    BY <2>1
    DEF UserCalls, CallSoon, TrioAsFuture, Cancel, Stop, StopNoWaiter, StopWith, Halt, QueueHandle,
        SendNowait, TaskRuns, GensDecided, TasksNurseryCloses, NurseryCloses, Yielded, chan, vars
  <2>2. CASE LoopRuns
    BY <2>2
    DEF LoopRuns, LoopSteps, PopTimer, Receive, Park, TimeoutReached, Arm, InHand, SkipCancelled,
        CallbackStart, StopMe, TaskSpawn, TaskSpawnFails, TaskStarted
  <2>3. CASE ExitSteps
    BY <2>3 DEF ExitSteps, ExitBegin, ExitSkipped, DrainBegin, ExitFinish, Yielded
  <2>4. CASE CloseReturns
    BY <2>4 DEF CloseReturns
  <2> QED BY <1>1, <2>1, <2>2, <2>3, <2>4 DEF Others
<1>2. ASSUME NEW e \in Own, Submit(e) PROVE pc' = "calling" /\ obj' = h
  BY <1>2, SubmitFacts DEF SendNowait
<1>3. CASE FinStarts
  BY <1>3, FinStartsFacts DEF vars
<1> QED BY <1>1, <1>2, <1>3, StepKinds, OwnFacts

LEMMA CallingKept ==
  ASSUME ExitTypeOK, IInv, [ExitNext]_exitvars, NEW g \in Closing,
         pc = "calling", obj = CloseOf[g], gen[g] = "open"
  PROVE  pc' = "calling" /\ obj' = CloseOf[g]
BY OwnCallingKept, OwnFacts DEF ReturnDone

\* A generator only ever goes from open to closing and closed.
LEMMA NeverReopens ==
  ASSUME ExitTypeOK, [ExitNext]_exitvars, NEW g \in Closing, gen'[g] = "open"
  PROVE  gen[g] = "open"
BY GenSteps DEF SentinelClosing, ExitTypeOK

LEMMA CloseStep ==
  ASSUME ExitTypeOK, IInv, NurseryInv, OwnKept, CloseInv, [ExitNext]_exitvars
  PROVE  CloseInv'
<1> USE DEF ExitTypeOK
<1>1. \A g \in Closing : pc = "calling" /\ obj = CloseOf[g] => fate[CloseOf[g]] = "ran"
  BY DEF IInv, HandInv
<1>2. nursery' = "open" => fin' = "no"
  <2> SUFFICES ASSUME nursery' = "open", fin' # "no" PROVE FALSE
    OBVIOUS
  <2>1. nursery = "open" /\ ~GensDecided
    BY NurserySteps DEF GensDecided, TasksNurseryCloses, NurseryCloses
  <2>2. fin = "no" /\ \A g \in Closing : fate[CloseOf[g]] = "new" /\ gen[g] = "open"
    BY <2>1 DEF CloseInv, CloseNew
  <2> QED BY <1>1, <2>1, <2>2, GenSteps DEF FinStarts
<1>3. CASE FinStarts /\ ~UNCHANGED vars
  <2>1. \A g \in Closing : fate'[CloseOf[g]] = "accepted"
    BY <1>3, FinStartsAppends, OwnFacts DEF CloseHandles
  <2>2. gen' = gen /\ fin' = "running"
    BY <1>3, FinStartsAppends DEF FinStarts
  <2> QED BY <1>2, <2>1, <2>2, OwnFacts DEF CloseInv, CloseNew
<1>4. CASE ~(FinStarts /\ ~UNCHANGED vars)
  <2>1. \A g \in Closing :
          \/ fate'[CloseOf[g]] = fate[CloseOf[g]]
          \/ /\ fate[CloseOf[g]] = "accepted" /\ fate'[CloseOf[g]] = "ran"
             /\ pc' = "calling" /\ obj' = CloseOf[g]
    BY <1>4, CloseSteps
  <2>2. \A g \in Closing : fate'[CloseOf[g]] = "new" <=> fate[CloseOf[g]] = "new"
    BY <2>1
  <2>3. CloseNew' \/ \A g \in Closing : fate'[CloseOf[g]] # "new"
    BY <2>2 DEF CloseInv, CloseNew
  <2>4. CloseNew' => fate'[SetEvent] = "new"
    BY <1>1, <2>2, EventSteps, OwnFacts DEF CloseInv, CloseNew, SentinelClosing
  <2>5. fin' \in {"no", "starting", "queued"} => CloseNew'
    <3> SUFFICES ASSUME fin' \in {"no", "starting", "queued"} PROVE CloseNew
      BY <2>2 DEF CloseNew
    <3>1. CASE GensDecided
      BY <3>1 DEF GensDecided, TasksNurseryCloses, NurseryCloses, CloseInv
    <3>2. CASE ~GensDecided
      BY <3>2, GenSteps DEF CloseInv, FinStarts
    <3> QED BY <3>1, <3>2
  <2>6. ASSUME NEW g \in Closing, fate'[CloseOf[g]] = "new" PROVE gen'[g] = "open"
    <3>1. fate[CloseOf[g]] = "new" /\ gen[g] = "open"
      BY <2>2, <2>6 DEF CloseInv
    <3>2. ~(pc = "calling" /\ obj = CloseOf[g])
      BY <1>1, <3>1
    <3> QED BY <3>1, <3>2, GenSteps DEF SentinelClosing
  <2>7. ASSUME NEW g \in Closing, gen'[g] = "open"
        PROVE  \/ fate'[CloseOf[g]] \in {"new", "accepted"}
               \/ fate'[CloseOf[g]] = "ran" /\ pc' = "calling" /\ obj' = CloseOf[g]
    BY <2>1, <2>7, NeverReopens, CallingKept DEF CloseInv
  <2> QED BY <1>2, <2>3, <2>4, <2>5, <2>6, <2>7 DEF CloseInv
<1> QED BY <1>3, <1>4

LEMMA EventStep ==
  ASSUME ExitTypeOK, IInv, OwnKept, CloseInv, EventInv, [ExitNext]_exitvars
  PROVE  EventInv'
<1> SUFFICES ASSUME NEW g \in Closing, gen'[g] = "open"
             PROVE  /\ fate'[SetEvent] \in {"new", "accepted"}
                    /\ fate'[SetEvent] = "accepted" /\ fate'[CloseOf[g]] = "accepted" =>
                         ServedBefore(CloseOf[g], SetEvent)'
  BY DEF EventInv
<1>1. /\ gen[g] = "open" /\ fate[SetEvent] \in {"new", "accepted"}
      /\ fate[SetEvent] = "accepted" /\ fate[CloseOf[g]] = "accepted" =>
           ServedBefore(CloseOf[g], SetEvent)
  BY NeverReopens DEF EventInv
<1>2. CASE FinStarts /\ ~UNCHANGED vars
  <2>1. fate[SetEvent] = "new"
    BY <1>2, FinStartsAppends DEF CloseInv
  <2> QED BY <1>2, <2>1, FinStartsAppends, OwnFacts DEF CloseHandles
<1>3. CASE ~(FinStarts /\ ~UNCHANGED vars)
  <2>1. fate'[CloseOf[g]] = "accepted" => fate[CloseOf[g]] = "accepted"
    BY <1>3, CloseSteps
  <2>2. CASE fate'[SetEvent] = fate[SetEvent]
    BY <1>1, <2>1, <2>2, AheadStep, OwnFacts
  <2>3. CASE fate[SetEvent] = "new" /\ Submit(SetEvent)
    <3>1. fate'[SetEvent] = "accepted"
      BY <2>3, SubmitFacts, OwnFacts DEF ExitTypeOK, OpenTypeOK, TypeOK
    <3> QED BY <2>1, <2>3, <3>1, QueuedLast, OwnFacts
  <2>4. ~(fate[SetEvent] = "accepted" /\ fate'[SetEvent] = "ran" /\ obj = SetEvent)
    <3> SUFFICES ASSUME fate[SetEvent] = "accepted", obj = SetEvent PROVE FALSE
      OBVIOUS
    <3>1. fate[CloseOf[g]] = "accepted"
      BY <1>1, OwnFacts DEF CloseInv, CloseNew
    <3>2. SetEvent \in SeqSet(queue)
      BY <1>1, <3>1 DEF ServedBefore, SeqSet
    <3> QED BY <3>2 DEF IInv, NoHandleLost, OnePlace
  <2> QED BY <2>2, <2>3, <2>4, EventSteps
<1> QED BY <1>2, <1>3

LEMMA ShieldStep ==
  ASSUME ExitTypeOK, IInv, EventInv, ShieldInv, [ExitNext]_exitvars
  PROVE  ShieldInv'
<1>1. CASE shield' = shield
  <2>1. finCancelled' => ~shield'
    BY <1>1, GenSteps DEF ShieldInv, ExitTypeOK
  <2>2. ~shield' => \A g \in Closing : gen'[g] # "open"
    BY <1>1, NeverReopens DEF ShieldInv
  <2> QED BY <2>1, <2>2 DEF ShieldInv
<1>2. CASE shield' # shield
  <2>1. pc = "calling" /\ obj = SetEvent /\ shield' = FALSE
    BY <1>2, GenSteps DEF SentinelClosing
  <2>2. fate[SetEvent] = "ran"
    BY <2>1 DEF IInv, HandInv
  <2>3. \A g \in Closing : gen'[g] # "open"
    BY <2>2, NeverReopens DEF EventInv
  <2> QED BY <2>1, <2>3 DEF ShieldInv
<1> QED BY <1>1, <1>2

-----------------------------------------------------------------------------
(* Nobody waits for a callback that does not come.                          *)

LEMMA SubmitComes ==
  ASSUME ExitTypeOK, NEW h \in Own, Submit(h)
  PROVE  Coming(h)'
BY SubmitFacts, OwnFacts DEF Coming, ExitTypeOK, OpenTypeOK, TypeOK

\* A callback of the loop's own stays in the loop until it returns.
LEMMA ComingKept ==
  ASSUME ExitTypeOK, IInv, OwnKept, CloseInv, [ExitNext]_exitvars, NEW h \in Own, Coming(h)
  PROVE  Coming(h)' \/ (ReturnDone /\ obj = h)
<1>1. CASE pc = "calling" /\ obj = h
  BY <1>1, OwnCallingKept DEF Coming
<1>2. CASE fate[h] = "accepted" /\ Others
  BY <1>2, OwnFate DEF Coming
<1>3. ASSUME fate[h] = "accepted", NEW e \in Own, Submit(e) PROVE fate'[h] = "accepted"
  <2>1. fate' = [fate EXCEPT ![e] = "accepted"] /\ h \in Handles
    BY <1>3, SubmitFacts, OwnFacts
  <2> QED BY <1>3, <2>1 DEF ExitTypeOK, OpenTypeOK, TypeOK
<1>4. CASE fate[h] = "accepted" /\ FinStarts
  <2>1. CASE UNCHANGED vars
    BY <1>4, <2>1 DEF vars, Coming
  <2>2. CASE ~UNCHANGED vars
    BY <1>4, <2>2, FinStartsAppends, OwnFacts DEF Coming
  <2> QED BY <2>1, <2>2
<1> QED BY <1>1, <1>2, <1>3, <1>4, StepKinds, OwnFacts DEF Coming

\* What begins and ends the waiting of and for asyncio tasks.
LEMMA TaskSteps ==
  ASSUME ExitTypeOK, [ExitNext]_exitvars, NEW a \in AioTasks
  PROVE  /\ body' = "syncing" => body = "syncing" \/ Submit(SyncHandle)
         /\ aio'[a] = "waking" => aio[a] = "waking" \/ Submit(WakeOf[a])
         /\ watch'[a] = "waiting" =>
              watch[a] = "waiting" \/ aio'[a] = "waking" \/ Submit(DoneOf[a])
         /\ aio[a] = "waking" /\ aio'[a] # "waking" =>
              aio'[a] = "finished" /\ watch'[a] = watch[a]
              /\ (watch[a] = "waiting" => Submit(DoneOf[a]))
         /\ ReturnDone =>
              /\ obj = WakeOf[a] => aio[a] = "finished"
              /\ obj = DoneOf[a] => watch'[a] = "over"
<1> USE DEF ExitTypeOK, OpenTypeOK
<1>1. ReturnDone =>
        /\ obj = WakeOf[a] => aio[a] = "finished"
        /\ obj = DoneOf[a] => watch'[a] = "over"
  BY DEF ReturnDone, Return
<1>2. CASE \E b \in AioTasks : WatchStart(b)
  BY <1>1, <1>2 DEF WatchStart, Submit, UserRuns
<1>3. CASE \E b \in AioTasks : AioReady(b) \/ AioFinish(b)
  BY <1>1, <1>3 DEF AioReady, AioFinish, Submit, UserRuns
<1>4. CASE aio' = aio /\ watch' = watch
  BY <1>1, <1>4, BodySteps DEF Leave, BodyExit
<1>5. CASE aio' = aio /\ body' = "teardown" /\ \A b \in AioTasks : watch'[b] # "waiting"
  BY <1>1, <1>5
<1>6. CASE ReturnDone
  BY <1>1, <1>6 DEF ReturnDone, Return
<1> QED
  BY <1>2, <1>3, <1>4, <1>5, <1>6
  DEF ExitNext, exitvars, allvars, ovars, OuterCancel, Forward, Leave, BodyExit, CallbackFails,
      NurseryFails, SyncCancelled, SyncReturns, CancelTasks, GensDecided, TasksNurseryCloses,
      FinTask, FinStarts, FinAborted, FinEnds, GenClosing, GenCloses, SentinelClosing,
      SentinelCloses, TrioTaskFails, TrioTaskEnds, Synchronize, TrioTaskRuns

LEMMA TasksWaitStep ==
  ASSUME ExitTypeOK, IInv, OwnKept, SyncInv, CloseInv, TasksWait, [ExitNext]_exitvars
  PROVE  TasksWait'
<1>1. body' = "syncing" => fate'[SyncHandle] \in {"accepted", "ran"}
  <2>1. CASE Submit(SyncHandle)
    BY <2>1, SubmitFacts, OwnFacts DEF ExitTypeOK, OpenTypeOK, TypeOK
  <2>2. ASSUME fate[SyncHandle] \in {"accepted", "ran"} PROVE fate'[SyncHandle] \in {"accepted", "ran"}
    <3>1. CASE Others
      BY <2>2, <3>1, OwnFate, OwnFacts
    <3>2. CASE ~Others
      <4>1. fate[SyncHandle] # "new" /\ ~Submit(SyncHandle)
        BY <2>2, SubmitFacts, OwnFacts
      <4>2. ASSUME NEW e \in Own, Submit(e) PROVE fate'[SyncHandle] = fate[SyncHandle]
        BY <4>1, <4>2, SubmitFacts, OwnFacts DEF ExitTypeOK, OpenTypeOK, TypeOK
      <4>3. CASE FinStarts
        BY <2>2, <4>3, FinStartsFacts, OwnFacts DEF vars, CloseHandles
      <4> QED BY <2>2, <3>2, <4>2, <4>3, StepKinds, OwnFacts
    <3> QED BY <3>1, <3>2
  <2>3. body' = "syncing" => body = "syncing" \/ Submit(SyncHandle)
    BY BodySteps DEF Leave, BodyExit
  <2> QED BY <2>1, <2>2, <2>3 DEF TasksWait
<1>2. ASSUME NEW a \in AioTasks, aio'[a] = "waking" PROVE Coming(WakeOf[a])'
  <2>1. CASE Submit(WakeOf[a])
    BY <2>1, SubmitComes, OwnFacts
  <2>2. CASE aio[a] = "waking"
    <3>1. Coming(WakeOf[a])
      BY <2>2 DEF TasksWait
    <3>2. ~(ReturnDone /\ obj = WakeOf[a])
      BY <2>2, TaskSteps
    <3> QED BY <3>1, <3>2, ComingKept, OwnFacts
  <2> QED BY <1>2, <2>1, <2>2, TaskSteps
<1>3. ASSUME NEW a \in AioTasks, watch'[a] = "waiting", aio'[a] # "waking"
      PROVE  Coming(DoneOf[a])'
  <2>1. CASE Submit(DoneOf[a])
    BY <2>1, SubmitComes, OwnFacts
  <2>2. CASE ~Submit(DoneOf[a])
    <3>1. watch[a] = "waiting" /\ aio[a] # "waking"
      BY <1>3, <2>2, TaskSteps
    <3>2. Coming(DoneOf[a])
      BY <3>1 DEF TasksWait
    <3>3. ~(ReturnDone /\ obj = DoneOf[a])
      BY <1>3, TaskSteps
    <3> QED BY <3>2, <3>3, ComingKept, OwnFacts
  <2> QED BY <2>1, <2>2
<1> QED BY <1>1, <1>2, <1>3 DEF TasksWait

\* What begins and ends the waiting of and for generators.
LEMMA WaitSteps ==
  ASSUME ExitTypeOK, [ExitNext]_exitvars
  PROVE  \/ /\ gen' = gen /\ shield' = shield
            /\ \/ fin' \in {fin, "starting", "done"}
               \/ fin' = "queued" /\ Submit(FinStart)
               \/ FinStarts
         \/ /\ shield' = shield /\ fin' = fin
            /\ \E g \in Closing : /\ gen[g] # "closed"
                                  /\ gen' = [gen EXCEPT ![g] = "closing"]
                                  /\ g = Sentinel => Submit(SetEvent)
         \/ \E g \in Closing :
              /\ gen' = [gen EXCEPT ![g] = "closed"]
              /\ g = Sentinel \/ shield' = shield
              /\ \/ fin' = "ending" /\ Submit(FinDone)
                 \/ fin' = fin /\ \E k \in Closing : gen'[k] # "closed"
<1>1. ASSUME NEW g \in Gens, GenClosing(g) \/ GenCloses(g)
      PROVE  /\ shield' = shield
             /\ \/ fin' = fin /\ gen[g] # "closed" /\ gen' = [gen EXCEPT ![g] = "closing"]
                \/ /\ gen' = [gen EXCEPT ![g] = "closed"]
                   /\ \/ fin' = "ending" /\ Submit(FinDone)
                      \/ fin' = fin /\ \E k \in Closing : gen'[k] # "closed"
  BY <1>1 DEF GenClosing, GenCloses, Closes, Submit, UserRuns
<1>2. CASE \E g \in Gens : GenClosing(g) \/ GenCloses(g)
  <2>1. PICK g \in Gens : GenClosing(g) \/ GenCloses(g)
    BY <1>2
  <2>2. g \in Closing /\ g # Sentinel
    BY ExitAssumption, OwnFacts
  <2> QED BY <1>1, <2>1, <2>2
<1>3. CASE SentinelClosing
  BY <1>3, OwnFacts DEF SentinelClosing, Submit, UserRuns
<1>4. CASE SentinelCloses
  BY <1>4, OwnFacts DEF SentinelCloses, Closes, Submit, UserRuns
<1>5. CASE FinTask \/ FinStarts \/ FinEnds
  BY <1>5 DEF FinTask, FinStarts, FinEnds, Submit, UserRuns
<1>6. CASE FinAborted \/ GensDecided
  BY <1>6 DEF FinAborted, GensDecided
<1>7. CASE UNCHANGED finvars
  BY <1>7 DEF finvars
<1> QED
  BY <1>2, <1>3, <1>4, <1>5, <1>6, <1>7
  DEF ExitNext, exitvars, allvars, evars, finvars, OuterCancel, Forward, Leave, CallbackFails,
      NurseryFails, SyncCancelled, SyncReturns, ReturnDone, TrioTaskFails

\* shutdown_asyncgens() starts with its task alive, and calls aclose() for all.
LEMMA FinRuns ==
  ASSUME ExitTypeOK, IInv, CloseInv, ShieldInv, FinStarts
  PROVE  /\ fin = "queued" /\ fin' = "running" /\ gen' = gen /\ shield' = shield
         /\ \A g \in Closing : gen[g] = "open" /\ fate'[CloseOf[g]] = "accepted"
<1>1. fin = "queued" /\ CloseNew
  BY DEF FinStarts, CloseInv
<1>2. \A g \in Closing : gen[g] = "open"
  BY <1>1 DEF CloseInv, CloseNew
<1>3. ~finCancelled
  BY <1>2, OwnFacts DEF ShieldInv
<1>4. /\ fin' = "running" /\ gen' = gen /\ shield' = shield
      /\ fate' = [h \in Handles |-> IF h \in {CloseOf[g] : g \in Closing} THEN "accepted" ELSE fate[h]]
  BY <1>3 DEF FinStarts
<1> QED BY <1>1, <1>2, <1>4, OwnFacts

LEMMA GensWaitStep ==
  ASSUME ExitTypeOK, IInv, OwnKept, CloseInv, ShieldInv, GensWait, [ExitNext]_exitvars
  PROVE  GensWait'
<1> USE DEF ExitTypeOK
<1> DEFINE Done(g) == gen' = [gen EXCEPT ![g] = "closed"]
<1>1. fin' # "lost"
  BY WaitSteps, FinRuns DEF GensWait
<1>2. ASSUME fin' = "queued" PROVE Coming(FinStart)'
  <2>1. CASE Submit(FinStart)
    BY <2>1, SubmitComes, OwnFacts
  <2>2. CASE fin = "queued"
    <3>1. ~(ReturnDone /\ obj = FinStart)
      BY <2>2 DEF ReturnDone
    <3> QED BY <2>2, <3>1, ComingKept, OwnFacts DEF GensWait
  <2> QED BY <1>2, <2>1, <2>2, WaitSteps, FinRuns
<1>3. ASSUME fin' = "running", NEW g \in Closing, gen'[g] = "open" PROVE Coming(CloseOf[g])'
  <2>1. CASE FinStarts
    BY <2>1, FinRuns DEF Coming
  <2>2. CASE fin = "running"
    <3>1. gen[g] = "open"
      BY <1>3, NeverReopens
    <3>2. ~(ReturnDone /\ obj = CloseOf[g])
      BY <3>1 DEF ReturnDone
    <3> QED BY <2>2, <3>1, <3>2, ComingKept, OwnFacts DEF GensWait
  <2> QED BY <1>3, <2>1, <2>2, WaitSteps
<1>4. ASSUME fin' = "running" PROVE \E g \in Closing : gen'[g] # "closed"
  <2>1. CASE FinStarts
    BY <2>1, FinRuns, OwnFacts
  <2>2. CASE gen' = gen /\ fin = "running"
    BY <2>2 DEF GensWait
  <2>3. CASE \E g \in Closing : gen' = [gen EXCEPT ![g] = "closing"]
    BY <2>3
  <2> QED BY <1>4, <2>1, <2>2, <2>3, WaitSteps
<1>5. ASSUME fin' = "ending" PROVE Coming(FinDone)'
  <2>1. CASE Submit(FinDone)
    BY <2>1, SubmitComes, OwnFacts
  <2>2. CASE fin = "ending"
    <3>1. ~(ReturnDone /\ obj = FinDone)
      BY <2>2 DEF ReturnDone
    <3> QED BY <2>2, <3>1, ComingKept, OwnFacts DEF GensWait
  <2> QED BY <1>5, <2>1, <2>2, WaitSteps, FinRuns
<1>6. ASSUME gen'[Sentinel] # "closed" PROVE shield'
  <2>1. Sentinel \in Closing /\ ~Done(Sentinel)
    BY <1>6, OwnFacts
  <2>2. gen[Sentinel] # "closed"
    BY <1>6, <2>1, WaitSteps
  <2>3. shield
    BY <2>2 DEF GensWait
  <2> QED BY <2>1, <2>3, WaitSteps
<1>7. ASSUME gen'[Sentinel] = "closing" PROVE Coming(SetEvent)'
  <2>1. CASE Submit(SetEvent)
    BY <2>1, SubmitComes, OwnFacts
  <2>2. CASE gen[Sentinel] = "closing"
    <3>1. Coming(SetEvent) /\ shield
      BY <2>2 DEF GensWait
    <3>2. ~(ReturnDone /\ obj = SetEvent)
      BY <3>1 DEF ReturnDone
    <3> QED BY <3>1, <3>2, ComingKept, OwnFacts
  <2>3. gen[Sentinel] = "closing" \/ Submit(SetEvent)
    BY <1>7, WaitSteps, OwnFacts
  <2> QED BY <2>1, <2>2, <2>3
<1> QED BY <1>1, <1>2, <1>3, <1>4, <1>5, <1>6, <1>7 DEF GensWait

\* A loop that was told to stop, or has stopped, remains so.
LEMMA HaltSteps ==
  ASSUME TypeOK, [Next]_vars
  PROVE  /\ (stopped => stopped') /\ (stopWait => stopWait')
         /\ exit' = "wait" => exit = "wait" \/ stopWait'
BY DEF Next, Calls, CallSoon, TrioAsFuture, CallAt, CallLater, Cancel, StopWith, Stop, StopNoWaiter,
       Halt, QueueHandle, Close, ThreadSteps, ThreadCheck, ThreadPost, EntryRun, Tick, LoopSteps,
       PopTimer, Receive, Park, TimeoutReached, Arm, SkipCancelled, CallbackStart, StopMe,
       TaskSpawn, TaskSpawnFails, TaskStarted, CallbackReturn, CallbackExits, TaskRuns,
       NurseryCloses, ExitSteps, ExitBegin, ExitSkipped, DrainBegin, ExitFinish, Unwind, halt, life,
       vars

LEMMA ExitWaitStep ==
  ASSUME ExitTypeOK, IInv, CloseInv, ExitWait, [ExitNext]_exitvars
  PROVE  ExitWait'
<1> USE DEF ExitTypeOK, OpenTypeOK
<1>1. CASE [Next]_vars
  <2>1. StopsNotCancelled' /\ StopPending'
    BY <1>1, StopsNotCancelledStep, StopPendingStep, OwnFacts DEF ExitWait
  <2>2. exit' = "wait" => stopped' \/ stopWait'
    BY <1>1, HaltSteps DEF ExitWait
  <2> QED BY <2>1, <2>2 DEF ExitWait
<1>2. CASE FinStarts /\ ~UNCHANGED vars
  <2>1. /\ UNCHANGED <<cancelled, stopped, stopWait, exit>>
        /\ fate' = [h \in Handles |-> IF h \in CloseHandles THEN "accepted" ELSE fate[h]]
    BY <1>2, FinStartsAppends
  <2>2. ExitStop \in Handles
    BY KindFacts
  <2> QED BY <2>1, <2>2 DEF ExitWait, StopPending, StopsNotCancelled
<1> QED BY <1>1, <1>2, StepIsNext

\* A handle of the loop's own, or stop_me, that the loop has is no reason to
\* sleep.
LEMMA SleepsWithoutHandles ==
  ASSUME TypeOK, IInv, pc = "parked", NEW h \in Handles \ Timers
  PROVE  fate[h] # "accepted"
<1>1. queue = <<>> /\ obj = NoHandle /\ h # NoHandle
  BY KindFacts DEF IInv, ParkedMeansIdle
<1>2. h \notin SeqSet(queue)
  BY <1>1, EmptySeqSet
<1> QED BY <1>1, <1>2 DEF IInv, NoHandleLost, OnePlace, TypeOK

-----------------------------------------------------------------------------
(* Theorems.                                                                *)

LEMMA ExitInits == ExitInit => ExitIInv
<1> SUFFICES ASSUME ExitInit PROVE ExitIInv
  OBVIOUS
<1>1. TypeOK /\ IInv
  BY InitTypes, IInvInit DEF ExitInit, OpenInit
<1>2. ExitTypeOK
  BY <1>1 DEF ExitInit, OpenInit, ExitTypeOK, OpenTypeOK
<1>3. \A h \in Handles : fate[h] = "new"
  BY DEF ExitInit, OpenInit, Init
<1> QED
  BY <1>1, <1>2, <1>3, OwnFacts
  DEF ExitInit, OpenInit, Init, ExitIInv, NurseryInv, NurseryEmpty, OwnKept, SyncInv,
      CloseInv, CloseNew, EventInv, ShieldInv

(* Every variable of open_loop() keeps its type, and the handles of its     *)
(* shutdown are where the teardown expects them, in every reachable state.  *)
THEOREM ExitInvariant == ExitSpec => []ExitIInv
<1>1. ExitIInv /\ [ExitNext]_exitvars => ExitIInv'
  BY LoopKeeps, ExitTypeStep, NurseryStep, OwnKeptStep, SyncStep, CloseStep, EventStep, ShieldStep
  DEF ExitIInv
<1> QED BY ExitInits, <1>1, PTL DEF ExitSpec

(* Cancellation from outside does not reach the finalizers before each of   *)
(* them has started, in whatever order gather() runs them.                  *)
THEOREM FinalizersAreShielded == ExitSpec => []FinalizersStart
<1>1. ExitIInv => FinalizersStart
  BY DEF ExitIInv, ShieldInv, FinalizersStart
<1> QED BY ExitInvariant, <1>1, PTL

(* Unless the loop is stopped early or an error cancels the nursery, the    *)
(* asyncio tasks are cancelled only when all that was submitted before the  *)
(* body was left has been run or skipped.                                   *)
THEOREM SynchronizeIsABarrier == ExitSpec => SubmittedRunFirst
<1>1. ExitIInv /\ [ExitNext]_exitvars =>
        [body # "teardown" /\ body' = "teardown" /\ ~stopped /\ failure # "raised" =>
           \A h \in submitted : fate[h] # "accepted"]_exitvars
  <2> SUFFICES ASSUME ExitIInv, [ExitNext]_exitvars, body # "teardown", body' = "teardown",
                      ~stopped, failure # "raised"
               PROVE  \A h \in submitted : fate[h] # "accepted"
    OBVIOUS
  <2>1. body = "syncing" /\ fate[SyncHandle] = "ran"
    BY DEF ExitNext, exitvars, allvars, ovars, OuterCancel, Forward, Leave, BodyExit, CallbackFails,
           NurseryFails, SyncCancelled, SyncReturns, CancelTasks, GensDecided, TasksNurseryCloses,
           FinTask, FinStarts, FinAborted, FinEnds, GenClosing, GenCloses, SentinelClosing,
           SentinelCloses, ReturnDone, Return, TrioTaskFails, TrioTaskEnds, Synchronize,
           TrioTaskRuns, WatchStart, AioReady, AioFinish
  <2> QED BY <2>1 DEF ExitIInv, SyncInv
<1> QED BY ExitInvariant, <1>1, PTL DEF ExitSpec, SubmittedRunFirst

(* Whoever waits in open_loop() for a callback has it in the loop, and the  *)
(* loop does not sleep: synchronize(), the cancelled asyncio tasks and those*)
(* who watch them, _main_loop_exit(), and the tasks that close generators.  *)
THEOREM NobodyWaitsInVain == ExitSpec => []NobodyWaitsForSleeper
<1>1. ExitInit => WaitInv
  BY OwnFacts
  DEF ExitInit, OpenInit, Init, WaitInv, TasksWait, GensWait, ExitWait, StopPending,
      StopsNotCancelled
<1>2. ExitIInv /\ WaitInv /\ [ExitNext]_exitvars => WaitInv'
  BY TasksWaitStep, GensWaitStep, ExitWaitStep DEF ExitIInv, WaitInv
<1>3. ExitIInv /\ WaitInv => NobodyWaitsForSleeper
  <2> SUFFICES ASSUME ExitIInv, WaitInv, pc = "parked"
               PROVE  /\ body = "syncing" => fate[SyncHandle] = "ran"
                      /\ exit # "wait"
                      /\ \A a \in AioTasks : aio[a] # "waking" /\ watch[a] # "waiting"
                      /\ fin \notin {"queued", "ending", "lost"}
                      /\ fin = "running" => \E g \in Gens : gen[g] = "closing"
    BY DEF NobodyWaitsForSleeper
  <2>1. TypeOK /\ IInv /\ gen \in [Closing -> {"open", "closing", "closed"}]
    BY DEF ExitIInv, ExitTypeOK, OpenTypeOK
  <2>2. \A h \in Own : fate[h] # "accepted" /\ ~Coming(h)
    BY <2>1, SleepsWithoutHandles, OwnFacts DEF Coming
  <2>3. body = "syncing" => fate[SyncHandle] = "ran"
    BY <2>2, OwnFacts DEF WaitInv, TasksWait
  <2>4. \A a \in AioTasks : aio[a] # "waking" /\ watch[a] # "waiting"
    BY <2>2, OwnFacts DEF WaitInv, TasksWait
  <2>5. fin \notin {"queued", "ending", "lost"}
    BY <2>2, OwnFacts DEF WaitInv, GensWait
  <2>6. exit # "wait"
    <3>1. ~stopped
      BY <2>1 DEF IInv, PhaseInv
    <3>2. ExitStop \in Handles \ Timers
      BY KindFacts, StopsAreNotTimers DEF Stops
    <3>3. ~stopWait
      BY <2>1, <3>1, <3>2, SleepsWithoutHandles DEF WaitInv, ExitWait, StopPending
    <3> QED BY <3>1, <3>3 DEF WaitInv, ExitWait
  <2>7. ASSUME fin = "running" PROVE \E g \in Gens : gen[g] = "closing"
    <3>1. PICK g \in Closing : gen[g] # "closed"
      BY <2>7 DEF WaitInv, GensWait
    <3>2. gen[g] = "closing"
      BY <2>1, <2>2, <2>7, <3>1, OwnFacts DEF WaitInv, GensWait
    <3>3. g # Sentinel
      BY <2>2, <3>2, OwnFacts DEF WaitInv, GensWait
    <3> QED BY <3>2, <3>3 DEF Closing
  <2> QED BY <2>3, <2>4, <2>5, <2>6, <2>7
<1> QED BY ExitInvariant, <1>1, <1>2, <1>3, PTL DEF ExitSpec

-----------------------------------------------------------------------------
(* open_loop() implements the contract of its loop.                         *)

\* To accept handles in a row is to accept one after the other.
LEMMA RowIsOneByOne ==
  ASSUME TypeOK, NEW r \in Seq(Handles), NEW h \in Handles, \A i \in DOMAIN r : r[i] # h
  PROVE  /\ LC!AcceptedAfter(<<>>) = PublicStatus
         /\ LC!AcceptedAfter(r)[h] = PublicStatus[h]
         /\ LC!AcceptedAfter(Append(r, h)) = [LC!AcceptedAfter(r) EXCEPT ![h] = "accepted"]
<1>1. PublicStatus = [k \in Handles |-> PublicStatus[k]]
  BY DEF PublicStatus
<1>2. DOMAIN <<>> = {}
  OBVIOUS
<1>3. \A k : (\E i \in DOMAIN Append(r, h) : Append(r, h)[i] = k) <=>
             (\E i \in DOMAIN r : r[i] = k) \/ k = h
  <2>1. SeqSet(Append(r, h)) = SeqSet(r) \cup {h}
    BY AppendFacts
  <2> QED BY <2>1, Zenon DEF SeqSet
<1> QED BY <1>1, <1>2, <1>3 DEF LC!AcceptedAfter

LEMMA FinStartsSeen ==
  ASSUME ExitTypeOK, IInv, CloseInv, FinStarts, ~UNCHANGED vars
  PROVE  \E hs \in Seq(Handles) : LC!AcceptInARow(hs)
<1>1. /\ pc = "calling" /\ UNCHANGED <<pc, obj, cancelled, timers>>
      /\ fate' = [h \in Handles |-> IF h \in CloseHandles THEN "accepted" ELSE fate[h]]
      /\ \A h \in CloseHandles : fate[h] = "new" /\ h \in Handles
      /\ queue \in Seq(Handles)
  BY FinStartsAppends
<1>2. PICK closes \in Seq(Handles) :
        /\ Distinct(closes) /\ SeqSet(closes) = CloseHandles
        /\ queue' = queue \o closes
  BY FinStartsFacts
<1>3. HeldFromQueue = <<>> /\ HeldFromQueue' = <<>> /\ ArmedTimers' = ArmedTimers
  BY <1>1 DEF HeldFromQueue, ArmedTimers
<1>4. HeldFromQueue' \o queue' = (HeldFromQueue \o queue) \o closes
  <2>1. <<>> \o (queue \o closes) = (<<>> \o queue) \o closes
    <3>1. queue \o closes \in Seq(Handles)
      BY <1>1, ConcatProperties
    <3> QED BY <1>1, <3>1, ConcatEmptySeq
  <2> QED BY <1>2, <1>3, <2>1
<1>5. \A h : (\E i \in DOMAIN closes : closes[i] = h) <=> h \in CloseHandles
  BY <1>2 DEF SeqSet
<1>6. PublicStatus' = LC!AcceptedAfter(closes)
  BY <1>1, <1>5 DEF LC!AcceptedAfter, PublicStatus
<1>7. \A i \in DOMAIN closes : PublicStatus[closes[i]] = "new"
  BY <1>1, <1>5 DEF PublicStatus
<1> QED BY <1>1, <1>2, <1>3, <1>4, <1>6, <1>7 DEF LC!AcceptInARow, Distinct

(* Those who schedule handles see the same server in open_loop(), while its *)
(* tasks are cancelled, its generators closed and its loop stopped, drained *)
(* and closed.                                                              *)
THEOREM OpenLoopImplementsContract == ExitSpec => LC!ContractInRows
<1>1. ExitInit => LC!CInit
  BY DEF ExitInit, OpenInit, Init, LC!CInit, HeldFromQueue, ArmedTimers, PublicStatus
<1>2. ExitIInv /\ [ExitNext]_exitvars => [LC!CNextInRows]_LC!cvars
  BY StepIsNext, StepIsSeen, FinStartsSeen, Unseen
  DEF ExitIInv, ExitTypeOK, OpenTypeOK, LC!CNextInRows
<1> QED BY ExitInvariant, <1>1, <1>2, PTL DEF ExitSpec, LC!ContractInRows

-----------------------------------------------------------------------------
(* What EventLoop promises, in open_loop().                                 *)

LEMMA ExitRanStep ==
  ASSUME ExitIInv, [ExitNext]_exitvars, NEW h \in Handles, fate[h] # "ran", fate'[h] = "ran"
  PROVE  h = obj /\ h \notin cancelled
<1>1. ExitTypeOK /\ TypeOK /\ IInv /\ CloseInv
  BY DEF ExitIInv, ExitTypeOK, OpenTypeOK
<1>2. ~(FinStarts /\ ~UNCHANGED vars)
  BY <1>1, FinStartsAppends
<1> QED BY <1>1, <1>2, StepIsNext, RanStep

(* While open_loop() ends, no handle is lost, the loop does not sleep on    *)
(* one, stop() is a barrier, what is cancelled is never called, and nothing *)
(* that was accepted is left when _main_loop_exit() is through.             *)
THEOREM PromisesInOpenLoop ==
  ExitSpec =>
    /\ []NoHandleLost /\ []ParkedMeansIdle
    /\ StopBarrier /\ CancelledNeverRuns /\ ExitLeavesNothing
<1>1. ExitIInv => NoHandleLost /\ ParkedMeansIdle
  BY DEF ExitIInv, IInv
<1>2. ExitIInv /\ [ExitNext]_exitvars =>
        [\A s \in Stops : fate[s] = "accepted" /\ fate'[s] = "ran" =>
            \A h \in before[s] : fate[h] # "accepted"]_vars
  <2> SUFFICES ASSUME ExitIInv, [ExitNext]_exitvars, NEW s \in Stops, fate[s] = "accepted",
                      fate'[s] = "ran"
               PROVE  \A h \in before[s] : fate[h] # "accepted"
    OBVIOUS
  <2>1. s = obj
    BY KindFacts, ExitRanStep
  <2> QED BY <2>1, TakenStopIsLast DEF ExitIInv
<1>3. ExitIInv /\ [ExitNext]_exitvars =>
        [\A h \in cancelled : fate'[h] = "ran" => fate[h] = "ran"]_vars
  <2>1. ExitIInv => cancelled \subseteq Handles
    BY DEF ExitIInv, ExitTypeOK, OpenTypeOK, TypeOK
  <2> QED BY <2>1, ExitRanStep
<1>4. ExitIInv /\ [ExitNext]_exitvars =>
        [exit # "finished" /\ exit' = "finished" =>
           /\ timers' = {}
           /\ \A h \in Handles : fate'[h] # "accepted"]_vars
  <2> SUFFICES ASSUME ExitIInv, [ExitNext]_exitvars, exit # "finished", exit' = "finished"
               PROVE  timers' = {} /\ \A h \in Handles : fate'[h] # "accepted"
    OBVIOUS
  <2>1. ExitTypeOK /\ IInv /\ CloseInv
    BY DEF ExitIInv
  <2>2. ~(FinStarts /\ ~UNCHANGED vars)
    BY <2>1, FinStartsAppends
  <2>3. [Next]_vars
    BY <2>1, <2>2, StepIsNext
  <2> QED BY <2>1, <2>3, FinishStep, FinishLeavesNothing
<1> QED
  BY ExitInvariant, <1>1, <1>2, <1>3, <1>4, PTL
  DEF ExitSpec, StopBarrier, CancelledNeverRuns, ExitLeavesNothing

=============================================================================
