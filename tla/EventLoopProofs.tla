--------------------------- MODULE EventLoopProofs ---------------------------
(***************************************************************************)
(* What EventLoop guarantees for every set of handles, every capacity of   *)
(* the channel and every schedule of the Trio tasks and threads; and what  *)
(* SignalHandlers, the loop with signal handlers, guarantees for every set *)
(* of signals.  Only the last part, and no theorem about Spec, uses        *)
(* anything of SignalHandlers.                                             *)
(***************************************************************************)
EXTENDS SignalHandlers, SequenceTheorems, TLAPS

-----------------------------------------------------------------------------
(* Lemmas on sequences as used by the channel and the entry queue.          *)

LEMMA AppendFacts ==
  ASSUME NEW S, NEW s \in Seq(S), NEW e \in S
  PROVE  /\ Append(s, e) \in Seq(S)
         /\ Append(s, e) # <<>>
         /\ Len(Append(s, e)) = Len(s) + 1
         /\ \A i \in 1 .. Len(s) : Append(s, e)[i] = s[i]
         /\ Append(s, e)[Len(s) + 1] = e
         /\ SeqSet(Append(s, e)) = SeqSet(s) \cup {e}
<1>1. /\ Append(s, e) \in Seq(S)
      /\ Append(s, e) # <<>>
      /\ Len(Append(s, e)) = Len(s) + 1
      /\ \A i \in 1 .. Len(s) : Append(s, e)[i] = s[i]
      /\ Append(s, e)[Len(s) + 1] = e
      /\ DOMAIN Append(s, e) = 1 .. Len(s) + 1
      /\ DOMAIN s = 1 .. Len(s)
      /\ Len(s) \in Nat
  OBVIOUS
<1>2. SeqSet(Append(s, e)) = SeqSet(s) \cup {e}
  BY <1>1, SMT DEF SeqSet
<1> QED BY <1>1, <1>2

LEMMA HeadTailFacts ==
  ASSUME NEW S, NEW s \in Seq(S), s # <<>>
  PROVE  /\ Head(s) \in S
         /\ Tail(s) \in Seq(S)
         /\ Len(s) \in Nat /\ Len(s) > 0
         /\ Len(Tail(s)) = Len(s) - 1
         /\ s[1] = Head(s)
         /\ \A i \in 1 .. Len(s) - 1 : Tail(s)[i] = s[i + 1]
         /\ SeqSet(s) = {Head(s)} \cup SeqSet(Tail(s))
<1>1. /\ Head(s) \in S
      /\ Tail(s) \in Seq(S)
      /\ Len(s) \in Nat /\ Len(s) > 0
      /\ Len(Tail(s)) = Len(s) - 1
      /\ s[1] = Head(s)
      /\ \A i \in 1 .. Len(s) - 1 : Tail(s)[i] = s[i + 1]
      /\ DOMAIN s = 1 .. Len(s)
      /\ DOMAIN Tail(s) = 1 .. Len(s) - 1
  BY HeadTailProperties, EmptySeq, LenProperties
<1>2. \A x \in SeqSet(s) : x = Head(s) \/ x \in SeqSet(Tail(s))
  <2> SUFFICES ASSUME NEW i \in 1 .. Len(s), i # 1
               PROVE  s[i] \in SeqSet(Tail(s))
    BY <1>1 DEF SeqSet
  <2>1. i - 1 \in 1 .. Len(s) - 1 /\ Tail(s)[i - 1] = s[i]
    BY <1>1
  <2> QED BY <1>1, <2>1 DEF SeqSet
<1>3. Head(s) \in SeqSet(s) /\ SeqSet(Tail(s)) \subseteq SeqSet(s)
  BY <1>1, SMT DEF SeqSet
<1> QED BY <1>1, <1>2, <1>3

LEMMA EmptySeqSet == SeqSet(<<>>) = {} /\ Distinct(<<>>)
BY DEF SeqSet, Distinct

LEMMA AppendDistinct ==
  ASSUME NEW S, NEW s \in Seq(S), NEW e \in S, Distinct(s), e \notin SeqSet(s)
  PROVE  Distinct(Append(s, e))
<1>1. DOMAIN s = 1 .. Len(s) /\ DOMAIN Append(s, e) = 1 .. Len(s) + 1 /\ Len(s) \in Nat
  BY AppendFacts, LenProperties
<1>2. \A i \in 1 .. Len(s) : s[i] # e
  BY <1>1 DEF SeqSet
<1> QED BY <1>1, <1>2, AppendFacts, SMT DEF Distinct

LEMMA TailDistinct ==
  ASSUME NEW S, NEW s \in Seq(S), s # <<>>, Distinct(s)
  PROVE  Distinct(Tail(s)) /\ Head(s) \notin SeqSet(Tail(s))
<1>1. /\ DOMAIN s = 1 .. Len(s) /\ DOMAIN Tail(s) = 1 .. Len(s) - 1
      /\ Len(s) \in Nat /\ Len(s) > 0
  BY HeadTailFacts, LenProperties
<1>2. \A i \in 1 .. Len(s) - 1 : Tail(s)[i] = s[i + 1] /\ i + 1 \in DOMAIN s
  BY <1>1, HeadTailFacts
<1>3. Distinct(Tail(s))
  BY <1>1, <1>2, SMT DEF Distinct
<1>4. s[1] = Head(s) /\ 1 \in DOMAIN s
  BY <1>1, HeadTailFacts
<1>5. Head(s) \notin SeqSet(Tail(s))
  BY <1>1, <1>2, <1>4, SMT DEF Distinct, SeqSet
<1> QED BY <1>3, <1>5

-----------------------------------------------------------------------------
(* Type correctness.                                                        *)

LEMMA KindFacts ==
  /\ Soon \subseteq Handles /\ Threaded \subseteq Handles /\ Timers \subseteq Handles
  /\ Asyncs \subseteq Handles /\ Stops \subseteq Handles
  /\ Waiters \subseteq Stops /\ ExitStop \in Stops
  /\ NoHandle \notin Handles
BY KindsAssumption DEF Handles, Callbacks, Stops

LEMMA QueueHandleTypes ==
  ASSUME TypeOK, NEW h \in Handles, QueueHandle(h)
  PROVE  /\ queue' \in Seq(Handles) /\ pc' \in PCs /\ obj' \in Handles \cup {NoHandle}
         /\ fate' \in [Handles -> Fates]
<1>1. Append(queue, h) \in Seq(Handles)
  BY AppendFacts DEF TypeOK
<1> QED
  BY <1>1 DEF TypeOK, QueueHandle, SendNowait, Becomes, chan, PCs, Fates

LEMMA HaltTypes ==
  ASSUME TypeOK, NEW s \in Stops, Halt(s)
  PROVE  /\ queue' \in Seq(Handles) /\ pc' \in PCs /\ obj' \in Handles \cup {NoHandle}
         /\ fate' \in [Handles -> Fates]
         /\ waiters' \in SUBSET Stops
         /\ before' \in [Stops -> SUBSET Handles]
<1>1. CASE stopped
  BY <1>1, QueueHandleTypes, KindFacts DEF Halt, TypeOK, chan
<1>2. CASE ~stopped
  <2>1. QueueHandle(s) /\ s \in Handles
    BY <1>2, KindFacts DEF Halt
  <2> QED BY <1>2, <2>1, QueueHandleTypes DEF Halt, TypeOK
<1> QED BY <1>1, <1>2

LEMMA TypeStep == TypeOK /\ [Next]_vars => TypeOK'
<1> SUFFICES ASSUME TypeOK, [Next]_vars PROVE TypeOK'
  OBVIOUS
<1> USE KindFacts, BoundsAssumption
<1>1. ASSUME NEW h \in Soon, CallSoon(h) PROVE TypeOK'
  BY <1>1, QueueHandleTypes DEF CallSoon, TypeOK, clock, halt, life
<1>2. ASSUME NEW h \in Asyncs, TrioAsFuture(h) PROVE TypeOK'
  BY <1>2, QueueHandleTypes DEF TrioAsFuture, TypeOK, clock, halt, life
<1>3. ASSUME NEW t \in Timers, NEW d \in 0 .. MaxTime, CallAt(t, d) PROVE TypeOK'
  BY <1>3, QueueHandleTypes DEF CallAt, TypeOK, halt, life
<1>4. ASSUME NEW t \in Timers, NEW d \in 0 .. MaxTime, CallLater(t, d) PROVE TypeOK'
  <2>1. now + d \in 0 .. MaxTime
    BY <1>4 DEF CallLater, TypeOK
  <2> QED BY <1>4, <2>1, <1>3 DEF CallLater
<1>5. ASSUME NEW h \in Soon \cup Timers \cup Asyncs, Cancel(h) PROVE TypeOK'
  BY <1>5 DEF Cancel, TypeOK, chan, clock, halt, life
<1>6. ASSUME NEW w \in Waiters, StopWith(w) PROVE TypeOK'
  BY <1>6, HaltTypes DEF StopWith, TypeOK, clock, life
<1>7. ASSUME Stop PROVE TypeOK'
  BY <1>7, HaltTypes DEF Stop, StopNoWaiter, TypeOK, clock, life
<1>8. ASSUME Close PROVE TypeOK'
  BY <1>8 DEF Close, TypeOK, chan, clock, halt
<1>9. ASSUME NEW h \in Threaded, ThreadCheck(h) PROVE TypeOK'
  BY <1>9 DEF ThreadCheck, Becomes, Fates, TypeOK, chan, clock, halt, life
<1>10. ASSUME NEW h \in Threaded, ThreadPost(h) PROVE TypeOK'
  <2>1. Append(entry, h) \in Seq(Threaded)
    BY AppendFacts DEF TypeOK
  <2> QED BY <1>10, <2>1 DEF ThreadPost, Becomes, Fates, TypeOK, chan, clock, halt, life
<1>11. ASSUME EntryRun PROVE TypeOK'
  <2>1. Head(entry) \in Threaded /\ Tail(entry) \in Seq(Threaded)
    BY <1>11, HeadTailFacts DEF EntryRun, TypeOK
  <2>2. Append(queue, Head(entry)) \in Seq(Handles)
    BY <2>1, AppendFacts DEF TypeOK
  <2>3. Head(entry) \in Handles
    BY <2>1
  <2>4. queue' \in Seq(Handles) /\ obj' \in Handles \cup {NoHandle}
    BY <1>11, <2>2, <2>3 DEF EntryRun, SendNowait, TypeOK
  <2>5. pc' \in PCs
    BY <1>11 DEF EntryRun, SendNowait, PCs, TypeOK
  <2>6. fate' \in [Handles -> Fates]
    BY <1>11, <2>3 DEF EntryRun, Becomes, Fates, TypeOK
  <2>7. entry' = Tail(entry) /\ UNCHANGED <<cancelled, clock, halt, life>>
    BY <1>11 DEF EntryRun
  <2> QED BY <2>1, <2>4, <2>5, <2>6, <2>7 DEF TypeOK, clock, halt, life
<1>12. ASSUME Tick PROVE TypeOK'
  BY <1>12 DEF Tick, TypeOK, halt, life
<1>13. ASSUME LoopSteps PROVE TypeOK'
  <2>1. CASE PopTimer
    BY <2>1 DEF PopTimer, TypeOK, PCs, halt, life
  <2>2. CASE Receive
    BY <2>2, HeadTailFacts DEF Receive, TypeOK, PCs, clock, halt, life
  <2>3. CASE Park \/ TimeoutReached
    BY <2>3 DEF Park, TimeoutReached, TypeOK, PCs, clock, halt, life
  <2>4. CASE Arm
    BY <2>4 DEF Arm, TypeOK, PCs, halt, life
  <2>5. CASE SkipCancelled \/ CallbackStart
    BY <2>5 DEF SkipCancelled, CallbackStart, NextRound, Becomes, Fates, TypeOK, PCs,
                clock, halt, life
  <2>6. CASE StopMe
    BY <2>6 DEF StopMe, NextRound, Unwind, Becomes, Fates, Exits, TypeOK, PCs, clock
  <2>7. CASE TaskSpawn \/ TaskStarted
    BY <2>7 DEF TaskSpawn, TaskStarted, NextRound, TypeOK, PCs, clock, halt, life
  <2>8. CASE TaskSpawnFails
    BY <2>8 DEF TaskSpawnFails, Unwind, Becomes, Fates, Exits, TypeOK, PCs, clock
  <2> QED BY <1>13, <2>1, <2>2, <2>3, <2>4, <2>5, <2>6, <2>7, <2>8 DEF LoopSteps
<1>14. ASSUME CallbackReturn PROVE TypeOK'
  BY <1>14 DEF CallbackReturn, NextRound, TypeOK, PCs, clock, halt, life
<1>15. ASSUME CallbackExits PROVE TypeOK'
  BY <1>15 DEF CallbackExits, Unwind, Exits, TypeOK, PCs, clock
<1>16. ASSUME TaskRuns PROVE TypeOK'
  BY <1>16 DEF TaskRuns, Becomes, Fates, TypeOK, chan, clock, halt, life
<1>17. ASSUME NurseryCloses PROVE TypeOK'
  BY <1>17 DEF NurseryCloses, TypeOK, chan, clock, halt
<1>18. ASSUME ExitSteps PROVE TypeOK'
  <2>1. CASE ExitBegin
    BY <2>1, HaltTypes DEF ExitBegin, StopNoWaiter, Exits, TypeOK, clock, chan
  <2>2. CASE ExitSkipped
    BY <2>2 DEF ExitSkipped, Exits, TypeOK, clock, chan, halt
  <2>3. CASE DrainBegin
    BY <2>3 DEF DrainBegin, Exits, PCs, TypeOK, clock, halt
  <2>4. CASE ExitFinish
    BY <2>4 DEF ExitFinish, Exits, PCs, Fates, TypeOK, halt
  <2> QED BY <1>18, <2>1, <2>2, <2>3, <2>4 DEF ExitSteps
<1>19. CASE UNCHANGED vars
  BY <1>19 DEF TypeOK, vars
<1>20. CASE Calls
  BY <1>20, <1>1, <1>2, <1>3, <1>4, <1>5, <1>6, <1>7, <1>8 DEF Calls
<1>21. CASE ThreadSteps
  BY <1>21, <1>9, <1>10 DEF ThreadSteps
<1> QED
  BY <1>11, <1>12, <1>13, <1>14, <1>15, <1>16, <1>17, <1>18, <1>19, <1>20, <1>21 DEF Next

LEMMA InitTypes == Init => TypeOK
<1>1. <<>> \in Seq(Handles) /\ <<>> \in Seq(Threaded)
  OBVIOUS
<1>2. 0 \in 0 .. MaxTime
  BY BoundsAssumption
<1> QED BY <1>1, <1>2 DEF Init, TypeOK, PCs, Fates, Exits

(* Every variable keeps its type, for every set of handles and capacity.    *)
THEOREM TypeCorrect == Spec => []TypeOK
BY InitTypes, TypeStep, PTL DEF Spec

-----------------------------------------------------------------------------
(* The invariant of the channel, the heap and the hand.                     *)

\* What a submission may do to the loop task: nothing, or wake it.
Wakes == (pc' = pc /\ obj' = obj) \/ (pc = "parked" /\ pc' = "received")

LEMMA SendKeeps ==
  ASSUME TypeOK, IInv, NEW h \in Handles, fate[h] \in {"new", "posted"},
         SendNowait(h), Becomes(h, "accepted"), timers' = timers
  PROVE  OnePlace' /\ ParkedMeansIdle' /\ HandInv' /\ Wakes
<1> USE KindFacts
<1>1. fate' = [fate EXCEPT ![h] = "accepted"] /\ fate \in [Handles -> Fates]
  BY DEF Becomes, TypeOK
<1>2. h \notin SeqSet(queue) \cup timers
  BY DEF IInv, NoHandleLost, OnePlace
<1>3. CASE pc = "parked"
  <2>1. pc' = "received" /\ obj' = h /\ queue' = queue /\ queue = <<>> /\ obj = NoHandle
    BY <1>3 DEF SendNowait, IInv, ParkedMeansIdle
  <2>2. OnePlace'
    BY <1>1, <1>2, <2>1 DEF IInv, NoHandleLost, OnePlace
  <2> QED BY <1>1, <1>3, <2>1, <2>2 DEF ParkedMeansIdle, HandInv, Wakes
<1>4. CASE pc # "parked"
  <2>1. pc' = pc /\ obj' = obj /\ queue' = Append(queue, h) /\ queue \in Seq(Handles)
    BY <1>4 DEF SendNowait, TypeOK
  <2>2. obj # h
    BY <1>4 DEF TypeOK, PCs, IInv, HandInv
  <2>3. SeqSet(queue') = SeqSet(queue) \cup {h} /\ Distinct(queue')
    BY <1>2, <2>1, AppendFacts, AppendDistinct DEF IInv, NoHandleLost, OnePlace
  <2>4. OnePlace'
    BY <1>1, <1>2, <2>1, <2>2, <2>3 DEF IInv, NoHandleLost, OnePlace
  <2>5. HandInv'
    <3>1. obj # NoHandle => fate'[obj] = fate[obj]
      BY <1>1, <2>2 DEF TypeOK
    <3> QED BY <2>1, <3>1 DEF IInv, HandInv, Callbacks
  <2> QED BY <1>4, <2>1, <2>4, <2>5 DEF ParkedMeansIdle, Wakes
<1> QED BY <1>3, <1>4

LEMMA QueueHandleKeeps ==
  ASSUME TypeOK, IInv, NEW h \in Handles, QueueHandle(h), timers' = timers, entry' = entry
  PROVE  EntryInv' /\ OnePlace' /\ ParkedMeansIdle' /\ HandInv' /\ Wakes
<1> USE KindFacts
<1>1. fate[h] = "new" /\ fate \in [Handles -> Fates]
  BY DEF QueueHandle, TypeOK
<1>2. EntryInv'
  BY <1>1 DEF QueueHandle, Becomes, IInv, NoHandleLost, EntryInv
<1>3. CASE SendNowait(h) /\ Becomes(h, "accepted")
  BY <1>1, <1>2, <1>3, SendKeeps
<1>4. CASE Becomes(h, "refused") /\ UNCHANGED chan
  <2>1. obj # h
    BY <1>1 DEF TypeOK, PCs, IInv, HandInv
  <2>2. fate' = [fate EXCEPT ![h] = "refused"] /\ queue' = queue /\ pc' = pc /\ obj' = obj
    BY <1>4 DEF Becomes, chan
  <2>3. obj # NoHandle => fate'[obj] = fate[obj]
    BY <2>1, <2>2 DEF TypeOK
  <2>4. OnePlace'
    BY <1>1, <2>2 DEF IInv, NoHandleLost, OnePlace
  <2>5. HandInv'
    BY <2>2, <2>3 DEF IInv, HandInv, Callbacks
  <2> QED BY <1>2, <2>2, <2>4, <2>5 DEF IInv, ParkedMeansIdle, Wakes
<1> QED BY <1>3, <1>4 DEF QueueHandle

-----------------------------------------------------------------------------
(* The invariant behind the stop barrier.                                   *)

LEMMA AppendServedBefore ==
  ASSUME queue \in Seq(Handles), NEW e \in Handles, queue' = Append(queue, e), obj' = obj,
         NEW h \in Handles, NEW s \in Handles
  PROVE  /\ ServedBefore(h, s) => ServedBefore(h, s)'
         /\ s = e /\ h \in SeqSet(queue) \cup {obj} => ServedBefore(h, s)'
<1>1. /\ DOMAIN queue = 1 .. Len(queue) /\ DOMAIN queue' = 1 .. Len(queue) + 1
      /\ Len(queue) \in Nat
      /\ \A i \in 1 .. Len(queue) : queue'[i] = queue[i]
      /\ queue'[Len(queue) + 1] = e
      /\ SeqSet(queue') = SeqSet(queue) \cup {e}
  BY AppendFacts, LenProperties
<1>2. ServedBefore(h, s) => ServedBefore(h, s)'
  <2>1. CASE h = obj /\ s \in SeqSet(queue)
    BY <1>1, <2>1 DEF ServedBefore
  <2>2. ASSUME NEW i \in DOMAIN queue, NEW j \in DOMAIN queue,
               i < j, queue[i] = h, queue[j] = s
        PROVE  ServedBefore(h, s)'
    <3>1. i \in DOMAIN queue' /\ j \in DOMAIN queue' /\ queue'[i] = h /\ queue'[j] = s
      BY <1>1, <2>2
    <3> QED BY <2>2, <3>1 DEF ServedBefore
  <2> QED BY <2>1, <2>2 DEF ServedBefore
<1>3. ASSUME s = e, h \in SeqSet(queue) \cup {obj} PROVE ServedBefore(h, s)'
  <2>1. CASE h = obj
    BY <1>1, <1>3, <2>1 DEF ServedBefore
  <2>2. CASE h \in SeqSet(queue)
    <3>1. PICK i \in 1 .. Len(queue) : queue[i] = h
      BY <1>1, <2>2 DEF SeqSet
    <3>2. /\ i \in DOMAIN queue' /\ Len(queue) + 1 \in DOMAIN queue'
          /\ i < Len(queue) + 1 /\ queue'[i] = h /\ queue'[Len(queue) + 1] = s
      BY <1>1, <1>3, <3>1
    <3> QED BY <3>2 DEF ServedBefore
  <2> QED BY <1>3, <2>1, <2>2
<1> QED BY <1>2, <1>3

\* With the loop parked, no stop is pending and only timers are.
LEMMA ParkedFacts ==
  ASSUME TypeOK, IInv, pc = "parked"
  PROVE  \A h \in Handles : fate[h] = "accepted" => h \in Timers
BY KindFacts, EmptySeqSet
DEF TypeOK, IInv, ParkedMeansIdle, NoHandleLost, OnePlace

LEMMA StopsAreNotTimers == \A s \in Stops : s \notin Timers
BY KindsAssumption DEF Callbacks

LEMMA SendBarrier ==
  ASSUME TypeOK, IInv, NEW e \in Handles \ Stops, fate[e] \in {"new", "posted"},
         SendNowait(e), Becomes(e, "accepted"), before' = before
  PROVE  BarrierInv'
<1> USE KindFacts
<1> SUFFICES ASSUME NEW s \in Stops, fate'[s] = "accepted", NEW h \in before[s]
             PROVE  /\ h \notin Timers
                    /\ fate'[h] \in {"accepted", "ran", "skipped", "lost"}
                    /\ fate'[h] = "accepted" => ServedBefore(h, s)'
  BY DEF BarrierInv
<1>1. fate' = [fate EXCEPT ![e] = "accepted"] /\ fate \in [Handles -> Fates] /\ h \in Handles
  BY DEF Becomes, TypeOK
<1>2. fate[s] = "accepted"
  BY <1>1
<1>3. /\ h \notin Timers /\ fate[h] \in {"accepted", "ran", "skipped", "lost"}
      /\ fate[h] = "accepted" => ServedBefore(h, s)
  BY <1>2 DEF IInv, BarrierInv
<1>4. h # e /\ fate'[h] = fate[h]
  BY <1>1, <1>3
<1>5. pc # "parked"
  BY <1>2, ParkedFacts, StopsAreNotTimers
<1>6. queue' = Append(queue, e) /\ obj' = obj /\ queue \in Seq(Handles)
  BY <1>5 DEF SendNowait, TypeOK
<1> QED BY <1>1, <1>3, <1>4, <1>6, AppendServedBefore

LEMMA HaltBarrier ==
  ASSUME TypeOK, IInv, NEW e \in Stops, ~stopped, Halt(e)
  PROVE  BarrierInv'
<1> USE KindFacts
<1>1. /\ QueueHandle(e) /\ fate[e] = "new"
      /\ fate \in [Handles -> Fates] /\ before \in [Stops -> SUBSET Handles]
  BY DEF Halt, QueueHandle, TypeOK
<1> SUFFICES ASSUME NEW s \in Stops, fate'[s] = "accepted", NEW h \in before'[s]
             PROVE  /\ h \notin Timers
                    /\ fate'[h] \in {"accepted", "ran", "skipped", "lost"}
                    /\ fate'[h] = "accepted" => ServedBefore(h, s)'
  BY DEF BarrierInv
<1>2. CASE s = e
  <2>1. SendNowait(e) /\ fate' = [fate EXCEPT ![e] = "accepted"]
    BY <1>1, <1>2 DEF QueueHandle, Becomes
  <2>2. h \in Handles \ Timers /\ fate[h] = "accepted" /\ fate'[h] = "accepted"
    BY <1>1, <1>2, <2>1 DEF Halt
  <2>3. pc # "parked"
    BY <2>2, ParkedFacts
  <2>4. queue' = Append(queue, e) /\ obj' = obj /\ queue \in Seq(Handles)
    BY <2>1, <2>3 DEF SendNowait, TypeOK
  <2>5. h \in SeqSet(queue) \cup {obj}
    BY <2>2 DEF IInv, NoHandleLost, OnePlace, TypeOK
  <2> QED BY <1>2, <2>2, <2>4, <2>5, AppendServedBefore
<1>3. CASE s # e
  <2>1. before'[s] = before[s] /\ fate[s] = "accepted"
    BY <1>1, <1>3 DEF Halt, QueueHandle, Becomes
  <2>2. /\ h \notin Timers /\ fate[h] \in {"accepted", "ran", "skipped", "lost"}
        /\ fate[h] = "accepted" => ServedBefore(h, s)
    BY <2>1 DEF IInv, BarrierInv
  <2>3. h \in Handles /\ h # e /\ fate'[h] = fate[h]
    BY <1>1, <2>1, <2>2 DEF QueueHandle, Becomes
  <2>4. pc # "parked"
    BY <2>1, ParkedFacts, StopsAreNotTimers
  <2>5. CASE SendNowait(e)
    <3>1. queue' = Append(queue, e) /\ obj' = obj /\ queue \in Seq(Handles)
      BY <2>4, <2>5 DEF SendNowait, TypeOK
    <3> QED BY <2>2, <2>3, <3>1, AppendServedBefore
  <2>6. CASE UNCHANGED chan
    BY <2>2, <2>3, <2>6 DEF chan, ServedBefore
  <2> QED BY <1>1, <2>5, <2>6 DEF QueueHandle
<1> QED BY <1>2, <1>3

\* The handle in hand is disposed of.
LEMMA DisposeBarrier ==
  ASSUME TypeOK, IInv, NEW f \in {"ran", "skipped", "lost"}, obj \in Handles,
         Becomes(obj, f), queue' = queue, before' = before
  PROVE  BarrierInv'
<1> USE KindFacts
<1> SUFFICES ASSUME NEW s \in Stops, fate'[s] = "accepted", NEW h \in before[s]
             PROVE  /\ h \notin Timers
                    /\ fate'[h] \in {"accepted", "ran", "skipped", "lost"}
                    /\ fate'[h] = "accepted" => ServedBefore(h, s)'
  BY DEF BarrierInv
<1>1. fate' = [fate EXCEPT ![obj] = f] /\ fate \in [Handles -> Fates] /\ h \in Handles
  BY DEF Becomes, TypeOK
<1>2. fate[s] = "accepted"
  BY <1>1
<1>3. /\ h \notin Timers /\ fate[h] \in {"accepted", "ran", "skipped", "lost"}
      /\ fate[h] = "accepted" => ServedBefore(h, s)
  BY <1>2 DEF IInv, BarrierInv
<1> QED BY <1>1, <1>3 DEF ServedBefore

\* Nothing is disposed of, and what leaves the hand is no accepted callback.
LEMMA SameQueueBarrier ==
  ASSUME TypeOK, IInv, fate' = fate, queue' = queue, before' = before,
         obj' = obj \/ obj \in Timers \cup {NoHandle} \/ fate[obj] # "accepted"
  PROVE  BarrierInv'
<1> USE KindFacts
<1> SUFFICES ASSUME NEW s \in Stops, fate[s] = "accepted", NEW h \in before[s]
             PROVE  /\ h \notin Timers
                    /\ fate[h] \in {"accepted", "ran", "skipped", "lost"}
                    /\ fate[h] = "accepted" => ServedBefore(h, s)'
  BY DEF BarrierInv
<1>1. /\ h \notin Timers /\ fate[h] \in {"accepted", "ran", "skipped", "lost"}
      /\ fate[h] = "accepted" => ServedBefore(h, s)
      /\ h \in Handles
  BY DEF IInv, BarrierInv, TypeOK
<1> QED BY <1>1 DEF ServedBefore

\* The oldest buffered handle is taken by a loop with empty hands.
LEMMA ReceiveBarrier ==
  ASSUME TypeOK, IInv, obj = NoHandle, queue # <<>>, obj' = Head(queue),
         queue' = Tail(queue), fate' = fate, before' = before
  PROVE  BarrierInv'
<1> USE KindFacts
<1> SUFFICES ASSUME NEW s \in Stops, fate[s] = "accepted", NEW h \in before[s],
                    fate[h] = "accepted"
             PROVE  ServedBefore(h, s)'
  BY DEF IInv, BarrierInv
<1>1. ServedBefore(h, s) /\ h \in Handles /\ queue \in Seq(Handles)
  BY DEF IInv, BarrierInv, TypeOK
<1>2. PICK i, j \in DOMAIN queue : i < j /\ queue[i] = h /\ queue[j] = s
  BY <1>1 DEF ServedBefore
<1>3. /\ DOMAIN queue = 1 .. Len(queue) /\ DOMAIN queue' = 1 .. Len(queue) - 1
      /\ Len(queue) \in Nat /\ queue[1] = obj'
      /\ \A k \in 1 .. Len(queue) - 1 : queue'[k] = queue[k + 1]
  BY <1>1, HeadTailFacts, LenProperties
<1>4. j - 1 \in DOMAIN queue' /\ queue'[j - 1] = s
  BY <1>2, <1>3
<1>5. CASE i = 1
  BY <1>2, <1>3, <1>4, <1>5 DEF ServedBefore, SeqSet
<1>6. CASE i # 1
  <2>1. i - 1 \in DOMAIN queue' /\ queue'[i - 1] = h /\ i - 1 < j - 1
    BY <1>2, <1>3, <1>6
  <2> QED BY <1>4, <2>1 DEF ServedBefore
<1> QED BY <1>5, <1>6

-----------------------------------------------------------------------------
(* Every step keeps the invariant.                                          *)

\* Steps that touch nothing the invariant speaks of.
LEMMA QuietKeeps ==
  ASSUME IInv, UNCHANGED <<queue, entry, timers, pc, obj, fate, stopped, before>>,
         Draining' = Draining, exit' = "finished" => exit = "finished"
  PROVE  IInv'
BY DEF IInv, NoHandleLost, EntryInv, OnePlace, ParkedMeansIdle, StoppedMeansQuiet, HandInv,
       PhaseInv, BarrierInv, ServedBefore

\* Submitting anything but a stop.
LEMMA CallKeeps ==
  ASSUME TypeOK, IInv, NEW h \in Handles \ Stops, QueueHandle(h),
         UNCHANGED <<entry, timers, before, stopped, exit>>
  PROVE  IInv'
<1>1. EntryInv' /\ OnePlace' /\ ParkedMeansIdle' /\ HandInv' /\ Wakes
  BY QueueHandleKeeps
<1>2. StoppedMeansQuiet' /\ PhaseInv'
  BY <1>1 DEF Wakes, IInv, StoppedMeansQuiet, PhaseInv, Draining
<1>3. CASE SendNowait(h) /\ Becomes(h, "accepted")
  BY <1>1, <1>2, <1>3, SendBarrier DEF QueueHandle, IInv, NoHandleLost
<1>4. CASE Becomes(h, "refused") /\ UNCHANGED chan
  <2>1. BarrierInv'
    <3>1. fate[h] = "new" /\ fate' = [fate EXCEPT ![h] = "refused"]
      BY <1>4 DEF QueueHandle, Becomes
    <3> QED BY <1>4, <3>1, KindFacts DEF TypeOK, IInv, BarrierInv, ServedBefore, chan
  <2> QED BY <1>1, <1>2, <2>1 DEF IInv, NoHandleLost
<1> QED BY <1>3, <1>4 DEF QueueHandle

LEMMA HaltKeeps ==
  ASSUME TypeOK, IInv, NEW s \in Stops, Halt(s), UNCHANGED <<entry, timers, stopped>>,
         Draining' = Draining, exit' = "finished" => exit = "finished"
  PROVE  IInv'
<1>1. CASE stopped
  BY <1>1, QuietKeeps, KindFacts DEF Halt, chan
<1>2. CASE ~stopped
  <2>1. EntryInv' /\ OnePlace' /\ ParkedMeansIdle' /\ HandInv' /\ Wakes
    BY <1>2, KindFacts, QueueHandleKeeps DEF Halt
  <2>2. StoppedMeansQuiet' /\ PhaseInv'
    BY <1>2, <2>1 DEF Wakes, IInv, StoppedMeansQuiet, PhaseInv
  <2> QED BY <1>2, <2>1, <2>2, HaltBarrier DEF IInv, NoHandleLost
<1> QED BY <1>1, <1>2

\* A foreign thread checks a handle, posts it, or fails to.
LEMMA ThreadKeeps ==
  ASSUME TypeOK, IInv, NEW h \in Threaded, fate[h] \in {"new", "checked"},
         \/ (Becomes(h, "checked") \/ Becomes(h, "refused")) /\ entry' = entry
         \/ Becomes(h, "posted") /\ entry' = Append(entry, h),
         UNCHANGED <<chan, clock, halt, life>>
  PROVE  IInv'
<1> USE KindFacts
<1>1. /\ fate'[h] \in {"checked", "posted", "refused"}
      /\ \A g \in Handles \ {h} : fate'[g] = fate[g]
      /\ UNCHANGED <<queue, timers, pc, obj, stopped, before, exit>>
      /\ h \in Handles /\ h \notin Stops
  BY KindsAssumption DEF Becomes, TypeOK, chan, clock, halt, life, Callbacks
<1>2. OnePlace'
  <2>1. PICK f \in {"checked", "posted", "refused"} : fate' = [fate EXCEPT ![h] = f]
    BY DEF Becomes
  <2> QED BY <1>1, <2>1 DEF IInv, NoHandleLost, OnePlace, TypeOK
<1>3. HandInv'
  <2>1. obj # NoHandle => obj # h
    BY <1>1 DEF IInv, HandInv, TypeOK, PCs
  <2>2. obj # NoHandle => fate'[obj] = fate[obj]
    BY <1>1, <2>1 DEF TypeOK
  <2> QED BY <1>1, <2>2 DEF IInv, HandInv, Callbacks
<1>4. BarrierInv'
  <2> SUFFICES ASSUME NEW s \in Stops, fate'[s] = "accepted", NEW g \in before[s]
               PROVE  /\ g \notin Timers /\ fate'[g] \in {"accepted", "ran", "skipped", "lost"}
                      /\ fate'[g] = "accepted" => ServedBefore(g, s)'
    BY <1>1 DEF BarrierInv
  <2>1. fate[s] = "accepted" /\ g \in Handles
    BY <1>1 DEF TypeOK
  <2>2. /\ g \notin Timers /\ fate[g] \in {"accepted", "ran", "skipped", "lost"}
        /\ fate[g] = "accepted" => ServedBefore(g, s)
    BY <2>1 DEF IInv, BarrierInv
  <2>3. fate'[g] = fate[g]
    BY <1>1, <2>1, <2>2
  <2>4. ServedBefore(g, s)' = ServedBefore(g, s)
    BY <1>1 DEF ServedBefore
  <2> QED BY <2>2, <2>3, <2>4
<1>5. EntryInv'
  <2>1. CASE (Becomes(h, "checked") \/ Becomes(h, "refused")) /\ entry' = entry
    BY <2>1, <1>1 DEF Becomes, TypeOK, IInv, NoHandleLost, EntryInv
  <2>2. CASE Becomes(h, "posted") /\ entry' = Append(entry, h)
    <3>1. h \notin SeqSet(entry)
      BY <1>1 DEF IInv, NoHandleLost, EntryInv
    <3>2. SeqSet(entry') = SeqSet(entry) \cup {h} /\ Distinct(entry')
      BY <2>2, <3>1, AppendFacts, AppendDistinct DEF TypeOK, IInv, NoHandleLost, EntryInv
    <3> QED BY <1>1, <2>2, <3>2 DEF Becomes, IInv, NoHandleLost, EntryInv, TypeOK
  <2> QED BY <2>1, <2>2
<1> QED BY <1>1, <1>2, <1>3, <1>4, <1>5
    DEF IInv, NoHandleLost, ParkedMeansIdle, StoppedMeansQuiet, PhaseInv, Draining

LEMMA EntryRunKeeps ==
  ASSUME TypeOK, IInv, EntryRun
  PROVE  IInv'
<1> DEFINE h == Head(entry)
<1> USE KindFacts
<1>1. /\ h \in Threaded /\ h \in Handles \ Stops /\ fate[h] = "posted"
      /\ entry' = Tail(entry) /\ Distinct(entry') /\ h \notin SeqSet(entry')
      /\ SeqSet(entry) = {h} \cup SeqSet(entry')
      /\ UNCHANGED <<timers, stopped, before, exit>>
  BY HeadTailFacts, TailDistinct, KindsAssumption
  DEF EntryRun, TypeOK, IInv, NoHandleLost, EntryInv, clock, halt, life, Callbacks
<1>2. CASE SendNowait(h) /\ Becomes(h, "accepted")
  <2>1. OnePlace' /\ ParkedMeansIdle' /\ HandInv' /\ Wakes
    BY <1>1, <1>2, SendKeeps
  <2>2. BarrierInv'
    BY <1>1, <1>2, SendBarrier
  <2>3. EntryInv'
    BY <1>1, <1>2 DEF Becomes, TypeOK, IInv, NoHandleLost, EntryInv
  <2> QED BY <1>1, <2>1, <2>2, <2>3
      DEF Wakes, IInv, NoHandleLost, StoppedMeansQuiet, PhaseInv, Draining
<1>3. CASE pc' = "crashed" /\ Becomes(h, "refused") /\ UNCHANGED <<queue, obj>>
  <2>1. fate' = [fate EXCEPT ![h] = "refused"] /\ fate \in [Handles -> Fates]
    BY <1>3 DEF Becomes, TypeOK
  <2>2. EntryInv'
    BY <1>1, <2>1 DEF IInv, NoHandleLost, EntryInv
  <2>3. OnePlace'
    BY <1>1, <1>3, <2>1 DEF IInv, NoHandleLost, OnePlace
  <2>4. BarrierInv'
    BY <1>1, <1>3, <2>1 DEF TypeOK, IInv, BarrierInv, ServedBefore
  <2>5. HandInv'
    <3>1. obj # NoHandle => obj \in Handles /\ fate[obj] \in {"accepted", "ran", "skipped"}
      BY DEF EntryRun, Yielded, IInv, HandInv, TypeOK
    <3>2. obj # NoHandle => fate'[obj] = fate[obj]
      BY <1>1, <2>1, <3>1
    <3> QED BY <1>3, <3>1, <3>2 DEF HandInv
  <2>6. StoppedMeansQuiet'
    BY <1>1, <1>3 DEF EntryRun, Yielded, IInv, StoppedMeansQuiet, HandInv, PhaseInv, Draining
  <2> QED BY <1>1, <1>3, <2>2, <2>3, <2>4, <2>5, <2>6
      DEF IInv, NoHandleLost, ParkedMeansIdle, PhaseInv, Draining
<1> QED BY <1>2, <1>3 DEF EntryRun

LEMMA NoHandleNowhere == TypeOK => NoHandle \notin SeqSet(queue) \cup timers
<1>1. TypeOK => \A i \in DOMAIN queue : queue[i] \in Handles
  BY LenProperties, ElementOfSeq DEF TypeOK
<1> QED BY <1>1, KindFacts DEF SeqSet, TypeOK

\* The loop takes a handle, or goes to sleep or wakes up without one.
LEMMA TakeKeeps ==
  ASSUME TypeOK, IInv, PopTimer \/ Receive \/ Park \/ TimeoutReached \/ Arm \/ TaskSpawn
  PROVE  IInv'
<1> USE KindFacts DEF clock, halt, life
<1>1. CASE PopTimer
  <2>1. OnePlace' /\ HandInv'
    BY <1>1 DEF PopTimer, IInv, NoHandleLost, OnePlace, HandInv, TypeOK
  <2>2. BarrierInv'
    BY <1>1, SameQueueBarrier DEF PopTimer, IInv, HandInv
  <2> QED BY <1>1, <2>1, <2>2 DEF PopTimer, IInv, NoHandleLost, EntryInv, ParkedMeansIdle,
             StoppedMeansQuiet, PhaseInv, Draining
<1>2. CASE Receive
  <2>1. /\ obj = NoHandle /\ queue \in Seq(Handles) /\ queue # <<>>
        /\ obj' = Head(queue) /\ queue' = Tail(queue) /\ obj' \in Handles
        /\ SeqSet(queue) = {obj'} \cup SeqSet(queue')
        /\ Distinct(queue') /\ obj' \notin SeqSet(queue')
    BY <1>2, HeadTailFacts, TailDistinct DEF Receive, TypeOK, IInv, HandInv, NoHandleLost, OnePlace
  <2>2. OnePlace' /\ HandInv'
    BY <1>2, <2>1 DEF Receive, IInv, NoHandleLost, OnePlace, HandInv
  <2>3. BarrierInv'
    BY <1>2, <2>1, ReceiveBarrier DEF Receive
  <2> QED BY <1>2, <2>2, <2>3 DEF Receive, IInv, NoHandleLost, EntryInv, ParkedMeansIdle,
             StoppedMeansQuiet, PhaseInv, Draining
<1>3. CASE Park \/ TimeoutReached
  <2>1. BarrierInv' /\ OnePlace'
    BY <1>3, SameQueueBarrier DEF Park, TimeoutReached, IInv, NoHandleLost, OnePlace
  <2> QED BY <1>3, <2>1 DEF Park, TimeoutReached, IInv, NoHandleLost, EntryInv, HandInv,
             ParkedMeansIdle, StoppedMeansQuiet, PhaseInv, Draining
<1>4. CASE Arm
  <2>1. OnePlace' /\ HandInv'
    BY <1>4, NoHandleNowhere DEF Arm, IInv, NoHandleLost, OnePlace, HandInv, TypeOK
  <2>2. BarrierInv'
    BY <1>4, SameQueueBarrier DEF Arm
  <2> QED BY <1>4, <2>1, <2>2 DEF Arm, IInv, NoHandleLost, EntryInv, ParkedMeansIdle,
             StoppedMeansQuiet, PhaseInv, Draining
<1>5. CASE TaskSpawn
  <2>1. HandInv'
    BY <1>5 DEF TaskSpawn, InHand, IInv, HandInv
  <2>2. BarrierInv' /\ OnePlace'
    BY <1>5, SameQueueBarrier DEF TaskSpawn, IInv, NoHandleLost, OnePlace
  <2> QED BY <1>5, <2>1, <2>2 DEF TaskSpawn, InHand, IInv, NoHandleLost, EntryInv,
             ParkedMeansIdle, StoppedMeansQuiet, PhaseInv, Draining
<1> QED BY <1>1, <1>2, <1>3, <1>4, <1>5

\* The places of the other handles when the one in hand is disposed of.
LEMMA DisposePlaces ==
  ASSUME TypeOK, IInv, NEW f \in {"ran", "skipped", "lost"}, obj \in Handles,
         fate[obj] = "accepted", Becomes(obj, f), obj' \in {obj, NoHandle},
         UNCHANGED <<queue, timers, entry>>
  PROVE  EntryInv' /\ OnePlace'
<1>1. fate' = [fate EXCEPT ![obj] = f] /\ fate \in [Handles -> Fates]
  BY DEF Becomes, TypeOK
<1>2. EntryInv'
  BY <1>1 DEF IInv, NoHandleLost, EntryInv
<1>3. OnePlace'
  BY <1>1, NoHandleNowhere DEF IInv, NoHandleLost, OnePlace
<1> QED BY <1>2, <1>3

LEMMA DispatchKeeps ==
  ASSUME TypeOK, IInv,
         SkipCancelled \/ CallbackStart \/ StopMe \/ TaskSpawnFails \/ TaskRuns
  PROVE  IInv'
<1> USE KindFacts
<1>1. obj \in Handles /\ fate[obj] = "accepted" /\ pc \in {"received", "taken", "due", "starting"}
  BY DEF SkipCancelled, CallbackStart, StopMe, TaskSpawnFails, TaskRuns, InHand, IInv, HandInv
<1>2. PICK f \in {"ran", "skipped", "lost"} : Becomes(obj, f)
  BY DEF SkipCancelled, CallbackStart, StopMe, TaskSpawnFails, TaskRuns
<1>3. obj' \in {obj, NoHandle} /\ UNCHANGED <<queue, timers, entry, before>>
  BY DEF SkipCancelled, CallbackStart, StopMe, TaskSpawnFails, TaskRuns, NextRound, Unwind,
         clock, halt, chan
<1>4. EntryInv' /\ OnePlace' /\ BarrierInv'
  BY <1>1, <1>2, <1>3, DisposePlaces, DisposeBarrier
<1>5. HandInv' /\ ParkedMeansIdle'
  <2>1. CASE SkipCancelled \/ StopMe \/ TaskSpawnFails
    BY <2>1 DEF SkipCancelled, StopMe, TaskSpawnFails, NextRound, Unwind, HandInv,
                ParkedMeansIdle
  <2>2. CASE CallbackStart
    BY <2>2, <1>1 DEF CallbackStart, Becomes, HandInv, ParkedMeansIdle, TypeOK
  <2>3. CASE TaskRuns
    BY <2>3, <1>1 DEF TaskRuns, Becomes, chan, IInv, HandInv, ParkedMeansIdle, TypeOK
  <2> QED BY <2>1, <2>2, <2>3
<1>6. StoppedMeansQuiet' /\ PhaseInv'
  <2>1. CASE SkipCancelled \/ CallbackStart \/ TaskRuns
    BY <2>1, <1>1 DEF SkipCancelled, CallbackStart, TaskRuns, NextRound, chan, halt, life,
                IInv, StoppedMeansQuiet, PhaseInv, Draining
  <2>2. CASE StopMe \/ TaskSpawnFails
    BY <2>2, <1>1 DEF StopMe, TaskSpawnFails, NextRound, Unwind, IInv, StoppedMeansQuiet,
                PhaseInv, Draining
  <2> QED BY <2>1, <2>2
<1> QED BY <1>4, <1>5, <1>6 DEF IInv, NoHandleLost

LEMMA ReturnKeeps ==
  ASSUME TypeOK, IInv, CallbackReturn \/ CallbackExits \/ TaskStarted
  PROVE  IInv'
<1>1. /\ fate[obj] # "accepted" /\ obj \in Handles /\ pc \in {"calling", "starting"}
      /\ obj' = NoHandle /\ UNCHANGED <<queue, entry, timers, fate, before>>
  BY KindFacts DEF CallbackReturn, CallbackExits, TaskStarted, NextRound, Unwind, clock, halt,
                   IInv, HandInv, Callbacks
<1>2. BarrierInv' /\ EntryInv'
  BY <1>1, SameQueueBarrier DEF IInv, NoHandleLost, EntryInv
<1>3. OnePlace'
  BY <1>1, NoHandleNowhere DEF IInv, NoHandleLost, OnePlace
<1> QED
  BY <1>1, <1>2, <1>3
  DEF CallbackReturn, CallbackExits, TaskStarted, NextRound, Unwind, halt, life, IInv,
      NoHandleLost, ParkedMeansIdle, StoppedMeansQuiet, HandInv, PhaseInv, Draining

LEMMA ExitKeeps ==
  ASSUME TypeOK, IInv, ExitSteps
  PROVE  IInv'
<1> USE KindFacts
<1>1. CASE ExitBegin
  <2>1. Draining' = Draining /\ exit' # "finished"
    BY <1>1 DEF ExitBegin, Draining
  <2>2. CASE stopWait
    BY <1>1, <2>1, <2>2, QuietKeeps DEF ExitBegin, StopNoWaiter, clock, chan
  <2>3. CASE ~stopWait
    BY <1>1, <2>1, <2>3, HaltKeeps DEF ExitBegin, StopNoWaiter, clock
  <2> QED BY <2>2, <2>3
<1>2. CASE ExitSkipped
  BY <1>2, QuietKeeps DEF ExitSkipped, Draining, chan, clock, halt
<1>3. CASE DrainBegin
  <2>1. obj = NoHandle /\ pc = "ended"
    BY <1>3 DEF DrainBegin, Yielded, IInv, StoppedMeansQuiet, Draining
  <2>2. BarrierInv' /\ OnePlace' /\ EntryInv'
    BY <1>3, <2>1, SameQueueBarrier
    DEF DrainBegin, clock, halt, IInv, NoHandleLost, OnePlace, EntryInv
  <2> QED BY <1>3, <2>1, <2>2 DEF DrainBegin, halt, IInv, NoHandleLost, ParkedMeansIdle,
             StoppedMeansQuiet, HandInv, PhaseInv, Draining
<1>4. CASE ExitFinish
  <2>1. /\ obj = NoHandle /\ obj' = NoHandle /\ queue = <<>> /\ queue' = <<>> /\ timers' = {}
        /\ entry' = entry /\ before' = before /\ stopped' = stopped /\ stopped
        /\ pc' = "ended" /\ exit' = "finished"
    BY <1>4 DEF ExitFinish, halt, IInv, HandInv, PhaseInv
  <2>2. \A h \in Handles : fate[h] = "accepted" => h \in timers
    BY <2>1, EmptySeqSet DEF IInv, NoHandleLost, OnePlace
  <2>3. \A h \in Handles : fate'[h] = (IF h \in timers THEN "skipped" ELSE fate[h])
    BY <1>4 DEF ExitFinish
  <2>4. \A h \in Handles : fate'[h] # "accepted"
    BY <2>2, <2>3
  <2>5. OnePlace' /\ BarrierInv'
    BY <2>1, <2>4, EmptySeqSet DEF OnePlace, BarrierInv
  <2>6. EntryInv'
    BY <2>1, <2>3 DEF IInv, NoHandleLost, EntryInv, OnePlace
  <2> QED BY <2>1, <2>5, <2>6 DEF IInv, NoHandleLost, ParkedMeansIdle, StoppedMeansQuiet,
             HandInv, PhaseInv, Draining
<1> QED BY <1>1, <1>2, <1>3, <1>4 DEF ExitSteps

LEMMA IInvStep == TypeOK /\ IInv /\ [Next]_vars => IInv'
<1> SUFFICES ASSUME TypeOK, IInv, [Next]_vars PROVE IInv'
  OBVIOUS
<1> USE KindFacts
<1>1. CASE Calls
  <2>1. ASSUME NEW h \in Soon \cup Asyncs, CallSoon(h) \/ TrioAsFuture(h) PROVE IInv'
    <3>1. h \in Handles \ Stops
      BY KindsAssumption DEF Handles, Callbacks
    <3> QED BY <2>1, <3>1, CallKeeps DEF CallSoon, TrioAsFuture, clock, halt, life
  <2>2. ASSUME NEW t \in Timers, NEW d, CallAt(t, d) PROVE IInv'
    BY <2>2, CallKeeps, StopsAreNotTimers DEF CallAt, halt, life
  <2>3. ASSUME NEW t \in Timers, NEW d, CallLater(t, d) PROVE IInv'
    BY <2>2, <2>3 DEF CallLater
  <2>4. ASSUME NEW h, Cancel(h) PROVE IInv'
    BY <2>4, QuietKeeps DEF Cancel, chan, clock, halt, life, Draining
  <2>5. ASSUME NEW w \in Waiters, StopWith(w) PROVE IInv'
    BY <2>5, HaltKeeps DEF StopWith, clock, life, Draining
  <2>6. ASSUME Stop PROVE IInv'
    BY <2>6, HaltKeeps DEF Stop, StopNoWaiter, clock, life, Draining
  <2>7. ASSUME Close PROVE IInv'
    BY <2>7, QuietKeeps DEF Close, chan, clock, halt, Draining
  <2> QED BY <1>1, <2>1, <2>2, <2>3, <2>4, <2>5, <2>6, <2>7 DEF Calls
<1>2. CASE ThreadSteps
  BY <1>2, ThreadKeeps DEF ThreadSteps, ThreadCheck, ThreadPost
<1>3. CASE EntryRun
  BY <1>3, EntryRunKeeps
<1>4. CASE Tick \/ UNCHANGED vars
  BY <1>4, QuietKeeps DEF Tick, halt, life, Draining, vars
<1>5. CASE LoopSteps \/ CallbackReturn \/ CallbackExits \/ TaskRuns
  BY <1>5, TakeKeeps, DispatchKeeps, ReturnKeeps DEF LoopSteps
<1>6. CASE NurseryCloses
  BY <1>6, QuietKeeps DEF NurseryCloses, chan, clock, halt, Draining
<1>7. CASE ExitSteps
  BY <1>7, ExitKeeps
<1> QED BY <1>1, <1>2, <1>3, <1>4, <1>5, <1>6, <1>7 DEF Next

LEMMA IInvInit == Init => IInv
<1> SUFFICES ASSUME Init PROVE IInv
  OBVIOUS
<1>1. NoHandleLost
  BY EmptySeqSet DEF Init, NoHandleLost, EntryInv, OnePlace
<1> QED BY <1>1, KindFacts
    DEF Init, IInv, ParkedMeansIdle, StoppedMeansQuiet, HandInv, PhaseInv, BarrierInv, Draining

-----------------------------------------------------------------------------
(* Safety.                                                                  *)

(* The strengthened invariant holds in every reachable state.               *)
THEOREM Invariant == Spec => [](TypeOK /\ IInv)
<1>1. Init => TypeOK /\ IInv
  BY InitTypes, IInvInit
<1>2. (TypeOK /\ IInv) /\ [Next]_vars => (TypeOK /\ IInv)'
  BY TypeStep, IInvStep
<1> QED BY <1>1, <1>2, PTL DEF Spec

(* However calls, hand-offs, threads, cancellations and shutdown interleave,*)
(* an accepted handle is in exactly one place until it is disposed of.      *)
THEOREM HandlesAreKept == Spec => []NoHandleLost
<1>1. IInv => NoHandleLost
  BY DEF IInv
<1> QED BY Invariant, <1>1, PTL

(* The loop never sleeps on a non-empty channel.                            *)
THEOREM NoLostWakeup == Spec => []ParkedMeansIdle
<1>1. IInv => ParkedMeansIdle
  BY DEF IInv
<1> QED BY Invariant, <1>1, PTL

(* A stopped loop is quiet outside the drain.                               *)
THEOREM QuietAfterStop == Spec => []StoppedMeansQuiet
<1>1. IInv => StoppedMeansQuiet
  BY DEF IInv
<1> QED BY Invariant, <1>1, PTL

-----------------------------------------------------------------------------
(* Action properties.                                                       *)

\* A handle is only ever run by the loop that has it in hand.
LEMMA RanStep ==
  ASSUME TypeOK, IInv, [Next]_vars, NEW h \in Handles, fate[h] # "ran", fate'[h] = "ran"
  PROVE  h = obj /\ h \notin cancelled /\ (CallbackStart \/ StopMe \/ TaskRuns)
<1> USE KindFacts
<1>1. fate \in [Handles -> Fates]
  BY DEF TypeOK
<1>2. ~Calls
  BY <1>1 DEF Calls, CallSoon, TrioAsFuture, CallAt, CallLater, Cancel, StopWith, Stop,
              StopNoWaiter, Halt, Close, QueueHandle, Becomes
<1>3. ~ThreadSteps /\ ~EntryRun /\ ~Tick /\ ~UNCHANGED vars
  BY <1>1 DEF ThreadSteps, ThreadCheck, ThreadPost, EntryRun, Tick, Becomes, vars
<1>4. ~(CallbackReturn \/ CallbackExits \/ NurseryCloses)
  BY DEF CallbackReturn, CallbackExits, NurseryCloses
<1>5. ~ExitSteps
  BY <1>1 DEF ExitSteps, ExitBegin, ExitSkipped, DrainBegin, ExitFinish, StopNoWaiter, Halt,
              QueueHandle, Becomes
<1>6. CASE LoopSteps
  BY <1>1, <1>6
  DEF LoopSteps, PopTimer, Receive, Park, TimeoutReached, Arm, SkipCancelled, CallbackStart,
      StopMe, TaskSpawn, TaskSpawnFails, TaskStarted, Becomes
<1>7. CASE TaskRuns
  BY <1>1, <1>7 DEF TaskRuns, Becomes
<1> QED BY <1>2, <1>3, <1>4, <1>5, <1>6, <1>7 DEF Next

\* A stop handle in hand has nothing that was accepted before it behind it.
LEMMA TakenStopIsLast ==
  ASSUME IInv, NEW s \in Stops, fate[s] = "accepted", s = obj
  PROVE  \A h \in before[s] : fate[h] # "accepted"
<1> SUFFICES ASSUME NEW h \in before[s], fate[h] = "accepted" PROVE FALSE
  OBVIOUS
<1>1. ServedBefore(h, s)
  BY DEF IInv, BarrierInv
<1>2. s \in SeqSet(queue)
  BY <1>1 DEF ServedBefore, SeqSet
<1> QED BY <1>2 DEF IInv, NoHandleLost, OnePlace

(* When stop_me runs, all that was accepted before its stop() call has been *)
(* run or skipped.                                                          *)
THEOREM StopIsABarrier == Spec => StopBarrier
<1>1. (TypeOK /\ IInv) /\ [Next]_vars =>
        [\A s \in Stops : fate[s] = "accepted" /\ fate'[s] = "ran" =>
            \A h \in before[s] : fate[h] # "accepted"]_vars
  <2> SUFFICES ASSUME TypeOK, IInv, [Next]_vars, NEW s \in Stops, fate[s] = "accepted",
                      fate'[s] = "ran"
               PROVE  \A h \in before[s] : fate[h] # "accepted"
    OBVIOUS
  <2>1. s = obj
    BY KindFacts, RanStep
  <2> QED BY <2>1, TakenStopIsLast
<1> QED BY Invariant, <1>1, PTL DEF Spec, StopBarrier

(* A cancelled handle is never called, wherever it was when cancelled.      *)
THEOREM CancelIsRespected == Spec => CancelledNeverRuns
<1>1. (TypeOK /\ IInv) /\ [Next]_vars =>
        [\A h \in cancelled : fate'[h] = "ran" => fate[h] = "ran"]_vars
  BY RanStep DEF TypeOK
<1> QED BY Invariant, <1>1, PTL DEF Spec, CancelledNeverRuns

LEMMA TimerStep ==
  TypeOK /\ IInv /\ TimerInv /\ [Next]_vars => TimerInv'
<1> SUFFICES ASSUME TypeOK, IInv, TimerInv, [Next]_vars, pc' = "due" PROVE TimerInv'
  BY DEF TimerInv
<1>1. CASE PopTimer
  BY <1>1 DEF PopTimer, TimerInv, Due
<1>2. CASE ~PopTimer
  <2>1. pc = "due" /\ UNCHANGED <<obj, timers, when>> /\ now' \in {now, now + 1}
    <3>1. ~Calls
      BY DEF Calls, CallSoon, TrioAsFuture, CallAt, CallLater, Cancel, StopWith, Stop, Close,
             StopNoWaiter, Halt, QueueHandle, SendNowait, UserRuns, Yielded, chan
    <3>2. ~EntryRun /\ ~LoopSteps
      BY <1>2 DEF EntryRun, SendNowait, Yielded, LoopSteps, Receive, Park, TimeoutReached, Arm,
             SkipCancelled, CallbackStart, StopMe, TaskSpawn, TaskSpawnFails, TaskStarted,
             NextRound, Unwind, Draining
    <3>3. ~(CallbackReturn \/ CallbackExits \/ TaskRuns \/ NurseryCloses \/ ExitSteps)
      BY DEF CallbackReturn, CallbackExits, TaskRuns, NurseryCloses, ExitSteps, ExitBegin,
             ExitSkipped, DrainBegin, ExitFinish, NextRound, Unwind, StopNoWaiter, Halt,
             QueueHandle, SendNowait, Yielded, chan
    <3> QED BY <3>1, <3>2, <3>3
        DEF Next, ThreadSteps, ThreadCheck, ThreadPost, Tick, chan, clock, vars
  <2>2. now \in Nat /\ when[obj] \in Nat
    BY <2>1, BoundsAssumption DEF TypeOK, IInv, HandInv
  <2> QED BY <2>1, <2>2 DEF TimerInv, Due
<1> QED BY <1>1, <1>2

LEMMA TimerInvariant == Spec => []TimerInv
<1>1. Init => TimerInv
  BY DEF Init, TimerInv
<1>2. (TypeOK /\ IInv) /\ TimerInv /\ [Next]_vars => TimerInv'
  BY TimerStep
<1> QED BY Invariant, <1>1, <1>2, PTL DEF Spec

(* Timers fire neither early nor out of the order of their deadlines.       *)
THEOREM TimersInOrder == Spec => TimerOrder
<1>1. (TypeOK /\ IInv) /\ TimerInv /\ [Next]_vars =>
        [\A t \in Timers :
           fate[t] = "accepted" /\ fate'[t] = "ran" =>
             /\ when[t] <= now
             /\ \A u \in timers : when[t] <= when[u]]_vars
  <2> SUFFICES ASSUME TypeOK, IInv, TimerInv, [Next]_vars, NEW t \in Timers,
                      fate[t] = "accepted", fate'[t] = "ran"
               PROVE  when[t] <= now /\ \A u \in timers : when[t] <= when[u]
    OBVIOUS
  <2>1. t = obj /\ (CallbackStart \/ StopMe \/ TaskRuns)
    BY KindFacts, RanStep
  <2>2. pc = "due"
    BY <2>1, KindsAssumption
    DEF CallbackStart, StopMe, TaskRuns, InHand, IInv, HandInv, Callbacks
  <2> QED BY <2>1, <2>2 DEF TimerInv, Due
<1> QED BY Invariant, TimerInvariant, <1>1, PTL DEF Spec, TimerOrder

LEMMA StopsNotCancelledStep ==
  TypeOK /\ StopsNotCancelled /\ [Next]_vars => StopsNotCancelled'
<1> SUFFICES ASSUME TypeOK, StopsNotCancelled, [Next]_vars PROVE StopsNotCancelled'
  OBVIOUS
<1>1. (Soon \cup Timers \cup Asyncs) \cap Stops = {}
  BY KindsAssumption DEF Callbacks
<1>2. cancelled' \subseteq cancelled \cup Soon \cup Timers \cup Asyncs
  <2>1. CASE Calls
    BY <2>1 DEF Calls, CallSoon, TrioAsFuture, CallAt, CallLater, Cancel, StopWith, Stop, Close
  <2>2. CASE ThreadSteps \/ EntryRun \/ Tick \/ UNCHANGED vars
    BY <2>2 DEF ThreadSteps, ThreadCheck, ThreadPost, EntryRun, Tick, vars
  <2>3. CASE LoopSteps
    BY <2>3 DEF LoopSteps, PopTimer, Receive, Park, TimeoutReached, Arm, SkipCancelled,
                CallbackStart, StopMe, TaskSpawn, TaskSpawnFails, TaskStarted
  <2>4. CASE CallbackReturn \/ CallbackExits \/ TaskRuns \/ NurseryCloses
    BY <2>4 DEF CallbackReturn, CallbackExits, TaskRuns, NurseryCloses
  <2>5. CASE ExitSteps
    BY <2>5 DEF ExitSteps, ExitBegin, ExitSkipped, DrainBegin, ExitFinish, TypeOK
  <2> QED BY <2>1, <2>2, <2>3, <2>4, <2>5 DEF Next
<1> QED BY <1>1, <1>2 DEF StopsNotCancelled

LEMMA StopPendingStep ==
  ASSUME QueueLen = Unbounded
  PROVE  TypeOK /\ IInv /\ StopsNotCancelled /\ StopPending /\ [Next]_vars => StopPending'
<1> SUFFICES ASSUME TypeOK, IInv, StopsNotCancelled, StopPending, [Next]_vars,
                    stopWait', ~stopped'
             PROVE  fate'[ExitStop] = "accepted"
  BY DEF StopPending
<1> USE KindFacts
<1>1. /\ ~WouldBlock
      /\ fate \in [Handles -> Fates]
      /\ ~stopped /\ ~Draining
      /\ stopWait => fate[ExitStop] = "accepted"
  <2>1. ~stopped
    BY DEF Next, Calls, CallSoon, TrioAsFuture, CallAt, CallLater, Cancel, StopWith, Stop,
           Close, ThreadSteps, ThreadCheck, ThreadPost, EntryRun, Tick, LoopSteps, PopTimer,
           Receive, Park, TimeoutReached, Arm, SkipCancelled, CallbackStart, StopMe, TaskSpawn,
           TaskSpawnFails, TaskStarted, CallbackReturn, CallbackExits, TaskRuns, NurseryCloses,
           ExitSteps, ExitBegin, ExitSkipped, DrainBegin, ExitFinish, Unwind, halt, vars
  <2> QED BY <2>1 DEF WouldBlock, HasRoom, TypeOK, StopPending, IInv, PhaseInv
<1>2. ExitStop \notin Timers /\ ExitStop \notin Callbacks \cup Asyncs /\ ExitStop \notin cancelled
  BY KindsAssumption DEF StopsNotCancelled, Callbacks
<1>3. CASE Calls
  BY <1>1, <1>2, <1>3
  DEF Calls, CallSoon, TrioAsFuture, CallAt, CallLater, Cancel, StopWith, Stop, StopNoWaiter,
      Halt, Close, QueueHandle, Becomes, halt, Callbacks
<1>4. CASE ThreadSteps \/ EntryRun \/ Tick \/ UNCHANGED vars
  <2>1. entry # <<>> => Head(entry) \in Threaded
    BY HeadTailFacts DEF TypeOK
  <2> QED BY <1>1, <1>2, <1>4, <2>1
      DEF ThreadSteps, ThreadCheck, ThreadPost, EntryRun, Tick, Becomes, halt, vars, Callbacks
<1>5. CASE LoopSteps
  BY <1>1, <1>2, <1>5
  DEF LoopSteps, PopTimer, Receive, Park, TimeoutReached, Arm, SkipCancelled, CallbackStart,
      StopMe, TaskSpawn, TaskSpawnFails, TaskStarted, Becomes, Unwind, halt
<1>6. CASE CallbackReturn \/ CallbackExits \/ TaskRuns \/ NurseryCloses
  BY <1>1, <1>2, <1>6
  DEF CallbackReturn, CallbackExits, TaskRuns, NurseryCloses, Becomes, Unwind, halt, IInv, HandInv
<1>7. CASE ExitSteps
  BY <1>1, <1>2, <1>7
  DEF ExitSteps, ExitBegin, ExitSkipped, DrainBegin, ExitFinish, StopNoWaiter, Halt,
      QueueHandle, Becomes, halt
<1> QED BY <1>3, <1>4, <1>5, <1>6, <1>7 DEF Next

(* With the default unbounded channel, a remembered stop request is always  *)
(* on its way: wait_stopped() in _main_loop_exit() waits for something.     *)
THEOREM StopIsPending ==
  ASSUME QueueLen = Unbounded
  PROVE  Spec => []StopPending
<1>1. Init => StopPending /\ StopsNotCancelled
  BY DEF Init, StopPending, StopsNotCancelled
<1>2. (TypeOK /\ IInv) /\ StopsNotCancelled /\ [Next]_vars => StopsNotCancelled'
  BY StopsNotCancelledStep
<1>3. (TypeOK /\ IInv) /\ StopsNotCancelled /\ StopPending /\ [Next]_vars => StopPending'
  BY StopPendingStep
<1> QED BY Invariant, <1>1, <1>2, <1>3, PTL DEF Spec

\* Only the end of the drain finishes the exit.
LEMMA FinishStep ==
  ASSUME [Next]_vars, exit # "finished", exit' = "finished"
  PROVE  ExitFinish
BY DEF Next, Calls, CallSoon, TrioAsFuture, CallAt, CallLater, Cancel, StopWith, Stop, Close,
       ThreadSteps, ThreadCheck, ThreadPost, EntryRun, Tick, LoopSteps, PopTimer, Receive, Park,
       TimeoutReached, Arm, SkipCancelled, CallbackStart, StopMe, TaskSpawn, TaskSpawnFails,
       TaskStarted, CallbackReturn, CallbackExits, TaskRuns, NurseryCloses, ExitSteps, ExitBegin,
       ExitSkipped, DrainBegin, Unwind, life, vars

LEMMA FinishLeavesNothing ==
  ASSUME IInv, ExitFinish
  PROVE  timers' = {} /\ \A h \in Handles : fate'[h] # "accepted"
<1>1. obj = NoHandle /\ queue = <<>> /\ timers' = {}
      /\ \A h \in Handles : fate'[h] = (IF h \in timers THEN "skipped" ELSE fate[h])
  BY DEF ExitFinish, IInv, HandInv
<1>2. \A h \in Handles : fate[h] = "accepted" => h \in timers
  BY <1>1, KindFacts, EmptySeqSet DEF IInv, NoHandleLost, OnePlace
<1> QED BY <1>1, <1>2

(* When _main_loop_exit() is through, no timer is armed and no handle that  *)
(* the loop accepted is left, wherever it was when the drain began.         *)
THEOREM ExitIsClean == Spec => ExitLeavesNothing
<1>1. (TypeOK /\ IInv) /\ [Next]_vars =>
        [exit # "finished" /\ exit' = "finished" =>
           /\ timers' = {}
           /\ \A h \in Handles : fate'[h] # "accepted"]_vars
  <2> SUFFICES ASSUME TypeOK, IInv, [Next]_vars, exit # "finished", exit' = "finished"
               PROVE  timers' = {} /\ \A h \in Handles : fate'[h] # "accepted"
    OBVIOUS
  <2> QED BY FinishStep, FinishLeavesNothing
<1> QED BY Invariant, <1>1, PTL DEF Spec, ExitLeavesNothing

-----------------------------------------------------------------------------
(* The loop implements the contract of schedulers of handles.               *)

LEMMA ConsFacts ==
  ASSUME NEW S, NEW h \in S, NEW q \in Seq(S)
  PROVE  /\ <<h>> \o q # <<>> /\ Head(<<h>> \o q) = h /\ Tail(<<h>> \o q) = q
         /\ <<>> \o q = q
         /\ q # <<>> => <<Head(q)>> \o Tail(q) = q
<1>1. <<h>> \in Seq(S)
  OBVIOUS
<1>2. /\ <<h>> \o q \in Seq(S) /\ Len(<<h>> \o q) = 1 + Len(q) /\ Len(q) \in Nat
      /\ \A i \in 1 .. 1 + Len(q) : (<<h>> \o q)[i] = IF i <= 1 THEN h ELSE q[i - 1]
  BY <1>1, ConcatProperties, LenProperties
<1>3. <<h>> \o q # <<>> /\ Head(<<h>> \o q) = h
  BY <1>2, HeadTailFacts, EmptySeq
<1>4. Tail(<<h>> \o q) = q
  <2>1. Tail(<<h>> \o q) \in Seq(S) /\ Len(Tail(<<h>> \o q)) = Len(q)
    BY <1>2, <1>3, HeadTailFacts
  <2>2. \A i \in 1 .. Len(q) : Tail(<<h>> \o q)[i] = q[i]
    BY <1>2, <1>3, HeadTailFacts
  <2> QED BY <2>1, <2>2, SeqEqual
<1>5. ASSUME q # <<>> PROVE <<Head(q)>> \o Tail(q) = q
  <2> DEFINE t == Tail(q)  r == <<Head(q)>> \o t
  <2>1. /\ Head(q) \in S /\ t \in Seq(S) /\ Len(q) \in Nat /\ Len(t) = Len(q) - 1 /\ q[1] = Head(q)
        /\ \A i \in 1 .. Len(q) - 1 : t[i] = q[i + 1]
    BY <1>5, HeadTailFacts
  <2>2. <<Head(q)>> \in Seq(S) /\ Len(<<Head(q)>>) = 1 /\ <<Head(q)>>[1] = Head(q)
    BY <2>1
  <2>3. /\ r \in Seq(S) /\ Len(r) = Len(q)
        /\ \A i \in 1 .. Len(q) : r[i] = IF i <= 1 THEN Head(q) ELSE t[i - 1]
    BY <2>1, <2>2, ConcatProperties
  <2> HIDE DEF t, r
  <2>4. \A i \in 1 .. Len(q) : r[i] = q[i]
    BY <2>1, <2>3
  <2>5. r = q
    BY <2>3, <2>4, SeqEqual
  <2> QED BY <2>5 DEF r, t
<1> QED BY <1>3, <1>4, <1>5, ConcatEmptySeq

LEMMA AppendConcat ==
  ASSUME NEW S, NEW s \in Seq(S), NEW q \in Seq(S), NEW h \in S
  PROVE  s \o Append(q, h) = Append(s \o q, h)
<1>1. <<h>> \in Seq(S) /\ s \o q \in Seq(S)
  BY ConcatProperties
<1>2. Append(q, h) = q \o <<h>> /\ Append(s \o q, h) = (s \o q) \o <<h>>
  BY <1>1, AppendIsConcat
<1> QED BY <1>1, <1>2, ConcatAssociative

\* What the contract's scheduler has yet to do, seen from the loop.
LEMMA HeldFacts ==
  ASSUME TypeOK, IInv
  PROVE  /\ pc \in {"received", "taken"} => HeldFromQueue = <<obj>>
         /\ pc \in {"top", "parked", "due", "calling", "ended"} => HeldFromQueue = <<>>
         /\ pc = "starting" => HeldFromQueue = IF fate[obj] = "accepted" THEN <<obj>> ELSE <<>>
         /\ HeldFromQueue \in Seq(Handles)
         /\ obj # NoHandle => obj \in Handles
<1>1. obj # NoHandle => obj \in Handles
  BY DEF TypeOK
<1>2. <<>> \in Seq(Handles) /\ (obj \in Handles => <<obj>> \in Seq(Handles))
  OBVIOUS
<1> QED BY <1>1, <1>2, KindFacts DEF HeldFromQueue, IInv, HandInv

LEMMA StatusFacts ==
  ASSUME TypeOK, NEW h \in Handles, NEW f, Becomes(h, f)
  PROVE  /\ f \notin {"checked", "posted"} => PublicStatus' = [PublicStatus EXCEPT ![h] = f]
         /\ f \in {"checked", "posted"} /\ fate[h] \in {"new", "checked", "posted"} =>
              PublicStatus' = PublicStatus
         /\ PublicStatus[h] = IF fate[h] \in {"checked", "posted"} THEN "new" ELSE fate[h]
<1>1. fate' = [fate EXCEPT ![h] = f] /\ fate \in [Handles -> Fates]
  BY DEF Becomes, TypeOK
<1> QED BY <1>1 DEF PublicStatus

\* Steps that the scheduler of a handle does not see.
LEMMA Unseen ==
  ASSUME TypeOK, UNCHANGED <<queue, cancelled, fate, HeldFromQueue, ArmedTimers>>
  PROVE  [LC!CNext]_LC!cvars
BY DEF LC!cvars, PublicStatus

LEMMA AcceptSeen ==
  ASSUME TypeOK, IInv, NEW h \in Handles, fate[h] \in {"new", "posted"},
         SendNowait(h), Becomes(h, "accepted"), UNCHANGED <<timers, cancelled>>
  PROVE  LC!Accept(h)
<1> USE KindFacts
<1>1. fate' = [fate EXCEPT ![h] = "accepted"] /\ fate \in [Handles -> Fates]
      /\ queue \in Seq(Handles)
  BY DEF Becomes, TypeOK
<1>2. PublicStatus[h] = "new" /\ PublicStatus' = [PublicStatus EXCEPT ![h] = "accepted"]
  BY StatusFacts
<1>3. CASE pc = "parked"
  <2>1. /\ queue = <<>> /\ obj = NoHandle /\ pc' = "received" /\ obj' = h /\ queue' = queue
        /\ HeldFromQueue = <<>>
    BY <1>3, HeldFacts DEF SendNowait, IInv, ParkedMeansIdle
  <2>2. HeldFromQueue' = <<h>> /\ ArmedTimers' = ArmedTimers
    BY <1>1, <1>3, <2>1 DEF HeldFromQueue, ArmedTimers
  <2>3. <<h>> \o <<>> = Append(<<>> \o <<>>, h)
    OBVIOUS
  <2> QED BY <1>2, <2>1, <2>2, <2>3 DEF LC!Accept, LC!Settle
<1>4. CASE pc # "parked"
  <2>1. pc' = pc /\ obj' = obj /\ queue' = Append(queue, h)
    BY <1>4 DEF SendNowait
  <2>2. obj # h
    BY <1>4 DEF TypeOK, PCs, IInv, HandInv
  <2>3. obj # NoHandle => fate'[obj] = fate[obj]
    BY <1>1, <2>2 DEF TypeOK
  <2>4. HeldFromQueue' = HeldFromQueue /\ ArmedTimers' = ArmedTimers
    BY <2>1, <2>3 DEF HeldFromQueue, ArmedTimers
  <2>5. HeldFromQueue \o Append(queue, h) = Append(HeldFromQueue \o queue, h)
    BY <1>1, HeldFacts, AppendConcat
  <2> QED BY <1>2, <2>1, <2>4, <2>5 DEF LC!Accept, LC!Settle
<1> QED BY <1>3, <1>4

LEMMA RefuseSeen ==
  ASSUME TypeOK, IInv, NEW h \in Handles, fate[h] \in {"new", "checked", "posted"},
         Becomes(h, "refused"), UNCHANGED <<queue, obj, timers, cancelled>>,
         pc' = pc \/ (pc' = "crashed" /\ pc \in {"received", "starting", "ended"})
  PROVE  LC!Refuse(h)
<1> USE KindFacts
<1>1. fate' = [fate EXCEPT ![h] = "refused"] /\ fate \in [Handles -> Fates]
  BY DEF Becomes, TypeOK
<1>2. PublicStatus[h] = "new" /\ PublicStatus' = [PublicStatus EXCEPT ![h] = "refused"]
  BY StatusFacts
<1>3. obj # NoHandle => obj # h \/ pc = "crashed"
  BY DEF TypeOK, PCs, IInv, HandInv
<1>4. obj # NoHandle => fate[obj] \in {"accepted", "ran", "skipped"} /\ obj \in Handles
  BY DEF TypeOK, PCs, IInv, HandInv
<1>5. obj # NoHandle => fate'[obj] = fate[obj]
  BY <1>1, <1>4
<1>6. HeldFromQueue' = HeldFromQueue
  BY <1>5 DEF HeldFromQueue, IInv, HandInv
<1>7. ArmedTimers' = ArmedTimers
  BY DEF ArmedTimers
<1> QED BY <1>2, <1>6, <1>7 DEF LC!Refuse, LC!Settle

LEMMA QueueHandleSeen ==
  ASSUME TypeOK, IInv, NEW h \in Handles, QueueHandle(h), UNCHANGED <<timers, cancelled>>
  PROVE  LC!CNext
BY AcceptSeen, RefuseSeen DEF QueueHandle, chan, LC!CNext

LEMMA HaltSeen ==
  ASSUME TypeOK, IInv, NEW s \in Stops, Halt(s), UNCHANGED <<timers, cancelled>>
  PROVE  [LC!CNext]_LC!cvars
<1>1. CASE stopped
  BY <1>1, Unseen DEF Halt, chan, HeldFromQueue, ArmedTimers
<1>2. CASE ~stopped
  BY <1>2, QueueHandleSeen, KindFacts DEF Halt
<1> QED BY <1>1, <1>2

LEMMA CallsSeen ==
  ASSUME TypeOK, IInv, Calls
  PROVE  [LC!CNext]_LC!cvars
<1> USE KindFacts DEF clock, halt, life, chan
<1>1. ASSUME NEW h \in Handles, QueueHandle(h), UNCHANGED <<timers, cancelled>>
      PROVE  [LC!CNext]_LC!cvars
  BY <1>1, QueueHandleSeen
<1>2. CASE \E h \in Soon : CallSoon(h)
  BY <1>1, <1>2 DEF CallSoon
<1>3. CASE \E h \in Asyncs : TrioAsFuture(h)
  BY <1>1, <1>3 DEF TrioAsFuture
<1>4. CASE \E t \in Timers, d \in 0 .. MaxTime : CallAt(t, d) \/ CallLater(t, d)
  BY <1>1, <1>4 DEF CallAt, CallLater
<1>5. ASSUME NEW h \in Soon \cup Timers \cup Asyncs, Cancel(h) PROVE LC!CNext
  <2>1. h \in Handles /\ UNCHANGED <<HeldFromQueue, ArmedTimers, PublicStatus>>
    BY <1>5 DEF Cancel, HeldFromQueue, ArmedTimers, PublicStatus
  <2>2. LC!Drop(h)
    BY <1>5, <2>1 DEF Cancel, LC!Drop
  <2> QED BY <2>1, <2>2 DEF LC!CNext
<1>6. CASE \E w \in Waiters : StopWith(w)
  BY <1>6, HaltSeen DEF StopWith
<1>7. CASE Stop
  BY <1>7, HaltSeen DEF Stop, StopNoWaiter
<1>8. CASE Close
  BY <1>8, Unseen DEF Close, HeldFromQueue, ArmedTimers
<1> QED BY <1>2, <1>3, <1>4, <1>5, <1>6, <1>7, <1>8 DEF Calls

\* Nobody sees what waits in Trio's entry queue.
LEMMA PostUnseen ==
  ASSUME TypeOK, IInv, NEW h \in Threaded, fate[h] \in {"new", "checked"},
         NEW f \in {"checked", "posted"}, Becomes(h, f),
         UNCHANGED <<queue, pc, obj, timers, cancelled>>
  PROVE  [LC!CNext]_LC!cvars
<1> USE KindFacts
<1>1. fate' = [fate EXCEPT ![h] = f] /\ fate \in [Handles -> Fates]
  BY DEF Becomes, TypeOK
<1>2. obj # NoHandle => fate[obj] \in {"accepted", "ran", "skipped"} /\ obj \in Handles
  BY DEF TypeOK, PCs, IInv, HandInv
<1>3. obj # NoHandle => fate'[obj] = fate[obj]
  BY <1>1, <1>2
<1>4. PublicStatus' = PublicStatus
  BY StatusFacts
<1> QED BY <1>3, <1>4 DEF LC!cvars, HeldFromQueue, ArmedTimers

LEMMA ThreadsSeen ==
  ASSUME TypeOK, IInv, ThreadSteps \/ EntryRun \/ Tick
  PROVE  [LC!CNext]_LC!cvars
<1> USE KindFacts DEF clock, halt, life, chan
<1>1. ASSUME NEW h \in Threaded, ThreadCheck(h) \/ (ThreadPost(h) /\ fate'[h] = "posted")
      PROVE  [LC!CNext]_LC!cvars
  <2>1. PICK f \in {"checked", "posted"} : Becomes(h, f)
    BY <1>1 DEF ThreadCheck, ThreadPost, Becomes, TypeOK
  <2>2. fate[h] \in {"new", "checked"} /\ UNCHANGED <<queue, pc, obj, timers, cancelled>>
    BY <1>1 DEF ThreadCheck, ThreadPost
  <2> QED BY <2>1, <2>2, PostUnseen
<1>2. ASSUME NEW h \in Threaded, ThreadPost(h), fate'[h] # "posted" PROVE LC!CNext
  <2>1. /\ Becomes(h, "refused") /\ fate[h] = "checked"
        /\ UNCHANGED <<queue, pc, obj, timers, cancelled>>
    BY <1>2 DEF ThreadPost, Becomes, TypeOK
  <2>2. LC!Refuse(h)
    BY <2>1, RefuseSeen
  <2> QED BY <2>2 DEF LC!CNext
<1>3. CASE EntryRun
  <2> DEFINE h == Head(entry)
  <2>1. h \in Handles /\ fate[h] = "posted"
    BY <1>3, HeadTailFacts DEF EntryRun, TypeOK, IInv, NoHandleLost, EntryInv
  <2>2. CASE SendNowait(h) /\ Becomes(h, "accepted")
    BY <1>3, <2>1, <2>2, AcceptSeen DEF EntryRun, LC!CNext
  <2>3. CASE WouldBlock /\ pc' = "crashed" /\ Becomes(h, "refused") /\ UNCHANGED <<queue, obj>>
    <3>1. pc \in {"received", "starting", "ended"}
      BY <1>3, <2>3 DEF EntryRun, Yielded, WouldBlock
    <3>2. LC!Refuse(h)
      BY <1>3, <2>1, <2>3, <3>1, RefuseSeen DEF EntryRun
    <3> QED BY <2>1, <3>2 DEF LC!CNext
  <2> QED BY <1>3, <2>2, <2>3 DEF EntryRun
<1>4. CASE Tick
  BY <1>4, Unseen DEF Tick, HeldFromQueue, ArmedTimers
<1> QED BY <1>1, <1>2, <1>3, <1>4 DEF ThreadSteps

\* The loop disposes of the handle in its hand.
LEMMA DisposeSeen ==
  ASSUME TypeOK, IInv, NEW f, Becomes(obj, f), obj \in Handles, fate[obj] = "accepted",
         \/ f = IF obj \in cancelled THEN "skipped" ELSE "ran"
         \/ f = "lost" /\ obj \in Asyncs,
         UNCHANGED <<queue, timers, cancelled>>,
         pc \in {"received", "taken", "due", "starting"},
         pc \in {"received", "taken"} => obj \notin Timers,
         obj' \in {obj, NoHandle}, pc' # "due"
  PROVE  LC!CNext
<1> USE KindFacts
<1>1. fate' = [fate EXCEPT ![obj] = f] /\ fate \in [Handles -> Fates] /\ queue \in Seq(Handles)
  BY DEF Becomes, TypeOK
<1>2. PublicStatus' = [PublicStatus EXCEPT ![obj] = f]
  BY StatusFacts
<1>3. HeldFromQueue' = <<>> /\ fate'[obj] # "accepted"
  BY <1>1 DEF HeldFromQueue
<1>4. <<>> \o queue = queue
  BY <1>1, ConsFacts
<1>5. CASE pc = "due"
  <2>1. /\ obj \in Timers /\ obj \notin timers /\ obj \notin Asyncs /\ HeldFromQueue = <<>>
        /\ ArmedTimers = timers \cup {obj} /\ ArmedTimers' = timers
    BY <1>5, HeldFacts, KindsAssumption
    DEF ArmedTimers, IInv, HandInv, NoHandleLost, OnePlace, Callbacks
  <2>2. ArmedTimers' = ArmedTimers \ {obj} /\ obj \in ArmedTimers
    BY <2>1
  <2>3. LC!Fire(obj)
    BY <1>2, <1>3, <1>4, <2>1, <2>2 DEF LC!Fire, LC!Resolve, LC!Settle
  <2> QED BY <2>1, <2>3 DEF LC!CNext
<1>6. CASE pc # "due"
  <2>1. HeldFromQueue = <<obj>> /\ obj \notin Timers
    BY <1>6, HeldFacts, KindsAssumption DEF IInv, HandInv, Callbacks
  <2>2. /\ <<obj>> \o queue # <<>> /\ Head(<<obj>> \o queue) = obj
        /\ Tail(<<obj>> \o queue) = queue
    BY <1>1, ConsFacts
  <2>3. ArmedTimers' = ArmedTimers
    BY <1>6 DEF ArmedTimers
  <2>4. LC!Serve
    BY <1>2, <1>3, <1>4, <2>1, <2>2, <2>3 DEF LC!Serve, LC!Resolve, LC!Settle
  <2> QED BY <2>4 DEF LC!CNext
<1> QED BY <1>5, <1>6

LEMMA LoopSeen ==
  ASSUME TypeOK, IInv, LoopSteps \/ CallbackReturn \/ CallbackExits \/ TaskRuns
  PROVE  [LC!CNext]_LC!cvars
<1> USE KindFacts DEF clock, halt, life, chan
<1>1. queue \in Seq(Handles) /\ (obj # NoHandle => obj \in Handles)
  BY DEF TypeOK
<1>2. CASE PopTimer
  BY <1>2, Unseen DEF PopTimer, HeldFromQueue, ArmedTimers
<1>3. CASE Receive
  <2>1. Head(queue) \in Handles /\ fate[Head(queue)] = "accepted"
    BY <1>1, <1>3, HeadTailFacts DEF Receive, IInv, NoHandleLost, OnePlace
  <2>2. /\ HeldFromQueue = <<>> /\ HeldFromQueue' = <<Head(queue)>> /\ ArmedTimers' = ArmedTimers
        /\ queue # <<>> /\ queue' = Tail(queue) /\ PublicStatus' = PublicStatus
    BY <1>3, <2>1 DEF Receive, HeldFromQueue, ArmedTimers, PublicStatus
  <2>3. <<>> \o queue = <<Head(queue)>> \o Tail(queue)
    BY <1>1, <2>1, <2>2, ConsFacts
  <2> QED BY <1>3, <2>2, <2>3 DEF Receive, LC!cvars
<1>4. CASE Park \/ TimeoutReached
  BY <1>4, Unseen DEF Park, TimeoutReached, HeldFromQueue, ArmedTimers
<1>5. CASE Arm
  <2>1. /\ HeldFromQueue = <<obj>> /\ HeldFromQueue' = <<>> /\ obj \in Handles
        /\ ArmedTimers = timers /\ ArmedTimers' = timers \cup {obj}
        /\ queue' = queue /\ PublicStatus' = PublicStatus /\ cancelled' = cancelled
        /\ obj \in Timers
    BY <1>5, HeldFacts DEF Arm, HeldFromQueue, ArmedTimers, PublicStatus
  <2>2. /\ <<obj>> \o queue # <<>> /\ Head(<<obj>> \o queue) = obj
        /\ Tail(<<obj>> \o queue) = queue /\ <<>> \o queue = queue
    BY <1>1, <2>1, ConsFacts
  <2>3. LC!ArmTimer
    BY <2>1, <2>2 DEF LC!ArmTimer
  <2> QED BY <2>3 DEF LC!CNext
<1>6. CASE SkipCancelled \/ CallbackStart
  <2>1. obj \in Handles /\ fate[obj] = "accepted" /\ pc \in {"received", "taken", "due"}
    BY <1>6 DEF SkipCancelled, CallbackStart, InHand, IInv, HandInv
  <2> QED BY <1>6, <2>1, DisposeSeen DEF SkipCancelled, CallbackStart, NextRound, InHand
<1>7. CASE StopMe \/ TaskSpawnFails
  <2>1. /\ obj \in Handles /\ obj \notin Timers /\ fate[obj] = "accepted"
        /\ pc \in {"received", "taken"}
    BY <1>7, StopsAreNotTimers, KindsAssumption
    DEF StopMe, TaskSpawnFails, InHand, IInv, HandInv, Callbacks
  <2> QED BY <1>7, <2>1, DisposeSeen DEF StopMe, TaskSpawnFails, NextRound, Unwind
<1>8. CASE TaskSpawn
  BY <1>8, Unseen, KindsAssumption
  DEF TaskSpawn, InHand, HeldFromQueue, ArmedTimers, IInv, HandInv, Callbacks
<1>9. CASE TaskStarted \/ CallbackReturn \/ CallbackExits
  BY <1>9, Unseen
  DEF TaskStarted, CallbackReturn, CallbackExits, NextRound, Unwind, HeldFromQueue, ArmedTimers
<1>10. CASE TaskRuns
  <2>1. obj \in Handles /\ fate[obj] = "accepted" /\ pc = "starting"
    BY <1>10 DEF TaskRuns, IInv, HandInv
  <2> QED BY <1>10, <2>1, DisposeSeen DEF TaskRuns
<1> QED BY <1>2, <1>3, <1>4, <1>5, <1>6, <1>7, <1>8, <1>9, <1>10 DEF LoopSteps

LEMMA EndSeen ==
  ASSUME TypeOK, IInv, NurseryCloses \/ ExitSteps
  PROVE  [LC!CNext]_LC!cvars
<1> USE KindFacts DEF clock, halt, life, chan
<1>1. CASE NurseryCloses \/ ExitSkipped
  BY <1>1, Unseen DEF NurseryCloses, ExitSkipped, HeldFromQueue, ArmedTimers
<1>2. CASE ExitBegin
  BY <1>2, HaltSeen, Unseen DEF ExitBegin, StopNoWaiter, HeldFromQueue, ArmedTimers
<1>3. CASE DrainBegin
  <2>1. pc = "ended"
    BY <1>3 DEF DrainBegin, Yielded, IInv, StoppedMeansQuiet, Draining
  <2> QED BY <1>3, <2>1, Unseen DEF DrainBegin, HeldFromQueue, ArmedTimers
<1>4. CASE ExitFinish
  <2>1. /\ HeldFromQueue = <<>> /\ HeldFromQueue' = <<>> /\ queue = <<>> /\ queue' = <<>>
        /\ ArmedTimers = timers /\ ArmedTimers' = {} /\ cancelled' = cancelled \cup timers
        /\ fate' = [h \in Handles |-> IF h \in timers THEN "skipped" ELSE fate[h]]
        /\ \A h \in timers : fate[h] = "accepted"
    BY <1>4, HeldFacts DEF ExitFinish, HeldFromQueue, ArmedTimers, IInv, NoHandleLost, OnePlace
  <2>2. PublicStatus' = [h \in Handles |-> IF h \in timers THEN "skipped" ELSE PublicStatus[h]]
    BY <2>1 DEF PublicStatus
  <2>3. <<>> \o <<>> = <<>>
    OBVIOUS
  <2>4. LC!Purge
    BY <2>1, <2>2, <2>3 DEF LC!Purge
  <2> QED BY <2>4 DEF LC!CNext
<1> QED BY <1>1, <1>2, <1>3, <1>4 DEF ExitSteps

LEMMA StepIsSeen == TypeOK /\ IInv /\ [Next]_vars => [LC!CNext]_LC!cvars
<1> SUFFICES ASSUME TypeOK, IInv, [Next]_vars PROVE [LC!CNext]_LC!cvars
  OBVIOUS
<1>1. CASE UNCHANGED vars
  BY <1>1, Unseen DEF vars, HeldFromQueue, ArmedTimers
<1> QED BY <1>1, CallsSeen, ThreadsSeen, LoopSeen, EndSeen DEF Next

(* EventLoop implements LoopContract: seen by those who schedule handles,   *)
(* they are served first come first served, each at most once and never     *)
(* when cancelled, through hand-offs, suspensions, threads and shutdown.    *)
THEOREM LoopImplementsContract == Spec => ImplementsContract
<1>1. Init => LC!CInit
  BY DEF Init, LC!CInit, HeldFromQueue, ArmedTimers, PublicStatus
<1> QED BY Invariant, <1>1, StepIsSeen, PTL DEF Spec, ImplementsContract, LC!Contract

-----------------------------------------------------------------------------
(* SignalHandlers.                                                          *)

\* A handle that _handle_sig() has posted is registered or cancelled, or was
\* popped, and is cancelled next unless a signal has struck.  One is registered
\* only with an answer to restore when it is removed.
PostedInv ==
  /\ step \in {"installed", "stored", "popped"} => local \in Signals
  /\ step \in {"installed", "stored", "popped", "cancelled", "restored"} => registered = NoHandle
  /\ registered # NoHandle \/ step \in {"stored", "popped", "cancelled"} => orig # "none"
  /\ ~struck => spared = NoHandle
  /\ \A h \in Signals : fate[h] # "new" =>
       h \in cancelled \cup {registered, spared} \/ (step = "popped" /\ local = h)

\* What the methods have done to the process when they are between two
\* statements, unless a signal has thrown them off.
RestoreInv ==
  /\ step = "none" =>
       /\ disposition = "original" <=> registered = NoHandle
       /\ registered # NoHandle => orig = "original"
       /\ closed => registered = NoHandle
  /\ step = "installed" => found = "original" /\ disposition = "_handle_sig" /\ ~closed
  /\ step = "stored" => orig = "original" /\ disposition = "_handle_sig" /\ ~closed
  /\ step \in {"popped", "cancelled"} => orig = "original" /\ registered = NoHandle
  /\ step = "restored" => disposition = "original" /\ registered = NoHandle
  /\ step = "closing" =>
       orig = "original" /\ disposition = "_handle_sig" /\ registered # NoHandle

SigIInv ==
  /\ SigTypeOK /\ IInv
  /\ PostedInv
  /\ ~struck => RestoreInv

LEMMA SignalFacts ==
  /\ Signals \subseteq Threaded /\ Signals \subseteq Handles /\ NoHandle \notin Signals
  /\ Signals \cap (Soon \cup Timers \cup Asyncs \cup Stops) = {}
BY KindsAssumption, SignalsAssumption DEF Handles, Callbacks

LEMMA MainIsNext == MainSteps \/ OtherThreads => Next
BY DEF MainSteps, OtherThreads, Next, ThreadSteps

\* Only _handle_sig() brings a signal's handle to the loop, and nothing takes a
\* cancellation back.
LEMMA MainLeavesNew ==
  ASSUME TypeOK, IInv, MainSteps \/ OtherThreads
  PROVE  /\ \A h \in Signals : fate[h] = "new" => fate'[h] = "new"
         /\ cancelled \subseteq cancelled'
<1> USE SignalFacts
<1>1. fate \in [Handles -> Fates] /\ timers \subseteq Timers
  BY DEF TypeOK
<1>2. CASE Calls
  <2>1. \A h \in Soon \cup Timers \cup Asyncs \cup Stops :
          QueueHandle(h) => \A g \in Signals : fate'[g] = fate[g]
    BY <1>1, KindFacts DEF QueueHandle, Becomes
  <2> QED BY <1>2, <2>1, KindFacts
      DEF Calls, CallSoon, TrioAsFuture, CallAt, CallLater, Cancel, StopWith, Stop, StopNoWaiter,
          Halt, Close
<1>3. CASE OtherThreads
  BY <1>1, <1>3 DEF OtherThreads, ThreadCheck, ThreadPost, Tick, Becomes
<1>4. CASE EntryRun
  <2>1. fate[Head(entry)] = "posted" /\ cancelled' = cancelled
    BY <1>4, HeadTailFacts DEF EntryRun, TypeOK, IInv, NoHandleLost, EntryInv
  <2>2. \A g \in Signals : fate[g] = "new" => fate'[g] = fate[g]
    BY <1>1, <1>4, <2>1 DEF EntryRun, Becomes
  <2> QED BY <2>1, <2>2
<1>5. CASE LoopSteps \/ TaskRuns \/ CallbackReturn \/ CallbackExits \/ NurseryCloses
  <2>1. InHand \/ pc = "starting" => fate[obj] # "new"
    BY DEF InHand, IInv, HandInv
  <2>2. cancelled' = cancelled
    BY <1>5
    DEF LoopSteps, PopTimer, Receive, Park, TimeoutReached, Arm, SkipCancelled, CallbackStart,
        StopMe, TaskSpawn, TaskSpawnFails, TaskStarted, TaskRuns, CallbackReturn, CallbackExits,
        NurseryCloses
  <2>3. fate' = fate \/ (fate[obj] # "new" /\ \E f \in Fates : Becomes(obj, f))
    BY <1>5, <2>1
    DEF LoopSteps, PopTimer, Receive, Park, TimeoutReached, Arm, SkipCancelled, CallbackStart,
        StopMe, TaskSpawn, TaskSpawnFails, TaskStarted, TaskRuns, CallbackReturn, CallbackExits,
        NurseryCloses, Fates
  <2> QED BY <1>1, <2>2, <2>3 DEF Becomes
<1>6. CASE ExitSteps
  BY <1>1, <1>6, KindFacts
  DEF ExitSteps, ExitBegin, ExitSkipped, DrainBegin, ExitFinish, StopNoWaiter, Halt, QueueHandle,
      Becomes
<1> QED BY <1>2, <1>3, <1>4, <1>5, <1>6 DEF MainSteps

\* The steps of the methods and of the signal that are none of EventLoop's.
LEMMA SigStepsKeep ==
  ASSUME SigTypeOK, IInv, PostedInv, SigSteps
  PROVE  (TypeOK /\ IInv)' /\ fate' \in [Handles -> Fates]
<1> USE SignalFacts
<1>1. TypeOK /\ fate \in [Handles -> Fates]
  BY DEF SigTypeOK, TypeOK
<1>2. CASE UNCHANGED vars
  <2>1. (TypeOK /\ IInv)'
    BY <1>1, <1>2, TypeStep, IInvStep
  <2> QED BY <2>1 DEF TypeOK
<1>3. CASE RemoveCancels
  <2>1. IInv'
    BY <1>3, <1>1, QuietKeeps DEF RemoveCancels, Draining
  <2>2. local \in Handles
    BY <1>3 DEF RemoveCancels, PostedInv
  <2> QED BY <1>3, <1>1, <2>1, <2>2 DEF RemoveCancels, TypeOK
<1>4. CASE Post
  <2>1. /\ registered \in Signals /\ fate[registered] = "new" /\ Becomes(registered, "posted")
        /\ entry' = Append(entry, registered) /\ UNCHANGED <<chan, clock, halt, life, cancelled>>
    BY <1>4 DEF Post, SigTypeOK
  <2>2. IInv'
    BY <1>1, <2>1, ThreadKeeps
  <2>3. entry' \in Seq(Threaded)
    BY <1>1, <2>1, AppendFacts DEF TypeOK
  <2>4. fate' \in [Handles -> Fates]
    BY <1>1, <2>1 DEF Becomes, Fates
  <2> QED BY <1>1, <2>1, <2>2, <2>3, <2>4 DEF TypeOK, chan, clock, halt, life
<1>5. RemoveCancels \/ Post \/ UNCHANGED vars
  BY DEF SigSteps, AddBegin, AddStores, AddRegisters, RemovePops, RemoveRestores, RemoveReturns,
         Strike
<1> QED BY <1>2, <1>3, <1>4, <1>5 DEF TypeOK

LEMMA SigTypeStep ==
  ASSUME SigTypeOK, PostedInv, SigNext, TypeOK'
  PROVE  SigTypeOK'
<1>1. CASE /\ MainSteps /\ CloseRemoves
           /\ UNCHANGED <<disposition, found, orig, registered, local, struck, spared>>
  BY <1>1 DEF SigTypeOK, CloseRemoves
<1>2. CASE UNCHANGED svars
  BY <1>2 DEF SigTypeOK, svars
<1>3. CASE SigSteps
  <2>1. CASE (\E h \in Signals : AddBegin(h)) \/ AddStores \/ AddRegisters
    BY <2>1 DEF SigTypeOK, AddBegin, AddStores, AddRegisters
  <2>2. CASE RemovePops \/ RemoveCancels \/ RemoveRestores \/ RemoveReturns
    BY <2>2 DEF SigTypeOK, PostedInv, RemovePops, RemoveCancels, RemoveRestores, RemoveReturns
  <2>3. CASE Post \/ Strike
    BY <2>3 DEF SigTypeOK, Post, Strike, svars
  <2> QED BY <1>3, <2>1, <2>2, <2>3 DEF SigSteps
<1> QED BY <1>1, <1>2, <1>3 DEF SigNext

LEMMA PostedStep ==
  ASSUME SigTypeOK, IInv, PostedInv, SigNext
  PROVE  PostedInv'
<1> USE SignalFacts
<1>1. TypeOK /\ fate \in [Handles -> Fates]
  BY DEF SigTypeOK, TypeOK
<1>2. CASE /\ step = "none" /\ MainSteps /\ CloseRemoves
           /\ UNCHANGED <<disposition, found, orig, registered, local, struck, spared>>
  BY <1>1, <1>2, MainLeavesNew DEF PostedInv, CloseRemoves
<1>3. CASE OtherThreads /\ UNCHANGED svars
  BY <1>1, <1>3, MainLeavesNew DEF PostedInv, svars
<1>4. CASE RemovePops \/ RemoveCancels
  BY <1>4 DEF RemovePops, RemoveCancels, PostedInv, SigTypeOK, vars
<1>5. CASE Post
  <2>1. registered \in Signals /\ fate' = [fate EXCEPT ![registered] = "posted"]
    BY <1>5 DEF Post, Becomes, SigTypeOK
  <2>2. UNCHANGED <<cancelled, registered, step, local, orig, struck, spared>>
    BY <1>5 DEF Post, svars
  <2>3. step \notin {"installed", "stored", "popped", "cancelled", "restored"}
    BY <2>1 DEF PostedInv
  <2> QED BY <1>1, <2>1, <2>2, <2>3 DEF PostedInv
<1>6. CASE AddRegisters
  <2>1. step = "stored" /\ registered = NoHandle
    BY <1>6 DEF AddRegisters, PostedInv
  <2>2. UNCHANGED <<fate, cancelled, orig, struck, spared>> /\ step' = "none"
    BY <1>6 DEF AddRegisters, vars
  <2> QED BY <2>1, <2>2 DEF PostedInv
<1>7. CASE SigSteps /\ ~RemovePops /\ ~RemoveCancels /\ ~Post /\ ~AddRegisters
  BY <1>7
  DEF SigSteps, AddBegin, AddStores, RemoveRestores, RemoveReturns, Strike, PostedInv, vars,
      SigTypeOK
<1> QED BY <1>2, <1>3, <1>4, <1>5, <1>6, <1>7 DEF SigNext

LEMMA RestoreStep ==
  ASSUME SigTypeOK, PostedInv, ~struck, RestoreInv, SigNext, ~struck'
  PROVE  RestoreInv'
<1> USE SignalFacts
<1>1. CASE /\ step = "none" /\ MainSteps /\ CloseRemoves
           /\ UNCHANGED <<disposition, found, orig, registered, local, struck, spared>>
  BY <1>1 DEF RestoreInv, CloseRemoves, SigTypeOK
<1>2. CASE OtherThreads /\ UNCHANGED svars
  <2>1. closed' = closed
    BY <1>2 DEF OtherThreads, ThreadCheck, ThreadPost, Tick, life
  <2> QED BY <1>2, <2>1 DEF RestoreInv, svars
<1>3. CASE SigSteps
  BY <1>3
  DEF SigSteps, AddBegin, AddStores, AddRegisters, RemovePops, RemoveCancels, RemoveRestores,
      RemoveReturns, Post, Strike, RestoreInv, PostedInv, svars, vars, life
<1> QED BY <1>1, <1>2, <1>3 DEF SigNext

LEMMA SigIInvStep == SigIInv /\ [SigNext]_sigvars => SigIInv'
<1> SUFFICES ASSUME SigIInv, [SigNext]_sigvars PROVE SigIInv'
  OBVIOUS
<1>1. CASE SigNext
  <2>1. TypeOK /\ IInv /\ SigTypeOK
    BY DEF SigIInv, SigTypeOK
  <2>2. MainSteps \/ OtherThreads => (TypeOK /\ IInv)'
    BY <2>1, MainIsNext, TypeStep, IInvStep
  <2>3. (TypeOK /\ IInv)'
    BY <1>1, <2>1, <2>2, SigStepsKeep, TypeStep, IInvStep, MainIsNext DEF SigNext, SigIInv
  <2>4. SigTypeOK' /\ PostedInv'
    BY <1>1, <2>1, <2>3, SigTypeStep, PostedStep DEF SigIInv
  <2>5. ~struck' => ~struck
    BY <1>1
    DEF SigNext, svars, SigSteps, AddBegin, AddStores, AddRegisters, RemovePops, RemoveCancels,
        RemoveRestores, RemoveReturns, Post, Strike
  <2> QED BY <1>1, <2>1, <2>3, <2>4, <2>5, RestoreStep DEF SigIInv
<1>2. CASE UNCHANGED sigvars
  <2>1. (TypeOK /\ IInv)'
    BY <1>2, TypeStep, IInvStep DEF SigIInv, SigTypeOK, sigvars
  <2> QED BY <1>2, <2>1 DEF SigIInv, SigTypeOK, PostedInv, RestoreInv, sigvars, svars, vars
<1> QED BY <1>1, <1>2

(* Signals leave the invariant of the loop intact, wherever they arrive and *)
(* however handlers come and go.                                            *)
THEOREM SignalsInvariant == SigSpec => []SigIInv
<1>1. SigInit => SigIInv
  <2> SUFFICES ASSUME SigInit PROVE SigIInv
    OBVIOUS
  <2>1. TypeOK /\ IInv
    BY InitTypes, IInvInit DEF SigInit
  <2> QED BY <2>1, SignalFacts DEF SigInit, Init, SigIInv, SigTypeOK, PostedInv, RestoreInv
<1> QED BY <1>1, SigIInvStep, PTL DEF SigSpec

(* When no handler is registered, and when the loop is closed, the process  *)
(* answers the signal as before, unless a signal has struck the methods.    *)
THEOREM AnswerIsRestored == SigSpec => []OriginalRestored
<1>1. SigIInv => OriginalRestored
  BY DEF SigIInv, RestoreInv, OriginalRestored
<1> QED BY <1>1, SignalsInvariant, PTL

(* A signal's callback is never called once remove_signal_handler() has     *)
(* returned or another handler has been added, wherever its handle was,     *)
(* unless a signal has kept that method from cancelling the handle.         *)
THEOREM OnlyRegisteredAreCalled == SigSpec => CallsRegistered
<1>1. SigIInv /\ [SigNext]_sigvars =>
        [\A h \in Signals : fate[h] # "ran" /\ fate'[h] = "ran" =>
            h \in {registered, spared}]_sigvars
  <2> SUFFICES ASSUME SigIInv, SigNext, NEW h \in Signals, fate[h] # "ran", fate'[h] = "ran"
               PROVE  h \in {registered, spared}
    BY DEF sigvars, vars
  <2>1. TypeOK /\ IInv /\ PostedInv /\ h \in Handles
    BY SignalFacts DEF SigIInv, SigTypeOK
  <2>2. CASE step = "none" /\ MainSteps
    <3>1. h = obj /\ h \notin cancelled
      BY <2>1, <2>2, MainIsNext, RanStep
    <3>2. fate[h] # "new"
      BY <2>1, <2>2, MainLeavesNew
    <3> QED BY <2>1, <2>2, <3>1, <3>2 DEF PostedInv
  <2>3. CASE OtherThreads
    BY <2>1, <2>3 DEF OtherThreads, ThreadCheck, ThreadPost, Tick, Becomes, TypeOK
  <2>4. CASE SigSteps
    <3>1. Post \/ fate' = fate
      BY <2>4
      DEF SigSteps, AddBegin, AddStores, AddRegisters, RemovePops, RemoveCancels,
          RemoveRestores, RemoveReturns, Strike, vars
    <3> QED BY <2>1, <3>1 DEF Post, Becomes, TypeOK
  <2> QED BY <2>2, <2>3, <2>4 DEF SigNext
<1> QED BY <1>1, SignalsInvariant, PTL DEF SigSpec, CallsRegistered

(* A loop with signal handlers is still the server that LoopContract        *)
(* describes to those who schedule handles.                                 *)
THEOREM SignalsImplementContract == SigSpec => ImplementsContract
<1>1. SigInit => LC!CInit
  BY DEF SigInit, Init, LC!CInit, HeldFromQueue, ArmedTimers, PublicStatus
<1>2. SigIInv /\ [SigNext]_sigvars => [LC!CNext]_LC!cvars
  <2> SUFFICES ASSUME SigIInv, [SigNext]_sigvars PROVE [LC!CNext]_LC!cvars
    OBVIOUS
  <2>1. TypeOK /\ IInv
    BY DEF SigIInv, SigTypeOK
  <2>2. CASE Next
    BY <2>1, <2>2, StepIsSeen
  <2>3. CASE UNCHANGED vars
    BY <2>1, <2>3, Unseen DEF vars, HeldFromQueue, ArmedTimers
  <2>4. CASE RemoveCancels
    <3>1. local \in Handles /\ UNCHANGED <<queue, pc, obj, fate, timers>>
      BY <2>4, SignalFacts DEF RemoveCancels, SigIInv, PostedInv
    <3>2. UNCHANGED <<HeldFromQueue, ArmedTimers, PublicStatus>>
      BY <3>1 DEF HeldFromQueue, ArmedTimers, PublicStatus
    <3>3. LC!Drop(local)
      BY <2>4, <3>1, <3>2 DEF RemoveCancels, LC!Drop
    <3> QED BY <3>1, <3>3 DEF LC!CNext
  <2>5. CASE Post
    <3>1. registered \in Threaded /\ fate[registered] = "new" /\ Becomes(registered, "posted")
          /\ UNCHANGED <<queue, pc, obj, timers, cancelled>>
      BY <2>5, SignalFacts DEF Post, SigIInv, SigTypeOK, chan, clock
    <3> QED BY <2>1, <3>1, PostUnseen
  <2>6. Next \/ RemoveCancels \/ Post \/ UNCHANGED vars
    BY MainIsNext
    DEF SigNext, SigSteps, AddBegin, AddStores, AddRegisters, RemovePops, RemoveRestores,
        RemoveReturns, Strike, sigvars
  <2> QED BY <2>2, <2>3, <2>4, <2>5, <2>6
<1> QED BY SignalsInvariant, <1>1, <1>2, PTL DEF SigSpec, ImplementsContract, LC!Contract

-----------------------------------------------------------------------------
(* What EventLoop promises, with signals.                                   *)

LEMMA SigStepKinds ==
  ASSUME [SigNext]_sigvars
  PROVE  [Next]_vars \/ RemoveCancels \/ Post
BY MainIsNext
DEF SigNext, SigSteps, AddBegin, AddStores, AddRegisters, RemovePops, RemoveRestores, RemoveReturns,
    Strike, sigvars

LEMMA SigRanStep ==
  ASSUME SigIInv, [SigNext]_sigvars, NEW h \in Handles, fate[h] # "ran", fate'[h] = "ran"
  PROVE  h = obj /\ h \notin cancelled
<1>1. TypeOK /\ IInv
  BY DEF SigIInv, SigTypeOK
<1>2. ~RemoveCancels
  BY DEF RemoveCancels
<1>3. ~Post
  <2> SUFFICES ASSUME Post PROVE FALSE
    OBVIOUS
  <2>1. fate' = [fate EXCEPT ![registered] = "posted"] /\ fate \in [Handles -> Fates]
    BY <1>1 DEF Post, Becomes, TypeOK
  <2> QED BY <2>1
<1> QED BY <1>1, <1>2, <1>3, SigStepKinds, RanStep

(* Signals that post handles at any time neither lose a handle nor let the  *)
(* loop sleep on one, stop() remains a barrier, what is cancelled, by       *)
(* remove_signal_handler() too, is never called, and nothing is left at exit.*)
THEOREM PromisesWithSignals ==
  SigSpec =>
    /\ []NoHandleLost /\ []ParkedMeansIdle
    /\ StopBarrier /\ CancelledNeverRuns /\ ExitLeavesNothing
<1>1. SigIInv => NoHandleLost /\ ParkedMeansIdle
  BY DEF SigIInv, IInv
<1>2. SigIInv /\ [SigNext]_sigvars =>
        [\A s \in Stops : fate[s] = "accepted" /\ fate'[s] = "ran" =>
            \A h \in before[s] : fate[h] # "accepted"]_vars
  <2> SUFFICES ASSUME SigIInv, [SigNext]_sigvars, NEW s \in Stops, fate[s] = "accepted",
                      fate'[s] = "ran"
               PROVE  \A h \in before[s] : fate[h] # "accepted"
    OBVIOUS
  <2>1. s = obj
    BY KindFacts, SigRanStep
  <2> QED BY <2>1, TakenStopIsLast DEF SigIInv
<1>3. SigIInv /\ [SigNext]_sigvars =>
        [\A h \in cancelled : fate'[h] = "ran" => fate[h] = "ran"]_vars
  <2>1. SigIInv => cancelled \subseteq Handles
    BY DEF SigIInv, SigTypeOK, TypeOK
  <2> QED BY <2>1, SigRanStep
<1>4. SigIInv /\ [SigNext]_sigvars =>
        [exit # "finished" /\ exit' = "finished" =>
           /\ timers' = {}
           /\ \A h \in Handles : fate'[h] # "accepted"]_vars
  <2> SUFFICES ASSUME SigIInv, [SigNext]_sigvars, exit # "finished", exit' = "finished"
               PROVE  timers' = {} /\ \A h \in Handles : fate'[h] # "accepted"
    OBVIOUS
  <2>1. [Next]_vars
    BY SigStepKinds DEF RemoveCancels, Post, life
  <2> QED BY <2>1, FinishStep, FinishLeavesNothing DEF SigIInv
<1> QED
  BY SignalsInvariant, <1>1, <1>2, <1>3, <1>4, PTL
  DEF SigSpec, StopBarrier, CancelledNeverRuns, ExitLeavesNothing
=============================================================================
