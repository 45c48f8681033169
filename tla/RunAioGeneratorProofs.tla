------------------------ MODULE RunAioGeneratorProofs ------------------------
(***************************************************************************)
(* Type correctness of RunAioGenerator, and its two safety properties.     *)
(***************************************************************************)
EXTENDS RunAioGenerator, TLAPS

\* Items that have been taken and not yielded, as far as the consumer knows.
InHand(c) == IF consumer[c] = "item" THEN 1 ELSE 0

\* Holds of every generator; it bounds what is yielded.
YieldsTaken == \A c \in Consumer : yielded[c] + InHand(c) <= taken[c]

\* A read that may still answer has its consumer waiting for it, unless the
\* generator answers after CancelledError.
ReadIsAwaited ==
  \A c \in Consumer \ Handling : read[c] = "running" => consumer[c] = "waiting"

IInv == TypeOK /\ YieldsTaken /\ ReadIsAwaited /\ NoStrayReschedule /\ EveryItemYielded

-----------------------------------------------------------------------------
(* How the steps of the Trio task and of its read change what one consumer  *)
(* sees.                                                                    *)

LEMMA InitLemma == Init => IInv
BY GeneratorAssumption
   DEF Init, IInv, TypeOK, YieldsTaken, ReadIsAwaited, NoStrayReschedule, EveryItemYielded, InHand

\* Every action of consumer d leaves the others alone.
LEMMA NextItemLemma ==
  ASSUME IInv, NEW d \in Consumer, NextItem(d)
  PROVE  IInv'
<1>1. TypeOK'
  BY DEF IInv, TypeOK, NextItem
<1>2. YieldsTaken' /\ ReadIsAwaited' /\ NoStrayReschedule' /\ EveryItemYielded'
  BY DEF IInv, TypeOK, YieldsTaken, ReadIsAwaited, NoStrayReschedule, EveryItemYielded,
         InHand, NextItem
<1> QED
  BY <1>1, <1>2 DEF IInv

LEMMA CancelScopeLemma ==
  ASSUME IInv, NEW d \in Consumer, CancelScope(d)
  PROVE  IInv'
<1>1. CASE consumer[d] # "waiting"
  <2>1. UNCHANGED <<consumer, read, taken, yielded, stray>>
    BY <1>1 DEF CancelScope
  <2>2. TypeOK'
    BY <2>1 DEF IInv, TypeOK, CancelScope
  <2> QED
    BY <2>1, <2>2
       DEF IInv, YieldsTaken, ReadIsAwaited, NoStrayReschedule, EveryItemYielded, InHand
<1>2. CASE consumer[d] = "waiting"
  <2>1. Abort(d) /\ UNCHANGED <<taken, yielded, stray>>
    BY <1>2 DEF CancelScope
  <2>2. TypeOK'
    BY <2>1 DEF IInv, TypeOK, CancelScope, Abort
  <2>3. YieldsTaken' /\ ReadIsAwaited' /\ NoStrayReschedule' /\ EveryItemYielded'
    BY <1>2, <2>1
       DEF IInv, TypeOK, YieldsTaken, ReadIsAwaited, NoStrayReschedule, EveryItemYielded,
           InHand, Abort
  <2> QED
    BY <2>2, <2>3 DEF IInv
<1> QED
  BY <1>1, <1>2

\* The item in hand becomes one more that is yielded: the bound on yielded
\* comes from YieldsTaken.
LEMMA YieldLemma ==
  ASSUME IInv, NEW d \in Consumer, Yield(d)
  PROVE  IInv'
<1>1. yielded[d] + 1 <= taken[d] /\ taken[d] \in 0 .. MaxItems /\ yielded[d] \in 0 .. MaxItems
  BY DEF IInv, TypeOK, YieldsTaken, InHand, Yield
<1>2. yielded[d] + 1 \in 0 .. MaxItems
  BY <1>1, GeneratorAssumption
<1>3. TypeOK'
  BY <1>2 DEF IInv, TypeOK, Yield
<1>4. YieldsTaken' /\ ReadIsAwaited' /\ NoStrayReschedule' /\ EveryItemYielded'
  BY DEF IInv, TypeOK, YieldsTaken, ReadIsAwaited, NoStrayReschedule, EveryItemYielded,
         InHand, Yield
<1> QED
  BY <1>3, <1>4 DEF IInv

LEMMA LeaveLemma ==
  ASSUME IInv, NEW d \in Consumer, Leave(d) \/ Break(d)
  PROVE  IInv'
<1>1. TypeOK'
  BY DEF IInv, TypeOK, Leave, Break
<1>2. YieldsTaken' /\ ReadIsAwaited' /\ NoStrayReschedule' /\ EveryItemYielded'
  BY DEF IInv, TypeOK, YieldsTaken, ReadIsAwaited, NoStrayReschedule, EveryItemYielded,
         InHand, Leave, Break
<1> QED
  BY <1>1, <1>2 DEF IInv

\* Only here can a wake-up be stray: ReadIsAwaited excludes it.
LEMMA ReadEndsLemma ==
  ASSUME IInv, NEW d \in Consumer, ReadEnds(d)
  PROVE  IInv'
<1>1. d \notin Handling => consumer[d] = "waiting"
  BY DEF IInv, ReadIsAwaited, ReadEnds
<1>2. ASSUME taken[d] < MaxItems, taken' = [taken EXCEPT ![d] = @ + 1], Reschedule(d, "item")
      PROVE  IInv'
  <2>1. taken[d] + 1 \in 0 .. MaxItems
    BY <1>2, GeneratorAssumption DEF IInv, TypeOK
  <2>2. TypeOK'
    BY <1>2, <2>1 DEF IInv, TypeOK, ReadEnds, Reschedule
  <2>3. YieldsTaken' /\ ReadIsAwaited'
    BY <1>2 DEF IInv, TypeOK, YieldsTaken, ReadIsAwaited, InHand, ReadEnds, Reschedule
  <2>4. NoStrayReschedule' /\ EveryItemYielded'
    BY <1>1, <1>2 DEF IInv, TypeOK, NoStrayReschedule, EveryItemYielded, ReadEnds, Reschedule
  <2> QED
    BY <2>2, <2>3, <2>4 DEF IInv
<1>3. ASSUME NEW r \in {"stop", "error"}, Reschedule(d, r), UNCHANGED taken
      PROVE  IInv'
  <2>1. TypeOK'
    BY <1>3 DEF IInv, TypeOK, ReadEnds, Reschedule
  <2>2. YieldsTaken' /\ ReadIsAwaited'
    BY <1>3 DEF IInv, TypeOK, YieldsTaken, ReadIsAwaited, InHand, ReadEnds, Reschedule
  <2>3. NoStrayReschedule' /\ EveryItemYielded'
    BY <1>1, <1>3 DEF IInv, TypeOK, NoStrayReschedule, EveryItemYielded, ReadEnds, Reschedule
  <2> QED
    BY <2>1, <2>2, <2>3 DEF IInv
<1>4. ASSUME UNCHANGED <<consumer, stray, taken>>
      PROVE  IInv'
  <2>1. TypeOK'
    BY <1>4 DEF IInv, TypeOK, ReadEnds
  <2> QED
    BY <1>4, <2>1
       DEF IInv, TypeOK, YieldsTaken, ReadIsAwaited, NoStrayReschedule, EveryItemYielded, InHand,
           ReadEnds
<1> QED
  BY <1>2, <1>3, <1>4 DEF ReadEnds

LEMMA ReadCancelledLemma ==
  ASSUME IInv, NEW d \in Consumer, ReadCancelled(d) \/ OutsiderCancels(d)
  PROVE  IInv'
<1>1. TypeOK'
  BY DEF IInv, TypeOK, ReadCancelled, OutsiderCancels
<1>2. YieldsTaken' /\ ReadIsAwaited' /\ NoStrayReschedule' /\ EveryItemYielded'
  BY DEF IInv, TypeOK, YieldsTaken, ReadIsAwaited, NoStrayReschedule, EveryItemYielded,
         InHand, ReadCancelled, OutsiderCancels
<1> QED
  BY <1>1, <1>2 DEF IInv

LEMMA NextLemma == IInv /\ [Next]_vars => IInv'
<1> SUFFICES ASSUME IInv, [Next]_vars
             PROVE  IInv'
  OBVIOUS
<1>1. CASE UNCHANGED vars
  BY <1>1 DEF vars, IInv, TypeOK, YieldsTaken, ReadIsAwaited, NoStrayReschedule,
              EveryItemYielded, InHand
<1>2. ASSUME NEW d \in Consumer,
             \/ NextItem(d) \/ CancelScope(d) \/ Yield(d) \/ Leave(d) \/ Break(d)
             \/ ReadEnds(d) \/ ReadCancelled(d) \/ OutsiderCancels(d)
      PROVE  IInv'
  BY <1>2, NextItemLemma, CancelScopeLemma, YieldLemma, LeaveLemma, ReadEndsLemma,
     ReadCancelledLemma
<1> QED
  BY <1>1, <1>2 DEF Next

-----------------------------------------------------------------------------
(* The invariant of an iteration: what is read, taken and yielded agrees.   *)
THEOREM Invariant == Spec => []IInv
<1> QED
  BY InitLemma, NextLemma, PTL DEF Spec

(* Every variable keeps its type; in particular no more is yielded than the *)
(* generator produced.                                                      *)
THEOREM TypeCorrect == Spec => []TypeOK
<1>1. IInv => TypeOK
  BY DEF IInv
<1> QED
  BY <1>1, Invariant, PTL

(* A read whose generator lets CancelledError pass wakes its Trio task only *)
(* while the task waits for it, whoever cancels what and when.              *)
THEOREM WakeUpsAreExpected == Spec => []NoStrayReschedule
<1>1. IInv => NoStrayReschedule
  BY DEF IInv
<1> QED
  BY <1>1, Invariant, PTL

(* No item of such a generator is lost or yielded twice.                    *)
THEOREM ItemsAreKept == Spec => []EveryItemYielded
<1>1. IInv => EveryItemYielded
  BY DEF IInv
<1> QED
  BY <1>1, Invariant, PTL

(* Unless other code cancels its reads or its generator raises what is no   *)
(* Exception, a task waits only for a read that will answer, and in a scope *)
(* that is not cancelled: abort_cb finds the read unfinished whenever the   *)
(* task waits, and so ends the wait.                                        *)
THEOREM CancelledDoNotWait == Spec => []WaitsForRead
<1>1. Init => WaitsForRead
  BY DEF Init, WaitsForRead
<1>2. TypeOK /\ WaitsForRead /\ [Next]_vars => WaitsForRead'
  <2> SUFFICES ASSUME TypeOK, WaitsForRead, [Next]_vars,
                      NEW c \in Consumer \ (Exposed \cup Fatal), consumer'[c] = "waiting"
               PROVE  read'[c] = "running" /\ ~cscope'[c]
    BY DEF WaitsForRead
  <2>1. CASE UNCHANGED vars
    BY <2>1 DEF vars, WaitsForRead
  <2>2. ASSUME NEW d \in Consumer,
               NextItem(d) \/ Yield(d) \/ Leave(d) \/ Break(d)
        PROVE  read'[c] = "running" /\ ~cscope'[c]
    BY <2>2 DEF TypeOK, WaitsForRead, NextItem, Yield, Leave, Break
  <2>3. ASSUME NEW d \in Consumer, CancelScope(d)
        PROVE  read'[c] = "running" /\ ~cscope'[c]
    <3>1. CASE d # c
      BY <2>3, <3>1 DEF TypeOK, WaitsForRead, CancelScope, Abort
    <3>2. CASE d = c
      <4>1. consumer[c] # "waiting" => consumer' = consumer
        BY <2>3, <3>2 DEF CancelScope
      <4>2. consumer[c] = "waiting" => Abort(c) /\ read[c] = "running"
        BY <2>3, <3>2 DEF CancelScope, WaitsForRead
      <4>3. consumer[c] = "waiting" => consumer'[c] = "Cancelled"
        BY <4>2 DEF Abort, TypeOK
      <4> QED BY <4>1, <4>3
    <3> QED BY <3>1, <3>2
  <2>4. ASSUME NEW d \in Consumer, ReadEnds(d) \/ ReadCancelled(d) \/ OutsiderCancels(d)
        PROVE  read'[c] = "running" /\ ~cscope'[c]
    <3>1. cscope' = cscope
      BY <2>4 DEF ReadEnds, ReadCancelled, OutsiderCancels
    <3>2. CASE d # c
      BY <2>4, <3>1, <3>2
      DEF TypeOK, WaitsForRead, ReadEnds, Reschedule, ReadCancelled, OutsiderCancels
    <3>3. CASE d = c
      <4>1. ReadEnds(c) \/ ReadCancelled(c)
        BY <2>4, <3>3 DEF OutsiderCancels
      <4>2. consumer[c] = "waiting" => ReadEnds(c)
        BY <4>1 DEF ReadCancelled, WaitsForRead
      <4>3. ReadEnds(c) => consumer'[c] # "waiting"
        BY DEF ReadEnds, Reschedule, TypeOK
      <4> QED BY <4>1, <4>2, <4>3 DEF ReadCancelled
    <3> QED BY <3>2, <3>3
  <2> QED BY <2>1, <2>2, <2>3, <2>4 DEF Next
<1> QED BY <1>1, <1>2, TypeCorrect, PTL DEF Spec

=============================================================================
