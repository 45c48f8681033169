-------------------------- MODULE CrossCallProofs --------------------------
(***************************************************************************)
(* The safety properties of AsyncHandle and of CrossCall, for every set of *)
(* handles.  A step of a call through both worlds is a step of the handle  *)
(* or leaves it alone, so CrossCall keeps AsyncHandle's invariant and adds *)
(* one of its own.                                                         *)
(***************************************************************************)
EXTENDS CrossCall, TLAPS

-----------------------------------------------------------------------------
(* AsyncHandle.                                                             *)

\* The bookkeeping of one handle, which no other handle's steps disturb.
HandleInv(h) ==
  /\ h \in WithFuture <=> fut[h] # "none"
  /\ finished[h] <=> task[h] = "ended"
  /\ scope[h] <=> cancelled[h]
  /\ task[h] # "ended" =>
       ~returned[h] /\ leaves[h] = {} /\ raised[h] = {} /\ reported[h] = {}

IInv ==
  /\ TypeOK
  /\ \A h \in Handle : HandleInv(h)
  /\ FutureFollowsTask /\ FutureTellsOutcome /\ CancelStaysLocal /\ ErrorsSurface

LEMMA InitInv == Init => IInv
BY FutureAssumption
DEF Init, IInv, TypeOK, HandleInv, FutureFollowsTask, FutureTellsOutcome, CancelStaysLocal,
    ErrorsSurface, Done, Kinds

\* Requests to cancel change neither the task nor a future of a running one.
LEMMA CancelStep ==
  ASSUME IInv,
         NurseryCancelled \/ \E h \in Handle : CancelTask(h) \/ CancelFuture(h)
  PROVE  IInv'
<1> USE FutureAssumption
<1>1. CASE NurseryCancelled
  BY <1>1 DEF NurseryCancelled, IInv, TypeOK, HandleInv, FutureFollowsTask,
              FutureTellsOutcome, CancelStaysLocal, ErrorsSurface, Done
<1>2. ASSUME NEW h \in Handle, CancelTask(h) \/ CancelFuture(h) PROVE IInv'
  <2>1. UNCHANGED <<task, finished, outer, returned, leaves, raised, reported>>
    BY <1>2 DEF CancelTask, CancelFuture, WrappedCancel
  <2>2. fut' = fut
    BY <1>2 DEF CancelTask, CancelFuture, WrappedCancel, Resolve, IInv, TypeOK, HandleInv,
                FutureFollowsTask, Done
  <2>3. \/ HandleCancel(h)
        \/ UNCHANGED <<cancelled, scope>>
    BY <1>2 DEF CancelTask, CancelFuture, WrappedCancel
  <2>4. TypeOK' /\ \A g \in Handle : HandleInv(g)'
    <3>1. CASE HandleCancel(h)
      <4>1. TypeOK'
        BY <2>1, <2>2, <3>1 DEF HandleCancel, IInv, TypeOK
      <4>2. \A g \in Handle : scope'[g] <=> cancelled'[g]
        BY <3>1 DEF HandleCancel, IInv, TypeOK, HandleInv
      <4> QED BY <2>1, <2>2, <4>1, <4>2 DEF IInv, HandleInv
    <3>2. CASE UNCHANGED <<cancelled, scope>>
      BY <2>1, <2>2, <3>2 DEF IInv, TypeOK, HandleInv
    <3> QED BY <2>3, <3>1, <3>2
  <2>5. \A g \in Handle : cancelled[g] => cancelled'[g]
    BY <2>3 DEF HandleCancel, IInv, TypeOK
  <2>6. FutureFollowsTask' /\ FutureTellsOutcome' /\ CancelStaysLocal' /\ ErrorsSurface'
    BY <2>1, <2>2, <2>5
    DEF IInv, FutureFollowsTask, FutureTellsOutcome, CancelStaysLocal, ErrorsSurface, Done
  <2> QED BY <2>4, <2>6 DEF IInv
<1> QED BY <1>1, <1>2

LEMMA StartStep ==
  ASSUME IInv, NEW h \in Handle, Spawn(h) \/ RunCancelled(h) \/ RunCallback(h)
  PROVE  IInv'
<1> USE FutureAssumption
<1>1. CASE Spawn(h) \/ RunCallback(h)
  BY <1>1 DEF Spawn, RunCallback, IInv, TypeOK, HandleInv, FutureFollowsTask,
              FutureTellsOutcome, CancelStaysLocal, ErrorsSurface, Done
<1>2. CASE RunCancelled(h)
  BY <1>2 DEF RunCancelled, Resolve, IInv, TypeOK, HandleInv, FutureFollowsTask,
              FutureTellsOutcome, CancelStaysLocal, ErrorsSurface, Done
<1> QED BY <1>1, <1>2

LEMMA ReturnStep ==
  ASSUME IInv, NEW h \in Handle, Returns(h)
  PROVE  IInv'
BY FutureAssumption
DEF Returns, Finish, Resolve, IInv, TypeOK, HandleInv, FutureFollowsTask, FutureTellsOutcome,
    CancelStaysLocal, ErrorsSurface, Done

\* What passes the scope is the exception, less Cancelled if the scope alone
\* was cancelled.
LEMMA PastScopeFacts ==
  ASSUME NEW h \in Handle, NEW exc \in SUBSET Kinds,
         "Cancelled" \in exc => scope[h] \/ outer
  PROVE  /\ PastScope(h, exc) \in SUBSET Kinds
         /\ PastScope(h, exc) \ {"Cancelled"} = exc \ {"Cancelled"}
         /\ "Cancelled" \in PastScope(h, exc) => outer
         /\ PastScope(h, exc) = {} /\ exc # {} => scope[h]
BY DEF PastScope

LEMMA RaiseStep ==
  ASSUME IInv, NEW h \in Handle, NEW exc \in SUBSET Kinds, Raises(h, exc)
  PROVE  IInv'
<1> USE FutureAssumption
<1> DEFINE past == PastScope(h, exc)
<1>1. /\ task[h] = "running" /\ exc # {}
      /\ finished' = [finished EXCEPT ![h] = TRUE]
      /\ task' = [task EXCEPT ![h] = "ended"]
      /\ leaves' = [leaves EXCEPT ![h] = exc]
      /\ UNCHANGED <<cancelled, scope, outer, returned>>
      /\ "Cancelled" \in exc => scope[h] \/ outer
  BY DEF Raises, Finish
<1>2. /\ past \in SUBSET Kinds /\ past \ {"Cancelled"} = exc \ {"Cancelled"}
      /\ "Cancelled" \in past => outer
      /\ past = {} /\ exc # {} => scope[h]
  BY <1>1, PastScopeFacts
<1>3. RaiseCaught(h, exc) \/ RaiseToLoop(h, exc) \/ RaiseToFuture(h, exc)
  BY DEF Raises
<1> HIDE DEF past
<1>4. PICK p, r \in SUBSET Kinds, f \in {"exception", "cancelled"} :
        /\ raised' = [raised EXCEPT ![h] = p]
        /\ reported' = [reported EXCEPT ![h] = r]
        /\ h \in WithFuture => Resolve(h, f)
        /\ h \notin WithFuture => fut' = fut
        /\ "Cancelled" \in p => outer
        /\ h \notin WithFuture => ("Exception" \in exc => "Exception" \in r)
                                  /\ ("Base" \in exc => "Base" \in p)
        /\ f = "cancelled" => cancelled[h] \/ outer
        /\ h \in WithFuture /\ exc \ {"Cancelled"} # {} => f = "exception"
  <2>0. /\ raised \in [Handle -> SUBSET Kinds] /\ reported \in [Handle -> SUBSET Kinds]
        /\ raised[h] = {} /\ reported[h] = {} /\ (scope[h] <=> cancelled[h])
        /\ (h \in WithFuture <=> fut[h] # "none") /\ fut \in [Handle -> {"none", "pending",
             "result", "exception", "cancelled"}]
    BY <1>1 DEF IInv, TypeOK, HandleInv
  <2>1. CASE RaiseCaught(h, exc)
    <3>1. past = {} /\ exc = {"Cancelled"} /\ cancelled[h]
      BY <1>1, <1>2, <2>0, <2>1 DEF RaiseCaught, past
    <3>2. /\ raised' = [raised EXCEPT ![h] = {}] /\ reported' = [reported EXCEPT ![h] = {}]
          /\ Resolve(h, "cancelled") /\ (h \notin WithFuture => fut' = fut)
      BY <2>0, <2>1 DEF RaiseCaught, Resolve
    <3>3. {} \in SUBSET Kinds /\ "Exception" \notin exc /\ "Base" \notin exc
      BY <3>1
    <3> WITNESS {} \in SUBSET Kinds, {} \in SUBSET Kinds,
                "cancelled" \in {"exception", "cancelled"}
    <3> QED BY <3>1, <3>2, <3>3
  <2>2. CASE RaiseToLoop(h, exc)
    <3>1. h \notin WithFuture /\ fut' = fut
      BY <2>2 DEF RaiseToLoop
    <3>2. /\ raised' = [raised EXCEPT ![h] = past \ {"Exception"}]
          /\ reported' = [reported EXCEPT ![h] = past \cap {"Exception"}]
      BY <2>2 DEF RaiseToLoop, past
    <3>3. /\ past \ {"Exception"} \in SUBSET Kinds /\ past \cap {"Exception"} \in SUBSET Kinds
          /\ "Cancelled" \in past \ {"Exception"} => outer
          /\ "Exception" \in exc => "Exception" \in past \cap {"Exception"}
          /\ "Base" \in exc => "Base" \in past \ {"Exception"}
      BY <1>2
    <3> QED BY <3>1, <3>2, <3>3
  <2>3. CASE RaiseToFuture(h, exc)
    <3>1. h \in WithFuture /\ past # {}
      BY <2>3 DEF RaiseToFuture, past
    <3>2. /\ raised' = [raised EXCEPT ![h] = past \cap {"Cancelled"}]
          /\ reported' = [reported EXCEPT ![h] = {}]
      BY <2>0, <2>3 DEF RaiseToFuture, past
    <3>3. CASE past \ {"Cancelled"} # {}
      <4>1. Resolve(h, "exception")
        BY <2>3, <3>3 DEF RaiseToFuture, past, Resolve
      <4> QED BY <1>2, <3>1, <3>2, <4>1
    <3>4. CASE past \ {"Cancelled"} = {}
      <4>1. Resolve(h, "cancelled")
        BY <2>3, <3>4 DEF RaiseToFuture, past, Resolve
      <4>2. outer /\ exc \ {"Cancelled"} = {}
        BY <1>2, <3>1, <3>4
      <4> QED BY <1>2, <3>1, <3>2, <4>1, <4>2
    <3> QED BY <3>3, <3>4
  <2> QED BY <1>3, <2>1, <2>2, <2>3
<1>5. TypeOK' /\ \A g \in Handle : HandleInv(g)'
  BY <1>1, <1>4 DEF IInv, TypeOK, HandleInv, Resolve
<1>6. FutureFollowsTask'
  BY <1>1, <1>4 DEF IInv, TypeOK, FutureFollowsTask, HandleInv, Done, Resolve
<1>7. FutureTellsOutcome'
  BY <1>1, <1>4 DEF IInv, TypeOK, FutureFollowsTask, FutureTellsOutcome, HandleInv, Done, Resolve
<1>8. CancelStaysLocal' /\ ErrorsSurface'
  BY <1>1, <1>4 DEF IInv, TypeOK, CancelStaysLocal, ErrorsSurface
<1> QED BY <1>5, <1>6, <1>7, <1>8 DEF IInv

LEMMA InvStep == IInv /\ [Next]_vars => IInv'
<1> SUFFICES ASSUME IInv, [Next]_vars PROVE IInv'
  OBVIOUS
<1>1. CASE UNCHANGED vars
  BY <1>1 DEF vars, IInv, TypeOK, HandleInv, FutureFollowsTask, FutureTellsOutcome,
              CancelStaysLocal, ErrorsSurface, Done
<1> QED BY <1>1, CancelStep, StartStep, ReturnStep, RaiseStep DEF Next, Ends

(* What an AsyncHandle, its future and its Trio task know of each other     *)
(* agrees at every step.                                                    *)
THEOREM Invariant == Spec => []IInv
BY InitInv, InvStep, PTL DEF Spec

(* The future of a call into Trio is resolved exactly when its Trio task    *)
(* has ended, however the task, the cancellations and the shutdown of the   *)
(* nursery interleave.                                                      *)
THEOREM FutureAndTaskAgree == Spec => []FutureFollowsTask
<1>1. IInv => FutureFollowsTask
  BY DEF IInv
<1> QED BY Invariant, <1>1, PTL

(* The future tells what the Trio function did.                             *)
THEOREM OutcomeIsTold == Spec => []FutureTellsOutcome
<1>1. IInv => FutureTellsOutcome
  BY DEF IInv
<1> QED BY Invariant, <1>1, PTL

(* Cancelling single calls never lets a Cancelled into the nursery.         *)
THEOREM CancelIsLocal == Spec => []CancelStaysLocal
<1>1. IInv => CancelStaysLocal
  BY DEF IInv
<1> QED BY Invariant, <1>1, PTL

(* Errors of run_trio_task() functions always surface.                      *)
THEOREM NoErrorIsLost == Spec => []ErrorsSurface
<1>1. IInv => ErrorsSurface
  BY DEF IInv
<1> QED BY Invariant, <1>1, PTL

-----------------------------------------------------------------------------
(* CrossCall.                                                               *)

\* Where the caller, the asyncio task and the Trio task of one call can be,
\* and who must have asked for a cancellation that is on its way.
CallInv(h) ==
  /\ caller[h] = "idle" <=> aio[h] = "none"
  /\ h \notin WithFuture => caller[h] = "idle"
  /\ caller[h] = "resumed" \/ CallOver(h) => AioDone(h)
  /\ aio[h] = "ready" => task[h] = "queued"
  /\ AioDone(h) => task[h] \in {"queued", "ended"}
  /\ h \in WithFuture /\ aio[h] = "none" => task[h] = "queued"
  /\ aborting[h] => callerScope[h]
  /\ mustCancel[h] => aborting[h] \/ asked[h]
  /\ h \in WithFuture /\ cancelled[h] => aborting[h] \/ asked[h]
  /\ aio[h] = "cancelled" => aborting[h] \/ asked[h] \/ outer
  /\ caller[h] = "Cancelled" => callerScope[h]
  /\ caller[h] = "CancelledError" => asked[h] \/ outer

CrossInv ==
  /\ CrossTypeOK
  /\ IInv
  /\ \A h \in Handle : CallInv(h)

LEMMA CrossInitInv == CrossInit => CrossInv
<1> SUFFICES ASSUME CrossInit PROVE CrossInv
  OBVIOUS
<1>1. IInv
  BY InitInv DEF CrossInit
<1>2. CrossTypeOK
  BY <1>1 DEF CrossInit, CrossTypeOK, IInv
<1>3. \A h \in Handle : CallInv(h)
  BY DEF CrossInit, Init, CallInv, CallOver, AioDone, Results
<1> QED BY <1>1, <1>2, <1>3 DEF CrossInv

\* Cancelling the asyncio task either does nothing to the handle or is a
\* CancelFuture of its.
LEMMA AioCancelIsHandleStep ==
  ASSUME NEW h \in Handle, AioCancel(h)
  PROVE  CancelFuture(h) \/ UNCHANGED vars
BY DEF AioCancel

\* Every step of CrossCall is a step of AsyncHandle or a stutter.
LEMMA CrossStepIsHandleStep == [CrossNext]_ccvars => [Next]_vars
<1> SUFFICES ASSUME [CrossNext]_ccvars PROVE [Next]_vars
  OBVIOUS
<1>1. CASE UNCHANGED ccvars
  BY <1>1 DEF ccvars
<1>2. CASE NurseryCancelled
  BY <1>2 DEF Next
<1>3. ASSUME NEW h \in Handle,
             Call(h) \/ DoneCb(h) \/ CallEnds(h) \/ AioStart(h) \/ AioWakes(h)
      PROVE  UNCHANGED vars
  BY <1>3 DEF Call, DoneCb, CallEnds, AioStart, AioWakes
<1>4. ASSUME NEW h \in Handle, CancelCaller(h) \/ CancelAio(h) PROVE [Next]_vars
  BY <1>4, AioCancelIsHandleStep DEF CancelCaller, CancelAio, Next
<1>5. ASSUME NEW h \in Handle, TrioSide(h) PROVE Next
  BY <1>5 DEF TrioSide, Next
<1> QED BY <1>1, <1>2, <1>3, <1>4, <1>5 DEF CrossNext

\* The caller's side.
LEMMA CallerStep ==
  ASSUME CrossInv, NEW h \in Handle, Call(h) \/ DoneCb(h) \/ CallEnds(h)
  PROVE  CrossTypeOK' /\ \A g \in Handle : CallInv(g)'
<1>0. CrossTypeOK /\ TypeOK' /\ UNCHANGED vars /\ \A g \in Handle : CallInv(g)
  BY DEF CrossInv, Call, DoneCb, CallEnds, CrossTypeOK, TypeOK, vars
<1>1. CASE Call(h)
  <2>1. CrossTypeOK'
    BY <1>0, <1>1 DEF CrossTypeOK, Call, AioBecomes
  <2>2. \A g \in Handle : CallInv(g)'
    BY <1>0, <1>1 DEF CrossTypeOK, Call, AioBecomes, CallInv, CallOver, AioDone, Results, vars
  <2> QED BY <2>1, <2>2
<1>2. CASE DoneCb(h)
  BY <1>0, <1>2 DEF CrossTypeOK, DoneCb, CallInv, CallOver, AioDone, Results, vars
<1>3. CASE CallEnds(h)
  <2>1. AioDone(h) /\ aio[h] \in Results
    BY <1>0, <1>3 DEF CallInv, CallEnds, AioDone
  <2>2. /\ Outcome(h) \in {"returned", "raised", "Cancelled", "CancelledError"}
        /\ Outcome(h) = "Cancelled" => aio[h] = "cancelled" /\ aborting[h]
        /\ Outcome(h) = "CancelledError" => aio[h] = "cancelled" /\ ~aborting[h]
    BY <2>1 DEF Outcome, Results
  <2>3. CrossTypeOK'
    BY <1>0, <1>3, <2>2 DEF CrossTypeOK, CallEnds
  <2>4. \A g \in Handle : CallInv(g)'
    BY <1>0, <1>3, <2>1, <2>2 DEF CrossTypeOK, CallEnds, CallInv, CallOver, AioDone, Results, vars
  <2> QED BY <2>3, <2>4
<1> QED BY <1>1, <1>2, <1>3

\* The asyncio task's own steps.  It is woken by a future that is resolved,
\* and so only when the Trio task has ended.
LEMMA AioStep ==
  ASSUME CrossInv, NEW h \in Handle, AioStart(h) \/ AioWakes(h)
  PROVE  CrossTypeOK' /\ \A g \in Handle : CallInv(g)'
<1>0. CrossTypeOK /\ TypeOK' /\ UNCHANGED vars /\ \A g \in Handle : CallInv(g)
  BY DEF CrossInv, AioStart, AioWakes, CrossTypeOK, TypeOK, vars
<1>1. PICK s \in {"waiting"} \cup Results : AioBecomes(h, s)
  BY DEF AioStart, AioWakes, Results
<1>2. CrossTypeOK'
  BY <1>0, <1>1 DEF CrossTypeOK, AioStart, AioWakes, AioBecomes
<1>3. aio[h] # "none" /\ h \in WithFuture
  BY <1>0 DEF AioStart, AioWakes, CallInv
<1>4. s \in Results => task[h] \in {"queued", "ended"}
  <2>1. CASE AioStart(h)
    BY <1>0, <2>1 DEF AioStart, CallInv
  <2>2. CASE AioWakes(h)
    BY <1>3, <2>2 DEF AioWakes, CrossInv, IInv, FutureFollowsTask
  <2> QED BY <2>1, <2>2
<1>5. s = "cancelled" => aborting[h] \/ asked[h] \/ outer
  <2>1. aio' [h] = s
    BY <1>0, <1>1 DEF CrossTypeOK, AioBecomes
  <2>2. CASE mustCancel[h]
    BY <1>0, <2>2 DEF CallInv
  <2>3. CASE fut[h] = "cancelled"
    BY <1>0, <1>3, <2>3 DEF CallInv, CrossInv, IInv, FutureTellsOutcome
  <2>4. s = "cancelled" => mustCancel[h] \/ fut[h] = "cancelled"
    <3>1. ASSUME NEW t \in {"waiting", "result", "exception"}, AioBecomes(h, t)
          PROVE  s # "cancelled"
      BY <1>0, <2>1, <3>1 DEF CrossTypeOK, AioBecomes
    <3> QED BY <3>1 DEF AioStart, AioWakes
  <2> QED BY <2>2, <2>3, <2>4
<1>6. \A g \in Handle : CallInv(g)'
  BY <1>0, <1>1, <1>3, <1>4, <1>5
  DEF CrossTypeOK, AioStart, AioWakes, AioBecomes, CallInv, CallOver, AioDone, Results, vars
<1> QED BY <1>2, <1>6

\* What a cancellation of the asyncio task can change.
LEMMA AioCancelFacts ==
  ASSUME CrossInv, TypeOK', NEW h \in Handle, AioCancel(h)
  PROVE  /\ UNCHANGED <<task, outer>>
         /\ \A g \in Handle \ {h} : cancelled'[g] = cancelled[g]
         /\ mustCancel' \in [Handle -> BOOLEAN]
         /\ \A g \in Handle \ {h} : mustCancel'[g] = mustCancel[g]
<1>0. CrossTypeOK /\ TypeOK
  BY DEF CrossInv, CrossTypeOK
<1>1. UNCHANGED <<task, outer>>
  BY DEF AioCancel, CancelFuture, vars
<1>2. \A g \in Handle \ {h} : cancelled'[g] = cancelled[g]
  BY <1>0 DEF AioCancel, CancelFuture, WrappedCancel, HandleCancel, vars, TypeOK
<1>3. mustCancel' \in [Handle -> BOOLEAN] /\ \A g \in Handle \ {h} : mustCancel'[g] = mustCancel[g]
  BY <1>0 DEF AioCancel, CrossTypeOK
<1> QED BY <1>1, <1>2, <1>3

\* A cancellation, of the scope or of the asyncio task, leaves its mark:
\* aborting or asked.
LEMMA CancellationStep ==
  ASSUME CrossInv, TypeOK', NEW h \in Handle, CancelCaller(h) \/ CancelAio(h)
  PROVE  CrossTypeOK' /\ \A g \in Handle : CallInv(g)'
<1>0. CrossTypeOK /\ \A g \in Handle : CallInv(g)
  BY DEF CrossInv
<1>1. CASE CancelCaller(h) /\ caller[h] # "waiting"
  BY <1>0, <1>1 DEF CancelCaller, CrossTypeOK, CallInv, CallOver, AioDone, vars
<1>2. CASE CancelCaller(h) /\ caller[h] = "waiting"
  <2>1. AioCancel(h) /\ aborting' = [aborting EXCEPT ![h] = TRUE]
    BY <1>2 DEF CancelCaller
  <2> QED BY <1>0, <1>2, <2>1, AioCancelFacts
          DEF CancelCaller, CrossTypeOK, CallInv, CallOver, AioDone
<1>3. CASE CancelAio(h)
  BY <1>0, <1>3, AioCancelFacts DEF CancelAio, CrossTypeOK, CallInv, CallOver, AioDone
<1> QED BY <1>1, <1>2, <1>3

\* The steps of the Trio task.  One is started only while the coroutine
\* waits for it.
LEMMA TrioStep ==
  ASSUME CrossInv, TypeOK', UNCHANGED cvars,
         NurseryCancelled \/ \E h \in Handle : TrioSide(h)
  PROVE  CrossTypeOK' /\ \A g \in Handle : CallInv(g)'
<1>0. CrossTypeOK /\ TypeOK /\ \A g \in Handle : CallInv(g)
  BY DEF CrossInv, CrossTypeOK
<1>1. CrossTypeOK'
  BY <1>0 DEF CrossTypeOK, cvars
<1>2. CASE NurseryCancelled
  BY <1>0, <1>1, <1>2 DEF NurseryCancelled, CallInv, CallOver, AioDone, cvars
<1>3. ASSUME NEW h \in Handle, TrioSide(h)
      PROVE  \A g \in Handle : CallInv(g)'
  <2>1. outer' = outer
    BY <1>3 DEF TrioSide, CancelTask, Spawn, RunCancelled, RunCallback, Ends, Returns, Raises
  <2>2. CASE CancelTask(h)
    BY <1>0, <2>1, <2>2
    DEF CancelTask, HandleCancel, TypeOK, CallInv, CallOver, AioDone, cvars
  <2>3. CASE ~CancelTask(h)
    <3>1. /\ \E s : task' = [task EXCEPT ![h] = s]
          /\ task[h] = "queued" => aio[h] = "waiting" \/ h \notin WithFuture
          /\ cancelled' = cancelled
      BY <1>3, <2>3
      DEF TrioSide, Spawn, RunCancelled, RunCallback, Ends, Returns, Raises, Finish
    <3>2. task[h] # "ended"
      BY <1>3, <2>3
      DEF TrioSide, Spawn, RunCancelled, RunCallback, Ends, Returns, Raises, Finish
    <3>3. ~AioDone(h) /\ aio[h] # "ready" /\ (h \in WithFuture => aio[h] # "none")
      BY <1>0, <3>1, <3>2 DEF CallInv, AioDone, Results
    <3> QED BY <1>0, <2>1, <3>1, <3>3 DEF TypeOK, CallInv, CallOver, AioDone, cvars
  <2> QED BY <2>2, <2>3
<1> QED BY <1>1, <1>2, <1>3

LEMMA CrossInvStep == CrossInv /\ [CrossNext]_ccvars => CrossInv'
<1> SUFFICES ASSUME CrossInv, [CrossNext]_ccvars PROVE CrossInv'
  OBVIOUS
<1>1. IInv'
  BY CrossStepIsHandleStep, InvStep DEF CrossInv
<1>2. TypeOK'
  BY <1>1 DEF IInv
<1>3. CASE UNCHANGED ccvars
  BY <1>1, <1>2, <1>3 DEF ccvars, cvars, vars, CrossInv, CrossTypeOK, CallInv, CallOver, AioDone
<1>4. CASE CrossNext
  <2>1. CrossTypeOK' /\ \A g \in Handle : CallInv(g)'
    BY <1>2, <1>4, CallerStep, AioStep, CancellationStep, TrioStep DEF CrossNext
  <2> QED BY <1>1, <2>1 DEF CrossInv
<1> QED BY <1>3, <1>4

(* So does what run_aio_coroutine(), the asyncio task that it waits for and *)
(* the call that this task makes into Trio know of each other.              *)
THEOREM CrossInvariant == CrossSpec => []CrossInv
BY CrossInitInv, CrossInvStep, PTL DEF CrossSpec

(* The calls of CrossCall are calls of AsyncHandle: what AsyncHandle        *)
(* promises holds for a handle whose future an asyncio coroutine waits for, *)
(* whatever the two event loops do.                                         *)
THEOREM CrossCallImplementsHandle == CrossSpec => Spec
<1>1. CrossInit => Init
  BY DEF CrossInit
<1> QED BY <1>1, CrossStepIsHandleStep, PTL DEF CrossSpec, Spec

(* Once run_aio_coroutine() has returned or raised, neither the coroutine   *)
(* nor the Trio function it called is running.                              *)
THEOREM CallsAreStructured == CrossSpec => []NothingOutlivesCall
<1>1. CrossInv => NothingOutlivesCall
  BY DEF CrossInv, CallInv, NothingOutlivesCall
<1> QED BY CrossInvariant, <1>1, PTL

(* Cancelled is raised in the caller only under its own cancelled scope,    *)
(* and CancelledError only if somebody else cancelled the coroutine.        *)
THEOREM CancellationIsTranslated == CrossSpec => []RightCancellation
<1>1. CrossInv => RightCancellation
  BY DEF CrossInv, CallInv, RightCancellation
<1> QED BY CrossInvariant, <1>1, PTL

\* Neither a resolved future nor a cancelled scope is ever taken back.
LEMMA HandleKeeps ==
  ASSUME TypeOK, [Next]_vars, NEW g \in Handle
  PROVE  (Done(g) => Done(g)') /\ (scope[g] => scope'[g])
<1>1. CASE UNCHANGED vars
  BY <1>1 DEF vars, Done
<1>2. CASE NurseryCancelled
  BY <1>2 DEF NurseryCancelled, Done
<1>3. ASSUME NEW h \in Handle, CancelTask(h) \/ CancelFuture(h)
      PROVE  (Done(g) => Done(g)') /\ (scope[g] => scope'[g])
  BY <1>3 DEF CancelTask, CancelFuture, WrappedCancel, HandleCancel, Resolve, TypeOK, Done
<1>4. ASSUME NEW h \in Handle, Spawn(h) \/ RunCancelled(h) \/ RunCallback(h) \/ Ends(h)
      PROVE  (Done(g) => Done(g)') /\ (scope[g] => scope'[g])
  <2>1. scope' = scope /\ (fut' = fut \/ \E f : Resolve(h, f))
    BY <1>4
    DEF Spawn, RunCancelled, RunCallback, Ends, Returns, Raises, RaiseCaught, RaiseToLoop,
        RaiseToFuture
  <2> QED BY <2>1 DEF Resolve, TypeOK, Done
<1> QED BY <1>1, <1>2, <1>3, <1>4 DEF Next

\* Where the asyncio task has the request to cancel it, or needs none.
Reached(h) ==
  \/ AioDone(h)
  \/ aio[h] = "ready" /\ mustCancel[h]
  \/ aio[h] = "waiting" /\ (Done(h) \/ scope[h])

LEMMA AioCancelReaches ==
  ASSUME CrossTypeOK, NEW h \in Handle, aio[h] # "none", aio' = aio, AioCancel(h)
  PROVE  Reached(h)'
<1>1. CASE AioDone(h)
  BY <1>1 DEF Reached, AioDone
<1>2. CASE aio[h] = "waiting" /\ Done(h) /\ UNCHANGED vars
  BY <1>2 DEF Reached, Done, vars
<1>3. CASE aio[h] = "waiting" /\ ~Done(h)
  <2>1. CancelFuture(h)
    BY <1>3 DEF AioCancel, AioDone, Results
  <2>2. Done(h)' \/ scope'[h]
    BY <2>1
    DEF CancelFuture, WrappedCancel, HandleCancel, Resolve, CrossTypeOK, TypeOK, Done
  <2> QED BY <1>3, <2>2 DEF Reached
<1>4. CASE aio[h] = "ready"
  BY <1>4 DEF AioCancel, AioDone, Results, CrossTypeOK, Reached
<1> QED BY <1>1, <1>2, <1>3, <1>4 DEF AioCancel, CrossTypeOK, AioDone

\* Where the request has got, it stays.
LEMMA ReachedStays ==
  ASSUME CrossTypeOK, [CrossNext]_ccvars, NEW g \in Handle, Reached(g), aio[g] # "none"
  PROVE  Reached(g)' \/ Call(g)
<1>1. (Done(g) => Done(g)') /\ (scope[g] => scope'[g])
  BY CrossStepIsHandleStep, HandleKeeps DEF CrossTypeOK
<1>2. CASE aio'[g] = aio[g] /\ (mustCancel[g] => mustCancel'[g])
  BY <1>1, <1>2 DEF Reached, AioDone
<1>3. CASE AioStart(g) \/ AioWakes(g)
  <2>1. aio[g] = "ready" => mustCancel[g] /\ AioStart(g)
    BY <1>3 DEF Reached, AioDone, Results, AioWakes
  <2>2. aio'[g] \in Results
    BY <1>3, <2>1 DEF AioStart, AioWakes, AioBecomes, CrossTypeOK, Results
  <2> QED BY <2>2 DEF Reached, AioDone
<1>4. ASSUME NEW h \in Handle, h # g, Call(h) \/ AioStart(h) \/ AioWakes(h)
      PROVE  aio'[g] = aio[g] /\ mustCancel'[g] = mustCancel[g]
  BY <1>4 DEF Call, AioStart, AioWakes, AioBecomes, CrossTypeOK
<1>5. ASSUME NEW h \in Handle, CancelCaller(h) \/ CancelAio(h)
      PROVE  aio'[g] = aio[g] /\ (mustCancel[g] => mustCancel'[g])
  BY <1>5 DEF CancelCaller, CancelAio, AioCancel, CrossTypeOK
<1>6. ASSUME NEW h \in Handle, DoneCb(h) \/ CallEnds(h)
      PROVE  aio'[g] = aio[g] /\ mustCancel'[g] = mustCancel[g]
  BY <1>6 DEF DoneCb, CallEnds
<1>7. UNCHANGED cvars \/ UNCHANGED ccvars => aio'[g] = aio[g] /\ mustCancel'[g] = mustCancel[g]
  BY DEF cvars, ccvars
<1> QED BY <1>2, <1>3, <1>4, <1>5, <1>6, <1>7 DEF CrossNext

LEMMA UnderWayStep ==
  ASSUME CrossInv, [CrossNext]_ccvars, NEW g \in Handle, callerScope'[g], caller'[g] = "waiting",
         callerScope[g] /\ caller[g] = "waiting" => Reached(g)
  PROVE  Reached(g)'
<1>0. CrossTypeOK /\ CallInv(g)
  BY DEF CrossInv
<1>1. CASE Call(g)
  <2>1. aio'[g] = "ready" /\ mustCancel'[g] = callerScope[g] /\ callerScope' = callerScope
    BY <1>0, <1>1 DEF Call, AioBecomes, CrossTypeOK
  <2> QED BY <2>1 DEF Reached
<1>2. CASE CancelCaller(g) /\ caller[g] = "waiting"
  <2>1. AioCancel(g) /\ aio' = aio /\ aio[g] # "none"
    BY <1>0, <1>2 DEF CancelCaller, CallInv
  <2> QED BY <1>0, <2>1, AioCancelReaches
<1>3. CASE callerScope[g] /\ caller[g] = "waiting"
  <2>1. aio[g] # "none" /\ ~Call(g)
    BY <1>0, <1>3 DEF CallInv, Call
  <2> QED BY <1>0, <1>3, <2>1, ReachedStays
<1>4. \/ callerScope'[g] = callerScope[g] \/ CancelCaller(g)
  BY <1>0
  DEF CrossNext, Call, CancelCaller, DoneCb, CallEnds, AioStart, AioWakes, CancelAio,
      cvars, ccvars, CrossTypeOK
<1>5. caller'[g] = caller[g] \/ Call(g)
  <2>1. ASSUME NEW h \in Handle, DoneCb(h) \/ CallEnds(h) PROVE caller'[g] = caller[g]
    <3>1. CASE h = g
      <4>1. caller'[g] # "waiting"
        BY <1>0, <2>1, <3>1
        DEF DoneCb, CallEnds, CrossTypeOK, Outcome, CallInv, AioDone, Results
      <4> QED BY <4>1
    <3>2. CASE h # g
      BY <1>0, <2>1, <3>2 DEF DoneCb, CallEnds, CrossTypeOK
    <3> QED BY <3>1, <3>2
  <2>2. ASSUME NEW h \in Handle, h # g, Call(h) PROVE caller'[g] = caller[g]
    BY <1>0, <2>2 DEF Call, CrossTypeOK
  <2> QED BY <2>1, <2>2 DEF CrossNext, CancelCaller, AioStart, AioWakes, CancelAio, cvars, ccvars
<1> QED BY <1>1, <1>2, <1>3, <1>4, <1>5

(* The cancellation of a Trio caller has always got as far as it can: to the*)
(* asyncio task's next step, or through the future to the scope of the Trio *)
(* task.                                                                    *)
THEOREM CancellationReaches == CrossSpec => []CancellationIsUnderWay
<1> DEFINE Inv == \A h \in Handle : callerScope[h] /\ caller[h] = "waiting" => Reached(h)
<1>1. CrossInit => Inv
  BY DEF CrossInit
<1>2. CrossInv /\ Inv /\ [CrossNext]_ccvars => Inv'
  BY UnderWayStep
<1>3. CrossInv /\ Inv => CancellationIsUnderWay
  <2> SUFFICES ASSUME CrossInv, NEW h \in Handle, caller[h] = "waiting", Reached(h)
               PROVE  \/ AioDone(h)
                      \/ aio[h] = "ready" /\ mustCancel[h]
                      \/ aio[h] = "waiting" /\ (Done(h) \/ (scope[h] /\ task[h] # "ended"))
    BY DEF CancellationIsUnderWay
  <2>1. h \in WithFuture
    BY DEF CrossInv, CallInv
  <2>2. task[h] = "ended" => Done(h)
    BY <2>1 DEF CrossInv, IInv, FutureFollowsTask
  <2> QED BY <2>2 DEF Reached
<1> QED BY CrossInvariant, <1>1, <1>2, <1>3, PTL DEF CrossSpec

=============================================================================
