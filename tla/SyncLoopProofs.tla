--------------------------- MODULE SyncLoopProofs ---------------------------
(***************************************************************************)
(* The safety properties of SyncLoop, for every set of callbacks and every *)
(* number of calls.                                                        *)
(***************************************************************************)
EXTENDS SyncLoop, TLAPS

\* The main coroutine of a call is in one place until it has ended, and then
\* is_done() is queued once at most.
CoroutineInv(r) ==
  /\ Step(r) \in SeqSet(queue) => fut[r] = "pending" /\ r \notin waits /\ cur # Step(r)
  /\ r \in waits => fut[r] = "pending" /\ cur # Step(r)
  /\ cur = Step(r) => fut[r] = "pending"
  /\ IsDone(r) \in SeqSet(queue) => fut[r] \in {"result", "exit"} /\ r \notin got
  /\ r \in got => fut[r] \in {"result", "exit"}
  /\ r > run => fut[r] = "none" /\ outcome[r] = "none"

\* No handle but the callbacks' own is in the channel twice.
Once(s, x) == \A i, j \in DOMAIN s : s[i] = x /\ s[j] = x => i = j

OnceInv ==
  Once(queue, DoStop) /\ \A r \in Run : Once(queue, Step(r)) /\ Once(queue, IsDone(r))

\* What SysExitIsNotStop allows as the cause of a stop in call r.
Excuse(r) ==
  \/ \E q \in 1 .. r : q \in asked
  \/ \E q \in 1 .. (r - 1) : fut[q] = "result" /\ outcome[q] = "exit"

\* A call that runs has its function's completion in the channel or behind it;
\* only a call that was cut short by an exit leaves one to later calls.
CompletionInv ==
  /\ LoopRunning => run \in Run /\ form[run] # "none"
  /\ LoopRunning /\ fut[run] \in {"result", "exit"} =>
       run \in got \/ IsDone(run) \in SeqSet(queue)
  /\ \A r \in Run : IsDone(r) \in SeqSet(queue) /\ fut[r] = "result" =>
       (r = run /\ LoopRunning) \/ outcome[r] = "exit"

\* Where a do_stop in the channel, or the drain that it began, comes from.
StopInv ==
  /\ where = "main" /\ stopPending => Excuse(run) \/ (fut[run] = "result" /\ run \in got)
  /\ where = "drain" =>
       /\ form[run] = "until"
       /\ Excuse(run) \/ (run \in got /\ ~stopPending /\ AtRest)
  /\ ~LoopRunning /\ stopPending =>
       Excuse(run) \/ (run \in Run /\ fut[run] = "result" /\ outcome[run] = "exit")

IInv ==
  /\ TypeOK
  /\ stopPending <=> DoStop \in SeqSet(queue)
  /\ OnceInv
  /\ \A r \in Run : CoroutineInv(r)
  /\ CompletionInv
  /\ StopInv
  /\ \A r \in Run : Stopped(r) => r <= run /\ Excuse(r)

LEMMA AppendFacts ==
  ASSUME NEW S, NEW s \in Seq(S), NEW x \in S
  PROVE  /\ Append(s, x) \in Seq(S)
         /\ SeqSet(Append(s, x)) = SeqSet(s) \cup {x}
         /\ \A y : Once(s, y) /\ (y # x \/ y \notin SeqSet(s)) => Once(Append(s, x), y)
<1>1. /\ Append(s, x) \in Seq(S) /\ DOMAIN s = 1 .. Len(s) /\ Len(s) \in Nat
      /\ DOMAIN Append(s, x) = 1 .. (Len(s) + 1)
      /\ \A i \in 1 .. Len(s) : Append(s, x)[i] = s[i]
      /\ Append(s, x)[Len(s) + 1] = x
  OBVIOUS
<1>2. SeqSet(Append(s, x)) = SeqSet(s) \cup {x}
  <2>1. ASSUME NEW y \in SeqSet(Append(s, x)) PROVE y \in SeqSet(s) \cup {x}
    BY <1>1, <2>1 DEF SeqSet
  <2>2. ASSUME NEW y \in SeqSet(s) \cup {x} PROVE y \in SeqSet(Append(s, x))
    <3>1. CASE y = x
      BY <1>1, <3>1 DEF SeqSet
    <3>2. CASE y \in SeqSet(s)
      <4>1. PICK i \in 1 .. Len(s) : s[i] = y
        BY <1>1, <3>2 DEF SeqSet
      <4>2. i \in DOMAIN Append(s, x) /\ Append(s, x)[i] = y
        BY <1>1, <4>1
      <4> QED BY <4>2 DEF SeqSet
    <3> QED BY <3>1, <3>2
  <2> QED BY <2>1, <2>2
<1>3. ASSUME NEW y, Once(s, y), y # x \/ y \notin SeqSet(s)
      PROVE  Once(Append(s, x), y)
  BY <1>1, <1>3 DEF Once, SeqSet
<1> QED BY <1>1, <1>2, <1>3

LEMMA TailFacts ==
  ASSUME NEW S, NEW s \in Seq(S), s # <<>>
  PROVE  /\ Tail(s) \in Seq(S) /\ Head(s) \in S
         /\ SeqSet(s) = SeqSet(Tail(s)) \cup {Head(s)}
         /\ Once(s, Head(s)) => Head(s) \notin SeqSet(Tail(s))
         /\ \A y : Once(s, y) => Once(Tail(s), y)
<1>1. /\ Tail(s) \in Seq(S) /\ Head(s) = s[1] /\ DOMAIN s = 1 .. Len(s) /\ Len(s) \in Nat \ {0}
      /\ DOMAIN Tail(s) = 1 .. (Len(s) - 1)
      /\ \A i \in 1 .. (Len(s) - 1) : Tail(s)[i] = s[i + 1]
  OBVIOUS
<1>2. SeqSet(s) = SeqSet(Tail(s)) \cup {Head(s)}
  <2>1. ASSUME NEW y \in SeqSet(s) PROVE y \in SeqSet(Tail(s)) \cup {Head(s)}
    <3>1. PICK i \in 1 .. Len(s) : s[i] = y
      BY <1>1, <2>1 DEF SeqSet
    <3>2. CASE i = 1
      BY <1>1, <3>1, <3>2
    <3>3. CASE i # 1
      <4>1. i - 1 \in DOMAIN Tail(s) /\ Tail(s)[i - 1] = y
        BY <1>1, <3>1, <3>3
      <4> QED BY <4>1 DEF SeqSet
    <3> QED BY <3>2, <3>3
  <2>2. ASSUME NEW y \in SeqSet(Tail(s)) \cup {Head(s)} PROVE y \in SeqSet(s)
    <3>1. CASE y = Head(s)
      BY <1>1, <3>1 DEF SeqSet
    <3>2. CASE y \in SeqSet(Tail(s))
      <4>1. PICK i \in 1 .. (Len(s) - 1) : Tail(s)[i] = y
        BY <1>1, <3>2 DEF SeqSet
      <4>2. i + 1 \in DOMAIN s /\ s[i + 1] = y
        BY <1>1, <4>1
      <4> QED BY <4>2 DEF SeqSet
    <3> QED BY <3>1, <3>2
  <2> QED BY <2>1, <2>2
<1>3. ASSUME Once(s, Head(s)), Head(s) \in SeqSet(Tail(s)) PROVE FALSE
  <2>1. PICK i \in 1 .. (Len(s) - 1) : Tail(s)[i] = Head(s)
    BY <1>1, <1>3 DEF SeqSet
  <2>2. i + 1 \in DOMAIN s /\ s[i + 1] = s[1] /\ i + 1 # 1 /\ 1 \in DOMAIN s
    BY <1>1, <2>1
  <2> QED BY <1>1, <1>3, <2>2 DEF Once
<1>4. ASSUME NEW y, Once(s, y) PROVE Once(Tail(s), y)
  <2> SUFFICES ASSUME NEW i \in DOMAIN Tail(s), NEW j \in DOMAIN Tail(s),
                      Tail(s)[i] = y, Tail(s)[j] = y
               PROVE  i = j
    BY DEF Once
  <2>1. i + 1 \in DOMAIN s /\ j + 1 \in DOMAIN s /\ s[i + 1] = y /\ s[j + 1] = y
    BY <1>1
  <2>2. i + 1 = j + 1
    BY <1>4, <2>1 DEF Once
  <2> QED BY <1>1, <2>2
<1> QED BY <1>1, <1>2, <1>3, <1>4

LEMMA HandleFacts ==
  /\ DoStop \in Handle /\ DoStop \notin User /\ NoHandle \notin Handle
  /\ Callback \subseteq User /\ User \subseteq Handle
  /\ \A r \in Run :
       /\ Step(r) \in User /\ Step(r) \notin Callback /\ IsDone(r) \in Handle /\ IsDone(r) \notin User
       /\ DoStop # IsDone(r)
       /\ \A q \in Run : Step(r) = Step(q) \/ IsDone(r) = IsDone(q) => r = q
BY HandleAssumption DEF Handle, User, Steps, Step, IsDone

LEMMA InitInv == Init => IInv
<1> SUFFICES ASSUME Init PROVE IInv
  OBVIOUS
<1>1. queue \in Seq(Handle) /\ SeqSet(queue) = {} /\ \A x : Once(queue, x)
  BY DEF Init, SeqSet, Once
<1>2. TypeOK
  <2>1. run \in 0 .. MaxRuns
    BY RunsAssumption DEF Init
  <2> QED BY <1>1, <2>1 DEF Init, TypeOK
<1>3. OnceInv
  BY <1>1 DEF OnceInv
<1>4. \A r \in Run : CoroutineInv(r)
  BY <1>1, HandleFacts DEF Init, CoroutineInv, User
<1>5. CompletionInv /\ StopInv
  BY <1>1 DEF Init, CompletionInv, StopInv, LoopRunning
<1>6. \A r \in Run : ~Stopped(r)
  BY DEF Init, Stopped
<1> QED BY <1>1, <1>2, <1>3, <1>4, <1>5, <1>6 DEF IInv, Init

\* An excuse for a stop stays one.
LEMMA ExcuseKept ==
  ASSUME NEW r \in 0 .. MaxRuns, asked \subseteq asked',
         \A q \in Run : q < r /\ fut[q] = "result" /\ outcome[q] = "exit" =>
                          fut'[q] = "result" /\ outcome'[q] = "exit"
  PROVE  Excuse(r) => Excuse(r)'
BY RunsAssumption DEF Excuse, Run

LEMMA RunIsPositive == Run \subseteq Nat \ {0} /\ \A r \in Run : r <= MaxRuns
BY RunsAssumption DEF Run

\* What RequestStop() does to the channel.
LEMMA RequestStopFacts ==
  ASSUME NEW chan \in Seq(Handle), RequestStop(chan), stopPending \in BOOLEAN,
         stopPending <=> DoStop \in SeqSet(chan), Once(chan, DoStop),
         \A r \in Run : Once(chan, Step(r)) /\ Once(chan, IsDone(r))
  PROVE  /\ queue' \in Seq(Handle) /\ OnceInv' /\ stopPending' \in BOOLEAN
         /\ stopPending' <=> DoStop \in SeqSet(queue')
         /\ \A x : x # DoStop => (x \in SeqSet(queue') <=> x \in SeqSet(chan))
         /\ stopPending => stopPending'
         /\ stopPending' => stopPending \/ LoopRunning
<1>1. CASE LoopRunning /\ ~stopPending
  <2>1. queue' = Append(chan, DoStop) /\ stopPending' = TRUE
    BY <1>1 DEF RequestStop
  <2>2. /\ Append(chan, DoStop) \in Seq(Handle)
        /\ SeqSet(Append(chan, DoStop)) = SeqSet(chan) \cup {DoStop}
        /\ \A y : Once(chan, y) /\ (y # DoStop \/ y \notin SeqSet(chan)) =>
                    Once(Append(chan, DoStop), y)
    BY HandleFacts, AppendFacts
  <2>3. OnceInv'
    BY <1>1, <2>1, <2>2, HandleFacts DEF OnceInv
  <2> QED BY <1>1, <2>1, <2>2, <2>3
<1>2. CASE ~(LoopRunning /\ ~stopPending)
  BY <1>2 DEF RequestStop, OnceInv
<1> QED BY <1>1, <1>2

LEMMA StopStep ==
  ASSUME IInv, Stop
  PROVE  IInv'
<1>0. /\ TypeOK /\ OnceInv /\ CompletionInv /\ StopInv
      /\ stopPending <=> DoStop \in SeqSet(queue)
      /\ \A r \in Run : CoroutineInv(r)
      /\ \A r \in Run : Stopped(r) => r <= run /\ Excuse(r)
      /\ run \in 0 .. MaxRuns /\ MaxRuns \in Nat /\ queue \in Seq(Handle)
  BY RunsAssumption DEF IInv, TypeOK
<1>1. /\ UNCHANGED <<where, cur, run, form, waited, fut, waits, got, outcome, fresh>>
      /\ asked \subseteq asked' /\ asked' \subseteq Run /\ (LoopRunning => run \in asked')
  BY <1>0 DEF Stop, calls, CompletionInv, TypeOK
<1>2. /\ queue' \in Seq(Handle) /\ OnceInv' /\ stopPending' \in BOOLEAN
      /\ stopPending' <=> DoStop \in SeqSet(queue')
      /\ \A x : x # DoStop => (x \in SeqSet(queue') <=> x \in SeqSet(queue))
      /\ stopPending' => stopPending \/ LoopRunning
  BY <1>0, RequestStopFacts DEF Stop, OnceInv, TypeOK
<1>3. \A r \in 0 .. MaxRuns : Excuse(r) => Excuse(r)'
  BY <1>1, ExcuseKept
<1>4. LoopRunning => Excuse(run)'
  BY <1>0, <1>1 DEF Excuse, CompletionInv, Run
<1>5. TypeOK'
  BY <1>0, <1>1, <1>2 DEF TypeOK
<1>6. \A r \in Run : CoroutineInv(r)'
  BY <1>0, <1>1, <1>2, HandleFacts DEF CoroutineInv
<1>7. CompletionInv'
  BY <1>0, <1>1, <1>2, HandleFacts DEF CompletionInv, LoopRunning
<1>8. StopInv'
  <2>1. CASE LoopRunning
    BY <1>0, <1>1, <1>4, <2>1 DEF StopInv, LoopRunning
  <2>2. CASE ~LoopRunning
    BY <1>0, <1>1, <1>2, <1>3, <2>2 DEF StopInv, LoopRunning
  <2> QED BY <2>1, <2>2
<1>9. \A r \in Run : Stopped(r)' => r <= run' /\ Excuse(r)'
  BY <1>0, <1>1, <1>3, RunIsPositive DEF Stopped
<1> QED BY <1>2, <1>5, <1>6, <1>7, <1>8, <1>9 DEF IInv

LEMMA SubmitStep ==
  ASSUME IInv, (\E c \in Callback : CallSoon(c)) \/ \E r \in Run : Awaken(r)
  PROVE  IInv'
<1>0. /\ TypeOK /\ OnceInv /\ CompletionInv /\ StopInv
      /\ stopPending <=> DoStop \in SeqSet(queue)
      /\ \A r \in Run : CoroutineInv(r)
      /\ \A r \in Run : Stopped(r) => r <= run /\ Excuse(r)
      /\ run \in 0 .. MaxRuns /\ MaxRuns \in Nat /\ queue \in Seq(Handle)
  BY RunsAssumption DEF IInv, TypeOK
<1>1. PICK x \in User :
        /\ queue' = Append(queue, x)
        /\ waits' \subseteq waits /\ fresh' \subseteq fresh
        /\ \A r \in Run : x = Step(r) => fut[r] = "pending" /\ r \notin waits' /\ cur # x
                                         /\ x \notin SeqSet(queue)
        /\ UNCHANGED <<where, cur, run, form, waited, fut, got, stopPending, outcome, asked>>
  <2>1. CASE \E c \in Callback : CallSoon(c)
    BY <2>1, HandleFacts DEF CallSoon, calls
  <2>2. ASSUME NEW q \in Run, Awaken(q)
        PROVE  /\ Step(q) \in User /\ queue' = Append(queue, Step(q))
               /\ waits' \subseteq waits /\ fresh' \subseteq fresh
               /\ \A r \in Run : Step(q) = Step(r) =>
                    fut[r] = "pending" /\ r \notin waits' /\ cur # Step(q)
                    /\ Step(q) \notin SeqSet(queue)
               /\ UNCHANGED <<where, cur, run, form, waited, fut, got, stopPending, outcome, asked>>
    BY <1>0, <2>2, HandleFacts DEF Awaken, calls, CoroutineInv
  <2> QED BY <2>1, <2>2
<1>2. /\ queue' \in Seq(Handle) /\ SeqSet(queue') = SeqSet(queue) \cup {x} /\ x \in Handle
      /\ \A y : Once(queue, y) /\ (y # x \/ y \notin SeqSet(queue)) => Once(queue', y)
  BY <1>0, <1>1, AppendFacts, HandleFacts
<1>3. \A r \in 0 .. MaxRuns : Excuse(r) => Excuse(r)'
  BY <1>1, ExcuseKept
<1>4. OnceInv' /\ (stopPending' <=> DoStop \in SeqSet(queue'))
  BY <1>0, <1>1, <1>2, HandleFacts DEF OnceInv
<1>5. TypeOK'
  BY <1>0, <1>1, <1>2 DEF TypeOK
<1>6. \A r \in Run : CoroutineInv(r)'
  BY <1>0, <1>1, <1>2, HandleFacts DEF CoroutineInv
<1>7. CompletionInv'
  BY <1>0, <1>1, <1>2, HandleFacts DEF CompletionInv, LoopRunning
<1>8. StopInv'
  BY <1>0, <1>1, <1>3 DEF StopInv, LoopRunning, AtRest
<1>9. \A r \in Run : Stopped(r)' => r <= run' /\ Excuse(r)'
  BY <1>0, <1>1, <1>3, RunIsPositive DEF Stopped
<1> QED BY <1>4, <1>5, <1>6, <1>7, <1>8, <1>9 DEF IInv

LEMMA EnterStep ==
  ASSUME IInv, RunForever \/ RunUntilComplete
  PROVE  IInv'
<1>0. /\ TypeOK /\ OnceInv /\ CompletionInv /\ StopInv
      /\ stopPending <=> DoStop \in SeqSet(queue)
      /\ \A r \in Run : CoroutineInv(r)
      /\ \A r \in Run : Stopped(r) => r <= run /\ Excuse(r)
      /\ run \in 0 .. MaxRuns /\ MaxRuns \in Nat /\ queue \in Seq(Handle)
  BY RunsAssumption DEF IInv, TypeOK
<1>a. PICK m \in 0 .. MaxRuns, n \in Run : m = run /\ n = run + 1
  BY <1>0 DEF RunForever, RunUntilComplete, Enter, Run
<1>1. /\ where = "idle" /\ where' = "main" /\ run' = n
      /\ UNCHANGED <<cur, waits, waited, got, stopPending, outcome, fresh, asked>>
      /\ fut[n] = "none" /\ outcome[n] = "none" /\ n \notin waits /\ n \notin got
      /\ Step(n) \notin SeqSet(queue) /\ IsDone(n) \notin SeqSet(queue) /\ cur # Step(n)
  BY <1>0, <1>a DEF RunForever, RunUntilComplete, Enter, Run, CoroutineInv
<1>2. PICK f \in {"forever", "until"}, s \in {"none", "pending", "result"} :
        /\ form' = [form EXCEPT ![n] = f] /\ (s = "none" <=> f # "until")
        /\ fut' = [fut EXCEPT ![n] = s]
        /\ s = "none" => queue' = queue
        /\ s = "pending" => queue' = Append(queue, Step(n))
        /\ s = "result" => queue' = Append(queue, IsDone(n))
  <2>1. CASE RunForever
    <3>1. fut' = [fut EXCEPT ![n] = "none"]
      BY <1>0, <1>1, <2>1 DEF RunForever, TypeOK
    <3> QED BY <1>a, <2>1, <3>1 DEF RunForever, Enter
  <2>2. CASE RunUntilComplete
    BY <1>a, <2>2 DEF RunUntilComplete, Enter
  <2> QED BY <2>1, <2>2
<1>3. /\ queue' \in Seq(Handle) /\ OnceInv'
      /\ SeqSet(queue') = SeqSet(queue) \cup (IF s = "pending" THEN {Step(n)} ELSE
                                              IF s = "result" THEN {IsDone(n)} ELSE {})
  <2>1. \A x \in {Step(n), IsDone(n)} :
          /\ Append(queue, x) \in Seq(Handle)
          /\ SeqSet(Append(queue, x)) = SeqSet(queue) \cup {x}
          /\ \A y : Once(queue, y) /\ (y # x \/ y \notin SeqSet(queue)) => Once(Append(queue, x), y)
    <3> SUFFICES ASSUME NEW x \in {Step(n), IsDone(n)} PROVE
          /\ Append(queue, x) \in Seq(Handle)
          /\ SeqSet(Append(queue, x)) = SeqSet(queue) \cup {x}
          /\ \A y : Once(queue, y) /\ (y # x \/ y \notin SeqSet(queue)) => Once(Append(queue, x), y)
      OBVIOUS
    <3>1. x \in Handle
      BY HandleFacts
    <3> QED BY <1>0, <3>1, AppendFacts
  <2>2. CASE s = "none"
    BY <1>0, <1>2, <2>2 DEF OnceInv
  <2>3. CASE s = "pending"
    BY <1>0, <1>1, <1>2, <2>1, <2>3 DEF OnceInv
  <2>4. CASE s = "result"
    BY <1>0, <1>1, <1>2, <2>1, <2>4 DEF OnceInv
  <2> QED BY <2>2, <2>3, <2>4
<1>4. /\ fut'[n] = s /\ form'[n] = f
      /\ \A r \in Run \ {n} : fut'[r] = fut[r] /\ form'[r] = form[r]
  BY <1>0, <1>1, <1>2 DEF TypeOK
<1>5. \A r \in 0 .. MaxRuns : Excuse(r) => Excuse(r)'
  BY <1>1, <1>4, ExcuseKept
<1>6. stopPending' => Excuse(n)'
  <2>1. stopPending => Excuse(m)' \/ (m \in Run /\ fut'[m] = "result" /\ outcome'[m] = "exit")
    BY <1>0, <1>a, <1>1, <1>4, <1>5 DEF StopInv, LoopRunning
  <2>2. Excuse(m)' => Excuse(n)'
    BY <1>a DEF Excuse
  <2>3. m \in Run => m \in 1 .. (n - 1)
    BY <1>a, RunIsPositive
  <2> QED BY <1>1, <2>1, <2>2, <2>3 DEF Excuse
<1>7. TypeOK'
  <2>1. run' \in 0 .. MaxRuns
    BY <1>0, <1>1, RunIsPositive
  <2> QED BY <1>0, <1>1, <1>2, <1>3, <1>4, <2>1 DEF TypeOK
<1>8. stopPending' <=> DoStop \in SeqSet(queue')
  BY <1>0, <1>1, <1>3, HandleFacts
<1>9. \A r \in Run : CoroutineInv(r)'
  <2>1. \A r \in Run : r > n => r > run
    BY <1>0, <1>a, <1>1, RunIsPositive
  <2> QED BY <1>0, <1>1, <1>3, <1>4, <2>1, HandleFacts, RunIsPositive DEF CoroutineInv
<1>10. CompletionInv'
  BY <1>0, <1>1, <1>2, <1>3, <1>4, HandleFacts DEF CompletionInv, LoopRunning
<1>11. StopInv'
  BY <1>1, <1>6 DEF StopInv, LoopRunning
<1>12. \A r \in Run : Stopped(r)' => r <= run' /\ Excuse(r)'
  <2>1. \A r \in Run : Stopped(r)' => r # n /\ Stopped(r)
    BY <1>1, <1>4 DEF Stopped
  <2> QED BY <1>0, <1>a, <1>1, <1>5, <2>1, RunIsPositive
<1> QED BY <1>3, <1>7, <1>8, <1>9, <1>10, <1>11, <1>12 DEF IInv

\* Serving takes the first handle out of the channel.
LEMMA ServedFacts ==
  ASSUME queue \in Seq(Handle), OnceInv, Serving
  PROVE  /\ AtRest /\ Tail(queue) \in Seq(Handle) /\ Head(queue) \in Handle
         /\ SeqSet(queue) = SeqSet(Tail(queue)) \cup {Head(queue)}
         /\ Once(Tail(queue), DoStop)
         /\ \A r \in Run : Once(Tail(queue), Step(r)) /\ Once(Tail(queue), IsDone(r))
         /\ Head(queue) \notin Callback => Head(queue) \notin SeqSet(Tail(queue))
<1>1. queue # <<>> /\ AtRest
  BY DEF Serving
<1>2. /\ Tail(queue) \in Seq(Handle) /\ Head(queue) \in Handle
      /\ SeqSet(queue) = SeqSet(Tail(queue)) \cup {Head(queue)}
      /\ Once(queue, Head(queue)) => Head(queue) \notin SeqSet(Tail(queue))
      /\ \A y : Once(queue, y) => Once(Tail(queue), y)
  BY <1>1, TailFacts
<1>3. Head(queue) \notin Callback => Once(queue, Head(queue))
  BY <1>2 DEF OnceInv, Handle, User, Steps
<1> QED BY <1>1, <1>2, <1>3 DEF OnceInv

LEMMA CallbackRunsStep ==
  ASSUME IInv, CallbackRuns
  PROVE  IInv'
<1>0. /\ TypeOK /\ OnceInv /\ CompletionInv /\ StopInv
      /\ stopPending <=> DoStop \in SeqSet(queue)
      /\ \A r \in Run : CoroutineInv(r)
      /\ \A r \in Run : Stopped(r) => r <= run /\ Excuse(r)
      /\ run \in 0 .. MaxRuns /\ MaxRuns \in Nat /\ queue \in Seq(Handle)
  BY RunsAssumption DEF IInv, TypeOK
<1> DEFINE x == Head(queue)
<1>1. /\ queue' = Tail(queue) /\ x \in User /\ cur' = x /\ Serving
      /\ where \in {"main", "exit"} \/ (where = "drain" /\ run \notin got)
      /\ UNCHANGED <<where, run, form, waited, fut, waits, got, stopPending, outcome, fresh, asked>>
  BY DEF CallbackRuns, Serving, calls
<1>2. /\ AtRest /\ queue' \in Seq(Handle) /\ SeqSet(queue) = SeqSet(queue') \cup {x}
      /\ x \notin Callback => x \notin SeqSet(queue')
      /\ OnceInv' /\ x # DoStop /\ \A r \in Run : x # IsDone(r)
  BY <1>0, <1>1, ServedFacts, HandleFacts DEF OnceInv
<1>3. \A r \in 0 .. MaxRuns : Excuse(r) => Excuse(r)'
  BY <1>1, ExcuseKept
<1> HIDE DEF x
<1>4. stopPending' <=> DoStop \in SeqSet(queue')
  BY <1>0, <1>1, <1>2
<1>5. TypeOK'
  <2>1. where \in {"main", "drain", "exit"}
    BY <1>1
  <2> QED BY <1>0, <1>1, <1>2, <2>1 DEF TypeOK
<1>6. ASSUME NEW r \in Run PROVE CoroutineInv(r)'
  <2>1. CASE x = Step(r)
    BY <1>0, <1>1, <1>2, <2>1, HandleFacts DEF CoroutineInv
  <2>2. CASE x # Step(r)
    BY <1>0, <1>1, <1>2, <2>2 DEF CoroutineInv
  <2> QED BY <2>1, <2>2
<1>7. CompletionInv'
  BY <1>0, <1>1, <1>2 DEF CompletionInv, LoopRunning
<1>8. StopInv'
  BY <1>0, <1>1, <1>3 DEF StopInv, LoopRunning
<1>9. \A r \in Run : Stopped(r)' => r <= run' /\ Excuse(r)'
  BY <1>0, <1>1, <1>3, RunIsPositive DEF Stopped
<1> QED BY <1>2, <1>4, <1>5, <1>6, <1>7, <1>8, <1>9 DEF IInv

\* The main loop takes the one do_stop.
LEMMA DoStopStep ==
  ASSUME IInv, DoStopRuns
  PROVE  IInv'
<1>0. /\ TypeOK /\ OnceInv /\ CompletionInv /\ StopInv
      /\ stopPending <=> DoStop \in SeqSet(queue)
      /\ \A r \in Run : CoroutineInv(r)
      /\ \A r \in Run : Stopped(r) => r <= run /\ Excuse(r)
      /\ run \in 0 .. MaxRuns /\ MaxRuns \in Nat /\ queue \in Seq(Handle)
  BY RunsAssumption DEF IInv, TypeOK
<1>1. /\ queue' = Tail(queue) /\ Head(queue) = DoStop /\ Serving /\ stopPending' = FALSE
      /\ UNCHANGED <<cur, run, form, waited, fut, waits, got, fresh, asked>>
      /\ where \in {"main", "exit"} \/ (where = "drain" /\ run \notin got)
      /\ \/ /\ where = "main" /\ form[run] = "forever"
            /\ outcome' = [outcome EXCEPT ![run] = "returned"] /\ where' = "idle"
         \/ where = "main" /\ form[run] = "until" /\ where' = "drain" /\ outcome' = outcome
         \/ where # "main" /\ where' = where /\ outcome' = outcome
  BY DEF DoStopRuns, Serving, calls, Leave
<1>2. /\ AtRest /\ queue' \in Seq(Handle) /\ SeqSet(queue) = SeqSet(queue') \cup {DoStop}
      /\ DoStop \notin SeqSet(queue') /\ OnceInv' /\ stopPending
      /\ \A r \in Run : DoStop # Step(r) /\ DoStop # IsDone(r)
  BY <1>0, <1>1, ServedFacts, HandleFacts DEF OnceInv
<1>3. \A r \in 0 .. run : Excuse(r) => Excuse(r)'
  <2>1. \A q \in Run : q # run => outcome'[q] = outcome[q]
    BY <1>0, <1>1 DEF TypeOK
  <2>2. ASSUME NEW r \in 0 .. run PROVE Excuse(r) => Excuse(r)'
    <3>1. r \in 0 .. MaxRuns /\ \A q \in Run : q < r => q # run
      BY <1>0, RunIsPositive
    <3> QED BY <1>1, <2>1, <3>1, ExcuseKept
  <2> QED BY <2>2
<1>4. AtRest' /\ (LoopRunning => run \in Run)
  BY <1>0, <1>1, <1>2 DEF AtRest, CompletionInv
<1>5. TypeOK'
  BY <1>0, <1>1, <1>2, <1>4 DEF TypeOK, LoopRunning, AtRest
<1>6. \A r \in Run : CoroutineInv(r)'
  <2>1. \A r \in Run : r > run => outcome'[r] = outcome[r]
    BY <1>0, <1>1, RunIsPositive DEF TypeOK
  <2> QED BY <1>0, <1>1, <1>2, <2>1 DEF CoroutineInv
<1>7. where = "main" /\ form[run] = "forever" => IsDone(run) \notin SeqSet(queue) /\ Excuse(run)
  BY <1>0, <1>1, <1>2, <1>4 DEF TypeOK, CoroutineInv, StopInv, LoopRunning
<1>8. CompletionInv'
  BY <1>0, <1>1, <1>2, <1>4, <1>7 DEF CompletionInv, LoopRunning, TypeOK
<1>9. StopInv'
  <2>1. run \in 0 .. run /\ (Excuse(run) => Excuse(run)')
    BY <1>0, <1>1, <1>3
  <2> QED BY <1>0, <1>1, <1>2, <1>4, <2>1 DEF StopInv, LoopRunning
<1>10. \A r \in Run : Stopped(r)' => r <= run' /\ Excuse(r)'
  <2> SUFFICES ASSUME NEW r \in Run, Stopped(r)' PROVE r <= run /\ Excuse(r)'
    BY <1>1
  <2>1. CASE r = run
    <3>1. Stopped(r) \/ (where = "main" /\ form[run] = "forever")
      BY <1>0, <1>1, <2>1 DEF Stopped, TypeOK
    <3> QED BY <1>0, <1>3, <1>7, <2>1, <3>1
  <2>2. CASE r # run
    <3>1. Stopped(r)
      BY <1>0, <1>1, <2>2 DEF Stopped, TypeOK
    <3> QED BY <1>0, <1>3, <3>1, RunIsPositive
  <2> QED BY <2>1, <2>2
<1> QED BY <1>1, <1>2, <1>5, <1>6, <1>8, <1>9, <1>10 DEF IInv

\* is_done() stops the loop for the call that runs, or for one whose
\* completion an exit has left in the channel.
LEMMA IsDoneStep ==
  ASSUME IInv, NEW q \in Run, IsDoneRuns(q)
  PROVE  IInv'
<1>0. /\ TypeOK /\ OnceInv /\ CompletionInv /\ StopInv
      /\ stopPending <=> DoStop \in SeqSet(queue)
      /\ \A r \in Run : CoroutineInv(r)
      /\ \A r \in Run : Stopped(r) => r <= run /\ Excuse(r)
      /\ run \in 0 .. MaxRuns /\ MaxRuns \in Nat /\ queue \in Seq(Handle)
  BY RunsAssumption DEF IInv, TypeOK
<1>1. /\ Head(queue) = IsDone(q) /\ Serving /\ got' = got \cup {q}
      /\ UNCHANGED <<where, cur, run, form, waited, fut, waits, outcome, fresh, asked>>
      /\ where \in {"main", "exit"} \/ (where = "drain" /\ run \notin got)
      /\ \/ fut[q] = "exit" /\ queue' = Tail(queue) /\ stopPending' = stopPending
         \/ fut[q] # "exit" /\ RequestStop(Tail(queue))
  BY DEF IsDoneRuns, Serving, calls
<1>2. /\ AtRest /\ Tail(queue) \in Seq(Handle)
      /\ SeqSet(queue) = SeqSet(Tail(queue)) \cup {IsDone(q)} /\ IsDone(q) \notin SeqSet(Tail(queue))
      /\ Once(Tail(queue), DoStop)
      /\ \A r \in Run : Once(Tail(queue), Step(r)) /\ Once(Tail(queue), IsDone(r))
      /\ \A r \in Run : /\ Step(r) # DoStop /\ IsDone(r) # DoStop /\ Step(r) # IsDone(q)
                        /\ r # q => IsDone(r) # IsDone(q)
  BY <1>0, <1>1, ServedFacts, HandleFacts
<1>3. /\ queue' \in Seq(Handle) /\ OnceInv' /\ stopPending' \in BOOLEAN
      /\ stopPending' <=> DoStop \in SeqSet(queue')
      /\ \A x : x # DoStop => (x \in SeqSet(queue') <=> x \in SeqSet(Tail(queue)))
      /\ stopPending => stopPending'
      /\ stopPending' => stopPending \/ (LoopRunning /\ fut[q] # "exit")
  <2>1. stopPending \in BOOLEAN /\ (stopPending <=> DoStop \in SeqSet(Tail(queue)))
    BY <1>0, <1>2 DEF TypeOK
  <2>2. CASE fut[q] = "exit"
    <3>1. queue' = Tail(queue) /\ stopPending' = stopPending
      BY <1>1, <2>2
    <3>2. OnceInv'
      BY <1>2, <3>1 DEF OnceInv
    <3> QED BY <1>2, <2>1, <3>1, <3>2
  <2>3. CASE fut[q] # "exit"
    BY <1>1, <1>2, <2>1, <2>3, RequestStopFacts
  <2> QED BY <2>2, <2>3
<1>4. fut[q] \in {"result", "exit"} /\ q <= run
  BY <1>0, <1>2, RunIsPositive DEF CoroutineInv
<1>5. \A r \in 0 .. MaxRuns : Excuse(r) => Excuse(r)'
  BY <1>1, ExcuseKept
<1>6. fut[q] = "result" /\ LoopRunning => Excuse(run) \/ q = run
  <2>1. q # run => q \in 1 .. (run - 1)
    BY <1>0, <1>4, RunIsPositive
  <2>2. fut[q] = "result" => (q = run /\ LoopRunning) \/ outcome[q] = "exit"
    BY <1>0, <1>2 DEF CompletionInv
  <2>3. q \in 1 .. (run - 1) /\ fut[q] = "result" /\ outcome[q] = "exit" => Excuse(run)
    BY DEF Excuse
  <2> QED BY <2>1, <2>2, <2>3
<1>7. TypeOK'
  BY <1>0, <1>1, <1>3 DEF TypeOK
<1>8. \A r \in Run : CoroutineInv(r)'
  BY <1>0, <1>1, <1>2, <1>3, <1>4 DEF CoroutineInv
<1>9. CompletionInv'
  BY <1>0, <1>1, <1>2, <1>3 DEF CompletionInv, LoopRunning
<1>10. StopInv'
  <2>1. Excuse(run) => Excuse(run)'
    BY <1>0, <1>1, <1>5
  <2>2. CASE where = "main"
    BY <1>0, <1>1, <1>3, <1>4, <1>6, <2>1, <2>2 DEF StopInv, LoopRunning
  <2>3. CASE where = "drain"
    BY <1>0, <1>1, <2>1, <2>3 DEF StopInv, LoopRunning
  <2>4. CASE ~LoopRunning
    BY <1>0, <1>1, <1>3, <2>1, <2>4 DEF StopInv, LoopRunning
  <2> QED BY <2>2, <2>3, <2>4 DEF LoopRunning
<1>11. \A r \in Run : Stopped(r)' => r <= run' /\ Excuse(r)'
  BY <1>0, <1>1, <1>5, RunIsPositive DEF Stopped
<1> QED BY <1>3, <1>7, <1>8, <1>9, <1>10, <1>11 DEF IInv

\* The end of the main coroutine of call q: its future gets the result or the
\* exit, and is_done() is queued if the call still runs.
LEMMA StepEnds ==
  ASSUME IInv, NEW q \in Run, cur = Step(q),
         queue' = IF Watched(q) THEN Append(queue, IsDone(q)) ELSE queue
  PROVE  /\ queue' \in Seq(Handle) /\ OnceInv'
         /\ SeqSet(queue') = SeqSet(queue) \cup (IF Watched(q) THEN {IsDone(q)} ELSE {})
         /\ fut[q] = "pending" /\ q \notin got /\ q \notin waits /\ q <= run
         /\ Step(q) \notin SeqSet(queue) /\ IsDone(q) \notin SeqSet(queue)
<1>0. /\ TypeOK /\ OnceInv /\ CompletionInv /\ StopInv
      /\ stopPending <=> DoStop \in SeqSet(queue)
      /\ \A r \in Run : CoroutineInv(r)
      /\ \A r \in Run : Stopped(r) => r <= run /\ Excuse(r)
      /\ run \in 0 .. MaxRuns /\ MaxRuns \in Nat /\ queue \in Seq(Handle)
  BY RunsAssumption DEF IInv, TypeOK
<1>1. /\ fut[q] = "pending" /\ q \notin got /\ q \notin waits /\ q <= run
      /\ Step(q) \notin SeqSet(queue) /\ IsDone(q) \notin SeqSet(queue)
  BY <1>0, RunIsPositive DEF CoroutineInv
<1>2. IsDone(q) \in Handle
  BY HandleFacts
<1>3. /\ Append(queue, IsDone(q)) \in Seq(Handle)
      /\ SeqSet(Append(queue, IsDone(q))) = SeqSet(queue) \cup {IsDone(q)}
      /\ \A y : Once(queue, y) /\ (y # IsDone(q) \/ y \notin SeqSet(queue)) =>
                  Once(Append(queue, IsDone(q)), y)
  BY <1>0, <1>2, AppendFacts
<1>4. CASE Watched(q)
  <2>1. queue' = Append(queue, IsDone(q))
    BY <1>4
  <2>2. OnceInv'
    BY <1>0, <1>1, <1>3, <2>1 DEF OnceInv
  <2> QED BY <1>1, <1>3, <1>4, <2>1, <2>2
<1>5. CASE ~Watched(q)
  BY <1>0, <1>1, <1>5 DEF OnceInv
<1> QED BY <1>4, <1>5

LEMMA ReturnStep ==
  ASSUME IInv, CallbackReturns
  PROVE  IInv'
<1>0. /\ TypeOK /\ OnceInv /\ CompletionInv /\ StopInv
      /\ stopPending <=> DoStop \in SeqSet(queue)
      /\ \A r \in Run : CoroutineInv(r)
      /\ \A r \in Run : Stopped(r) => r <= run /\ Excuse(r)
      /\ run \in 0 .. MaxRuns /\ MaxRuns \in Nat /\ queue \in Seq(Handle)
  BY RunsAssumption DEF IInv, TypeOK
<1>1. ~AtRest /\ cur' = NoHandle /\ AtRest'
      /\ UNCHANGED <<where, run, form, got, stopPending, outcome, fresh, asked>>
  BY DEF CallbackReturns, AtRest
<1>2. CASE UNCHANGED <<queue, fut>>
  <2>1. /\ waits' \subseteq waited' /\ waited' \subseteq Run
        /\ \A r \in Run : r \in waits' => r \in waits \/ cur = Step(r)
    BY <1>0, <1>2, HandleFacts DEF CallbackReturns, TypeOK, CoroutineInv
  <2>2. \A r \in 0 .. MaxRuns : Excuse(r) => Excuse(r)'
    BY <1>1, <1>2, ExcuseKept
  <2>3. TypeOK' /\ OnceInv' /\ (stopPending' <=> DoStop \in SeqSet(queue'))
    BY <1>0, <1>1, <1>2, <2>1 DEF TypeOK, OnceInv
  <2>4. ASSUME NEW r \in Run PROVE CoroutineInv(r)'
    <3>1. cur' # Step(r)
      BY <1>1, HandleFacts
    <3>2. cur = Step(r) => Step(r) \notin SeqSet(queue) /\ r \notin waits
      BY <1>0 DEF CoroutineInv
    <3> QED BY <1>0, <1>1, <1>2, <2>1, <3>1, <3>2 DEF CoroutineInv
  <2>5. CompletionInv'
    BY <1>0, <1>1, <1>2 DEF CompletionInv, LoopRunning
  <2>6. StopInv'
    BY <1>0, <1>1, <1>2, <2>2 DEF StopInv, LoopRunning
  <2>7. \A r \in Run : Stopped(r)' => r <= run' /\ Excuse(r)'
    BY <1>0, <1>1, <2>2, RunIsPositive DEF Stopped
  <2> QED BY <2>3, <2>4, <2>5, <2>6, <2>7 DEF IInv
<1>3. ASSUME NEW q \in Run, cur = Step(q),
             fut' = [fut EXCEPT ![q] = "result"],
             queue' = IF Watched(q) THEN Append(queue, IsDone(q)) ELSE queue,
             UNCHANGED <<waits, waited>>
      PROVE  IInv'
  <2>1. /\ queue' \in Seq(Handle) /\ OnceInv'
        /\ SeqSet(queue') = SeqSet(queue) \cup (IF Watched(q) THEN {IsDone(q)} ELSE {})
        /\ fut[q] = "pending" /\ q \notin got /\ q \notin waits /\ q <= run
        /\ Step(q) \notin SeqSet(queue) /\ IsDone(q) \notin SeqSet(queue)
    BY <1>3, StepEnds
  <2>2. fut'[q] = "result" /\ \A r \in Run \ {q} : fut'[r] = fut[r]
    BY <1>0, <1>3 DEF TypeOK
  <2>3. \A r \in 0 .. MaxRuns : Excuse(r) => Excuse(r)'
    BY <1>1, <2>2, ExcuseKept
  <2>4. TypeOK'
    BY <1>0, <1>1, <1>3, <2>1, <2>2 DEF TypeOK
  <2>5. stopPending' <=> DoStop \in SeqSet(queue')
    BY <1>0, <1>1, <2>1, HandleFacts
  <2>6. ASSUME NEW r \in Run PROVE CoroutineInv(r)'
    <3>1. cur' # Step(r) /\ (r # q => IsDone(r) # IsDone(q)) /\ Step(r) # IsDone(q)
      BY <1>1, HandleFacts
    <3>2. r > run => r # q
      BY <1>0, <2>1, RunIsPositive
    <3> QED BY <1>0, <1>1, <1>3, <2>1, <2>2, <3>1, <3>2 DEF CoroutineInv
  <2>7. CompletionInv'
    BY <1>0, <1>1, <1>3, <2>1, <2>2, HandleFacts DEF CompletionInv, LoopRunning, Watched
  <2>8. StopInv'
    <3>1. Excuse(run) => Excuse(run)'
      BY <1>0, <1>1, <2>3
    <3>2. run \in Run => (fut[run] = "result" => fut'[run] = "result")
      BY <2>1, <2>2
    <3>3. where = "main" => run \in Run
      BY <1>0 DEF CompletionInv, LoopRunning
    <3> QED BY <1>0, <1>1, <3>1, <3>2, <3>3 DEF StopInv, LoopRunning
  <2>9. \A r \in Run : Stopped(r)' => r <= run' /\ Excuse(r)'
    BY <1>0, <1>1, <2>3, RunIsPositive DEF Stopped
  <2> QED BY <2>1, <2>4, <2>5, <2>6, <2>7, <2>8, <2>9 DEF IInv
<1> QED BY <1>2, <1>3 DEF CallbackReturns

\* An exit ends the call, or the greenlet that closes.
LEMMA ExitStep ==
  ASSUME IInv, CallbackExits
  PROVE  IInv'
<1>0. /\ TypeOK /\ OnceInv /\ CompletionInv /\ StopInv
      /\ stopPending <=> DoStop \in SeqSet(queue)
      /\ \A r \in Run : CoroutineInv(r)
      /\ \A r \in Run : Stopped(r) => r <= run /\ Excuse(r)
      /\ run \in 0 .. MaxRuns /\ MaxRuns \in Nat /\ queue \in Seq(Handle)
  BY RunsAssumption DEF IInv, TypeOK
<1>1. /\ ~AtRest /\ cur' = NoHandle /\ AtRest'
      /\ UNCHANGED <<run, form, waited, waits, got, stopPending, fresh, asked>>
      /\ \/ LoopRunning /\ outcome' = [outcome EXCEPT ![run] = "exit"] /\ where' = "idle"
         \/ ~LoopRunning /\ outcome' = outcome /\ where' = "dead"
  BY DEF CallbackExits, AtRest, calls, Raised, Leave, LoopRunning
<1>2. /\ LoopRunning => run \in Run /\ outcome'[run] = "exit"
      /\ ~LoopRunning => outcome' = outcome
      /\ \A r \in Run : r # run => outcome'[r] = outcome[r]
      /\ outcome' \in [Run -> {"none", "returned", "unfinished", "exit"}] /\ ~LoopRunning'
  BY <1>0, <1>1 DEF TypeOK, CompletionInv, LoopRunning
<1>3. /\ queue' \in Seq(Handle) /\ OnceInv'
      /\ fut' \in [Run -> {"none", "pending", "result", "exit"}]
      /\ stopPending' <=> DoStop \in SeqSet(queue')
      /\ \A r \in Run : /\ Step(r) \in SeqSet(queue') <=> Step(r) \in SeqSet(queue)
                        /\ \/ fut'[r] = fut[r] /\ (IsDone(r) \in SeqSet(queue') <=>
                                                   IsDone(r) \in SeqSet(queue))
                              /\ cur # Step(r)
                           \/ /\ fut[r] = "pending" /\ fut'[r] = "exit" /\ r \notin got
                              /\ r \notin waits /\ r <= run /\ Step(r) \notin SeqSet(queue)
  <2>1. CASE cur \in Callback /\ UNCHANGED <<queue, fut>>
    BY <1>0, <1>1, <2>1, HandleFacts DEF TypeOK, OnceInv
  <2>2. ASSUME NEW q \in Run, cur = Step(q), fut' = [fut EXCEPT ![q] = "exit"],
               queue' = IF Watched(q) THEN Append(queue, IsDone(q)) ELSE queue
        PROVE  <1>3!:
    <3>1. /\ queue' \in Seq(Handle) /\ OnceInv'
          /\ SeqSet(queue') = SeqSet(queue) \cup (IF Watched(q) THEN {IsDone(q)} ELSE {})
          /\ fut[q] = "pending" /\ q \notin got /\ q \notin waits /\ q <= run
          /\ Step(q) \notin SeqSet(queue) /\ IsDone(q) \notin SeqSet(queue)
      BY <2>2, StepEnds
    <3>2. fut'[q] = "exit" /\ \A r \in Run \ {q} : fut'[r] = fut[r]
      BY <1>0, <2>2 DEF TypeOK
    <3>3. \A r \in Run : /\ Step(r) # IsDone(q) /\ IsDone(q) # DoStop
                         /\ r # q => Step(r) # Step(q) /\ IsDone(r) # IsDone(q)
      BY HandleFacts
    <3>4. fut' \in [Run -> {"none", "pending", "result", "exit"}]
      BY <1>0, <2>2 DEF TypeOK
    <3>5. stopPending' <=> DoStop \in SeqSet(queue')
      BY <1>0, <1>1, <3>1, <3>3
    <3> QED BY <2>2, <3>1, <3>2, <3>3, <3>4, <3>5
  <2> QED BY <2>1, <2>2 DEF CallbackExits
<1>4. \A r \in 0 .. run : Excuse(r) => Excuse(r)'
  <2>1. ASSUME NEW r \in 0 .. run PROVE Excuse(r) => Excuse(r)'
    <3>1. r \in 0 .. MaxRuns /\ \A q \in Run : q < r => q # run
      BY <1>0, RunIsPositive
    <3> QED BY <1>1, <1>2, <1>3, <3>1, ExcuseKept
  <2> QED BY <2>1
<1>5. TypeOK'
  <2>1. \A r \in Run : fut'[r] = "none" <=> fut[r] = "none"
    BY <1>3
  <2>2. where' \in {"idle", "main", "drain", "exit", "closed", "dead"}
    BY <1>1
  <2> QED BY <1>0, <1>1, <1>2, <1>3, <2>1, <2>2 DEF TypeOK
<1>6. ASSUME NEW r \in Run PROVE CoroutineInv(r)'
  <2>1. cur' # Step(r) /\ (r > run => r # run)
    BY <1>0, <1>1, HandleFacts, RunIsPositive
  <2>2. r > run => ~(r <= run)
    BY <1>0, RunIsPositive
  <2> QED BY <1>0, <1>1, <1>2, <1>3, <2>1, <2>2 DEF CoroutineInv
<1>7. CompletionInv'
  BY <1>0, <1>1, <1>2, <1>3 DEF CompletionInv
<1>8. StopInv'
  <2>1. run \in 0 .. run /\ (Excuse(run) => Excuse(run)')
    BY <1>0, <1>1, <1>4
  <2>2. run \in Run => (fut[run] = "result" => fut'[run] = "result")
    BY <1>3
  <2>3. CASE LoopRunning
    BY <1>0, <1>1, <1>2, <2>1, <2>2, <2>3 DEF StopInv, LoopRunning
  <2>4. CASE ~LoopRunning
    BY <1>0, <1>1, <1>2, <2>1, <2>2, <2>4 DEF StopInv, LoopRunning
  <2> QED BY <2>3, <2>4
<1>9. \A r \in Run : Stopped(r)' => r <= run' /\ Excuse(r)'
  <2> SUFFICES ASSUME NEW r \in Run, Stopped(r)' PROVE r <= run /\ Excuse(r)'
    BY <1>1
  <2>1. Stopped(r)
    BY <1>1, <1>2 DEF Stopped
  <2> QED BY <1>0, <1>4, <2>1, RunIsPositive
<1> QED BY <1>3, <1>5, <1>6, <1>7, <1>8, <1>9 DEF IInv

\* The drain ends: with the result, or with an excuse to have none.
LEMMA EndStep ==
  ASSUME IInv, DrainEnds \/ Close \/ ExitEnds
  PROVE  IInv'
<1>0. /\ TypeOK /\ OnceInv /\ CompletionInv /\ StopInv
      /\ stopPending <=> DoStop \in SeqSet(queue)
      /\ \A r \in Run : CoroutineInv(r)
      /\ \A r \in Run : Stopped(r) => r <= run /\ Excuse(r)
      /\ run \in 0 .. MaxRuns /\ MaxRuns \in Nat /\ queue \in Seq(Handle)
  BY RunsAssumption DEF IInv, TypeOK
<1>1. /\ UNCHANGED <<queue, cur, run, form, waited, fut, waits, got, stopPending, fresh, asked>>
      /\ ~LoopRunning' /\ (where = "drain" => where' = "idle") /\ where # "main"
      /\ where' \in {"idle", "exit", "closed"} /\ (cur # NoHandle => where' \in {"exit"})
  BY <1>0 DEF DrainEnds, Close, ExitEnds, calls, Leave, LoopRunning, AtRest, TypeOK
<1>2. /\ \A r \in Run : r # run => outcome'[r] = outcome[r]
      /\ outcome' \in [Run -> {"none", "returned", "unfinished", "exit"}]
      /\ ~LoopRunning => outcome' = outcome
      /\ where = "drain" =>
           \/ run \in got /\ outcome'[run] = "returned"
           \/ run \notin got /\ queue = <<>> /\ outcome'[run] = "unfinished"
  <2>1. CASE DrainEnds
    BY <1>0, <2>1 DEF DrainEnds, Leave, LoopRunning, TypeOK, CompletionInv
  <2>2. CASE Close \/ ExitEnds
    BY <1>0, <2>2 DEF Close, ExitEnds, LoopRunning, TypeOK
  <2> QED BY <2>1, <2>2
<1>3. \A r \in 0 .. run : Excuse(r) => Excuse(r)'
  <2>1. ASSUME NEW r \in 0 .. run PROVE Excuse(r) => Excuse(r)'
    <3>1. r \in 0 .. MaxRuns /\ \A q \in Run : q < r => q # run
      BY <1>0, RunIsPositive
    <3> QED BY <1>1, <1>2, <3>1, ExcuseKept
  <2> QED BY <2>1
<1>4. TypeOK' /\ OnceInv' /\ (stopPending' <=> DoStop \in SeqSet(queue'))
  BY <1>0, <1>1, <1>2 DEF TypeOK, OnceInv
<1>5. \A r \in Run : CoroutineInv(r)'
  <2>1. \A r \in Run : r > run => r # run
    BY <1>0, RunIsPositive
  <2> QED BY <1>0, <1>1, <1>2, <2>1 DEF CoroutineInv
<1>6. CompletionInv'
  <2>1. LoopRunning => IsDone(run) \notin SeqSet(queue)
    <3>1. queue = <<>> => SeqSet(queue) = {}
      BY DEF SeqSet
    <3> QED BY <1>0, <1>1, <1>2, <3>1 DEF CompletionInv, LoopRunning, CoroutineInv
  <2> QED BY <1>0, <1>1, <1>2, <2>1 DEF CompletionInv
<1>7. Excuse(run) => Excuse(run)'
  BY <1>0, <1>1, <1>3
<1>8. StopInv'
  BY <1>0, <1>1, <1>2, <1>7 DEF StopInv, LoopRunning
<1>9. \A r \in Run : Stopped(r)' => r <= run' /\ Excuse(r)'
  <2> SUFFICES ASSUME NEW r \in Run, Stopped(r)' PROVE r <= run /\ Excuse(r)'
    BY <1>1
  <2>1. CASE Stopped(r)
    BY <1>0, <1>3, <2>1, RunIsPositive
  <2>2. CASE ~Stopped(r)
    <3>1. r = run /\ where = "drain" /\ run \notin got
      BY <1>0, <1>1, <1>2, <2>2 DEF Stopped, StopInv, LoopRunning
    <3> QED BY <1>0, <1>1, <1>7, <3>1, RunIsPositive DEF StopInv
  <2> QED BY <2>1, <2>2
<1> QED BY <1>4, <1>5, <1>6, <1>8, <1>9 DEF IInv

LEMMA InvStep == IInv /\ [Next]_vars => IInv'
<1> SUFFICES ASSUME IInv, [Next]_vars PROVE IInv'
  OBVIOUS
<1>1. CASE UNCHANGED vars
  BY <1>1 DEF vars, IInv, TypeOK, OnceInv, CoroutineInv, CompletionInv, StopInv, LoopRunning,
              AtRest, Excuse, Stopped
<1> QED BY <1>1, StopStep, SubmitStep, EnterStep, CallbackRunsStep, DoStopStep, IsDoneStep,
           ReturnStep, ExitStep, EndStep DEF Next, LoopSteps

-----------------------------------------------------------------------------
(* Theorems.                                                                *)

(* The fields of SyncTrioEventLoop, the handles of its channel and where its*)
(* greenlet is agree at every step, across calls and exits.                 *)
THEOREM Invariant == Spec => []IInv
BY InitInv, InvStep, PTL DEF Spec

(* However calls end, _stop_pending is set exactly when a do_stop is in the *)
(* channel, where there is one at most.                                     *)
THEOREM StopIsPendingOnce == Spec => []StopPendingIsQueued
<1>1. IInv => StopPendingIsQueued
  BY DEF IInv, OnceInv, Once, StopPendingIsQueued
<1> QED BY Invariant, <1>1, PTL

(* A call is cut short only after a stop(), or after an exit that has left  *)
(* the completion of an earlier call in the channel.                        *)
THEOREM ExitIsNotAStop == Spec => []SysExitIsNotStop
<1>1. IInv => SysExitIsNotStop
  BY DEF IInv, SysExitIsNotStop, Excuse
<1> QED BY Invariant, <1>1, PTL

(* A completion that is on its way through the channel when the loop is     *)
(* stopped is waited for.                                                   *)
THEOREM CompletionIsNotLost == Spec => CompletedIsReturned
<1> DEFINE A == \A r \in Run :
       outcome[r] # "unfinished" /\ outcome'[r] = "unfinished" => fut[r] = "pending"
<1>1. IInv /\ [Next]_vars => [A]_vars
  <2> SUFFICES ASSUME IInv, Next, NEW r \in Run,
                      outcome[r] # "unfinished", outcome'[r] = "unfinished"
               PROVE  fut[r] = "pending"
    OBVIOUS
  <2>1. DrainEnds /\ r = run /\ run \notin got /\ queue = <<>> /\ where = "drain"
    <3>0. outcome \in [Run -> {"none", "returned", "unfinished", "exit"}]
      BY DEF IInv, TypeOK
    <3>1. \A o : Leave(o) /\ r # run => outcome'[r] = outcome[r]
      BY <3>0 DEF Leave
    <3>2. \A o : Leave(o) /\ r = run => outcome'[r] = o
      BY <3>0 DEF Leave
    <3>3. CASE Stop \/ RunForever \/ RunUntilComplete \/ Close \/ ExitEnds \/ CallbackRuns
               \/ CallbackReturns
      BY <3>3 DEF Stop, RunForever, RunUntilComplete, Enter, Close, ExitEnds, CallbackRuns,
                  CallbackReturns
    <3>4. ASSUME NEW c \in Callback, CallSoon(c) PROVE FALSE
      BY <3>4 DEF CallSoon
    <3>5. ASSUME NEW q \in Run, Awaken(q) \/ IsDoneRuns(q) PROVE FALSE
      BY <3>5 DEF Awaken, IsDoneRuns
    <3>6. CASE DoStopRuns
      BY <3>1, <3>2, <3>6 DEF DoStopRuns
    <3>7. CASE CallbackExits
      BY <3>1, <3>2, <3>7 DEF CallbackExits, Raised
    <3>8. CASE DrainEnds
      BY <3>1, <3>2, <3>8 DEF DrainEnds
    <3> QED BY <3>3, <3>4, <3>5, <3>6, <3>7, <3>8 DEF Next, LoopSteps
  <2>2. IsDone(run) \notin SeqSet(queue)
    BY <2>1 DEF SeqSet
  <2>3. fut[run] \notin {"result", "exit"} /\ form[run] = "until"
    BY <2>1, <2>2 DEF IInv, CompletionInv, StopInv, LoopRunning
  <2> QED BY <2>1, <2>3 DEF IInv, TypeOK
<1>2. Spec => [][A]_vars
  BY Invariant, <1>1, PTL DEF Spec
<1> QED BY <1>2 DEF CompletedIsReturned

-----------------------------------------------------------------------------
(* What CallEnds rests on.                                                  *)

\* A call without an outcome runs; as long as it does so in the main loop, a
\* stop() or an is_done() of its has left a do_stop in the channel.
EndInv ==
  /\ \A q \in asked : q <= run
  /\ run \in Run /\ outcome[run] = "none" => LoopRunning
  /\ where = "main" =>
       run \in Run /\ fut[run] # "exit" /\ (run \in asked \cup got => stopPending)

LEMMA LaterCalls ==
  IInv => \A r \in Run : fut[r] # "none" => r <= run
BY RunsAssumption DEF IInv, TypeOK, CoroutineInv, Run

\* A call of user code asks for the end at most.
LEMMA EndKeptByUser ==
  ASSUME IInv, EndInv,
         Stop \/ (\E c \in Callback : CallSoon(c)) \/ (\E r \in Run : Awaken(r)) \/ CallbackRuns
  PROVE  EndInv'
<1>1. CASE Stop
  <2>1. /\ asked' = IF LoopRunning THEN asked \cup {run} ELSE asked
        /\ UNCHANGED <<where, run, fut, got, outcome>>
    BY <1>1 DEF Stop, calls
  <2>2. LoopRunning => stopPending'
    BY <1>1 DEF Stop, RequestStop
  <2>3. run \in Nat
    BY RunsAssumption DEF IInv, TypeOK
  <2> QED BY <2>1, <2>2, <2>3 DEF EndInv, LoopRunning
<1>2. CASE ~Stop
  <2>1. UNCHANGED <<asked, where, run, fut, got, outcome, stopPending>>
    BY <1>2 DEF CallSoon, Awaken, CallbackRuns, calls
  <2> QED BY <2>1 DEF EndInv, LoopRunning
<1> QED BY <1>1, <1>2

\* A new call has neither been asked to end nor has it a result.
LEMMA EndKeptByEnter ==
  ASSUME IInv, EndInv, RunForever \/ RunUntilComplete
  PROVE  EndInv'
<1>0. run \in Nat /\ run + 1 \in Run /\ asked \subseteq Run /\ got \subseteq Run /\ Run \subseteq Nat
  BY RunsAssumption DEF RunForever, RunUntilComplete, Enter, IInv, TypeOK, Run
<1>1. where' = "main" /\ run' = run + 1 /\ UNCHANGED <<asked, got, outcome>>
  BY DEF RunForever, RunUntilComplete, Enter
<1>2. ~(run + 1 <= run)
  BY <1>0
<1>3. fut[run + 1] = "none" /\ fut \in [Run -> {"none", "pending", "result", "exit"}]
  BY <1>0, <1>2, LaterCalls DEF IInv, TypeOK
<1>4. fut'[run + 1] # "exit" /\ run + 1 \notin got
  BY <1>0, <1>3 DEF RunForever, RunUntilComplete, IInv, CoroutineInv
<1>5. \A q \in asked : q <= run + 1 /\ q # run + 1
  BY <1>0, <1>2 DEF EndInv
<1> QED BY <1>0, <1>1, <1>4, <1>5 DEF EndInv, LoopRunning

LEMMA EndKeptByLoop ==
  ASSUME IInv, EndInv, DoStopRuns \/ DrainEnds \/ Close \/ ExitEnds
  PROVE  EndInv'
<1>1. UNCHANGED <<asked, got, fut, run>>
  BY DEF DoStopRuns, DrainEnds, Close, ExitEnds, calls
<1>2. /\ where' = "main" => FALSE
      /\ run \in Run /\ outcome'[run] = "none" => LoopRunning'
  <2>1. outcome \in [Run -> {"none", "returned", "unfinished", "exit"}]
    BY DEF IInv, TypeOK
  <2>2. \A o : Leave(o) => where' = "idle" /\ (run \in Run => outcome'[run] = o)
    BY <2>1 DEF Leave
  <2>3. CASE DoStopRuns
    BY <2>2, <2>3 DEF DoStopRuns, EndInv, LoopRunning
  <2>4. CASE DrainEnds
    BY <2>2, <2>4 DEF DrainEnds
  <2>5. CASE Close \/ ExitEnds
    BY <2>5 DEF Close, ExitEnds, EndInv, LoopRunning
  <2> QED BY <2>3, <2>4, <2>5
<1> QED BY <1>1, <1>2 DEF EndInv

LEMMA EndKeptByIsDone ==
  ASSUME IInv, EndInv, NEW q \in Run, IsDoneRuns(q)
  PROVE  EndInv'
<1>1. got' = got \cup {q} /\ UNCHANGED <<asked, fut, run, where, outcome>>
  BY DEF IsDoneRuns, calls
<1>2. where = "main" => (stopPending => stopPending') /\ (fut[q] # "exit" => stopPending')
  BY DEF IsDoneRuns, RequestStop, LoopRunning
<1> QED BY <1>1, <1>2 DEF EndInv, LoopRunning

\* A main coroutine that ends leaves its exit to a call that is over.
LEMMA EndKeptByCallback ==
  ASSUME IInv, EndInv, CallbackReturns \/ CallbackExits
  PROVE  EndInv'
<1>1. UNCHANGED <<asked, got, run, stopPending>>
  BY DEF CallbackReturns, CallbackExits, calls
<1>2. CASE CallbackReturns
  <2>1. UNCHANGED <<where, outcome>>
    BY <1>2 DEF CallbackReturns
  <2>2. where = "main" => fut'[run] # "exit"
    BY <1>2 DEF CallbackReturns, EndInv, IInv, TypeOK
  <2> QED BY <1>1, <2>1, <2>2 DEF EndInv, LoopRunning
<1>3. CASE CallbackExits
  <2>1. Raised /\ outcome \in [Run -> {"none", "returned", "unfinished", "exit"}]
    BY <1>3 DEF CallbackExits, IInv, TypeOK
  <2>2. where' # "main" /\ (run \in Run => outcome'[run] # "none")
    BY <2>1 DEF Raised, Leave, LoopRunning, EndInv
  <2> QED BY <1>1, <2>2 DEF EndInv
<1> QED BY <1>2, <1>3

(* A call that somebody stopped, or whose function is complete, has in its  *)
(* channel what ends it, whatever earlier calls have left there.            *)
THEOREM EndComes == Spec => []EndIsDue
<1>1. Init => EndInv
  BY DEF Init, EndInv, Run
<1>2. IInv /\ EndInv /\ [Next]_vars => EndInv'
  <2>1. UNCHANGED vars /\ EndInv => EndInv'
    BY DEF vars, EndInv, LoopRunning
  <2> QED
    BY <2>1, EndKeptByUser, EndKeptByEnter, EndKeptByLoop, EndKeptByIsDone, EndKeptByCallback
    DEF Next, LoopSteps
<1>3. IInv /\ EndInv => EndIsDue
  BY DEF IInv, EndInv, EndIsDue, CompletionInv, LoopRunning
<1> QED BY Invariant, <1>1, <1>2, <1>3, PTL DEF Spec

=============================================================================
