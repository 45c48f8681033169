-------------------------- MODULE ChildWaiterProofs --------------------------
(***************************************************************************)
(* The safety properties of ChildWaiter, for every set of children, tasks  *)
(* and ProcessWaiters.                                                     *)
(***************************************************************************)
EXTENDS ChildWaiter, TLAPS

\* The thread has not yet stored or failed to store what waitpid() returns.
Busy(w) == thread[w] \in {"starting", "waiting", "reaped", "failed"}

\* The thread calls waitpid(), or is in it, for the child that has the pid now.
Awaits(w) ==
  thread[w] = "starting" \/ (thread[w] = "waiting" /\ target[w] = birth[pid[w]])

\* A task has got a status from this waiter.
Served(w) == \E t \in Task : call[t] = "status" /\ mine[t] = w

\* A child is reaped once, after its exit, and its pid then used again.
ChildInv(p) ==
  /\ \A b \in 1 .. Births[p] :
       reaper[<<p, b>>] = "nobody" <=> b > birth[p] \/ (b = birth[p] /\ child[p] # "reaped")
  /\ children[p] # NoWaiter =>
       /\ children[p] \in DOMAIN pid /\ pid[children[p]] = p
       /\ result[children[p]] = "status" => children[p] \in overtaken

\* Of every ProcessWaiter.
ThreadInv(w) ==
  /\ w \notin DOMAIN pid => thread[w] = "none" /\ result[w] = "none"
  /\ event[w] \/ thread[w] \in {"posted", "over"} => result[w] # "none"
  /\ event[w] <=> thread[w] = "over"
  /\ thread[w] \in {"waiting", "reaped", "failed"} =>
       target[w] \in 1 .. birth[pid[w]]
  /\ thread[w] = "failed" => reaper[<<pid[w], target[w]>>] # "nobody"

\* Of one whose thread no reused pid has thrown off: it is the entry of its pid
\* until the status is stored.
EntryInv(w) ==
  /\ thread[w] # "died"
  /\ Awaits(w) /\ (result[w] # "none" \/ Served(w)) => child[pid[w]] = "reaped"
  /\ Awaits(w) /\ child[pid[w]] # "reaped" => children[pid[w]] = w
  /\ thread[w] = "reaped" =>
       /\ result[w] # "status" /\ ~Served(w)
       /\ target[w] = birth[pid[w]] /\ child[pid[w]] = "reaped"
       /\ children[pid[w]] = w

\* The child that a task waits for has the pid until the thread has its status.
TaskInv(t) ==
  call[t] # "idle" =>
    mine[t] \in DOMAIN pid /\ pid[mine[t]] = Waits[t] /\ asked[t] \in 1 .. birth[Waits[t]]

AskedInv(t) ==
  /\ call[t] = "waiting" =>
       /\ thread[mine[t]] # "none"
       /\ Awaits(mine[t]) \/ thread[mine[t]] = "reaped" => asked[t] = birth[Waits[t]]
       /\ ~Busy(mine[t]) /\ result[mine[t]] = "status" => source[mine[t]] = asked[t]
  /\ call[t] = "status" => result[mine[t]] # "none" /\ source[mine[t]] = asked[t]

\* The child of a task that is alone with it, and calls once.
AloneInv(t) ==
  /\ \A w \in DOMAIN pid : pid[w] = Waits[t] => call[t] # "idle" /\ w = mine[t]
  /\ call[t] = "idle" => \A b \in 1 .. Births[Waits[t]] : reaper[<<Waits[t], b>>] # "us"
  /\ call[t] = "waiting" =>
       /\ thread[mine[t]] \in {"starting", "waiting", "failed"} =>
            \A b \in 1 .. Births[Waits[t]] : reaper[<<Waits[t], b>>] # "us"
       /\ thread[mine[t]] \in {"waiting", "failed"} => target[mine[t]] >= asked[t]
       /\ result[mine[t]] = "NOT_FOUND" => reaper[<<Waits[t], asked[t]>>] = "elsewhere"
  /\ call[t] = "NOT_FOUND" => reaper[<<Waits[t], asked[t]>>] = "elsewhere"

IInv ==
  /\ TypeOK
  /\ \A p \in Pid : ChildInv(p)
  /\ \A w \in Waiter : ThreadInv(w) /\ (w \notin overtaken => EntryInv(w))
  /\ \A t \in Task : TaskInv(t) /\ (mine[t] \notin overtaken => AskedInv(t))
  /\ \A t \in Task : WaitedOnce(Waits[t]) => AloneInv(t)

LEMMA ChildFacts ==
  /\ \A p \in Pid : \A b \in 1 .. Births[p] : <<p, b>> \in Child
  /\ \A c \in Child : c[1] \in Pid /\ c[2] \in 1 .. Births[c[1]] /\ c = <<c[1], c[2]>>
BY DEF Child

LEMMA BirthFacts ==
  TypeOK => \A p \in Pid : birth[p] \in 1 .. Births[p] /\ birth[p] \in Nat
BY ChildFacts DEF TypeOK

\* What the steps below use of the invariant.
LEMMA IInvFacts ==
  ASSUME IInv
  PROVE  /\ TypeOK /\ \A q \in Pid : ChildInv(q)
         /\ \A v \in Waiter : ThreadInv(v) /\ (v \notin overtaken => EntryInv(v))
         /\ \A u \in Task : TaskInv(u) /\ (mine[u] \notin overtaken => AskedInv(u))
         /\ \A u \in Task : WaitedOnce(Waits[u]) => AloneInv(u)
         /\ \A q \in Pid : birth[q] \in 1 .. Births[q] /\ birth[q] \in Nat
         /\ \A v \in DOMAIN pid : v \in Waiter /\ pid[v] \in Pid
         /\ \A u \in Task : call[u] # "idle" =>
              mine[u] \in DOMAIN pid /\ mine[u] \in Waiter /\ pid[mine[u]] = Waits[u]
<1>1. TypeOK /\ \A v \in DOMAIN pid : v \in Waiter /\ pid[v] \in Pid
  BY DEF IInv, TypeOK
<1> QED BY <1>1, BirthFacts DEF IInv, TaskInv

\* A step that leaves the thread alone.
LEMMA ThreadFrame ==
  ASSUME TypeOK, NEW v \in Waiter, ThreadInv(v),
         birth' = birth, thread'[v] = thread[v], event'[v] = event[v], target'[v] = target[v],
         v \in DOMAIN pid => v \in DOMAIN pid' /\ pid'[v] = pid[v],
         v \notin DOMAIN pid' => result'[v] = result[v],
         result[v] # "none" => result'[v] # "none",
         \A q \in Pid : \A b \in 1 .. Births[q] :
           reaper[<<q, b>>] # "nobody" => reaper'[<<q, b>>] # "nobody"
  PROVE  ThreadInv(v)'
<1>1. v \notin DOMAIN pid => thread[v] = "none" /\ result[v] = "none"
  BY DEF ThreadInv
<1>2. v \notin DOMAIN pid' => thread'[v] = "none" /\ result'[v] = "none"
  BY <1>1
<1>3. /\ event'[v] \/ thread'[v] \in {"posted", "over"} => result'[v] # "none"
      /\ event'[v] <=> thread'[v] = "over"
  BY DEF ThreadInv
<1>4. thread[v] \in {"waiting", "reaped", "failed"} =>
        v \in DOMAIN pid /\ target[v] \in 1 .. birth[pid[v]] /\ pid[v] \in Pid
  BY <1>1 DEF ThreadInv, TypeOK
<1>5. thread[v] = "failed" => reaper'[<<pid[v], target[v]>>] # "nobody"
  <2>1. thread[v] = "failed" => target[v] \in 1 .. Births[pid[v]]
    <3>1. pid[v] \in Pid => birth[pid[v]] \in 1 .. Births[pid[v]]
      BY BirthFacts
    <3>2. pid[v] \in Pid => Births[pid[v]] \in Nat
      BY TasksAssumption
    <3> QED BY <1>4, <3>1, <3>2
  <2> QED BY <1>4, <2>1 DEF ThreadInv
<1> QED BY <1>2, <1>3, <1>4, <1>5 DEF ThreadInv

LEMMA InitInv == Init => IInv
<1> SUFFICES ASSUME Init PROVE IInv
  OBVIOUS
<1> USE TasksAssumption
<1>1. TypeOK
  <2>1. \A p \in Pid : 1 \in 1 .. Births[p]
    OBVIOUS
  <2>2. \A p \in Pid : <<p, birth[p]>> \in Child
    BY <2>1, ChildFacts DEF Init
  <2>3. DOMAIN pid = {}
    BY DEF Init
  <2> QED BY <2>2, <2>3 DEF Init, TypeOK, Answers
<1>2. ASSUME NEW p \in Pid PROVE ChildInv(p)
  <2>1. /\ \A b \in 1 .. Births[p] : reaper[<<p, b>>] = "nobody"
        /\ birth[p] = 1 /\ child[p] = "running" /\ children[p] = NoWaiter
    BY ChildFacts DEF Init
  <2>2. \A b \in 1 .. Births[p] : b > 1 \/ b = 1
    BY DEF Init
  <2> QED BY <2>1, <2>2 DEF ChildInv
<1>3. DOMAIN pid = {} /\ \A w \in Waiter : ThreadInv(w) /\ EntryInv(w)
  BY DEF Init, ThreadInv, EntryInv, Awaits
<1>4. \A t \in Task : TaskInv(t) /\ AskedInv(t)
  BY DEF Init, TaskInv, AskedInv
<1>5. \A t \in Task : AloneInv(t)
  BY <1>3, ChildFacts DEF Init, AloneInv
<1> QED BY <1>1, <1>2, <1>3, <1>4, <1>5 DEF IInv

-----------------------------------------------------------------------------
(* The operating system.                                                    *)

\* waitpid() answers once for each child.
LEMMA ReapFacts ==
  ASSUME TypeOK, NEW p \in Pid, NEW who \in {"us", "elsewhere"}, Reaps(p, who)
  PROVE  /\ child[p] = "zombie" /\ child'[p] = "reaped" /\ birth' = birth
         /\ child' \in [Pid -> {"running", "zombie", "reaped"}]
         /\ \A q \in Pid \ {p} : child'[q] = child[q]
         /\ reaper' \in [Child -> {"nobody", "us", "elsewhere"}]
         /\ \A q \in Pid : \A b \in 1 .. Births[q] :
              reaper'[<<q, b>>] = IF q = p /\ b = birth[p] THEN who ELSE reaper[<<q, b>>]
BY ChildFacts, BirthFacts DEF Reaps, TypeOK

LEMMA ExitStep ==
  ASSUME IInv, NEW p \in Pid, ChildExits(p)
  PROVE  IInv'
<1>0. /\ TypeOK /\ \A q \in Pid : ChildInv(q)
      /\ \A v \in Waiter : ThreadInv(v) /\ (v \notin overtaken => EntryInv(v))
      /\ \A u \in Task : TaskInv(u) /\ (mine[u] \notin overtaken => AskedInv(u))
      /\ \A u \in Task : WaitedOnce(Waits[u]) => AloneInv(u)
      /\ \A q \in Pid : birth[q] \in 1 .. Births[q] /\ birth[q] \in Nat
      /\ \A v \in DOMAIN pid : v \in Waiter /\ pid[v] \in Pid
      /\ \A u \in Task : call[u] # "idle" =>
           mine[u] \in DOMAIN pid /\ mine[u] \in Waiter /\ pid[mine[u]] = Waits[u]
  BY IInvFacts
<1> USE TasksAssumption
<1>1. /\ child[p] = "running" /\ child' = [child EXCEPT ![p] = "zombie"]
      /\ UNCHANGED <<birth, reaper, children, pid, mine, result, thread, target, event, call,
                     asked, source, overtaken>>
  BY DEF ChildExits, history
<1>2. child'[p] = "zombie" /\ \A q \in Pid \ {p} : child'[q] = child[q]
  BY <1>0, <1>1 DEF TypeOK
<1>3. \A q \in Pid : (child'[q] = "reaped" <=> child[q] = "reaped")
  BY <1>1, <1>2
<1>4. TypeOK'
  BY <1>0, <1>1 DEF TypeOK
<1>5. \A q \in Pid : ChildInv(q)'
  BY <1>0, <1>1, <1>3 DEF ChildInv
<1>6. ASSUME NEW v \in Waiter PROVE ThreadInv(v)' /\ (EntryInv(v) => EntryInv(v)')
  <2>1. ThreadInv(v)'
    BY <1>0, <1>1 DEF ThreadInv
  <2>2. v \notin DOMAIN pid => thread[v] = "none"
    BY <1>0 DEF ThreadInv
  <2> QED BY <1>0, <1>1, <1>3, <2>1, <2>2 DEF EntryInv, Awaits, Served
<1>7. \A t \in Task : TaskInv(t)' /\ (AskedInv(t) => AskedInv(t)') /\ (AloneInv(t) => AloneInv(t)')
  BY <1>0, <1>1 DEF TaskInv, AskedInv, AloneInv, Awaits, Busy
<1> QED BY <1>0, <1>1, <1>4, <1>5, <1>6, <1>7 DEF IInv, WaitedOnce

LEMMA ElsewhereStep ==
  ASSUME IInv, NEW p \in Pid, ReapedElsewhere(p)
  PROVE  IInv'
<1>0. /\ TypeOK /\ \A q \in Pid : ChildInv(q)
      /\ \A v \in Waiter : ThreadInv(v) /\ (v \notin overtaken => EntryInv(v))
      /\ \A u \in Task : TaskInv(u) /\ (mine[u] \notin overtaken => AskedInv(u))
      /\ \A u \in Task : WaitedOnce(Waits[u]) => AloneInv(u)
      /\ \A q \in Pid : birth[q] \in 1 .. Births[q] /\ birth[q] \in Nat
      /\ \A v \in DOMAIN pid : v \in Waiter /\ pid[v] \in Pid
      /\ \A u \in Task : call[u] # "idle" =>
           mine[u] \in DOMAIN pid /\ mine[u] \in Waiter /\ pid[mine[u]] = Waits[u]
  BY IInvFacts
<1> USE TasksAssumption
<1>1. /\ UNCHANGED <<birth, children, pid, mine, result, thread, target, event, call, asked,
                     source, overtaken>>
      /\ child[p] = "zombie" /\ child'[p] = "reaped" /\ \A q \in Pid \ {p} : child'[q] = child[q]
      /\ child' \in [Pid -> {"running", "zombie", "reaped"}]
      /\ reaper' \in [Child -> {"nobody", "us", "elsewhere"}]
      /\ \A q \in Pid : \A b \in 1 .. Births[q] :
           reaper'[<<q, b>>] = IF q = p /\ b = birth[p] THEN "elsewhere" ELSE reaper[<<q, b>>]
  BY <1>0, ReapFacts DEF ReapedElsewhere, history
<1>2. TypeOK'
  BY <1>0, <1>1 DEF TypeOK
<1>3. \A q \in Pid : ChildInv(q)'
  BY <1>0, <1>1 DEF ChildInv
<1>4. ASSUME NEW v \in Waiter PROVE ThreadInv(v)' /\ (EntryInv(v) => EntryInv(v)')
  <2>1. \A q \in Pid : child[q] = "reaped" => child'[q] = "reaped"
    BY <1>1
  <2>2. v \notin DOMAIN pid => thread[v] = "none"
    BY <1>0 DEF ThreadInv
  <2>3. ThreadInv(v)'
    BY <1>0, <1>1, ThreadFrame
  <2> QED BY <1>0, <1>1, <2>1, <2>2, <2>3 DEF EntryInv, Awaits, Served
<1>5. ASSUME NEW t \in Task
      PROVE  TaskInv(t)' /\ (AskedInv(t) => AskedInv(t)') /\ (AloneInv(t) => AloneInv(t)')
  <2>1. TaskInv(t)' /\ (AskedInv(t) => AskedInv(t)')
    BY <1>0, <1>1 DEF TaskInv, AskedInv, Awaits, Busy
  <2>2. call[t] # "idle" => asked[t] \in 1 .. Births[Waits[t]]
    BY <1>0 DEF TaskInv
  <2>3. AloneInv(t) => AloneInv(t)'
    BY <1>0, <1>1, <2>2 DEF AloneInv
  <2> QED BY <2>1, <2>3
<1> QED BY <1>0, <1>1, <1>2, <1>3, <1>4, <1>5 DEF IInv, WaitedOnce

\* The threads that a reused pid does not throw off wait for no child that has it.
LEMMA ReuseStep ==
  ASSUME IInv, NEW p \in Pid, PidReused(p)
  PROVE  IInv'
<1>0. /\ TypeOK /\ \A q \in Pid : ChildInv(q)
      /\ \A v \in Waiter : ThreadInv(v) /\ (v \notin overtaken => EntryInv(v))
      /\ \A u \in Task : TaskInv(u) /\ (mine[u] \notin overtaken => AskedInv(u))
      /\ \A u \in Task : WaitedOnce(Waits[u]) => AloneInv(u)
      /\ \A q \in Pid : birth[q] \in 1 .. Births[q] /\ birth[q] \in Nat
      /\ \A v \in DOMAIN pid : v \in Waiter /\ pid[v] \in Pid
      /\ \A u \in Task : call[u] # "idle" =>
           mine[u] \in DOMAIN pid /\ mine[u] \in Waiter /\ pid[mine[u]] = Waits[u]
  BY IInvFacts
<1> USE TasksAssumption
<1>1. /\ child[p] = "reaped" /\ birth[p] < Births[p]
      /\ birth' = [birth EXCEPT ![p] = birth[p] + 1] /\ child' = [child EXCEPT ![p] = "running"]
      /\ overtaken' = overtaken \cup
           {w \in DOMAIN pid : pid[w] = p /\ thread[w] \in {"starting", "reaped"}}
      /\ UNCHANGED <<reaper, children, pid, mine, result, thread, target, event, call, asked,
                     source>>
  BY DEF PidReused
<1>2. /\ child'[p] = "running" /\ birth'[p] = birth[p] + 1 /\ birth'[p] \in 1 .. Births[p]
      /\ \A q \in Pid \ {p} : child'[q] = child[q] /\ birth'[q] = birth[q]
      /\ overtaken \subseteq overtaken'
  BY <1>0, <1>1 DEF TypeOK
<1>3. TypeOK'
  <2>1. \A q \in Pid : birth'[q] \in 1 .. Births[q]
    BY <1>0, <1>2
  <2>2. \A q \in Pid : <<q, birth'[q]>> \in Child
    BY <2>1, ChildFacts
  <2>3. birth' \in [Pid -> Nat] /\ child' \in [Pid -> {"running", "zombie", "reaped"}]
        /\ overtaken' \subseteq Waiter
    BY <1>0, <1>1 DEF TypeOK
  <2> QED BY <1>0, <1>1, <2>2, <2>3 DEF TypeOK
<1>4. ASSUME NEW q \in Pid PROVE ChildInv(q)'
  <2>1. CASE q = p
    <3>1. \A b \in 1 .. Births[p] : reaper[<<p, b>>] = "nobody" <=> b > birth[p]
      BY <1>0, <1>1 DEF ChildInv
    <3>2. \A b \in 1 .. Births[p] : b > birth[p] <=> (b > birth'[p] \/ b = birth'[p])
      BY <1>0, <1>2
    <3>3. child'[p] # "reaped"
      BY <1>2
    <3>4. \A b \in 1 .. Births[p] :
            reaper'[<<p, b>>] = "nobody" <=> b > birth'[p] \/ (b = birth'[p] /\ child'[p] # "reaped")
      BY <1>1, <3>1, <3>2, <3>3
    <3>5. children'[p] # NoWaiter => /\ children'[p] \in DOMAIN pid' /\ pid'[children'[p]] = p
                                     /\ result'[children'[p]] = "status" => children'[p] \in overtaken'
      BY <1>0, <1>1, <1>2 DEF ChildInv
    <3> QED BY <2>1, <3>4, <3>5 DEF ChildInv
  <2>2. CASE q # p
    BY <1>0, <1>1, <1>2, <2>2 DEF ChildInv
  <2> QED BY <2>1, <2>2
<1>5. ASSUME NEW v \in Waiter PROVE ThreadInv(v)'
  BY <1>0, <1>1, <1>2 DEF ThreadInv
<1>6. ASSUME NEW v \in DOMAIN pid, v \notin overtaken', pid[v] = p
      PROVE  ~Awaits(v)' /\ thread[v] # "reaped"
  <2>1. thread[v] \notin {"starting", "reaped"}
    BY <1>1, <1>6
  <2>2. thread[v] = "waiting" => target[v] \in 1 .. birth[p]
    BY <1>0, <1>6 DEF ThreadInv
  <2>3. ~Awaits(v)'
    BY <1>0, <1>1, <1>2, <1>6, <2>1, <2>2 DEF Awaits
  <2> QED BY <2>1, <2>3
<1>7. ASSUME NEW v \in Waiter, v \notin overtaken' PROVE EntryInv(v)'
  <2>1. EntryInv(v) /\ (v \notin DOMAIN pid => thread[v] = "none")
    BY <1>0, <1>2, <1>7 DEF ThreadInv
  <2>2. CASE v \in DOMAIN pid /\ pid[v] = p
    BY <1>1, <1>6, <1>7, <2>1, <2>2 DEF EntryInv
  <2>3. CASE v \in DOMAIN pid /\ pid[v] # p
    BY <1>0, <1>1, <1>2, <2>1, <2>3 DEF EntryInv, Awaits, Served
  <2>4. CASE v \notin DOMAIN pid
    BY <1>1, <2>1, <2>4 DEF EntryInv, Awaits
  <2> QED BY <2>2, <2>3, <2>4
<1>8. ASSUME NEW t \in Task PROVE TaskInv(t)' /\ (AloneInv(t) => AloneInv(t)')
  BY <1>0, <1>1, <1>2 DEF TaskInv, AloneInv
<1>9. ASSUME NEW t \in Task, mine'[t] \notin overtaken' PROVE AskedInv(t)'
  <2>1. AskedInv(t)
    BY <1>0, <1>1, <1>2, <1>9
  <2>2. CASE call[t] # "idle" /\ Waits[t] = p
    BY <1>0, <1>1, <1>6, <1>9, <2>1, <2>2 DEF AskedInv, Busy
  <2>3. CASE call[t] # "idle" /\ Waits[t] # p
    BY <1>0, <1>1, <1>2, <2>1, <2>3 DEF AskedInv, Busy, Awaits
  <2>4. CASE call[t] = "idle"
    BY <1>1, <2>4 DEF AskedInv
  <2> QED BY <2>2, <2>3, <2>4
<1> QED BY <1>0, <1>3, <1>4, <1>5, <1>7, <1>8, <1>9 DEF IInv, WaitedOnce

-----------------------------------------------------------------------------
(* Tasks that wait, and threads.                                            *)

LEMMA WakeStep ==
  ASSUME IInv, NEW t \in Task, Wake(t) \/ CancelWait(t)
  PROVE  IInv'
<1>0. /\ TypeOK /\ \A q \in Pid : ChildInv(q)
      /\ \A v \in Waiter : ThreadInv(v) /\ (v \notin overtaken => EntryInv(v))
      /\ \A u \in Task : TaskInv(u) /\ (mine[u] \notin overtaken => AskedInv(u))
      /\ \A u \in Task : WaitedOnce(Waits[u]) => AloneInv(u)
      /\ \A q \in Pid : birth[q] \in 1 .. Births[q] /\ birth[q] \in Nat
      /\ \A v \in DOMAIN pid : v \in Waiter /\ pid[v] \in Pid
      /\ \A u \in Task : call[u] # "idle" =>
           mine[u] \in DOMAIN pid /\ mine[u] \in Waiter /\ pid[mine[u]] = Waits[u]
  BY IInvFacts
<1> USE TasksAssumption
<1>1. /\ call[t] = "waiting"
      /\ UNCHANGED <<child, birth, reaper, children, pid, mine, result, thread, target, event,
                     asked, source, overtaken>>
  BY DEF Wake, CancelWait, history, system
<1>2. PICK a \in {"cancelled", "status", "NOT_FOUND"} :
        /\ call' = [call EXCEPT ![t] = a]
        /\ a # "cancelled" => a = result[mine[t]] /\ thread[mine[t]] = "over"
  <2>1. CASE CancelWait(t)
    BY <2>1 DEF CancelWait, Ends
  <2>2. CASE Wake(t)
    <3>1. mine[t] \in Waiter
      BY <1>0, <1>1
    <3>2. thread[mine[t]] = "over" /\ result[mine[t]] \in {"status", "NOT_FOUND"}
      BY <1>0, <2>2, <3>1 DEF Wake, ThreadInv, TypeOK, Answers
    <3> QED BY <2>2, <3>2 DEF Wake, Ends
  <2> QED BY <2>1, <2>2
<1>3. /\ call' \in [Task -> {"idle", "waiting", "cancelled"} \cup (Answers \ {"none"})]
      /\ call'[t] = a /\ \A u \in Task \ {t} : call'[u] = call[u]
  BY <1>0, <1>2 DEF TypeOK, Answers
<1>4. TypeOK'
  BY <1>0, <1>1, <1>3 DEF TypeOK
<1>5. \A q \in Pid : ChildInv(q)'
  BY <1>0, <1>1 DEF ChildInv
<1>6. ASSUME NEW v \in Waiter PROVE ThreadInv(v)' /\ (EntryInv(v) => EntryInv(v)')
  <2>1. Served(v)' => Served(v) \/ thread[v] = "over"
    BY <1>1, <1>2, <1>3 DEF Served
  <2>2. ThreadInv(v)'
    BY <1>0, <1>1 DEF ThreadInv
  <2> QED BY <1>0, <1>1, <2>1, <2>2 DEF EntryInv, Awaits
<1>7. ASSUME NEW u \in Task
      PROVE  TaskInv(u)' /\ (AskedInv(u) => AskedInv(u)') /\ (AloneInv(u) => AloneInv(u)')
  <2>1. CASE u = t
    <3>1. TaskInv(u)'
      BY <1>0, <1>1, <2>1 DEF TaskInv
    <3>2. AskedInv(u) => AskedInv(u)'
      BY <1>1, <1>2, <1>3, <2>1 DEF AskedInv, Busy
    <3>3. AloneInv(u) => AloneInv(u)'
      BY <1>1, <1>2, <1>3, <2>1 DEF AloneInv
    <3> QED BY <3>1, <3>2, <3>3
  <2>2. CASE u # t
    BY <1>0, <1>1, <1>3, <2>2 DEF TaskInv, AskedInv, AloneInv, Awaits, Busy
  <2> QED BY <2>1, <2>2
<1> QED BY <1>0, <1>1, <1>4, <1>5, <1>6, <1>7 DEF IInv, WaitedOnce

LEMMA EntersStep ==
  ASSUME IInv, NEW w \in Waiter, ThreadEnters(w)
  PROVE  IInv'
<1>0. /\ TypeOK /\ \A q \in Pid : ChildInv(q)
      /\ \A v \in Waiter : ThreadInv(v) /\ (v \notin overtaken => EntryInv(v))
      /\ \A u \in Task : TaskInv(u) /\ (mine[u] \notin overtaken => AskedInv(u))
      /\ \A u \in Task : WaitedOnce(Waits[u]) => AloneInv(u)
      /\ \A q \in Pid : birth[q] \in 1 .. Births[q] /\ birth[q] \in Nat
      /\ \A v \in DOMAIN pid : v \in Waiter /\ pid[v] \in Pid
      /\ \A u \in Task : call[u] # "idle" =>
           mine[u] \in DOMAIN pid /\ mine[u] \in Waiter /\ pid[mine[u]] = Waits[u]
  BY IInvFacts
<1> USE TasksAssumption
<1>1. /\ thread[w] = "starting" /\ w \in DOMAIN pid /\ pid[w] \in Pid
      /\ thread' = [thread EXCEPT ![w] = "waiting"]
      /\ target' = [target EXCEPT ![w] = birth[pid[w]]]
      /\ UNCHANGED <<child, birth, reaper, children, pid, mine, result, event, call, asked,
                     source, overtaken>>
  BY <1>0 DEF ThreadEnters, ThreadBecomes, ThreadInv, system, history
<1>2. /\ thread'[w] = "waiting" /\ target'[w] = birth[pid[w]]
      /\ \A v \in Waiter \ {w} : thread'[v] = thread[v] /\ target'[v] = target[v]
  BY <1>0, <1>1 DEF TypeOK
<1>3. TypeOK'
  BY <1>0, <1>1 DEF TypeOK
<1>4. \A q \in Pid : ChildInv(q)'
  BY <1>0, <1>1 DEF ChildInv
<1>5. \A v \in Waiter : Awaits(v)' <=> Awaits(v)
  BY <1>1, <1>2 DEF Awaits
<1>6. \A v \in Waiter : Busy(v)' <=> Busy(v)
  BY <1>1, <1>2 DEF Busy
<1>7. ASSUME NEW v \in Waiter PROVE ThreadInv(v)' /\ (EntryInv(v) => EntryInv(v)')
  <2>1. Served(v)' <=> Served(v)
    BY <1>1 DEF Served
  <2>2. ThreadInv(v)'
    <3>1. CASE v = w
      <4>1. birth[pid[w]] \in 1 .. birth[pid[w]]
        BY <1>0, <1>1
      <4> QED BY <1>0, <1>1, <1>2, <3>1, <4>1 DEF ThreadInv
    <3>2. CASE v # w
      BY <1>0, <1>1, <1>2, <3>2 DEF ThreadInv
    <3> QED BY <3>1, <3>2
  <2> QED BY <1>1, <1>2, <1>5, <2>1, <2>2 DEF EntryInv
<1>8. ASSUME NEW u \in Task
      PROVE  TaskInv(u)' /\ (AskedInv(u) => AskedInv(u)') /\ (AloneInv(u) => AloneInv(u)')
  <2>1. TaskInv(u)' /\ (AskedInv(u) => AskedInv(u)')
    BY <1>0, <1>1, <1>2, <1>5, <1>6 DEF TaskInv, AskedInv
  <2>2. call[u] # "idle" => asked[u] \in 1 .. birth[pid[mine[u]]]
    BY <1>0 DEF TaskInv
  <2>3. AloneInv(u) => AloneInv(u)'
    BY <1>0, <1>1, <1>2, <2>2 DEF AloneInv
  <2> QED BY <2>1, <2>3
<1> QED BY <1>0, <1>1, <1>3, <1>4, <1>7, <1>8 DEF IInv, WaitedOnce

LEMMA WaitpidStep ==
  ASSUME IInv, NEW w \in Waiter, ThreadWaitpid(w)
  PROVE  IInv'
<1>0. /\ TypeOK /\ \A q \in Pid : ChildInv(q)
      /\ \A v \in Waiter : ThreadInv(v) /\ (v \notin overtaken => EntryInv(v))
      /\ \A u \in Task : TaskInv(u) /\ (mine[u] \notin overtaken => AskedInv(u))
      /\ \A u \in Task : WaitedOnce(Waits[u]) => AloneInv(u)
      /\ \A q \in Pid : birth[q] \in 1 .. Births[q] /\ birth[q] \in Nat
      /\ \A v \in DOMAIN pid : v \in Waiter /\ pid[v] \in Pid
      /\ \A u \in Task : call[u] # "idle" =>
           mine[u] \in DOMAIN pid /\ mine[u] \in Waiter /\ pid[mine[u]] = Waits[u]
  BY IInvFacts
<1> USE TasksAssumption
<1> DEFINE p == pid[w]
<1>1. /\ thread[w] = "waiting" /\ w \in DOMAIN pid /\ p \in Pid
      /\ target[w] \in 1 .. birth[p]
      /\ UNCHANGED <<children, pid, mine, result, target, event, call, asked, source, overtaken>>
      /\ \/ target[w] = birth[p] /\ Reaps(p, "us") /\ ThreadBecomes(w, "reaped")
         \/ /\ target[w] # birth[p] \/ child[p] = "reaped"
            /\ ThreadBecomes(w, "failed") /\ UNCHANGED system
  BY <1>0 DEF ThreadWaitpid, ThreadInv, history
<1>2. PICK s \in {"reaped", "failed"} : thread' = [thread EXCEPT ![w] = s]
  BY <1>1 DEF ThreadBecomes
<1>3. /\ thread'[w] = s /\ \A v \in Waiter \ {w} : thread'[v] = thread[v]
      /\ thread' \in [Waiter -> {"none", "starting", "waiting", "reaped", "failed", "posted",
                                  "over", "died"}]
  BY <1>0, <1>2 DEF TypeOK
<1>4. /\ birth' = birth /\ \A q \in Pid \ {p} : child'[q] = child[q]
      /\ child' \in [Pid -> {"running", "zombie", "reaped"}]
      /\ reaper' \in [Child -> {"nobody", "us", "elsewhere"}]
      /\ \A q \in Pid : \A b \in 1 .. Births[q] : q # p \/ b # birth[p] =>
           reaper'[<<q, b>>] = reaper[<<q, b>>]
      /\ s = "reaped" =>
           /\ child[p] = "zombie" /\ child'[p] = "reaped" /\ target[w] = birth[p]
           /\ reaper[<<p, birth[p]>>] = "nobody" /\ reaper'[<<p, birth[p]>>] = "us"
      /\ s = "failed" =>
           /\ target[w] # birth[p] \/ child[p] = "reaped"
           /\ child' = child /\ reaper' = reaper
  <2>1. CASE target[w] = birth[p] /\ Reaps(p, "us") /\ ThreadBecomes(w, "reaped")
    <3>1. s = "reaped"
      BY <1>0, <1>3, <2>1 DEF ThreadBecomes, TypeOK
    <3>2. child[p] = "zombie" => reaper[<<p, birth[p]>>] = "nobody"
      BY <1>0, <1>1 DEF ChildInv
    <3> QED BY <1>0, <1>1, <2>1, <3>1, <3>2, ReapFacts
  <2>2. CASE /\ target[w] # birth[p] \/ child[p] = "reaped"
             /\ ThreadBecomes(w, "failed") /\ UNCHANGED system
    <3>1. s = "failed"
      BY <1>0, <1>3, <2>2 DEF ThreadBecomes, TypeOK
    <3> QED BY <1>0, <2>2, <3>1 DEF system, TypeOK
  <2> QED BY <1>1, <2>1, <2>2
<1>5. TypeOK'
  BY <1>0, <1>1, <1>3, <1>4 DEF TypeOK
<1>6. \A q \in Pid : child[q] = "reaped" => child'[q] = "reaped"
  BY <1>4
<1>7. \A q \in Pid : \A b \in 1 .. Births[q] :
        /\ reaper[<<q, b>>] # "nobody" => reaper'[<<q, b>>] = reaper[<<q, b>>]
        /\ s = "failed" => reaper'[<<q, b>>] = reaper[<<q, b>>]
  BY <1>4
<1> HIDE DEF p
<1>8. ASSUME NEW q \in Pid PROVE ChildInv(q)'
  <2>1. CASE s = "failed"
    BY <1>0, <1>1, <1>4, <2>1 DEF ChildInv
  <2>2. CASE s = "reaped" /\ q # p
    <3>1. /\ child'[q] = child[q] /\ birth'[q] = birth[q]
          /\ \A b \in 1 .. Births[q] : reaper'[<<q, b>>] = reaper[<<q, b>>]
      BY <1>1, <1>4, <2>2
    <3> QED BY <1>0, <1>1, <3>1 DEF ChildInv
  <2>3. CASE s = "reaped" /\ q = p
    <3>1. \A b \in 1 .. Births[p] : reaper[<<p, b>>] = "nobody" <=> b >= birth[p]
      <4>1. ChildInv(p) /\ child[p] = "zombie" /\ birth[p] \in Nat /\ Births[p] \in Nat
        BY <1>0, <1>1, <1>4, <2>3
      <4> QED BY <4>1 DEF ChildInv
    <3>2. \A b \in 1 .. Births[p] : reaper'[<<p, b>>] = "nobody" <=> b > birth[p]
      <4> SUFFICES ASSUME NEW b \in 1 .. Births[p]
                   PROVE  reaper'[<<p, b>>] = "nobody" <=> b > birth[p]
        OBVIOUS
      <4>1. birth[p] \in Nat /\ Births[p] \in Nat
        BY <1>0, <1>1
      <4>2. CASE b = birth[p]
        BY <1>4, <2>3, <4>1, <4>2
      <4>3. CASE b # birth[p]
        <5>1. reaper'[<<p, b>>] = reaper[<<p, b>>]
          BY <1>1, <1>4, <4>3
        <5> QED BY <3>1, <4>1, <4>3, <5>1
      <4> QED BY <4>2, <4>3
    <3> QED BY <1>0, <1>1, <1>4, <2>3, <3>2 DEF ChildInv
  <2> QED BY <2>1, <2>2, <2>3
<1>9. ASSUME NEW v \in Waiter PROVE ThreadInv(v)'
  <2>1. v \in DOMAIN pid /\ thread[v] \in {"waiting", "reaped", "failed"} =>
          pid[v] \in Pid /\ target[v] \in 1 .. birth[pid[v]]
    BY <1>0 DEF ThreadInv
  <2>2. v \in DOMAIN pid /\ target[v] \in 1 .. birth[pid[v]] => target[v] \in 1 .. Births[pid[v]]
    BY <1>0
  <2>3. CASE v # w
    BY <1>0, <1>1, <1>3, <1>4, <1>7, <2>3, ThreadFrame
  <2>4. CASE v = w
    <3>1. s = "failed" => reaper[<<p, target[w]>>] # "nobody"
      <4>1. target[w] \in 1 .. Births[p]
        BY <1>0, <1>1
      <4>2. s = "failed" => target[w] < birth[p] \/ (target[w] = birth[p] /\ child[p] = "reaped")
        BY <1>0, <1>1, <1>4
      <4> QED BY <1>0, <1>1, <4>1, <4>2 DEF ChildInv
    <3>2. ThreadInv(w)
      BY <1>0
    <3> QED BY <1>1, <1>3, <1>4, <2>4, <3>1, <3>2 DEF ThreadInv, p
  <2> QED BY <2>3, <2>4
<1>10. \A v \in Waiter : Served(v)' <=> Served(v)
  BY <1>1 DEF Served
<1>11. \A v \in Waiter : Awaits(v)' => Awaits(v)
  BY <1>1, <1>3, <1>4 DEF Awaits
<1>12. s = "reaped" => Awaits(w) /\ child[p] # "reaped"
  BY <1>1, <1>4 DEF Awaits, p
<1>13. ASSUME NEW v \in Waiter, EntryInv(v) PROVE EntryInv(v)'
  <2>1. v \notin DOMAIN pid => thread[v] = "none"
    BY <1>0 DEF ThreadInv
  <2>2. CASE v # w
    BY <1>0, <1>1, <1>3, <1>4, <1>6, <1>10, <1>11, <1>13, <2>1, <2>2 DEF EntryInv, Awaits
  <2>3. CASE v = w
    <3>1. ~Awaits(w)'
      BY <1>3 DEF Awaits
    <3>2. s = "reaped" => result[w] = "none" /\ ~Served(w) /\ children[p] = w
      BY <1>12, <1>13, <2>3 DEF EntryInv, p
    <3> QED BY <1>1, <1>3, <1>4, <1>10, <2>3, <3>1, <3>2 DEF EntryInv, p
  <2> QED BY <2>2, <2>3
<1>14. ASSUME NEW u \in Task PROVE TaskInv(u)' /\ (AskedInv(u) => AskedInv(u)')
  <2>1. TaskInv(u)'
    BY <1>0, <1>1, <1>4 DEF TaskInv
  <2>2. CASE call[u] # "idle" /\ mine[u] = w
    <3>1. Waits[u] = p
      BY <1>0, <2>2 DEF p
    <3>2. (Awaits(w) \/ thread[w] = "reaped")' => Awaits(w)
      BY <1>3, <1>11, <1>12
    <3>3. Busy(w)'
      BY <1>3 DEF Busy
    <3> QED BY <1>1, <1>3, <1>4, <2>1, <2>2, <3>1, <3>2, <3>3 DEF AskedInv
  <2>3. CASE call[u] # "idle" /\ mine[u] # w
    BY <1>0, <1>1, <1>3, <1>4, <1>11, <2>1, <2>3 DEF AskedInv, Busy
  <2>4. CASE call[u] = "idle"
    BY <1>1, <2>1, <2>4 DEF AskedInv
  <2> QED BY <2>2, <2>3, <2>4
<1>15. ASSUME NEW u \in Task, AloneInv(u) PROVE AloneInv(u)'
  <2>1. call[u] # "idle" => asked[u] \in 1 .. Births[Waits[u]] /\ Waits[u] \in Pid
    BY <1>0 DEF TaskInv
  <2>2. CASE Waits[u] = p
    <3>1. call[u] # "idle" /\ w = mine[u]
      BY <1>1, <1>15, <2>2 DEF AloneInv, p
    <3>2. s = "reaped" /\ call[u] = "waiting" =>
            thread'[mine[u]] \notin {"starting", "waiting", "failed"}
      BY <1>3, <3>1
    <3> QED BY <1>0, <1>1, <1>3, <1>4, <1>7, <1>15, <2>1, <2>2, <3>1, <3>2 DEF AloneInv
  <2>3. CASE Waits[u] # p
    <3>1. call[u] # "idle" => mine[u] # w
      BY <1>0, <2>3 DEF p
    <3>2. \A b \in 1 .. Births[Waits[u]] : reaper'[<<Waits[u], b>>] = reaper[<<Waits[u], b>>]
      BY <1>4, <2>3
    <3> QED BY <1>0, <1>1, <1>3, <1>4, <1>15, <2>1, <2>3, <3>1, <3>2 DEF AloneInv
  <2> QED BY <2>2, <2>3
<1> QED BY <1>0, <1>1, <1>5, <1>8, <1>9, <1>13, <1>14, <1>15 DEF IInv, WaitedOnce

\* What the thread stores is about the child that the tasks have waited for, and
\* the entry that it deletes is its own, unless a reused pid has thrown it off.
LEMMA StoresStep ==
  ASSUME IInv, NEW w \in Waiter, ThreadStores(w)
  PROVE  IInv'
<1>0. /\ TypeOK /\ \A q \in Pid : ChildInv(q)
      /\ \A v \in Waiter : ThreadInv(v) /\ (v \notin overtaken => EntryInv(v))
      /\ \A u \in Task : TaskInv(u) /\ (mine[u] \notin overtaken => AskedInv(u))
      /\ \A u \in Task : WaitedOnce(Waits[u]) => AloneInv(u)
      /\ \A q \in Pid : birth[q] \in 1 .. Births[q] /\ birth[q] \in Nat
      /\ \A v \in DOMAIN pid : v \in Waiter /\ pid[v] \in Pid
      /\ \A u \in Task : call[u] # "idle" =>
           mine[u] \in DOMAIN pid /\ mine[u] \in Waiter /\ pid[mine[u]] = Waits[u]
  BY IInvFacts
<1> USE TasksAssumption
<1> DEFINE p == pid[w]
           entry == children[p]
<1>1. /\ w \in DOMAIN pid /\ p \in Pid
      /\ thread[w] \in {"reaped", "failed"} /\ target[w] \in 1 .. birth[p]
      /\ UNCHANGED <<child, birth, reaper, pid, mine, target, event, call, asked>>
  BY <1>0 DEF ThreadStores, ThreadInv, system
<1>2. PICK a \in {"status", "NOT_FOUND", "none"} :
        /\ a = "status" =>
             /\ thread[w] = "reaped" /\ entry \in Waiter
             /\ children' = [children EXCEPT ![p] = NoWaiter]
             /\ overtaken' = overtaken \cup ({entry} \ {w})
             /\ result' = [result EXCEPT ![w] = "status"]
             /\ source' = [source EXCEPT ![w] = target[w]]
             /\ thread' = [thread EXCEPT ![w] = "posted"]
        /\ a = "none" =>
             /\ thread[w] = "reaped" /\ ~InUse(entry)
             /\ UNCHANGED <<children, result, source, overtaken>>
             /\ thread' = [thread EXCEPT ![w] = "died"]
        /\ a = "NOT_FOUND" =>
             /\ thread[w] = "failed" /\ UNCHANGED <<children, source, overtaken>>
             /\ result' = [result EXCEPT ![w] = "NOT_FOUND"]
             /\ thread' = [thread EXCEPT ![w] = "posted"]
  BY <1>0 DEF ThreadStores, ThreadBecomes
<1>3. /\ a = "status" => /\ result'[w] = "status" /\ source'[w] = target[w]
                         /\ thread'[w] = "posted" /\ children'[p] = NoWaiter
      /\ a = "none" => result'[w] = result[w] /\ thread'[w] = "died" /\ source' = source
      /\ a = "NOT_FOUND" => result'[w] = "NOT_FOUND" /\ thread'[w] = "posted" /\ source' = source
      /\ a # "status" => children' = children
      /\ \A v \in Waiter \ {w} :
           thread'[v] = thread[v] /\ result'[v] = result[v] /\ source'[v] = source[v]
      /\ \A q \in Pid \ {p} : children'[q] = children[q]
      /\ overtaken \subseteq overtaken'
  BY <1>0, <1>1, <1>2 DEF TypeOK
<1>4. TypeOK'
  BY <1>0, <1>1, <1>2 DEF TypeOK, Answers
<1>5. w \notin overtaken =>
        /\ a # "none"
        /\ a = "status" => entry = w /\ target[w] = birth[p] /\ ~Served(w)
  <2>1. InUse(w) <=> TRUE
    BY <1>1 DEF InUse
  <2> QED BY <1>0, <1>1, <1>2, <2>1 DEF EntryInv
<1> HIDE DEF p, entry
<1>6. ASSUME NEW q \in Pid PROVE ChildInv(q)'
  <2>1. children'[q] # NoWaiter => /\ children'[q] = children[q] /\ children[q] \in Waiter
                                   /\ result'[children[q]] = "status" => result[children[q]] = "status"
    <3>1. children'[q] # NoWaiter => children'[q] = children[q] /\ (a = "status" => q # p)
      BY <1>0, <1>1, <1>2, <1>3
    <3>2. children[q] # NoWaiter => children[q] \in Waiter
      BY <1>0 DEF TypeOK
    <3>3. children[q] = w => q = p
      BY <1>0, TasksAssumption DEF ChildInv, p
    <3> QED BY <1>2, <1>3, <3>1, <3>2, <3>3
  <2> QED BY <1>0, <1>1, <1>3, <2>1 DEF ChildInv
<1>7. ASSUME NEW v \in Waiter PROVE ThreadInv(v)'
  BY <1>0, <1>1, <1>2, <1>3 DEF ThreadInv
<1>8. ASSUME NEW v \in Waiter, v \notin overtaken' PROVE EntryInv(v)'
  <2>1. v \notin overtaken /\ EntryInv(v) /\ (Served(v)' <=> Served(v))
    BY <1>0, <1>1, <1>3, <1>8 DEF Served
  <2>2. CASE v = w
    BY <1>2, <1>3, <1>5, <2>1, <2>2 DEF EntryInv, Awaits
  <2>3. CASE v # w
    <3>1. thread'[v] = thread[v] /\ result'[v] = result[v] /\ (Awaits(v)' <=> Awaits(v))
      BY <1>1, <1>3, <2>3 DEF Awaits
    <3>2. v \in DOMAIN pid /\ children[pid[v]] = v => children'[pid[v]] = v
      <4> SUFFICES ASSUME v \in DOMAIN pid, children[pid[v]] = v, a = "status", pid[v] = p
                   PROVE  FALSE
        BY <1>0, <1>2, <1>3
      <4> QED BY <1>2, <1>8, <2>3 DEF entry
    <3>3. v \notin DOMAIN pid => thread[v] = "none"
      BY <1>0 DEF ThreadInv
    <3> QED BY <1>1, <2>1, <3>1, <3>2, <3>3 DEF EntryInv, Awaits
  <2> QED BY <2>2, <2>3
<1>9. \A u \in Task : TaskInv(u)'
  BY <1>0, <1>1 DEF TaskInv
<1>10. ASSUME NEW u \in Task, mine'[u] \notin overtaken' PROVE AskedInv(u)'
  <2>1. mine[u] \notin overtaken /\ AskedInv(u)
    BY <1>0, <1>1, <1>3, <1>10
  <2>2. CASE call[u] # "idle" /\ mine[u] = w
    <3>1. Waits[u] = p
      BY <1>0, <2>2 DEF p
    <3>2. a # "none" /\ (a = "status" => target[w] = birth[p] /\ call[u] # "status")
      BY <1>5, <2>1, <2>2 DEF Served
    <3>3. thread'[w] = "posted"
      BY <1>3, <3>2
    <3>4. call[u] = "waiting" /\ a = "status" => asked[u] = birth[p]
      BY <1>2, <2>1, <2>2, <3>1 DEF AskedInv
    <3> QED BY <1>1, <1>2, <1>3, <2>1, <2>2, <3>1, <3>2, <3>3, <3>4 DEF AskedInv, Awaits
  <2>3. CASE call[u] # "idle" /\ mine[u] # w
    BY <1>0, <1>1, <1>3, <2>1, <2>3 DEF AskedInv, Busy, Awaits
  <2>4. CASE call[u] = "idle"
    BY <1>1, <2>4 DEF AskedInv
  <2> QED BY <2>2, <2>3, <2>4
<1>11. ASSUME NEW u \in Task, AloneInv(u) PROVE AloneInv(u)'
  <2>1. call[u] # "idle" => asked[u] \in 1 .. birth[Waits[u]] /\ Waits[u] \in Pid
    BY <1>0 DEF TaskInv
  <2>2. CASE call[u] = "waiting" /\ mine[u] = w
    <3>1. Waits[u] = p
      BY <1>0, <2>2 DEF p
    <3>2. a = "NOT_FOUND" => reaper[<<p, asked[u]>>] = "elsewhere"
      <4> SUFFICES ASSUME thread[w] = "failed" PROVE reaper[<<p, asked[u]>>] = "elsewhere"
        BY <1>2
      <4>1. target[w] >= asked[u] /\ asked[u] \in 1 .. Births[p]
        BY <1>0, <1>1, <1>11, <2>1, <2>2, <3>1 DEF AloneInv
      <4>2. reaper[<<p, target[w]>>] # "nobody" /\ target[w] \in 1 .. Births[p]
        BY <1>0, <1>1 DEF ThreadInv, p
      <4>3. reaper[<<p, asked[u]>>] # "nobody"
        BY <1>0, <1>1, <4>1, <4>2 DEF ChildInv
      <4>4. reaper[<<p, asked[u]>>] # "us"
        BY <1>11, <2>2, <3>1, <4>1 DEF AloneInv
      <4> QED BY <1>0, <1>1, <4>1, <4>3, <4>4, ChildFacts DEF TypeOK
    <3>3. thread'[w] \in {"posted", "died"}
      BY <1>3
    <3> QED BY <1>1, <1>3, <1>11, <2>1, <2>2, <3>1, <3>2, <3>3 DEF AloneInv
  <2>3. CASE call[u] = "waiting" /\ mine[u] # w
    BY <1>0, <1>1, <1>3, <1>11, <2>1, <2>3 DEF AloneInv
  <2>4. CASE call[u] # "waiting"
    BY <1>1, <1>11, <2>4 DEF AloneInv
  <2> QED BY <2>2, <2>3, <2>4
<1> QED BY <1>0, <1>1, <1>4, <1>6, <1>7, <1>8, <1>9, <1>10, <1>11 DEF IInv, WaitedOnce

LEMMA EventStep ==
  ASSUME IInv, NEW w \in Waiter, EventSet(w)
  PROVE  IInv'
<1>0. /\ TypeOK /\ \A q \in Pid : ChildInv(q)
      /\ \A v \in Waiter : ThreadInv(v) /\ (v \notin overtaken => EntryInv(v))
      /\ \A u \in Task : TaskInv(u) /\ (mine[u] \notin overtaken => AskedInv(u))
      /\ \A u \in Task : WaitedOnce(Waits[u]) => AloneInv(u)
      /\ \A q \in Pid : birth[q] \in 1 .. Births[q] /\ birth[q] \in Nat
      /\ \A v \in DOMAIN pid : v \in Waiter /\ pid[v] \in Pid
      /\ \A u \in Task : call[u] # "idle" =>
           mine[u] \in DOMAIN pid /\ mine[u] \in Waiter /\ pid[mine[u]] = Waits[u]
  BY IInvFacts
<1> USE TasksAssumption
<1>1. /\ thread[w] = "posted" /\ event' = [event EXCEPT ![w] = TRUE]
      /\ thread' = [thread EXCEPT ![w] = "over"]
      /\ UNCHANGED <<child, birth, reaper, children, pid, mine, result, target, call, asked,
                     source, overtaken>>
  BY DEF EventSet, ThreadBecomes, history, system
<1>2. /\ thread'[w] = "over" /\ event'[w] = TRUE
      /\ \A v \in Waiter \ {w} : thread'[v] = thread[v] /\ event'[v] = event[v]
  BY <1>0, <1>1 DEF TypeOK
<1>3. TypeOK'
  BY <1>0, <1>1 DEF TypeOK
<1>4. \A q \in Pid : ChildInv(q)'
  BY <1>0, <1>1 DEF ChildInv
<1>5. ASSUME NEW v \in Waiter PROVE ThreadInv(v)' /\ (EntryInv(v) => EntryInv(v)')
  <2>1. ThreadInv(v)'
    BY <1>0, <1>1, <1>2 DEF ThreadInv
  <2> QED BY <1>0, <1>1, <1>2, <2>1 DEF EntryInv, Awaits, Served
<1>6. ASSUME NEW u \in Task
      PROVE  TaskInv(u)' /\ (AskedInv(u) => AskedInv(u)') /\ (AloneInv(u) => AloneInv(u)')
  <2>1. TaskInv(u)'
    BY <1>0, <1>1 DEF TaskInv
  <2>2. AskedInv(u) => AskedInv(u)'
    BY <1>0, <1>1, <1>2 DEF AskedInv, Awaits, Busy
  <2>3. AloneInv(u) => AloneInv(u)'
    BY <1>0, <1>1, <1>2 DEF AloneInv
  <2> QED BY <2>1, <2>2, <2>3
<1> QED BY <1>0, <1>1, <1>3, <1>4, <1>5, <1>6 DEF IInv, WaitedOnce

-----------------------------------------------------------------------------
(* wait_for_child().                                                        *)

\* A call has a waiter for its pid that has not got a status, unless a reused pid
\* has thrown it off.  It makes a new one only if nothing uses the old one.
LEMMA UseFacts ==
  ASSUME IInv, NEW t \in Task, NEW w \in Waiter, Use(t, w)
  PROVE  /\ w \in DOMAIN pid' /\ pid'[w] = Waits[t] /\ DOMAIN pid' = DOMAIN pid \cup {w}
         /\ \A v \in DOMAIN pid : pid'[v] = pid[v]
         /\ w \in DOMAIN pid => children[Waits[t]] = w
         /\ result[w] = "status" => w \in overtaken
         /\ w \notin DOMAIN pid => result[w] = "none" /\ thread[w] = "none"
         /\ \A v \in DOMAIN pid : Busy(v) /\ children[Waits[t]] = v => v = w
<1>0. /\ TypeOK /\ \A q \in Pid : ChildInv(q)
      /\ \A v \in Waiter : ThreadInv(v) /\ (v \notin overtaken => EntryInv(v))
      /\ \A u \in Task : TaskInv(u) /\ (mine[u] \notin overtaken => AskedInv(u))
      /\ \A u \in Task : WaitedOnce(Waits[u]) => AloneInv(u)
      /\ \A q \in Pid : birth[q] \in 1 .. Births[q] /\ birth[q] \in Nat
      /\ \A v \in DOMAIN pid : v \in Waiter /\ pid[v] \in Pid
      /\ \A u \in Task : call[u] # "idle" =>
           mine[u] \in DOMAIN pid /\ mine[u] \in Waiter /\ pid[mine[u]] = Waits[u]
  BY IInvFacts
<1> USE TasksAssumption
<1>1. w # NoWaiter
  OBVIOUS
<1>2. \A v \in DOMAIN pid : Busy(v) => InUse(v)
  BY DEF Busy, InUse
<1>3. CASE w \in DOMAIN pid
  <2>1. children[Waits[t]] = w /\ UNCHANGED pid
    BY <1>3 DEF Use
  <2>2. Waits[t] \in Pid /\ ChildInv(Waits[t])
    BY <1>0
  <2> QED BY <1>1, <1>3, <2>1, <2>2 DEF ChildInv
<1>4. CASE w \notin DOMAIN pid
  <2>1. children[Waits[t]] # w
    BY <1>0, <1>1, <1>4 DEF ChildInv
  <2>2. /\ pid' = [v \in DOMAIN pid \cup {w} |-> IF v = w THEN Waits[t] ELSE pid[v]]
        /\ ~InUse(children[Waits[t]])
    BY <2>1 DEF Use
  <2>3. /\ DOMAIN pid' = DOMAIN pid \cup {w} /\ pid'[w] = Waits[t]
        /\ \A v \in DOMAIN pid : pid'[v] = pid[v]
    BY <1>4, <2>2
  <2> QED BY <1>0, <1>2, <1>4, <2>2, <2>3 DEF ThreadInv
<1> QED BY <1>3, <1>4

LEMMA WaitForChildStep ==
  ASSUME IInv, NEW t \in Task, WaitForChild(t)
  PROVE  IInv'
<1>0. /\ TypeOK /\ \A q \in Pid : ChildInv(q)
      /\ \A v \in Waiter : ThreadInv(v) /\ (v \notin overtaken => EntryInv(v))
      /\ \A u \in Task : TaskInv(u) /\ (mine[u] \notin overtaken => AskedInv(u))
      /\ \A u \in Task : WaitedOnce(Waits[u]) => AloneInv(u)
      /\ \A q \in Pid : birth[q] \in 1 .. Births[q] /\ birth[q] \in Nat
      /\ \A v \in DOMAIN pid : v \in Waiter /\ pid[v] \in Pid
      /\ \A u \in Task : call[u] # "idle" =>
           mine[u] \in DOMAIN pid /\ mine[u] \in Waiter /\ pid[mine[u]] = Waits[u]
  BY IInvFacts
<1> USE TasksAssumption
<1>1. PICK w \in Waiter :
        /\ Use(t, w)
        /\ AlreadyKnown(t, w) \/ PollReaps(t, w) \/ PollFails(t, w) \/ PollWaits(t, w)
  BY DEF WaitForChild
<1> DEFINE p == Waits[t]
<1>2. /\ p \in Pid /\ w # NoWaiter
      /\ w \in DOMAIN pid' /\ pid'[w] = p /\ DOMAIN pid' = DOMAIN pid \cup {w}
      /\ \A v \in DOMAIN pid : v \in DOMAIN pid' /\ v \in Waiter /\ pid'[v] = pid[v]
      /\ \A v \in DOMAIN pid' : pid'[v] \in Pid
      /\ w \in DOMAIN pid => pid[w] = p /\ children[p] = w
      /\ result[w] = "status" => w \in overtaken
      /\ w \notin DOMAIN pid => result[w] = "none" /\ thread[w] = "none"
      /\ \A v \in DOMAIN pid : Busy(v) /\ children[p] = v => v = w
  <2>1. p \in Pid /\ w # NoWaiter
    OBVIOUS
  <2>2. ChildInv(p) /\ (children[p] = w => pid[w] = p)
    BY <1>0, <2>1 DEF ChildInv
  <2>3. \A v \in DOMAIN pid : v \in Waiter
    BY <1>0
  <2> HIDE DEF p
  <2>4. /\ w \in DOMAIN pid' /\ pid'[w] = Waits[t] /\ DOMAIN pid' = DOMAIN pid \cup {w}
        /\ \A v \in DOMAIN pid : pid'[v] = pid[v]
        /\ w \in DOMAIN pid => children[Waits[t]] = w
        /\ result[w] = "status" => w \in overtaken
        /\ w \notin DOMAIN pid => result[w] = "none" /\ thread[w] = "none"
        /\ \A v \in DOMAIN pid : Busy(v) /\ children[Waits[t]] = v => v = w
    BY <1>1, UseFacts
  <2> QED BY <1>0, <1>1, <2>1, <2>2, <2>3, <2>4 DEF p
<1>3. /\ mine' = [mine EXCEPT ![t] = w] /\ mine'[t] = w
      /\ asked' = [asked EXCEPT ![t] = birth[p]] /\ asked'[t] = birth[p]
      /\ \A u \in Task \ {t} : mine'[u] = mine[u] /\ asked'[u] = asked[u]
  BY <1>0, <1>1 DEF Use, TypeOK
<1>4. /\ call[t] \in {"idle", "cancelled"} /\ (t \notin MayRetry => call[t] = "idle")
      /\ UNCHANGED <<event, target, overtaken>>
  BY <1>1 DEF WaitForChild, AlreadyKnown, PollReaps, PollFails, PollWaits, kept
<1>5. PICK a \in {"status", "NOT_FOUND", "waiting"} :
        /\ call' = [call EXCEPT ![t] = a]
        /\ a = "status" => PollReaps(t, w) \/ (AlreadyKnown(t, w) /\ w \in overtaken)
  <2>1. result[w] # "none" => result[w] \in {"status", "NOT_FOUND"}
    BY <1>0 DEF TypeOK, Answers
  <2> QED BY <1>1, <1>2, <2>1 DEF AlreadyKnown, PollReaps, PollFails, PollWaits, Ends
<1>6. call'[t] = a /\ \A u \in Task \ {t} : call'[u] = call[u]
  BY <1>0, <1>5 DEF TypeOK
<1>7. mine' \in [Task -> Waiter \cup {NoWaiter}] /\ asked' \in [Task -> Nat]
      /\ call' \in [Task -> {"idle", "waiting", "cancelled"} \cup (Answers \ {"none"})]
      /\ DOMAIN pid' \subseteq Waiter
  BY <1>0, <1>2, <1>3, <1>5 DEF TypeOK, Answers
<1>8. \A v \in Waiter : Served(v)' => Served(v) \/ (v = w /\ a = "status")
  <2> SUFFICES ASSUME NEW v \in Waiter, NEW u \in Task, call'[u] = "status", mine'[u] = v
               PROVE  Served(v) \/ (v = w /\ a = "status")
    BY DEF Served
  <2>1. CASE u = t
    BY <1>3, <1>6, <2>1
  <2>2. CASE u # t
    <3>1. call[u] = "status" /\ mine[u] = v
      BY <1>3, <1>6, <2>2
    <3> QED BY <3>1 DEF Served
  <2> QED BY <2>1, <2>2
<1>9. ASSUME WaitedOnce(p)
      PROVE  /\ w \notin DOMAIN pid /\ ~\E v \in DOMAIN pid : pid[v] = p
             /\ \A b \in 1 .. Births[p] : reaper[<<p, b>>] # "us"
  <2>1. t \notin MayRetry /\ AloneInv(t)
    BY <1>0, <1>9 DEF WaitedOnce
  <2> QED BY <1>2, <1>4, <2>1 DEF AloneInv
<1>10. \A u \in Task \ {t} : WaitedOnce(Waits[u]) => Waits[u] # p
  BY DEF WaitedOnce
<1>11. w \notin overtaken => (result[w] = "none" => ~Served(w))
  BY <1>0 DEF Served, AskedInv
<1>12. \A u \in Task \ {t} : TaskInv(u) /\ birth' = birth => TaskInv(u)'
  BY <1>0, <1>2, <1>3, <1>6 DEF TaskInv
<1>13. birth' = birth => TaskInv(t)'
  <2>1. birth[p] \in 1 .. birth[p]
    BY <1>0, <1>2
  <2> QED BY <1>2, <1>3, <2>1 DEF TaskInv, p
<1>14. ASSUME NEW v \in Waiter, v # w, birth' = birth, thread'[v] = thread[v]
       PROVE  Awaits(v)' => Awaits(v) /\ v \in DOMAIN pid
  BY <1>0, <1>2, <1>4, <1>14 DEF Awaits, ThreadInv
\* The tasks that are alone with another child.
<1>15. ASSUME NEW u \in Task \ {t}, WaitedOnce(Waits[u]),
              \A b \in 1 .. Births[Waits[u]] : reaper'[<<Waits[u], b>>] = reaper[<<Waits[u], b>>],
              \A v \in Waiter \ {w} : thread'[v] = thread[v] /\ result'[v] = result[v]
       PROVE  AloneInv(u)'
  <2>1. AloneInv(u) /\ Waits[u] # p /\ Waits[u] \in Pid
    BY <1>0, <1>10, <1>15
  <2>2. call[u] # "idle" => /\ mine[u] # w /\ mine[u] \in Waiter
                            /\ asked[u] \in 1 .. Births[Waits[u]]
    BY <1>0, <1>2, <2>1 DEF TaskInv
  <2> QED BY <1>2, <1>3, <1>4, <1>6, <1>15, <2>1, <2>2 DEF AloneInv
<1> HIDE DEF p
<1>16. CASE AlreadyKnown(t, w)
  <2>1. /\ w \in DOMAIN pid /\ a = result[w] /\ a \in {"status", "NOT_FOUND"}
        /\ UNCHANGED <<child, birth, reaper, children, result, thread, source>>
    BY <1>0, <1>2, <1>6, <1>16 DEF AlreadyKnown, Ends, system, TypeOK, Answers
  <2>2. TypeOK'
    BY <1>0, <1>2, <1>4, <1>7, <2>1 DEF TypeOK
  <2>3. \A q \in Pid : ChildInv(q)'
    BY <1>0, <1>2, <1>4, <2>1 DEF ChildInv
  <2>4. \A v \in Waiter : ThreadInv(v)'
    BY <1>0, <1>2, <1>4, <2>1 DEF ThreadInv
  <2>5. ASSUME NEW v \in Waiter, v \notin overtaken' PROVE EntryInv(v)'
    <3>1. EntryInv(v) /\ (Served(v)' => Served(v))
      BY <1>0, <1>2, <1>4, <1>8, <2>1, <2>5
    <3>2. v \in DOMAIN pid => pid'[v] = pid[v]
      BY <1>2
    <3>3. v \notin DOMAIN pid => thread[v] = "none"
      BY <1>0 DEF ThreadInv
    <3> QED BY <1>4, <2>1, <3>1, <3>2, <3>3 DEF EntryInv, Awaits
  <2>6. ASSUME NEW u \in Task, mine'[u] \notin overtaken' PROVE AskedInv(u)'
    <3>1. CASE u = t
      BY <1>2, <1>3, <1>4, <1>6, <2>1, <2>6, <3>1 DEF AskedInv
    <3>2. CASE u # t
      BY <1>0, <1>2, <1>3, <1>4, <1>6, <2>1, <2>6, <3>2 DEF AskedInv, Awaits, Busy
    <3> QED BY <3>1, <3>2
  <2>7. ~WaitedOnce(p)
    BY <1>9, <2>1
  <2>8. \A u \in Task \ {t} : WaitedOnce(Waits[u]) => AloneInv(u)'
    BY <1>15, <2>1
  <2> QED BY <1>0, <1>12, <1>13, <2>1, <2>2, <2>3, <2>4, <2>5, <2>6, <2>7, <2>8
          DEF IInv, WaitedOnce, p
<1>17. CASE PollReaps(t, w)
  <2>1. /\ result[w] = "none" /\ a = "status"
        /\ children' = [children EXCEPT ![p] = NoWaiter]
        /\ result' = [result EXCEPT ![w] = "status"]
        /\ source' = [source EXCEPT ![w] = birth[p]]
        /\ thread' = thread
        /\ child[p] = "zombie" /\ child'[p] = "reaped" /\ birth' = birth
        /\ child' \in [Pid -> {"running", "zombie", "reaped"}]
        /\ \A q \in Pid \ {p} : child'[q] = child[q]
        /\ reaper' \in [Child -> {"nobody", "us", "elsewhere"}]
        /\ \A q \in Pid : \A b \in 1 .. Births[q] :
             reaper'[<<q, b>>] = IF q = p /\ b = birth[p] THEN "us" ELSE reaper[<<q, b>>]
    BY <1>0, <1>2, <1>6, <1>17, ReapFacts DEF PollReaps, Ends, p, TypeOK
  <2>2. /\ children'[p] = NoWaiter /\ result'[w] = "status" /\ source'[w] = birth[p]
        /\ \A q \in Pid \ {p} : children'[q] = children[q]
        /\ \A v \in Waiter \ {w} : result'[v] = result[v] /\ source'[v] = source[v]
    BY <1>0, <1>2, <2>1 DEF TypeOK
  <2>3. TypeOK'
    BY <1>0, <1>2, <1>4, <1>7, <2>1 DEF TypeOK, Answers
  <2>4. ASSUME NEW q \in Pid PROVE ChildInv(q)'
    <3>1. CASE q = p
      <4> SUFFICES ASSUME NEW b \in 1 .. Births[p]
                   PROVE  reaper'[<<p, b>>] = "nobody" <=> b > birth[p]
        BY <2>1, <2>2, <3>1 DEF ChildInv
      <4>1. birth[p] \in Nat /\ Births[p] \in Nat
        BY <1>0, <1>2
      <4>2. b # birth[p] => reaper'[<<p, b>>] = reaper[<<p, b>>]
        BY <1>2, <2>1
      <4>3. b = birth[p] => reaper'[<<p, b>>] = "us"
        BY <1>2, <2>1
      <4> QED BY <1>0, <1>2, <2>1, <4>1, <4>2, <4>3 DEF ChildInv
    <3>2. CASE q # p
      <4>1. children[q] # NoWaiter => children[q] # w /\ children[q] \in Waiter
        BY <1>0, <1>2, <3>2 DEF ChildInv, TypeOK
      <4> QED BY <1>0, <1>2, <1>4, <2>1, <2>2, <3>2, <4>1 DEF ChildInv
    <3> QED BY <3>1, <3>2
  <2>5. \A q \in Pid : \A b \in 1 .. Births[q] :
          reaper[<<q, b>>] # "nobody" => reaper'[<<q, b>>] # "nobody"
    BY <2>1
  <2>6. ASSUME NEW v \in Waiter PROVE ThreadInv(v)'
    <3>1. /\ v \in DOMAIN pid => v \in DOMAIN pid' /\ pid'[v] = pid[v]
          /\ v \notin DOMAIN pid' => result'[v] = result[v]
      BY <1>2, <2>2
    <3>2. result[v] # "none" => result'[v] # "none"
      BY <2>1, <2>2
    <3> QED BY <1>0, <1>4, <2>1, <2>5, <3>1, <3>2, ThreadFrame
  <2>7. ASSUME NEW v \in Waiter, v \notin overtaken' PROVE EntryInv(v)'
    <3>1. EntryInv(v) /\ (v \notin DOMAIN pid => thread[v] = "none")
      BY <1>0, <1>4, <2>7 DEF ThreadInv
    <3>2. CASE v \in DOMAIN pid /\ pid[v] = p
      BY <1>2, <2>1, <3>1, <3>2 DEF EntryInv
    <3>3. CASE v \in DOMAIN pid /\ pid[v] # p
      <4>1. v # w /\ (Served(v)' => Served(v)) /\ pid'[v] = pid[v] /\ pid[v] \in Pid
        BY <1>0, <1>2, <1>8, <3>3
      <4> QED BY <1>4, <2>1, <2>2, <3>1, <3>3, <4>1 DEF EntryInv, Awaits
    <3>4. CASE v \notin DOMAIN pid
      BY <2>1, <3>1, <3>4 DEF EntryInv, Awaits
    <3> QED BY <3>2, <3>3, <3>4
  <2>8. ASSUME NEW u \in Task, mine'[u] \notin overtaken' PROVE AskedInv(u)'
    <3>1. CASE u = t
      BY <1>3, <1>6, <2>1, <2>2, <3>1 DEF AskedInv
    <3>2. CASE u # t /\ call[u] # "idle" /\ mine[u] = w
      <4>1. mine[u] \notin overtaken /\ AskedInv(u) /\ ThreadInv(w) /\ EntryInv(w)
        BY <1>0, <1>3, <1>4, <2>8, <3>2
      <4>2. call[u] # "status"
        BY <2>1, <3>2, <4>1 DEF AskedInv
      <4>3. call[u] = "waiting" => Busy(w)
        <5>1. thread[w] \notin {"posted", "over", "died"}
          BY <2>1, <4>1 DEF ThreadInv, EntryInv
        <5>2. thread[w] \in {"none", "starting", "waiting", "reaped", "failed", "posted",
                             "over", "died"}
          BY <1>0 DEF TypeOK
        <5> QED BY <3>2, <4>1, <5>1, <5>2 DEF AskedInv, Busy
      <4> QED BY <1>0, <1>2, <1>3, <1>4, <1>6, <2>1, <3>2, <4>1, <4>2, <4>3
              DEF AskedInv, Awaits, Busy
    <3>3. CASE u # t /\ call[u] # "idle" /\ mine[u] # w
      <4>1. mine[u] \notin overtaken /\ AskedInv(u)
        BY <1>0, <1>3, <1>4, <2>8, <3>3
      <4> QED BY <1>0, <1>2, <1>3, <1>4, <1>6, <2>1, <2>2, <3>3, <4>1 DEF AskedInv, Awaits, Busy
    <3>4. CASE u # t /\ call[u] = "idle"
      BY <1>6, <3>4 DEF AskedInv
    <3> QED BY <3>1, <3>2, <3>3, <3>4
  <2>9. WaitedOnce(p) => AloneInv(t)'
    BY <1>2, <1>3, <1>6, <1>9, <2>1 DEF AloneInv, p
  <2>10. \A u \in Task \ {t} : WaitedOnce(Waits[u]) => AloneInv(u)'
    BY <1>10, <1>15, <2>1, <2>2
  <2> QED BY <1>0, <1>12, <1>13, <2>1, <2>3, <2>4, <2>6, <2>7, <2>8, <2>9, <2>10
          DEF IInv, WaitedOnce, p
<1>18. CASE PollFails(t, w)
  <2>1. /\ result[w] = "none" /\ child[p] = "reaped" /\ a = "NOT_FOUND"
        /\ children' = [children EXCEPT ![p] = w]
        /\ result' = [result EXCEPT ![w] = "NOT_FOUND"]
        /\ UNCHANGED <<child, birth, reaper, thread, source>>
    BY <1>0, <1>6, <1>18 DEF PollFails, Ends, p, TypeOK, system
  <2>2. /\ children'[p] = w /\ result'[w] = "NOT_FOUND"
        /\ \A q \in Pid \ {p} : children'[q] = children[q]
        /\ \A v \in Waiter \ {w} : result'[v] = result[v]
    BY <1>0, <1>2, <2>1 DEF TypeOK
  <2>3. TypeOK'
    BY <1>0, <1>2, <1>4, <1>7, <2>1 DEF TypeOK, Answers
  <2>4. ASSUME NEW q \in Pid PROVE ChildInv(q)'
    <3>1. CASE q = p
      BY <1>0, <1>2, <2>1, <2>2, <3>1 DEF ChildInv
    <3>2. CASE q # p
      <4>1. children[q] # NoWaiter => children[q] # w /\ children[q] \in Waiter
        BY <1>0, <1>2, <3>2 DEF ChildInv, TypeOK
      <4> QED BY <1>0, <1>2, <1>4, <2>1, <2>2, <3>2, <4>1 DEF ChildInv
    <3> QED BY <3>1, <3>2
  <2>5. ASSUME NEW v \in Waiter PROVE ThreadInv(v)'
    <3>1. /\ v \in DOMAIN pid => v \in DOMAIN pid' /\ pid'[v] = pid[v]
          /\ v \notin DOMAIN pid' => result'[v] = result[v]
      BY <1>2, <2>2
    <3>2. result[v] # "none" => result'[v] # "none"
      BY <2>1, <2>2
    <3> QED BY <1>0, <1>4, <2>1, <3>1, <3>2, ThreadFrame
  <2>6. ASSUME NEW v \in Waiter, v \notin overtaken' PROVE EntryInv(v)'
    <3>1. EntryInv(v) /\ (v \notin DOMAIN pid => thread[v] = "none") /\ (Served(v)' => Served(v))
      BY <1>0, <1>4, <1>8, <2>1, <2>6 DEF ThreadInv
    <3>2. CASE v \in DOMAIN pid /\ pid[v] = p
      <4>1. pid'[v] = p /\ (thread[v] = "reaped" => v = w)
        BY <1>2, <3>1, <3>2 DEF EntryInv, Busy
      <4> QED BY <1>4, <2>1, <2>2, <3>1, <3>2, <4>1 DEF EntryInv
    <3>3. CASE v \in DOMAIN pid /\ pid[v] # p
      <4>1. v # w /\ pid'[v] = pid[v] /\ pid[v] \in Pid
        BY <1>0, <1>2, <3>3
      <4> QED BY <1>4, <2>1, <2>2, <3>1, <3>3, <4>1 DEF EntryInv, Awaits
    <3>4. CASE v \notin DOMAIN pid
      BY <2>1, <3>1, <3>4 DEF EntryInv, Awaits
    <3> QED BY <3>2, <3>3, <3>4
  <2>7. ASSUME NEW u \in Task, mine'[u] \notin overtaken' PROVE AskedInv(u)'
    <3>1. CASE u = t
      BY <1>3, <1>6, <2>1, <3>1 DEF AskedInv
    <3>2. CASE u # t /\ call[u] # "idle"
      <4>1. mine[u] \notin overtaken /\ AskedInv(u)
        BY <1>0, <1>3, <1>4, <2>7, <3>2
      <4> QED BY <1>0, <1>2, <1>3, <1>4, <1>6, <2>1, <2>2, <3>2, <4>1 DEF AskedInv, Awaits, Busy
    <3>3. CASE u # t /\ call[u] = "idle"
      BY <1>6, <3>3 DEF AskedInv
    <3> QED BY <3>1, <3>2, <3>3
  <2>8. ASSUME WaitedOnce(p) PROVE AloneInv(t)'
    <3>1. reaper[<<p, birth[p]>>] = "elsewhere"
      BY <1>0, <1>2, <1>9, <2>1, <2>8, ChildFacts DEF ChildInv, TypeOK
    <3> QED BY <1>2, <1>3, <1>6, <1>9, <2>1, <2>8, <3>1 DEF AloneInv, p
  <2>9. \A u \in Task \ {t} : WaitedOnce(Waits[u]) => AloneInv(u)'
    BY <1>15, <2>1, <2>2
  <2> QED BY <1>0, <1>12, <1>13, <2>1, <2>3, <2>4, <2>5, <2>6, <2>7, <2>8, <2>9
          DEF IInv, WaitedOnce, p
<1>19. CASE PollWaits(t, w)
  <2>1. /\ result[w] = "none" /\ child[p] = "running" /\ a = "waiting"
        /\ children' = [children EXCEPT ![p] = w]
        /\ thread' = [thread EXCEPT ![w] = IF thread[w] = "none" THEN "starting" ELSE thread[w]]
        /\ UNCHANGED <<child, birth, reaper, result, source>>
    BY <1>0, <1>6, <1>19 DEF PollWaits, Ends, p, TypeOK, system
  <2>2. /\ children'[p] = w /\ thread'[w] = IF thread[w] = "none" THEN "starting" ELSE thread[w]
        /\ \A q \in Pid \ {p} : children'[q] = children[q]
        /\ \A v \in Waiter \ {w} : thread'[v] = thread[v]
    BY <1>0, <1>2, <2>1 DEF TypeOK
  <2>3. TypeOK'
    BY <1>0, <1>2, <1>4, <1>7, <2>1, <2>2 DEF TypeOK
  <2>4. ASSUME NEW q \in Pid PROVE ChildInv(q)'
    <3>1. children[q] # NoWaiter => children[q] \in Waiter
      BY <1>0 DEF TypeOK
    <3> QED BY <1>0, <1>2, <1>4, <2>1, <2>2, <3>1 DEF ChildInv
  <2>5. ASSUME NEW v \in Waiter PROVE ThreadInv(v)'
    <3>1. CASE v = w
      <4>1. ThreadInv(w)
        BY <1>0
      <4>2. w \in DOMAIN pid' /\ (thread[w] # "none" => pid'[w] = pid[w])
        BY <1>2, <4>1 DEF ThreadInv
      <4> QED BY <1>4, <2>1, <2>2, <3>1, <4>1, <4>2 DEF ThreadInv
    <3>2. CASE v # w
      <4>1. v \in DOMAIN pid => v \in DOMAIN pid' /\ pid'[v] = pid[v]
        BY <1>2
      <4> QED BY <1>0, <1>4, <2>1, <2>2, <3>2, <4>1, ThreadFrame
    <3> QED BY <3>1, <3>2
  <2>6. ASSUME NEW v \in Waiter, v \notin overtaken' PROVE EntryInv(v)'
    <3>1. EntryInv(v) /\ (v \notin DOMAIN pid => thread[v] = "none") /\ (Served(v)' => Served(v))
      BY <1>0, <1>4, <1>8, <2>1, <2>6 DEF ThreadInv
    <3>2. CASE v = w
      <4>1. ~Served(w) /\ thread[w] # "reaped"
        BY <1>2, <1>4, <1>11, <2>1, <2>6, <3>1, <3>2 DEF EntryInv
      <4> QED BY <1>2, <2>1, <2>2, <3>1, <3>2, <4>1 DEF EntryInv
    <3>3. CASE v # w
      <4>1. Awaits(v)' => Awaits(v) /\ v \in DOMAIN pid
        BY <1>14, <2>1, <2>2, <3>3
      <4>2. v \in DOMAIN pid => pid'[v] = pid[v] /\ pid[v] \in Pid
        BY <1>0, <1>2
      <4>3. v \in DOMAIN pid /\ Busy(v) /\ children[pid[v]] = v => pid[v] # p
        BY <1>2, <3>3
      <4>4. Awaits(v) \/ thread[v] = "reaped" => Busy(v)
        BY DEF Awaits, Busy
      <4> QED BY <1>4, <2>1, <2>2, <3>1, <3>3, <4>1, <4>2, <4>3, <4>4 DEF EntryInv
    <3> QED BY <3>2, <3>3
  <2>7. ASSUME NEW u \in Task, mine'[u] \notin overtaken' PROVE AskedInv(u)'
    <3>1. CASE u = t
      BY <1>0, <1>2, <1>3, <1>6, <2>1, <2>2, <3>1 DEF AskedInv, p
    <3>2. CASE u # t /\ call[u] # "idle"
      <4>1. mine[u] \notin overtaken /\ AskedInv(u)
        BY <1>0, <1>3, <1>4, <2>7, <3>2
      <4>2. call[u] = "waiting" => thread'[mine[u]] = thread[mine[u]]
        BY <1>0, <2>2, <3>2, <4>1 DEF AskedInv
      <4> QED BY <1>0, <1>2, <1>3, <1>4, <1>6, <2>1, <3>2, <4>1, <4>2 DEF AskedInv, Awaits, Busy
    <3>3. CASE u # t /\ call[u] = "idle"
      BY <1>6, <3>3 DEF AskedInv
    <3> QED BY <3>1, <3>2, <3>3
  <2>8. ASSUME WaitedOnce(p) PROVE AloneInv(t)'
    <3>1. thread'[w] = "starting"
      BY <1>2, <1>9, <2>2, <2>8
    <3> QED BY <1>2, <1>3, <1>6, <1>9, <2>1, <2>8, <3>1 DEF AloneInv, p
  <2>9. \A u \in Task \ {t} : WaitedOnce(Waits[u]) => AloneInv(u)'
    BY <1>15, <2>1, <2>2
  <2> QED BY <1>0, <1>12, <1>13, <2>1, <2>3, <2>4, <2>5, <2>6, <2>7, <2>8, <2>9
          DEF IInv, WaitedOnce, p
<1> QED BY <1>1, <1>16, <1>17, <1>18, <1>19

-----------------------------------------------------------------------------
LEMMA InvStep == IInv /\ [Next]_vars => IInv'
<1> SUFFICES ASSUME IInv, [Next]_vars PROVE IInv'
  OBVIOUS
<1>1. CASE UNCHANGED vars
  <2> USE <1>1 DEF vars
  <2>1. TypeOK' <=> TypeOK
    BY DEF TypeOK
  <2>2. \A p \in Pid : ChildInv(p)' <=> ChildInv(p)
    BY DEF ChildInv
  <2>3. \A w \in Waiter : (ThreadInv(w)' <=> ThreadInv(w)) /\ (EntryInv(w)' <=> EntryInv(w))
    BY DEF ThreadInv, EntryInv, Awaits, Served
  <2>4. \A t \in Task : /\ TaskInv(t)' <=> TaskInv(t)
                        /\ AskedInv(t)' <=> AskedInv(t)
                        /\ AloneInv(t)' <=> AloneInv(t)
    BY DEF TaskInv, AskedInv, AloneInv, Awaits, Busy
  <2> QED BY <2>1, <2>2, <2>3, <2>4 DEF IInv, WaitedOnce
<1>2. CASE \E p \in Pid : ChildExits(p) \/ ReapedElsewhere(p) \/ PidReused(p)
  BY <1>2, ExitStep, ElsewhereStep, ReuseStep
<1>3. CASE \E t \in Task : WaitForChild(t) \/ Wake(t) \/ CancelWait(t)
  BY <1>3, WaitForChildStep, WakeStep
<1>4. CASE \E w \in Waiter : ThreadEnters(w) \/ ThreadWaitpid(w) \/ ThreadStores(w) \/ EventSet(w)
  BY <1>4, EntersStep, WaitpidStep, StoresStep, EventStep
<1> QED BY <1>1, <1>2, <1>3, <1>4 DEF Next

(* What _children, a ProcessWaiter, its thread and the tasks that use it    *)
(* know of the child agrees at every step, whenever the pid is used again.  *)
THEOREM Invariant == Spec => []IInv
<1>1. Init => IInv
  BY InitInv
<1> QED BY <1>1, InvStep, PTL DEF Spec

(* A task that waits once and alone for its child gets its status unless    *)
(* code outside the module has reaped the child: the poll of wait() and     *)
(* _wait_thread() never take it from each other.                            *)
THEOREM StatusIsNotLost == Spec => []AloneGetsStatus
<1>1. IInv => AloneGetsStatus
  BY DEF IInv, AloneInv, AloneGetsStatus
<1> QED BY <1>1, Invariant, PTL

(* No task gets the status of an earlier or a later child with the pid it   *)
(* waits for: a ProcessWaiter leaves _children with the status it stores.   *)
(* The pid is used again at any time; the waiters are excepted whose thread *)
(* has then reaped the child and not stored its status, or not yet called   *)
(* waitpid(), and those whose entry such a thread deletes.                  *)
THEOREM StatusIsOfTheChild == Spec => []OwnStatus
<1>1. IInv => OwnStatus
  BY DEF IInv, AskedInv, OwnStatus
<1> QED BY <1>1, Invariant, PTL

(* Whoever waits for a child has a thread that will tell, or the answer is  *)
(* there: neither a waiter that is shared, nor a cancelled wait, nor a pid  *)
(* that is used again leaves a task without, with the same exception.       *)
THEOREM AnswerComes == Spec => []AnswerIsDue
<1>1. IInv => AnswerIsDue
  <2> SUFFICES ASSUME IInv, NEW t \in Task, call[t] = "waiting", mine[t] \notin overtaken
               PROVE  \/ event[mine[t]] /\ result[mine[t]] # "none"
                      \/ thread[mine[t]] = "posted"
                      \/ Fails(mine[t])
                      \/ /\ thread[mine[t]] \in {"starting", "waiting", "reaped"}
                         /\ pid[mine[t]] = Waits[t] /\ asked[t] = birth[Waits[t]]
    BY DEF AnswerIsDue
  <2>1. /\ mine[t] \in Waiter /\ pid[mine[t]] = Waits[t] /\ TypeOK
        /\ ThreadInv(mine[t]) /\ EntryInv(mine[t]) /\ AskedInv(t)
    BY IInvFacts
  <2>2. thread[mine[t]] \in {"none", "starting", "waiting", "reaped", "failed", "posted",
                             "over", "died"}
    BY <2>1 DEF TypeOK
  <2>3. thread[mine[t]] \notin {"none", "died"}
    BY <2>1 DEF AskedInv, EntryInv
  <2>4. thread[mine[t]] = "over" => event[mine[t]] /\ result[mine[t]] # "none"
    BY <2>1 DEF ThreadInv
  <2>5. Fails(mine[t]) \/ Awaits(mine[t]) \/ thread[mine[t]] \in {"reaped", "posted", "over"}
    BY <2>2, <2>3 DEF Fails, Awaits
  <2>6. Awaits(mine[t]) => thread[mine[t]] \in {"starting", "waiting"}
    BY DEF Awaits
  <2> QED BY <2>1, <2>4, <2>5, <2>6 DEF AskedInv
<1> QED BY <1>1, Invariant, PTL

=============================================================================
