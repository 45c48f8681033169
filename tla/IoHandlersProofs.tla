-------------------------- MODULE IoHandlersProofs --------------------------
(***************************************************************************)
(* The safety properties of IoHandlers, for every set of descriptors,      *)
(* handlers and callbacks.                                                 *)
(***************************************************************************)
EXTENDS IoHandlers, TLAPS

\* A handler has been added for a place before its task exists.  It stays
\* registered there until it is cancelled, and then no longer sleeps.
Registered(h) ==
  /\ at[h] = NoPlace => task[h] = "none" /\ h \notin cancelled
  /\ at[h] # NoPlace /\ h \notin cancelled => slot[at[h]] = h
  /\ h \in cancelled => ~Blocked(h)

\* synchronize(): its event is in the channel once at most, behind all that
\* the callback scheduled, and nothing of that is left when the task goes on.
Synchronized(h) ==
  /\ user = h <=> task[h] = "calling"
  /\ h \in SeqSet(queue) => task[h] \in {"syncing", "ended"}
  /\ \A i, j \in DOMAIN queue : queue[i] = h /\ queue[j] = h => i = j
  /\ \A i \in DOMAIN queue :
       queue[i] \in Callback /\ by[queue[i]] = h =>
         \/ task[h] \in {"calling", "ended"}
         \/ task[h] = "syncing" /\ \E j \in DOMAIN queue : i < j /\ queue[j] = h

IInv ==
  /\ TypeOK
  /\ NeverBusy
  /\ RegisteredIsWatched
  /\ nursery = "closed" => \A h \in Handle : task[h] \in {"none", "ended"}
  /\ \A h \in Handle : Registered(h) /\ Synchronized(h)

LEMMA InitInv == Init => IInv
<1> SUFFICES ASSUME Init PROVE IInv
  OBVIOUS
<1>1. TypeOK
  BY IoAssumption DEF Init, TypeOK
<1>2. NeverBusy /\ RegisteredIsWatched
  BY IoAssumption DEF Init, NeverBusy, RegisteredIsWatched
<1>3. \A h \in Handle : Registered(h) /\ Synchronized(h)
  BY IoAssumption DEF Init, Registered, Synchronized, SeqSet, Blocked
<1>4. nursery # "closed"
  BY DEF Init
<1> QED BY <1>1, <1>2, <1>3, <1>4 DEF IInv

-----------------------------------------------------------------------------
(* The channel.                                                             *)

LEMMA AppendedQueue ==
  ASSUME TypeOK, NEW x \in Handle \cup Callback
  PROVE  /\ Append(queue, x) \in Seq(Handle \cup Callback)
         /\ DOMAIN Append(queue, x) = DOMAIN queue \cup {Len(queue) + 1}
         /\ DOMAIN queue = 1 .. Len(queue) /\ Len(queue) \in Nat
         /\ \A i \in DOMAIN queue : Append(queue, x)[i] = queue[i]
         /\ Append(queue, x)[Len(queue) + 1] = x
BY DEF TypeOK

LEMMA ServedQueue ==
  ASSUME TypeOK, queue # <<>>
  PROVE  /\ Head(queue) = queue[1] /\ 1 \in DOMAIN queue
         /\ Tail(queue) \in Seq(Handle \cup Callback)
         /\ DOMAIN queue \subseteq Nat /\ \A i \in DOMAIN queue : i >= 1
         /\ \A i \in DOMAIN Tail(queue) :
              i \in Nat \ {0} /\ i + 1 \in DOMAIN queue /\ Tail(queue)[i] = queue[i + 1]
         /\ \A i \in DOMAIN queue : i > 1 =>
              i - 1 \in DOMAIN Tail(queue) /\ Tail(queue)[i - 1] = queue[i]
BY DEF TypeOK

\* Steps that leave the channel and the callback alone keep tasks and channel
\* in step if no task gets past its event.
LEMMA SyncFrame ==
  ASSUME IInv, UNCHANGED <<queue, by, user>>,
         \A h \in Handle :
           /\ task'[h] = "calling" <=> task[h] = "calling"
           /\ task[h] = "syncing" => task'[h] \in {"syncing", "ended"}
           /\ task[h] = "ended" => task'[h] = "ended"
  PROVE  \A h \in Handle : Synchronized(h)'
<1> SUFFICES ASSUME NEW h \in Handle PROVE Synchronized(h)'
  OBVIOUS
<1>1. Synchronized(h)
  BY DEF IInv
<1> QED BY <1>1 DEF Synchronized, SeqSet

-----------------------------------------------------------------------------
(* Steps.                                                                   *)

LEMMA AbortedTasks ==
  ASSUME TypeOK, NEW S
  PROVE  /\ Aborted(S) \in [Handle -> {"none", "starting", "waiting", "woken", "calling",
                                       "syncing", "synced", "ended"}]
         /\ \A h \in Handle :
              /\ Aborted(S)[h] # task[h] =>
                   h \in S /\ task[h] \in {"waiting", "syncing"} /\ Aborted(S)[h] = "ended"
              /\ h \in S => Aborted(S)[h] \notin {"waiting", "syncing"}
BY DEF TypeOK, Aborted, Blocked

LEMMA AddStep ==
  ASSUME IInv, NEW h \in Handle, NEW p \in Place, Add(h, p)
  PROVE  IInv'
<1> USE IoAssumption
<1>0. /\ TypeOK /\ NeverBusy /\ RegisteredIsWatched
      /\ nursery = "closed" => \A g \in Handle : task[g] \in {"none", "ended"}
      /\ \A g \in Handle : Registered(g) /\ Synchronized(g)
  BY DEF IInv
<1>1. /\ at[h] = NoPlace /\ task[h] = "none" /\ h \notin cancelled /\ slot[p] # h
      /\ slot' = [slot EXCEPT ![p] = h] /\ at' = [at EXCEPT ![h] = p]
      /\ cancelled' = cancelled \cup ({slot[p]} \ {NoHandle})
      /\ UNCHANGED <<failed, busy, world, queue, user, by, life>>
  BY <1>0 DEF Add, SetHandle, Registered, TypeOK, Place
<1>2. /\ task' \in [Handle -> {"none", "starting", "waiting", "woken", "calling",
                               "syncing", "synced", "ended"}]
      /\ \A g \in Handle \ {h} :
           task'[g] # task[g] =>
             g \in cancelled' /\ task[g] \in {"waiting", "syncing"} /\ task'[g] = "ended"
      /\ \A g \in cancelled' \cap Handle : task'[g] \notin {"waiting", "syncing"}
      /\ nursery # "closed" => task'[h] = "starting"
      /\ nursery = "closed" => task' = task
  <2>1. CASE nursery # "closed"
    BY <1>0, <1>1, <2>1, AbortedTasks DEF Add, TypeOK, Registered, Blocked
  <2>2. CASE nursery = "closed"
    BY <1>0, <1>1, <2>2 DEF Add, TypeOK
  <2> QED BY <2>1, <2>2
<1>3. /\ \A q \in Place \ {p} : slot'[q] = slot[q]
      /\ \A g \in Handle \ {h} : at'[g] = at[g]
      /\ slot'[p] = h /\ at'[h] = p /\ p # NoPlace
      /\ \A g \in Handle : slot[p] = g => g \in cancelled'
  <2>1. p # NoPlace
    BY DEF Place
  <2>2. slot \in [Place -> Handle \cup {NoHandle}] /\ at \in [Handle -> Place \cup {NoPlace}]
    BY <1>0 DEF TypeOK
  <2> QED BY <1>1, <2>1, <2>2
<1>4. TypeOK'
  <2>1. /\ slot' \in [Place -> Handle \cup {NoHandle}] /\ at' \in [Handle -> Place \cup {NoPlace}]
        /\ cancelled' \subseteq Handle
    BY <1>0, <1>1 DEF TypeOK
  <2>2. ASSUME NEW q \in Place, slot'[q] # NoHandle PROVE at'[slot'[q]] = q
    <3>1. CASE q = p
      BY <1>3, <3>1
    <3>2. CASE q # p
      <4>1. slot[q] \in Handle /\ slot'[q] = slot[q] /\ at[slot[q]] = q
        BY <1>0, <1>3, <2>2, <3>2 DEF TypeOK
      <4>2. slot[q] # h
        BY <1>1, <4>1 DEF Place
      <4> QED BY <1>3, <4>1, <4>2
    <3> QED BY <3>1, <3>2
  <2> QED BY <1>0, <1>1, <1>2, <2>1, <2>2 DEF TypeOK, world, life
<1>5. NeverBusy' /\ RegisteredIsWatched'
  <2>1. \A q \in Place : slot'[q] \in Handle \ (cancelled' \cup failed) /\ nursery = "open"
                          => task'[slot'[q]] \notin {"none", "ended"}
    <3> SUFFICES ASSUME NEW q \in Place, slot'[q] \in Handle \ (cancelled' \cup failed),
                        nursery = "open"
                 PROVE  task'[slot'[q]] \notin {"none", "ended"}
      OBVIOUS
    <3>1. CASE q = p
      BY <1>2, <1>3, <3>1
    <3>2. CASE q # p
      <4>1. slot'[q] = slot[q] /\ slot[q] # h
        BY <1>0, <1>1, <1>3, <3>2 DEF TypeOK, Place
      <4>2. slot[q] \in Handle \ (cancelled \cup failed)
        BY <1>1, <4>1
      <4> QED BY <1>0, <1>2, <4>1, <4>2 DEF RegisteredIsWatched
    <3> QED BY <3>1, <3>2
  <2> QED BY <1>0, <1>1, <2>1 DEF NeverBusy, RegisteredIsWatched, life
<1>6. nursery' = "closed" => \A g \in Handle : task'[g] \in {"none", "ended"}
  BY <1>0, <1>1, <1>2 DEF life
<1>7. \A g \in Handle : Registered(g)'
  BY <1>0, <1>1, <1>2, <1>3 DEF TypeOK, Registered, Blocked
<1>8. \A g \in Handle : Synchronized(g)'
  BY <1>1, <1>2, SyncFrame
<1> QED BY <1>4, <1>5, <1>6, <1>7, <1>8 DEF IInv

LEMMA CancelStep ==
  ASSUME IInv, (\E p \in Place : Remove(p)) \/ \E h \in Handle : Cancel(h)
  PROVE  IInv'
<1> USE IoAssumption
<1>0. /\ TypeOK /\ NeverBusy /\ RegisteredIsWatched
      /\ nursery = "closed" => \A g \in Handle : task[g] \in {"none", "ended"}
      /\ \A g \in Handle : Registered(g) /\ Synchronized(g)
  BY DEF IInv
<1>1. PICK h \in Handle :
        /\ at[h] # NoPlace /\ cancelled' = cancelled \cup {h}
        /\ task' = Aborted({h})
        /\ \/ slot' = slot
           \/ slot' = [slot EXCEPT ![at[h]] = NoHandle] /\ slot[at[h]] = h
        /\ UNCHANGED <<at, failed, busy, world, queue, user, by, life>>
  <2>1. ASSUME NEW p \in Place, Remove(p)
        PROVE  slot[p] \in Handle /\ at[slot[p]] = p
    BY <1>0, <2>1 DEF Remove, TypeOK
  <2>2. CASE \E p \in Place : Remove(p)
    <3>1. PICK p \in Place : Remove(p)
      BY <2>2
    <3>2. /\ cancelled' = cancelled \cup {slot[p]} /\ task' = Aborted({slot[p]})
          /\ slot' = [slot EXCEPT ![p] = NoHandle]
          /\ UNCHANGED <<at, failed, busy, world, queue, user, by, life>>
      BY <3>1 DEF Remove
    <3>3. at[slot[p]] # NoPlace
      BY <2>1, <3>1 DEF Place
    <3> DEFINE g == slot[p]
    <3>4. /\ g \in Handle /\ at[g] # NoPlace /\ cancelled' = cancelled \cup {g}
          /\ task' = Aborted({g})
          /\ slot' = [slot EXCEPT ![at[g]] = NoHandle] /\ slot[at[g]] = g
          /\ UNCHANGED <<at, failed, busy, world, queue, user, by, life>>
      BY <2>1, <3>1, <3>2, <3>3
    <3> HIDE DEF g
    <3> QED BY <3>4
  <2>3. CASE \E h \in Handle : Cancel(h)
    BY <2>3 DEF Cancel
  <2> QED BY <2>2, <2>3
<1>2. /\ task' \in [Handle -> {"none", "starting", "waiting", "woken", "calling",
                               "syncing", "synced", "ended"}]
      /\ \A g \in Handle :
           task'[g] # task[g] =>
             g = h /\ task[g] \in {"waiting", "syncing"} /\ task'[g] = "ended"
      /\ task'[h] \notin {"waiting", "syncing"}
  BY <1>0, <1>1, AbortedTasks
<1>3. TypeOK'
  <2>1. /\ slot' \in [Place -> Handle \cup {NoHandle}]
        /\ \A p \in Place : slot'[p] \in {slot[p], NoHandle}
    BY <1>0, <1>1 DEF TypeOK
  <2>2. at' = at /\ \A p \in Place : slot'[p] # NoHandle => at'[slot'[p]] = p
    BY <1>0, <1>1, <2>1 DEF TypeOK
  <2>3. cancelled' \subseteq Handle
    BY <1>0, <1>1 DEF TypeOK
  <2> QED BY <1>0, <1>1, <1>2, <2>1, <2>2, <2>3 DEF TypeOK, world, life
<1>4. /\ \A p \in Place : slot'[p] \in {slot[p], NoHandle}
      /\ \A g \in Handle \ {h} :
           at[g] # NoPlace /\ slot[at[g]] = g => slot'[at[g]] = g
  BY <1>0, <1>1 DEF TypeOK
<1>5. NeverBusy' /\ RegisteredIsWatched'
  BY <1>0, <1>1, <1>2, <1>4 DEF NeverBusy, RegisteredIsWatched, life
<1>6. nursery' = "closed" => \A g \in Handle : task'[g] \in {"none", "ended"}
  BY <1>0, <1>1, <1>2 DEF life
<1>7. \A g \in Handle : Registered(g)'
  BY <1>0, <1>1, <1>2, <1>4 DEF Registered, Blocked
<1>8. \A g \in Handle : Synchronized(g)'
  BY <1>1, <1>2, SyncFrame
<1> QED BY <1>3, <1>5, <1>6, <1>7, <1>8 DEF IInv

\* No handle meets another: of those at a place, only the registered one is
\* not cancelled, and a cancelled one does not sleep.
LEMMA NotTaken ==
  ASSUME IInv, NEW h \in Handle, task[h] # "none", h \notin cancelled
  PROVE  ~Taken(h)
BY IoAssumption DEF IInv, TypeOK, Registered, Taken, Blocked

\* The steps of a handler's task that call nothing.
LEMMA TaskStepInv ==
  ASSUME IInv, NEW h \in Handle, Breaks(h) \/ WaitFails(h) \/ Waits(h) \/ Wake(h)
  PROVE  IInv'
<1> USE IoAssumption
<1>0. /\ TypeOK /\ NeverBusy /\ RegisteredIsWatched
      /\ nursery = "closed" => \A g \in Handle : task[g] \in {"none", "ended"}
      /\ \A g \in Handle : Registered(g) /\ Synchronized(g)
  BY DEF IInv
<1>1. PICK s \in {"ended", "waiting", "woken"} :
        /\ task' = [task EXCEPT ![h] = s]
        /\ s = "waiting" => h \notin cancelled /\ nursery = "open"
        /\ s = "ended" => h \in cancelled \/ h \in failed' \/ nursery # "open"
        /\ task[h] \notin {"none", "calling", "syncing", "ended"}
        /\ failed \subseteq failed' /\ failed' \subseteq failed \cup {h} /\ busy' = busy
        /\ UNCHANGED <<sel, world, queue, user, by, life>>
  <2>1. CASE Breaks(h)
    BY <2>1 DEF Breaks, AtTop, Becomes
  <2>2. CASE WaitFails(h)
    <3>1. ~Taken(h)
      BY <2>2, NotTaken DEF WaitFails, AtTop
    <3> QED BY <2>2, <3>1 DEF WaitFails, AtTop, Becomes
  <2>3. CASE Waits(h)
    BY <2>3 DEF Waits, AtTop, Becomes
  <2>4. CASE Wake(h)
    BY <2>4 DEF Wake, Becomes
  <2> QED BY <2>1, <2>2, <2>3, <2>4
<1>3. TypeOK'
  BY <1>0, <1>1 DEF TypeOK, sel, world, life
<1>4. NeverBusy' /\ RegisteredIsWatched'
  BY <1>0, <1>1 DEF TypeOK, NeverBusy, RegisteredIsWatched, sel, life
<1>5. nursery' = "closed" => \A g \in Handle : task'[g] \in {"none", "ended"}
  BY <1>0, <1>1 DEF life
<1>6. \A g \in Handle : Registered(g)'
  BY <1>0, <1>1 DEF TypeOK, Registered, Blocked, sel
<1>7. \A g \in Handle : Synchronized(g)'
  BY <1>0, <1>1, SyncFrame DEF TypeOK
<1> QED BY <1>3, <1>4, <1>5, <1>6, <1>7 DEF IInv

\* Descriptors and the end of the loop.
LEMMA WorldStep ==
  ASSUME IInv,
         \/ \E p \in Place : Changes(p)
         \/ \E fd \in Fd : CloseFd(fd) \/ Mark(fd)
         \/ LoopStops \/ LoopExit
  PROVE  IInv'
<1> USE IoAssumption
<1>0. /\ TypeOK /\ NeverBusy /\ RegisteredIsWatched
      /\ nursery = "closed" => \A g \in Handle : task[g] \in {"none", "ended"}
      /\ \A g \in Handle : Registered(g) /\ Synchronized(g)
  BY DEF IInv
<1>1. /\ UNCHANGED <<sel, task, failed, busy, queue, user, by, nursery>>
      /\ ready' \subseteq Place /\ open' \subseteq Fd /\ closeFiles' \subseteq Fd
      /\ loop' \in {"running", "stopped", "closed"}
  BY <1>0 DEF Changes, CloseFd, Mark, LoopStops, LoopExit, TypeOK, world, life
<1>2. TypeOK'
  BY <1>0, <1>1 DEF TypeOK, sel
<1>3. NeverBusy' /\ RegisteredIsWatched'
  BY <1>0, <1>1 DEF NeverBusy, RegisteredIsWatched, sel
<1>4. nursery' = "closed" => \A g \in Handle : task'[g] \in {"none", "ended"}
  BY <1>0, <1>1
<1>5. \A g \in Handle : Registered(g)'
  BY <1>0, <1>1 DEF Registered, Blocked, sel
<1>6. \A g \in Handle : Synchronized(g)'
  BY <1>1, SyncFrame
<1> QED BY <1>2, <1>3, <1>4, <1>5, <1>6 DEF IInv

\* The nursery is cancelled, also by a callback that exits, and closes.
LEMMA NurseryStep ==
  ASSUME IInv, (\E h \in Handle : Exits(h)) \/ NurseryCancelled \/ NurseryCloses
  PROVE  IInv'
<1> USE IoAssumption
<1>0. /\ TypeOK /\ NeverBusy /\ RegisteredIsWatched
      /\ nursery = "closed" => \A g \in Handle : task[g] \in {"none", "ended"}
      /\ \A g \in Handle : Registered(g) /\ Synchronized(g)
  BY DEF IInv
<1>1. /\ UNCHANGED <<sel, failed, busy, world, queue, by, loop>>
      /\ nursery' \in {"cancelled", "closed"}
      /\ nursery' = "closed" =>
           task' = task /\ \A g \in Handle : task[g] \in {"none", "ended"}
  <2>1. ASSUME NEW h \in Handle, Exits(h)
        PROVE  UNCHANGED <<sel, failed, busy, world, queue, by, loop>> /\ nursery' = "cancelled"
    BY <2>1 DEF Exits
  <2> QED BY <2>1 DEF NurseryCancelled, NurseryCloses
<1>2. /\ task' \in [Handle -> {"none", "starting", "waiting", "woken", "calling",
                               "syncing", "synced", "ended"}]
      /\ user' \in Handle \cup {NoHandle}
      /\ \A g \in Handle : task'[g] = task[g] \/ task'[g] = "ended"
      /\ \A g \in Handle : task[g] = "none" => task'[g] = "none"
      /\ \A g \in Handle : task'[g] = "calling" <=> user' = g
      /\ \A g \in cancelled : task'[g] \notin {"waiting", "syncing"}
  <2>1. ASSUME NEW h \in Handle, Exits(h)
        PROVE  /\ task' = [Aborted(Handle) EXCEPT ![h] = "ended"]
               /\ user = h /\ user' = NoHandle /\ task[h] = "calling"
               /\ \A g \in Handle \ {h} : task[g] # "calling"
    BY <1>0, <2>1 DEF Exits, Synchronized
  <2>2. CASE \E h \in Handle : Exits(h)
    BY <1>0, <2>1, <2>2, AbortedTasks DEF TypeOK
  <2>3. CASE NurseryCancelled
    BY <1>0, <2>3, AbortedTasks DEF NurseryCancelled, TypeOK, Synchronized
  <2>4. CASE NurseryCloses
    BY <1>0, <2>4 DEF NurseryCloses, TypeOK, Synchronized, Registered, Blocked
  <2> QED BY <2>2, <2>3, <2>4
<1>3. TypeOK'
  BY <1>0, <1>1, <1>2 DEF TypeOK, sel, world
<1>4. NeverBusy' /\ RegisteredIsWatched'
  BY <1>0, <1>1 DEF NeverBusy, RegisteredIsWatched
<1>5. nursery' = "closed" => \A g \in Handle : task'[g] \in {"none", "ended"}
  BY <1>1
<1>6. \A g \in Handle : Registered(g)'
  BY <1>0, <1>1, <1>2 DEF Registered, Blocked, sel
<1>7. \A g \in Handle : Synchronized(g)'
  BY <1>0, <1>1, <1>2 DEF Synchronized, SeqSet
<1> QED BY <1>3, <1>4, <1>5, <1>6, <1>7 DEF IInv

\* The callback is called; nothing that it scheduled before is left.
LEMMA RunStep ==
  ASSUME IInv, NEW h \in Handle, Runs(h)
  PROVE  IInv'
<1> USE IoAssumption
<1>0. /\ TypeOK /\ NeverBusy /\ RegisteredIsWatched
      /\ nursery = "closed" => \A g \in Handle : task[g] \in {"none", "ended"}
      /\ \A g \in Handle : Registered(g) /\ Synchronized(g)
  BY DEF IInv
<1>1. /\ task[h] = "woken" /\ user = NoHandle /\ h \notin cancelled
      /\ task' = [task EXCEPT ![h] = "calling"] /\ user' = h
      /\ UNCHANGED <<sel, failed, busy, world, queue, by, life>>
  BY DEF Runs, Becomes
<1>2. TypeOK'
  BY <1>0, <1>1 DEF TypeOK, sel, world, life
<1>3. NeverBusy' /\ RegisteredIsWatched'
  BY <1>0, <1>1 DEF TypeOK, NeverBusy, RegisteredIsWatched, sel, life
<1>4. nursery' = "closed" => \A g \in Handle : task'[g] \in {"none", "ended"}
  BY <1>0, <1>1 DEF life
<1>5. \A g \in Handle : Registered(g)'
  BY <1>0, <1>1 DEF TypeOK, Registered, Blocked, sel
<1>6. \A g \in Handle : Synchronized(g)'
  BY <1>0, <1>1 DEF TypeOK, Synchronized, SeqSet
<1> QED BY <1>2, <1>3, <1>4, <1>5, <1>6 DEF IInv

\* What a callback schedules is its own.
LEMMA ScheduleStep ==
  ASSUME IInv, NEW c \in Callback, CallSoon(c)
  PROVE  IInv'
<1> USE IoAssumption
<1>0. /\ TypeOK /\ NeverBusy /\ RegisteredIsWatched
      /\ nursery = "closed" => \A g \in Handle : task[g] \in {"none", "ended"}
      /\ \A g \in Handle : Registered(g) /\ Synchronized(g)
  BY DEF IInv
<1>1. /\ user \in Handle /\ by[c] = NoHandle
      /\ by' = [by EXCEPT ![c] = user] /\ queue' = Append(queue, c)
      /\ UNCHANGED <<sel, task, failed, busy, world, user, life>>
  BY <1>0 DEF CallSoon, TypeOK
<1>2. TypeOK'
  BY <1>0, <1>1, AppendedQueue DEF TypeOK, sel, world, life
<1>3. NeverBusy' /\ RegisteredIsWatched'
  BY <1>0, <1>1 DEF NeverBusy, RegisteredIsWatched, sel, life
<1>4. nursery' = "closed" => \A g \in Handle : task'[g] \in {"none", "ended"}
  BY <1>0, <1>1 DEF life
<1>5. \A g \in Handle : Registered(g)'
  BY <1>0, <1>1 DEF Registered, Blocked, sel
<1>6. ASSUME NEW g \in Handle PROVE Synchronized(g)'
  <2> DEFINE n == Len(queue) + 1
  <2>1. /\ DOMAIN queue' = DOMAIN queue \cup {n} /\ DOMAIN queue = 1 .. Len(queue)
        /\ Len(queue) \in Nat /\ queue'[n] = c
        /\ \A i \in DOMAIN queue : queue'[i] = queue[i]
    BY <1>0, <1>1, AppendedQueue
  <2>2. c \notin Handle
    OBVIOUS
  <2>3. \A i \in DOMAIN queue : queue[i] \in Callback /\ by'[queue[i]] = g =>
           by[queue[i]] = g \/ (user = g /\ task[g] = "calling")
    BY <1>0, <1>1 DEF TypeOK, Synchronized
  <2>4. by'[c] = g => task[g] = "calling"
    BY <1>0, <1>1 DEF TypeOK, Synchronized
  <2> HIDE DEF n
  <2>5. \A i \in DOMAIN queue' :
          queue'[i] \in Callback /\ by'[queue'[i]] = g =>
            \/ task'[g] \in {"calling", "ended"}
            \/ task'[g] = "syncing" /\ \E j \in DOMAIN queue' : i < j /\ queue'[j] = g
    BY <1>0, <1>1, <2>1, <2>3, <2>4 DEF Synchronized
  <2>6. /\ user' = g <=> task'[g] = "calling"
        /\ g \in SeqSet(queue') => task'[g] \in {"syncing", "ended"}
        /\ \A i, j \in DOMAIN queue' : queue'[i] = g /\ queue'[j] = g => i = j
    BY <1>0, <1>1, <2>1, <2>2 DEF Synchronized, SeqSet
  <2> QED BY <2>5, <2>6 DEF Synchronized
<1> QED BY <1>2, <1>3, <1>4, <1>5, <1>6 DEF IInv

\* synchronize() queues up behind what the callback scheduled.
LEMMA ReturnStep ==
  ASSUME IInv, NEW h \in Handle, Returns(h)
  PROVE  IInv'
<1> USE IoAssumption
<1>0. /\ TypeOK /\ NeverBusy /\ RegisteredIsWatched
      /\ nursery = "closed" => \A g \in Handle : task[g] \in {"none", "ended"}
      /\ \A g \in Handle : Registered(g) /\ Synchronized(g)
  BY DEF IInv
<1>1. PICK s \in {"ended", "syncing"} :
        /\ s = "ended" <=> h \in cancelled \/ nursery # "open"
        /\ user = h /\ user' = NoHandle /\ task[h] = "calling"
        /\ task' = [task EXCEPT ![h] = s] /\ queue' = Append(queue, h)
        /\ UNCHANGED <<sel, failed, busy, world, by, life>>
  BY <1>0 DEF Returns, Becomes, Synchronized
<1>2. TypeOK'
  BY <1>0, <1>1, AppendedQueue DEF TypeOK, sel, world, life
<1>3. NeverBusy' /\ RegisteredIsWatched'
  BY <1>0, <1>1 DEF TypeOK, NeverBusy, RegisteredIsWatched, sel, life
<1>4. nursery' = "closed" => \A g \in Handle : task'[g] \in {"none", "ended"}
  BY <1>0, <1>1 DEF life
<1>5. \A g \in Handle : Registered(g)'
  BY <1>0, <1>1 DEF TypeOK, Registered, Blocked, sel
<1>6. ASSUME NEW g \in Handle PROVE Synchronized(g)'
  <2> DEFINE n == Len(queue) + 1
  <2>1. /\ DOMAIN queue' = DOMAIN queue \cup {n} /\ DOMAIN queue = 1 .. Len(queue)
        /\ Len(queue) \in Nat /\ queue'[n] = h
        /\ \A i \in DOMAIN queue : queue'[i] = queue[i] /\ i < n
    BY <1>0, <1>1, AppendedQueue
  <2>2. \A k \in Handle \ {h} : task'[k] = task[k] /\ task[k] # "calling"
    BY <1>0, <1>1 DEF TypeOK, Synchronized
  <2>3. task'[h] = s /\ h \notin SeqSet(queue) /\ h \notin Callback
    BY <1>0, <1>1 DEF TypeOK, Synchronized
  <2> HIDE DEF n
  <2>4. CASE g = h
    BY <1>1, <2>1, <2>3, <2>4 DEF Synchronized, SeqSet
  <2>5. CASE g # h
    BY <1>0, <1>1, <2>1, <2>2, <2>3, <2>5 DEF Synchronized, SeqSet
  <2> QED BY <2>4, <2>5
<1> QED BY <1>2, <1>3, <1>4, <1>5, <1>6 DEF IInv

\* Its event is served when nothing of what the callback scheduled is left.
LEMMA ServeStep ==
  ASSUME IInv, Serve
  PROVE  IInv'
<1> USE IoAssumption
<1>0. /\ TypeOK /\ NeverBusy /\ RegisteredIsWatched
      /\ nursery = "closed" => \A g \in Handle : task[g] \in {"none", "ended"}
      /\ \A g \in Handle : Registered(g) /\ Synchronized(g)
  BY DEF IInv
<1>1. /\ queue # <<>> /\ user = NoHandle /\ queue' = Tail(queue)
      /\ UNCHANGED <<sel, failed, busy, world, user, by, life>>
      /\ task' \in [Handle -> {"none", "starting", "waiting", "woken", "calling",
                               "syncing", "synced", "ended"}]
      /\ \A g \in Handle : task'[g] = IF g = Head(queue) /\ task[g] = "syncing"
                                      THEN "synced" ELSE task[g]
  BY <1>0 DEF Serve, TypeOK
<1>2. TypeOK'
  BY <1>0, <1>1, ServedQueue DEF TypeOK, sel, world, life
<1>3. NeverBusy' /\ RegisteredIsWatched'
  BY <1>0, <1>1 DEF TypeOK, NeverBusy, RegisteredIsWatched, sel, life
<1>4. nursery' = "closed" => \A g \in Handle : task'[g] \in {"none", "ended"}
  BY <1>0, <1>1 DEF life
<1>5. \A g \in Handle : Registered(g)'
  BY <1>0, <1>1 DEF TypeOK, Registered, Blocked, sel
<1>6. ASSUME NEW g \in Handle PROVE Synchronized(g)'
  <2>1. /\ Head(queue) = queue[1] /\ 1 \in DOMAIN queue
        /\ DOMAIN queue \subseteq Nat /\ \A i \in DOMAIN queue : i >= 1
        /\ \A i \in DOMAIN queue' :
             i \in Nat \ {0} /\ i + 1 \in DOMAIN queue /\ queue'[i] = queue[i + 1]
        /\ \A i \in DOMAIN queue : i > 1 => i - 1 \in DOMAIN queue' /\ queue'[i - 1] = queue[i]
    BY <1>0, <1>1, ServedQueue
  <2>2. task[g] # "calling" /\ task'[g] # "calling"
    BY <1>0, <1>1 DEF Synchronized
  <2>3. /\ g \in SeqSet(queue') => task'[g] \in {"syncing", "ended"}
        /\ \A i, j \in DOMAIN queue' : queue'[i] = g /\ queue'[j] = g => i = j
    <3>1. ASSUME g \in SeqSet(queue')
          PROVE  g \in SeqSet(queue) /\ Head(queue) # g
      <4>1. PICK i \in DOMAIN queue' : queue'[i] = g
        BY <3>1 DEF SeqSet
      <4>2. i + 1 \in DOMAIN queue /\ queue[i + 1] = g /\ i + 1 # 1
        BY <2>1, <4>1
      <4> QED BY <1>0, <2>1, <4>2 DEF Synchronized, SeqSet
    <3>2. ASSUME NEW i \in DOMAIN queue', NEW j \in DOMAIN queue',
                 queue'[i] = g, queue'[j] = g
          PROVE  i = j
      <4>1. i + 1 = j + 1
        BY <1>0, <2>1, <3>2 DEF Synchronized
      <4> QED BY <2>1, <4>1
    <3> QED BY <1>0, <1>1, <3>1, <3>2 DEF Synchronized
  <2>4. ASSUME NEW i \in DOMAIN queue', queue'[i] \in Callback, by'[queue'[i]] = g
        PROVE  \/ task'[g] \in {"calling", "ended"}
               \/ task'[g] = "syncing" /\ \E j \in DOMAIN queue' : i < j /\ queue'[j] = g
    <3>1. /\ i \in Nat /\ i + 1 \in DOMAIN queue
          /\ queue[i + 1] \in Callback /\ by[queue[i + 1]] = g
      BY <1>1, <2>1, <2>4
    <3>2. CASE task[g] = "ended"
      BY <1>1, <3>2
    <3>3. CASE task[g] # "ended"
      <4>1. PICK j \in DOMAIN queue : i + 1 < j /\ queue[j] = g /\ task[g] = "syncing"
        BY <1>0, <2>2, <3>1, <3>3 DEF Synchronized
      <4>2. j - 1 \in DOMAIN queue' /\ queue'[j - 1] = g /\ i < j - 1 /\ j # 1
        BY <2>1, <3>1, <4>1
      <4>3. Head(queue) # g
        BY <1>0, <2>1, <4>1, <4>2 DEF Synchronized
      <4> QED BY <1>1, <4>1, <4>2, <4>3
    <3> QED BY <3>2, <3>3
  <2> QED BY <1>1, <2>2, <2>3, <2>4, <1>0 DEF Synchronized
<1> QED BY <1>2, <1>3, <1>4, <1>5, <1>6 DEF IInv

LEMMA InvStep == IInv /\ [Next]_vars => IInv'
<1> SUFFICES ASSUME IInv, [Next]_vars PROVE IInv'
  OBVIOUS
<1>1. CASE UNCHANGED vars
  BY <1>1 DEF vars, sel, world, life, IInv, TypeOK, NeverBusy, RegisteredIsWatched, Registered,
              Synchronized, Blocked, SeqSet
<1> QED BY <1>1, AddStep, CancelStep, TaskStepInv, WorldStep, NurseryStep, RunStep,
           ScheduleStep, ReturnStep, ServeStep DEF Next, TaskStep

-----------------------------------------------------------------------------
(* Theorems.                                                                *)

(* The selector's map, the tasks of the handlers and the nursery agree at   *)
(* every step.                                                              *)
THEOREM Invariant == Spec => []IInv
BY InitInv, InvStep, PTL DEF Spec

(* However handlers are replaced, removed and cancelled, also from their    *)
(* own callbacks, none is ever lost to trio's BusyResourceError.            *)
THEOREM HandlersNeverMeet == Spec => []NeverBusy
<1>1. IInv => NeverBusy
  BY DEF IInv
<1> QED BY Invariant, <1>1, PTL

(* A registered handler always has a task, unless somebody cancelled it or  *)
(* it reported an error.                                                    *)
THEOREM HandlersAreServed == Spec => []RegisteredIsWatched
<1>1. IInv => RegisteredIsWatched
  BY DEF IInv
<1> QED BY Invariant, <1>1, PTL

(* Between two calls of a handler's callback all that the first scheduled   *)
(* has been served.                                                         *)
THEOREM CallsAreSynchronized == Spec => ServedBetweenCalls
<1> DEFINE Served == \A h \in Handle, c \in Callback :
                       user # h /\ user' = h /\ by[c] = h => c \notin SeqSet(queue)
<1>1. IInv /\ [Next]_vars => [Served]_vars
  <2> SUFFICES ASSUME IInv, Next,
                      NEW h \in Handle, NEW c \in Callback, user # h, user' = h, by[c] = h
               PROVE  c \notin SeqSet(queue)
    OBVIOUS
  <2>1. task[h] = "woken"
    <3>1. h # NoHandle
      BY IoAssumption
    <3>2. ASSUME NEW g \in Handle, Returns(g) \/ Exits(g) PROVE user' # h
      BY <3>1, <3>2 DEF Returns, Exits
    <3>3. ASSUME NEW g \in Handle, Runs(g) PROVE task[h] = "woken"
      BY <3>3 DEF Runs
    <3>4. Serve \/ LoopStops \/ NurseryCancelled \/ NurseryCloses \/ LoopExit => user' = user
      BY DEF Serve, LoopStops, NurseryCancelled, NurseryCloses, LoopExit
    <3>5. ASSUME NEW g \in Handle, NEW p \in Place, Add(g, p) \/ Remove(p) \/ Changes(p)
          PROVE  user' = user
      BY <3>5 DEF Add, Remove, Changes
    <3>6. ASSUME NEW g \in Handle,
                 Cancel(g) \/ Breaks(g) \/ WaitFails(g) \/ Waits(g) \/ Wake(g)
          PROVE  user' = user
      BY <3>6 DEF Cancel, Breaks, WaitFails, Waits, Wake
    <3>7. \A d \in Callback : CallSoon(d) => user' = user
      BY DEF CallSoon
    <3>8. \A fd \in Fd : CloseFd(fd) \/ Mark(fd) => user' = user
      BY DEF CloseFd, Mark
    <3> QED BY <3>2, <3>3, <3>4, <3>5, <3>6, <3>7, <3>8 DEF Next, TaskStep
  <2>2. Synchronized(h)
    BY DEF IInv
  <2> QED BY <2>1, <2>2 DEF Synchronized, SeqSet
<1>2. Spec => [][Served]_vars
  BY Invariant, <1>1, PTL DEF Spec
<1> QED BY <1>2 DEF ServedBetweenCalls

\* A task that synchronizes has its event's turn to come.
SyncDue == \A h \in Handle : task[h] = "syncing" => \E i \in DOMAIN queue : queue[i] = h

LEMMA SyncDueStep == IInv /\ SyncDue /\ [Next]_vars => SyncDue'
<1> SUFFICES ASSUME IInv, SyncDue, [Next]_vars, NEW h \in Handle, task'[h] = "syncing"
             PROVE  \E i \in DOMAIN queue' : queue'[i] = h
  BY DEF SyncDue
<1>0. TypeOK
  BY DEF IInv
<1>1. CASE task[h] = "syncing" /\ UNCHANGED queue
  BY <1>1 DEF SyncDue
<1>2. ASSUME NEW x \in Handle \cup Callback, queue' = Append(queue, x),
             task[h] = "syncing" \/ x = h
      PROVE  \E i \in DOMAIN queue' : queue'[i] = h
  <2>1. CASE x = h
    BY <1>0, <1>2, <2>1, AppendedQueue
  <2>2. CASE task[h] = "syncing"
    <3>1. PICK i \in DOMAIN queue : queue[i] = h
      BY <2>2 DEF SyncDue
    <3> QED BY <1>0, <1>2, <3>1, AppendedQueue
  <2> QED BY <1>2, <2>1, <2>2
<1>3. CASE Serve
  <2>1. task[h] = "syncing" /\ h # Head(queue) /\ queue # <<>> /\ queue' = Tail(queue)
    BY <1>3 DEF Serve
  <2>2. PICK i \in DOMAIN queue : queue[i] = h
    BY <2>1 DEF SyncDue
  <2>3. i > 1
    BY <1>0, <2>1, <2>2, ServedQueue
  <2> QED BY <1>0, <2>1, <2>2, <2>3, ServedQueue
<1>4. ASSUME NEW g \in Handle, Returns(g) PROVE \E i \in DOMAIN queue' : queue'[i] = h
  <2>1. queue' = Append(queue, g) /\ (task[h] = "syncing" \/ g = h)
    BY <1>0, <1>4 DEF Returns, Becomes, TypeOK
  <2> QED BY <1>2, <2>1
<1>5. ASSUME NEW c \in Callback, CallSoon(c) PROVE \E i \in DOMAIN queue' : queue'[i] = h
  BY <1>2, <1>5 DEF CallSoon
<1>6. CASE (\E g \in Handle, p \in Place : Add(g, p)) \/ (\E p \in Place : Remove(p))
           \/ (\E g \in Handle : Cancel(g) \/ Exits(g)) \/ NurseryCancelled
  <2>1. UNCHANGED queue
    BY <1>6 DEF Add, Remove, Cancel, Exits, NurseryCancelled
  <2>2. task[h] = "syncing"
    <3>1. \/ task' = task \/ (\E S : task' = Aborted(S))
          \/ \E S, g, t : t \in {"starting", "ended"} /\ task' = [Aborted(S) EXCEPT ![g] = t]
      BY <1>6 DEF Add, Remove, Cancel, Exits, NurseryCancelled
    <3>2. \A S : Aborted(S)[h] = "syncing" => task[h] = "syncing"
      BY <1>0, AbortedTasks
    <3>3. ASSUME NEW S, NEW g, NEW t \in {"starting", "ended"},
                 task' = [Aborted(S) EXCEPT ![g] = t]
          PROVE  Aborted(S)[h] = "syncing"
      BY <3>3 DEF Aborted
    <3> QED BY <3>1, <3>2, <3>3
  <2> QED BY <1>1, <2>1, <2>2
<1>7. ASSUME NEW g \in Handle, TaskStep(g) \/ Wake(g)
      PROVE  task[h] = "syncing" /\ UNCHANGED queue
  BY <1>0, <1>7 DEF TaskStep, Breaks, WaitFails, Waits, Runs, Wake, Becomes, TypeOK
<1>8. CASE \/ UNCHANGED vars \/ (\E p \in Place : Changes(p))
           \/ (\E fd \in Fd : CloseFd(fd) \/ Mark(fd))
           \/ LoopStops \/ NurseryCloses \/ LoopExit
  <2>1. UNCHANGED <<task, queue>>
    BY <1>8 DEF vars, Changes, CloseFd, Mark, LoopStops, NurseryCloses, LoopExit
  <2> QED BY <1>1, <2>1
<1> QED BY <1>1, <1>3, <1>4, <1>5, <1>6, <1>7, <1>8 DEF Next

(* A handler that is to be called is never on its way to nothing: its task  *)
(* waits for the descriptor and is alone there, or for an event that the    *)
(* loop will set.                                                           *)
THEOREM CallComes == Spec => []CallIsDue
<1>1. Init => SyncDue
  BY DEF Init, SyncDue
<1>2. IInv /\ SyncDue => CallIsDue
  <2> SUFFICES ASSUME IInv, SyncDue, NEW h \in Handle, at[h] # NoPlace, Serviceable(h)
               PROVE  /\ task[h] \notin {"none", "ended"} /\ ~Taken(h)
                      /\ task[h] = "syncing" => h \in SeqSet(queue)
                      /\ task[h] = "calling" => user = h
    BY DEF CallIsDue
  <2>1. at[h] \in Place
    BY DEF IInv, TypeOK
  <2>2. task[h] \notin {"none", "ended"}
    BY <2>1 DEF Serviceable, IInv, RegisteredIsWatched
  <2>3. ~Taken(h)
    BY <2>2, NotTaken DEF Serviceable
  <2>4. task[h] = "syncing" => h \in SeqSet(queue)
    BY DEF SyncDue, SeqSet
  <2>5. task[h] = "calling" => user = h
    BY DEF IInv, Synchronized
  <2> QED BY <2>2, <2>3, <2>4, <2>5
<1> QED BY Invariant, SyncDueStep, <1>1, <1>2, PTL DEF Spec

=============================================================================
