-------------------------- MODULE LoopContextProofs --------------------------
(***************************************************************************)
(* The safety properties of LoopContext, for every number of tasks, loops, *)
(* callbacks and generators, and any nesting of allow_asyncio().           *)
(***************************************************************************)
EXTENDS LoopContext, FiniteSetTheorems, SequenceTheorems, TLAPS

\* The context of a task names the loop that it has opened last, and leaving
\* that one restores the one before; only the last can be draining.
BlocksInv(t) ==
  /\ opened[t] # <<>> => t \in started /\ ctx[t].loop = Innermost(t)
  /\ \A i \in 1 .. Len(opened[t]) :
       /\ IsOpen(opened[t][i].loop)
       /\ i < Len(opened[t]) => phase[opened[t][i].loop] = "running"
       /\ i > 1 => opened[t][i].old = opened[t][i - 1].loop

\* A loop is open in one block of one task.
OpenerInv ==
  /\ \A l \in Loop : IsOpen(l) =>
       \E t \in Task : \E i \in 1 .. Len(opened[t]) : opened[t][i].loop = l
  /\ \A t, u \in Task : \A i \in 1 .. Len(opened[t]), j \in 1 .. Len(opened[u]) :
       opened[t][i].loop = opened[u][j].loop => t = u /\ i = j

\* A Trio function called by trio_as_aio() starts one task, once.
QueueInv ==
  /\ \A h \in queued : h.what \in Task => h.what \notin started
  /\ \A h, k \in queued : h.what \in Task /\ h.what = k.what => h = k

MainInv == \A l \in Loop : phase[l] # "new" => mainCtx[l].loop = l

HomeInv == (\A t \in Task : BlocksInv(t)) /\ OpenerInv /\ QueueInv /\ MainInv

\* The loops that share a dispatcher.
Users(d) == {l \in Loop : uses[l] = d}

\* They are those that have not restored the hooks, and it counts them.
HookInv ==
  /\ \A l \in Loop : (uses[l] = Trio <=> phase[l] \in {"new", "closed"}) /\ uses[l] \in {Trio, hook}
  /\ hook # Trio => Users(hook) # {}
  /\ \A d \in Loop : IsFiniteSet(Users(d)) /\ refcnt[d] = Cardinality(Users(d))

\* A generator whose aclose() is due has a handle for it in its loop.
GenInv(g) ==
  /\ gen[g].home = born[g]
  /\ gen[g].state = "closing" =>
       /\ gen[g].home \in Loop /\ phase[gen[g].home] # "closed"
       /\ phase[gen[g].home] = "failed"
            \/ \E h \in queued : h.what = g /\ h.loop = gen[g].home
  /\ gen[g].state = "live" /\ born[g] # Trio =>
       phase[born[g]] = "running" \/ born[g] \in stopped

\* The shim runs for a task from the first of its calls on, unless it runs for
\* the task's whole life.
ShimInv(t) ==
  /\ t \notin started => allow[t] = <<>>
  /\ t \in started \ inside =>
       /\ ctx[t].shim <=> allow[t] # <<>>
       /\ \A i \in 1 .. Len(allow[t]) : allow[t][i] = "trampoline" <=> i = 1

IInv ==
  /\ TypeOK
  /\ HomeInv
  /\ HookInv
  /\ \A g \in Gen : GenInv(g)
  /\ \A t \in Task : ShimInv(t)

\* A block of open_loop().
Block == [loop : Loop, old : Loop \cup {Trio}]

LEMMA LastFacts ==
  ASSUME NEW S, NEW s \in Seq(S), s # <<>>
  PROVE  /\ Len(s) \in Nat \ {0} /\ Last(s) \in S /\ Last(s) = s[Len(s)]
         /\ Front(s) \in Seq(S) /\ Len(Front(s)) = Len(s) - 1
         /\ \A i \in 1 .. Len(s) - 1 : Front(s)[i] = s[i]
<1>1. Len(s) \in Nat \ {0}
  BY EmptySeq
<1>2. \A i \in 1 .. Len(s) : s[i] \in S
  BY ElementOfSeq
<1>3. Last(s) = s[Len(s)] /\ Last(s) \in S
  BY <1>1, <1>2 DEF Last
<1>4. \A i \in 1 .. Len(s) - 1 : s[i] \in S
  BY <1>1, <1>2
<1>5. /\ Front(s) \in Seq(S) /\ Len(Front(s)) = Len(s) - 1
      /\ \A i \in 1 .. Len(s) - 1 : Front(s)[i] = s[i]
  <2> DEFINE n == Len(s) - 1
  <2>0. n \in Nat
    BY <1>1
  <2>2. \A i \in 1 .. n : s[i] \in S
    BY <1>4
  <2> HIDE DEF n
  <2>1. /\ n \in Int /\ 1 \in Int /\ n - 1 + 1 = n /\ (IF 1 <= n THEN n ELSE 0) = n
        /\ \A i \in 1 .. n : 1 + i - 1 = i
    BY <2>0
  <2>3. /\ SubSeq(s, 1, n) \in Seq(S) /\ Len(SubSeq(s, 1, n)) = n
        /\ \A i \in 1 .. n : SubSeq(s, 1, n)[i] = s[i]
    BY <2>1, <2>2, SubSeqProperties
  <2> QED BY <2>3 DEF Front, n
<1> QED BY <1>1, <1>3, <1>5

\* What a task does by itself, with the loops it has opened.
LEMMA BlockFacts ==
  ASSUME TypeOK, NEW t \in Task, opened[t] # <<>>
  PROVE  /\ Len(opened[t]) \in Nat \ {0} /\ Innermost(t) \in Loop
         /\ Last(opened[t]) \in Block /\ Last(opened[t]) = opened[t][Len(opened[t])]
         /\ Front(opened[t]) \in Seq(Block) /\ Len(Front(opened[t])) = Len(opened[t]) - 1
         /\ \A i \in 1 .. Len(opened[t]) - 1 : Front(opened[t])[i] = opened[t][i]
<1>1. opened[t] \in Seq(Block)
  BY DEF TypeOK, Block
<1>2. /\ Len(opened[t]) \in Nat \ {0}
      /\ Last(opened[t]) \in Block /\ Last(opened[t]) = opened[t][Len(opened[t])]
      /\ Front(opened[t]) \in Seq(Block) /\ Len(Front(opened[t])) = Len(opened[t]) - 1
      /\ \A i \in 1 .. Len(opened[t]) - 1 : Front(opened[t])[i] = opened[t][i]
  BY <1>1, LastFacts
<1> QED BY <1>2 DEF Innermost, Block

\* get_running_loop() in a callback.
LEMMA FindsFacts ==
  ASSUME TypeOK, HomeInv, NEW h \in queued, IsOpen(h.loop)
  PROVE  Finds(h) = h.loop
<1> DEFINE l == h.loop
<1>1. l \in Loop /\ phase[l] \in {"running", "draining"}
  BY DEF IsOpen
<1>2. CASE phase[l] = "running"
  BY <1>1, <1>2 DEF Finds, RunningLoop, TaskCtx, HomeInv, MainInv
<1>3. CASE phase[l] = "draining"
  <2>1. Opener(l) \in Task /\ \E i \in 1 .. Len(opened[Opener(l)]) : opened[Opener(l)][i].loop = l
    <3>1. \A t \in Task : DOMAIN opened[t] = 1 .. Len(opened[t])
      BY LenProperties DEF TypeOK
    <3>2. \E t \in Task : \E i \in DOMAIN opened[t] : opened[t][i].loop = l
      BY <1>1, <3>1 DEF HomeInv, OpenerInv
    <3> QED BY <3>1, <3>2 DEF Opener
  <2> DEFINE t == Opener(l)
  <2> HIDE DEF t
  <2>2. PICK i \in 1 .. Len(opened[t]) : opened[t][i].loop = l
    BY <2>1 DEF t
  <2>3. t \in Task /\ opened[t] # <<>>
    BY <2>1, <2>2, EmptySeq DEF t
  <2>4. i = Len(opened[t])
    <3>1. BlocksInv(t)
      BY <2>3 DEF HomeInv
    <3>2. ~(i < Len(opened[t]))
      BY <1>3, <2>2, <3>1 DEF BlocksInv
    <3>3. Len(opened[t]) \in Nat
      BY <2>3, BlockFacts
    <3> QED BY <3>2, <3>3
  <2>5. ctx[t].loop = l
    BY <2>2, <2>3, <2>4, BlockFacts DEF HomeInv, BlocksInv, Innermost
  <2> QED BY <1>3, <2>5 DEF Finds, RunningLoop, TaskCtx, t
<1> QED BY <1>1, <1>2, <1>3

-----------------------------------------------------------------------------
(* Types.                                                                   *)

LEMMA InitType == Init => TypeOK
<1> SUFFICES ASSUME Init PROVE TypeOK
  OBVIOUS
<1>1. \A S : <<>> \in Seq(S)
  BY EmptySeq
<1>2. Empty \in Context
  BY DEF Empty, Context
<1> QED BY <1>1, <1>2, ContextAssumption DEF Init, TypeOK, GenState

LEMMA InstallType ==
  ASSUME TypeOK, NEW l \in Loop, Install(l)
  PROVE  hook' \in Loop /\ refcnt' \in [Loop -> Nat] /\ uses' \in [Loop -> Loop \cup {Trio}]
<1> DEFINE d == IF hook = Trio THEN l ELSE hook
<1>1. d \in Loop
  BY DEF TypeOK
<1>2. hook' = d /\ refcnt' = [refcnt EXCEPT ![d] = @ + 1] /\ uses' = [uses EXCEPT ![l] = d]
  BY DEF Install
<1> QED BY <1>1, <1>2 DEF TypeOK

\* Each of the two variables of a context is set without the other.
LEMMA ContextFacts ==
  ASSUME NEW c \in Context
  PROVE  /\ \A x \in Loop \cup {Trio} : [c EXCEPT !.loop = x] \in Context
         /\ \A b \in BOOLEAN : [c EXCEPT !.shim = b] \in Context
BY DEF Context

LEMMA ExitType ==
  ASSUME TypeOK, NEW t \in Task, NEW l \in Loop, NEW end \in {"closed", "failed"}, Exit(t, l, end)
  PROVE  /\ ctx' \in [Task -> Context] /\ opened' \in [Task -> Seq(Block)]
         /\ phase' \in [Loop -> {"new", "running", "draining", "closed", "failed"}]
<1>1. opened[t] # <<>>
  BY DEF Exit
<1>2. Last(opened[t]) \in Block /\ Front(opened[t]) \in Seq(Block)
  BY <1>1, BlockFacts
<1>3. [ctx[t] EXCEPT !.loop = Last(opened[t]).old] \in Context
  <2>1. Last(opened[t]).old \in Loop \cup {Trio}
    BY <1>2 DEF Block
  <2>2. ctx[t] \in Context
    BY DEF TypeOK
  <2> QED BY <2>1, <2>2, ContextFacts
<1>4. ctx' = [ctx EXCEPT ![t] = [ctx[t] EXCEPT !.loop = Last(opened[t]).old]]
  BY DEF Exit
<1>5. ctx' \in [Task -> Context]
  BY <1>3, <1>4 DEF TypeOK
<1>6. opened' \in [Task -> Seq(Block)]
  BY <1>2 DEF Exit, TypeOK, Block
<1>7. phase' \in [Loop -> {"new", "running", "draining", "closed", "failed"}]
  BY DEF Exit, TypeOK
<1> QED BY <1>5, <1>6, <1>7

\* A handle is what the loop's channel is made for.
LEMMA HandleType ==
  ASSUME NEW what \in Call \cup Task \cup Gen, NEW l \in Loop, NEW context \in Context
  PROVE  Handle(what, l, context) \in [what : Call \cup Task \cup Gen, loop : Loop, ctx : Context]
BY DEF Handle

LEMMA TypeStep == TypeOK /\ HomeInv /\ HookInv /\ [Next]_vars => TypeOK'
<1> SUFFICES ASSUME TypeOK, HomeInv, HookInv, [Next]_vars PROVE TypeOK'
  OBVIOUS
<1> DEFINE Handles == [what : Call \cup Task \cup Gen, loop : Loop, ctx : Context]
<1>0. /\ ctx \in [Task -> Context] /\ started \in SUBSET Task /\ inside \in SUBSET started
      /\ opened \in [Task -> Seq(Block)]
      /\ phase \in [Loop -> {"new", "running", "draining", "closed", "failed"}]
      /\ mainCtx \in [Loop -> Context] /\ stopped \subseteq Loop /\ queued \subseteq Handles
      /\ hook \in Loop \cup {Trio} /\ refcnt \in [Loop -> Nat]
      /\ uses \in [Loop -> Loop \cup {Trio}]
      /\ gen \in [Gen -> [state : GenState, home : Loop \cup {Trio}]]
      /\ allow \in [Task -> Seq({"trampoline", "plain"})] /\ born \in [Gen -> Loop \cup {Trio}]
  BY DEF TypeOK, Block
<1> USE DEF taskVars, loopVars, hookVars, genVars
<1>1. ASSUME NEW t \in Task, NEW l \in Loop, OpenLoop(t, l) PROVE TypeOK'
  <2>1. /\ ctx' = [ctx EXCEPT ![t].loop = l] /\ phase' = [phase EXCEPT ![l] = "running"]
        /\ opened' = [opened EXCEPT ![t] = Append(opened[t], [loop |-> l, old |-> ctx[t].loop])]
        /\ mainCtx' = [mainCtx EXCEPT ![l] = ctx'[t]] /\ Install(l)
        /\ UNCHANGED <<started, allow, inside, stopped, queued, genVars>>
    BY <1>1 DEF OpenLoop
  <2>2. ctx' \in [Task -> Context]
    <3>1. [ctx[t] EXCEPT !.loop = l] \in Context
      BY <1>0, ContextFacts
    <3> QED BY <1>0, <2>1, <3>1
  <2>3. opened' \in [Task -> Seq(Block)]
    <3>1. [loop |-> l, old |-> ctx[t].loop] \in Block
      BY <1>0 DEF Block, Context
    <3>2. Append(opened[t], [loop |-> l, old |-> ctx[t].loop]) \in Seq(Block)
      BY <1>0, <3>1, AppendProperties
    <3> QED BY <1>0, <2>1, <3>2
  <2>4. hook' \in Loop /\ refcnt' \in [Loop -> Nat] /\ uses' \in [Loop -> Loop \cup {Trio}]
    BY <2>1, InstallType
  <2> QED BY <1>0, <2>1, <2>2, <2>3, <2>4 DEF TypeOK, Block
<1>2. ASSUME NEW t \in Task, NEW l \in Loop, LeaveBody(t, l) PROVE TypeOK'
  <2>1. gen' \in [Gen -> [state : GenState, home : Loop \cup {Trio}]]
    BY <1>0, <1>2 DEF LeaveBody, GenState
  <2> QED BY <1>0, <1>2, <2>1 DEF LeaveBody, TypeOK, Block
<1>3. ASSUME NEW t \in Task, NEW l \in Loop, CloseLoop(t, l) PROVE TypeOK'
  <2>1. Exit(t, l, "closed") /\ Uninstall(l) /\ UNCHANGED queued
    BY <1>3 DEF CloseLoop
  <2>2. uses[l] \in Loop /\ refcnt[uses[l]] \in Nat \ {0}
    <3>1. phase[l] = "draining" /\ uses[l] \in Loop \cup {Trio}
      BY <1>0, <2>1 DEF Exit
    <3>2. uses[l] \in Loop /\ l \in Users(uses[l])
      BY <3>1 DEF HookInv, Users
    <3> QED BY <1>0, <3>2, FS_EmptySet DEF HookInv
  <2>3. refcnt' \in [Loop -> Nat] /\ hook' \in Loop \cup {Trio} /\ uses' \in [Loop -> Loop \cup {Trio}]
    BY <1>0, <2>1, <2>2 DEF Uninstall
  <2> QED BY <1>0, <2>1, <2>3, ExitType DEF Exit, TypeOK, Block
<1>4. ASSUME NEW t \in Task, NEW l \in Loop, DrainFails(t, l) PROVE TypeOK'
  BY <1>0, <1>4, ExitType DEF DrainFails, Exit, TypeOK, Block
<1>5. ASSUME NEW t \in Task, NEW l \in Loop, SetEventLoop(t, l) PROVE TypeOK'
  <2>1. ctx' \in [Task -> Context]
    <3>1. [ctx[t] EXCEPT !.loop = l] \in Context
      BY <1>0, ContextFacts
    <3> QED BY <1>0, <1>5, <3>1 DEF SetEventLoop
  <2> QED BY <1>0, <1>5, <2>1 DEF SetEventLoop, TypeOK, Block
<1>6. ASSUME NEW t \in Task, AllowAsyncio(t) PROVE TypeOK'
  <2>1. PICK a \in {"trampoline", "plain"} : allow' = [allow EXCEPT ![t] = Append(allow[t], a)]
    BY <1>6 DEF AllowAsyncio
  <2>2. Append(allow[t], a) \in Seq({"trampoline", "plain"})
    BY <1>0, AppendProperties
  <2>3. ctx' \in [Task -> Context]
    <3>1. [ctx[t] EXCEPT !.shim = TRUE] \in Context
      BY <1>0, ContextFacts
    <3> QED BY <1>0, <1>6, <3>1 DEF AllowAsyncio
  <2>4. allow' \in [Task -> Seq({"trampoline", "plain"})]
    BY <1>0, <2>1, <2>2
  <2>5. UNCHANGED <<started, opened, inside, phase, loopVars, queued, hookVars, genVars>>
    BY <1>6 DEF AllowAsyncio
  <2> QED BY <1>0, <2>3, <2>4, <2>5 DEF TypeOK, Block
<1>7. ASSUME NEW t \in Task, AllowReturns(t) PROVE TypeOK'
  <2>1. Front(allow[t]) \in Seq({"trampoline", "plain"})
    BY <1>0, <1>7, LastFacts DEF AllowReturns
  <2>2. PICK b \in BOOLEAN : ctx' = [ctx EXCEPT ![t].shim = b]
    <3>1. ctx' = [ctx EXCEPT ![t].shim = (ctx[t].shim /\ Last(allow[t]) = "plain")]
      BY <1>7 DEF AllowReturns
    <3>2. (ctx[t].shim /\ Last(allow[t]) = "plain") \in BOOLEAN
      OBVIOUS
    <3> QED BY <3>1, <3>2
  <2>4. ctx' \in [Task -> Context]
    <3>1. [ctx[t] EXCEPT !.shim = b] \in Context
      BY <1>0, ContextFacts
    <3> QED BY <1>0, <2>2, <3>1
  <2> QED BY <1>0, <1>7, <2>1, <2>4 DEF AllowReturns, TypeOK, Block
<1>8. ASSUME NEW t \in Task, NEW child \in Task, StartSoon(t, child) PROVE TypeOK'
  BY <1>0, <1>8 DEF StartSoon, Starts, TypeOK, Block
<1>9. ASSUME NEW t \in Task, NEW c \in Call, AioAsTrio(t, c) PROVE TypeOK'
  <2>1. PICK l \in Loop : queued' = queued \cup {Handle(c, l, ctx[t])}
    BY <1>9 DEF AioAsTrio
  <2>2. queued' \subseteq Handles
    BY <1>0, <2>1, HandleType
  <2> QED BY <1>0, <1>9, <2>2 DEF AioAsTrio, TypeOK, Block
<1>10. ASSUME NEW t \in Task, NEW g \in Gen, TrioIterates(t, g) PROVE TypeOK'
  BY <1>0, <1>10 DEF TrioIterates, FirstIter, TypeOK, GenState, Block
<1>11. ASSUME NEW h \in queued, Runs(h) PROVE TypeOK'
  <2>1. h.loop \in Loop /\ h.ctx \in Context
    BY <1>0
  <2>2. queued' \subseteq Handles
    <3>1. CASE queued' = queued \ {h}
      BY <1>0, <3>1
    <3>2. ASSUME NEW t \in Task, IsOpen(WrapperLoop(h.ctx)),
                 queued' = (queued \ {h}) \cup {Handle(t, WrapperLoop(h.ctx), h.ctx)}
          PROVE  queued' \subseteq Handles
      <4>1. WrapperLoop(h.ctx) \in Loop
        BY <1>0, <2>1, <3>2, ContextAssumption DEF IsOpen, WrapperLoop, Context
      <4> QED BY <1>0, <2>1, <3>2, <4>1, HandleType
    <3>3. ASSUME NEW c \in Call, NEW l \in Loop, queued' = (queued \ {h}) \cup {Handle(c, l, h.ctx)}
          PROVE  queued' \subseteq Handles
      BY <1>0, <2>1, <3>3, HandleType
    <3> QED BY <1>11, <3>1, <3>2, <3>3 DEF Runs
  <2> QED BY <1>0, <1>11, <2>2 DEF Runs, TypeOK, Block
<1>12. ASSUME NEW h \in queued, Spawns(h) PROVE TypeOK'
  <2>1. h.ctx \in Context
    BY <1>0
  <2> QED BY <1>0, <1>12, <2>1 DEF Spawns, Starts, TypeOK, Block
<1>13. ASSUME NEW h \in queued, Finalizes(h) PROVE TypeOK'
  <2>1. gen' \in [Gen -> [state : GenState, home : Loop \cup {Trio}]]
    <3>1. gen' = [gen EXCEPT ![h.what].state = "closed"] /\ h.what \in Gen
      BY <1>13 DEF Finalizes
    <3>2. \A g \in Gen : gen[g] \in [state : GenState, home : Loop \cup {Trio}]
      BY <1>0
    <3>3. [gen[h.what] EXCEPT !.state = "closed"] \in [state : GenState, home : Loop \cup {Trio}]
      BY <3>1, <3>2 DEF GenState
    <3>4. gen' = [gen EXCEPT ![h.what] = [gen[h.what] EXCEPT !.state = "closed"]]
      BY <3>1
    <3> HIDE DEF GenState
    <3> QED BY <1>0, <3>1, <3>3, <3>4
  <2>2. queued' \subseteq Handles
    BY <1>0, <1>13 DEF Finalizes
  <2> QED BY <1>0, <1>13, <2>1, <2>2 DEF Finalizes, TypeOK, Block
<1>14. ASSUME NEW h \in queued, NEW g \in Gen, Iterates(h, g) PROVE TypeOK'
  <2>1. Finds(h) \in Loop /\ h.loop \in Loop
    BY <1>0, <1>14, FindsFacts DEF Iterates, Takes
  <2> QED BY <1>0, <1>14, <2>1 DEF Iterates, FirstIter, TypeOK, GenState, Block
<1>15. ASSUME NEW g \in Gen, Collect(g) PROVE TypeOK'
  <2>1. Empty \in Context
    BY DEF Empty, Context
  <2>2. gen[g].home # Trio => gen[g].home \in Loop
    BY <1>0
  <2>3. queued' \subseteq Handles
    BY <1>0, <1>15, <2>1, <2>2, HandleType DEF Collect, FinalizerHook
  <2>4. gen' \in [Gen -> [state : GenState, home : Loop \cup {Trio}]]
    <3>1. PICK s \in GenState : gen' = [gen EXCEPT ![g].state = s]
      BY <1>15 DEF Collect, FinalizerHook, GenState
    <3> QED BY <1>0, <3>1
  <2> QED BY <1>0, <1>15, <2>3, <2>4 DEF Collect, TypeOK, Block
<1>16. ASSUME NEW l \in Loop, MainLoopEnds(l) PROVE TypeOK'
  BY <1>0, <1>16 DEF MainLoopEnds, TypeOK, Block
<1>17. CASE UNCHANGED vars
  BY <1>17 DEF vars, TypeOK
<1> QED BY <1>1, <1>2, <1>3, <1>4, <1>5, <1>6, <1>7, <1>8, <1>9, <1>10, <1>11, <1>12, <1>13, <1>14,
           <1>15, <1>16, <1>17 DEF Next

-----------------------------------------------------------------------------
(* Whose loop is it?                                                        *)

LEMMA InitHome == Init => HomeInv
<1> SUFFICES ASSUME Init PROVE HomeInv
  OBVIOUS
<1>1. \A t \in Task : opened[t] = <<>> /\ Len(opened[t]) = 0
  BY EmptySeq DEF Init
<1>2. \A l \in Loop : phase[l] = "new"
  BY DEF Init
<1> QED BY <1>1, <1>2 DEF Init, HomeInv, BlocksInv, OpenerInv, QueueInv, MainInv, IsOpen

LEMMA Lengths == TypeOK => \A t \in Task : Len(opened[t]) \in Nat /\ (opened[t] # <<>> <=> Len(opened[t]) # 0)
BY EmptySeq, LenProperties DEF TypeOK

\* The queue gets at most one handle more, for a task that is not used yet.
LEMMA QueueKept ==
  ASSUME QueueInv, UNCHANGED started, NEW k, queued' \subseteq queued \cup {k},
         k.what \in Task => Unused(k.what)
  PROVE  QueueInv'
BY DEF QueueInv, Unused

\* Nobody opens or leaves a loop.
LEMMA HomeKept ==
  ASSUME HomeInv, UNCHANGED <<opened, phase, mainCtx>>, started \subseteq started', QueueInv',
         \A u \in Task : opened[u] # <<>> => ctx'[u].loop = ctx[u].loop
  PROVE  HomeInv'
<1>1. \A u \in Task : BlocksInv(u)'
  BY DEF HomeInv, BlocksInv, Innermost, IsOpen
<1> QED BY <1>1 DEF HomeInv, OpenerInv, MainInv, IsOpen

LEMMA OpenLoopHome ==
  ASSUME TypeOK, HomeInv, NEW t \in Task, NEW l \in Loop, OpenLoop(t, l)
  PROVE  HomeInv'
<1> DEFINE n == Len(opened[t])
           b == [loop |-> l, old |-> ctx[t].loop]
<1>1. /\ t \in started /\ (opened[t] # <<>> => phase[Innermost(t)] = "running") /\ phase[l] = "new"
      /\ ctx' = [ctx EXCEPT ![t].loop = l] /\ phase' = [phase EXCEPT ![l] = "running"]
      /\ opened' = [opened EXCEPT ![t] = Append(opened[t], b)]
      /\ mainCtx' = [mainCtx EXCEPT ![l] = ctx'[t]] /\ UNCHANGED <<started, queued>>
  BY DEF OpenLoop, Free
<1>2. b \in Block /\ b.loop = l /\ b.old = ctx[t].loop
  BY DEF Block, TypeOK, Context
<1>3. /\ n \in Nat /\ Len(opened'[t]) = n + 1 /\ opened'[t] # <<>>
      /\ opened'[t] \in Seq(Block) /\ opened'[t][n + 1] = b
      /\ \A i \in 1 .. n : opened'[t][i] = opened[t][i]
  <2>1. opened[t] \in Seq(Block) /\ opened'[t] = Append(opened[t], b)
    BY <1>1 DEF TypeOK, Block
  <2> HIDE DEF b
  <2> QED BY <1>2, <2>1, AppendProperties, LenProperties
<1>4. ctx'[t].loop = l /\ \A u \in Task \ {t} : ctx'[u] = ctx[u] /\ opened'[u] = opened[u]
  BY <1>1 DEF TypeOK, Context
<1>5. phase'[l] = "running" /\ \A k \in Loop \ {l} : phase'[k] = phase[k] /\ mainCtx'[k] = mainCtx[k]
  BY <1>1 DEF TypeOK
<1>6. \A u \in Task : \A i \in 1 .. Len(opened[u]) :
        LET k == opened[u][i].loop IN IsOpen(k) /\ k # l /\ phase'[k] = phase[k] /\ IsOpen(k)'
  BY <1>1, <1>5 DEF HomeInv, BlocksInv, IsOpen
<1> HIDE DEF n, b
<1>7. BlocksInv(t)'
  <2>1. opened'[t] # <<>> /\ t \in started' /\ ctx'[t].loop = Innermost(t)'
    <3>1. Last(opened'[t]) = opened'[t][Len(opened'[t])]
      BY <1>3, LastFacts
    <3> QED BY <1>1, <1>2, <1>3, <1>4, <3>1 DEF Innermost
  <2>2. ASSUME NEW i \in 1 .. n + 1
        PROVE  /\ IsOpen(opened[t][i].loop)'
               /\ i < n + 1 => phase'[opened'[t][i].loop] = "running"
               /\ i > 1 => opened'[t][i].old = opened'[t][i - 1].loop
    <3>1. CASE i = n + 1
      <4>1. n > 0 => opened[t] # <<>> /\ ctx[t].loop = opened[t][n].loop
        BY Lengths, BlockFacts DEF HomeInv, BlocksInv, Innermost, n
      <4>2. n > 0 => n \in 1 .. n /\ i - 1 = n
        BY <1>3, <3>1
      <4> QED BY <1>2, <1>3, <1>5, <3>1, <4>1, <4>2 DEF IsOpen
    <3>2. CASE i # n + 1
      <4>1. i \in 1 .. n /\ (i > 1 => i - 1 \in 1 .. n) /\ (i < n \/ i = n)
        BY <1>3, <3>2
      <4>2. i = n => phase[opened[t][i].loop] = "running"
        BY <1>1, <4>1, Lengths, BlockFacts DEF Innermost, n
      <4>3. i < n => phase[opened[t][i].loop] = "running"
        BY <4>1 DEF HomeInv, BlocksInv, n
      <4>4. i > 1 => opened[t][i].old = opened[t][i - 1].loop
        BY <4>1 DEF HomeInv, BlocksInv, n
      <4> QED BY <1>3, <1>6, <4>1, <4>2, <4>3, <4>4 DEF n
    <3> QED BY <3>1, <3>2
  <2> QED BY <1>3, <2>1, <2>2 DEF BlocksInv
<1>8. ASSUME NEW u \in Task \ {t} PROVE BlocksInv(u)'
  BY <1>1, <1>4, <1>6 DEF HomeInv, BlocksInv, Innermost
<1>9. OpenerInv'
  <2>1. ASSUME NEW k \in Loop, IsOpen(k)'
        PROVE  \E u \in Task : \E i \in 1 .. Len(opened'[u]) : opened'[u][i].loop = k
    <3>1. CASE k = l
      <4>1. n + 1 \in 1 .. Len(opened'[t])
        BY <1>3
      <4> QED BY <1>2, <1>3, <3>1, <4>1
    <3>2. CASE k # l
      <4>1. PICK u \in Task : \E i \in 1 .. Len(opened[u]) : opened[u][i].loop = k
        BY <1>5, <2>1, <3>2 DEF HomeInv, OpenerInv, IsOpen
      <4>2. CASE u = t
        <5>1. 1 .. n \subseteq 1 .. Len(opened'[t])
          BY <1>3
        <5> QED BY <1>3, <4>1, <4>2, <5>1 DEF n
      <4>3. CASE u # t
        BY <1>4, <4>1, <4>3
      <4> QED BY <4>2, <4>3
    <3> QED BY <3>1, <3>2
  <2>2. ASSUME NEW u \in Task, NEW i \in 1 .. Len(opened'[u])
        PROVE  \/ u = t /\ i = n + 1 /\ opened'[u][i].loop = l
               \/ i \in 1 .. Len(opened[u]) /\ opened'[u][i] = opened[u][i] /\ opened[u][i].loop # l
    <3>1. CASE u = t
      BY <1>2, <1>3, <1>6, <3>1 DEF n
    <3>2. CASE u # t
      BY <1>4, <1>6, <3>2
    <3> QED BY <3>1, <3>2
  <2>3. ASSUME NEW u \in Task, NEW v \in Task,
               NEW i \in 1 .. Len(opened'[u]), NEW j \in 1 .. Len(opened'[v]),
               opened'[u][i].loop = opened'[v][j].loop
        PROVE  u = v /\ i = j
    <3> DEFINE new(v1, i1) == v1 = t /\ i1 = n + 1
    <3>1. CASE new(u, i)
      <4>1. opened'[u][i].loop = l
        <5>1. i # n + 1 \/ u # t \/ opened'[u][i].loop = l
          <6>1. u = t => opened'[u][n + 1].loop = l
            BY <1>2, <1>3
          <6> QED BY <6>1
        <5> QED BY <3>1, <5>1
      <4>2. opened'[v][j].loop = l
        BY <2>3, <4>1
      <4>3. \/ v = t /\ j = n + 1 /\ opened'[v][j].loop = l
            \/ opened'[v][j] = opened[v][j] /\ opened[v][j].loop # l
        BY <2>2
      <4>4. v = t /\ j = n + 1
        BY <4>2, <4>3
      <4> QED BY <3>1, <4>4
    <3>2. CASE ~new(u, i)
      <4>1. i \in 1 .. Len(opened[u]) /\ opened'[u][i] = opened[u][i] /\ opened[u][i].loop # l
        BY <2>2, <3>2
      <4>2. j \in 1 .. Len(opened[v]) /\ opened'[v][j] = opened[v][j]
        BY <2>2, <2>3, <4>1
      <4> QED BY <2>3, <4>1, <4>2 DEF HomeInv, OpenerInv
    <3> QED BY <3>1, <3>2
  <2> QED BY <2>1, <2>3 DEF OpenerInv
<1>10. MainInv'
  BY <1>1, <1>4, <1>5 DEF HomeInv, MainInv, TypeOK
<1>11. QueueInv'
  BY <1>1 DEF HomeInv, QueueInv
<1> QED BY <1>7, <1>8, <1>9, <1>10, <1>11 DEF HomeInv

\* The innermost loop of a task is in no other block.
LEMMA InnermostFacts ==
  ASSUME TypeOK, HomeInv, NEW t \in Task, opened[t] # <<>>, NEW l \in Loop, l = Innermost(t)
  PROVE  /\ Len(opened[t]) \in Nat \ {0} /\ opened[t][Len(opened[t])].loop = l
         /\ \A u \in Task : \A i \in 1 .. Len(opened[u]) :
              opened[u][i].loop = l => u = t /\ i = Len(opened[t])
<1>1. Len(opened[t]) \in Nat \ {0} /\ opened[t][Len(opened[t])].loop = l
  BY BlockFacts DEF Innermost
<1>2. Len(opened[t]) \in 1 .. Len(opened[t])
  BY <1>1
<1> QED BY <1>1, <1>2 DEF HomeInv, OpenerInv

LEMMA LeaveBodyHome ==
  ASSUME TypeOK, HomeInv, NEW t \in Task, NEW l \in Loop, LeaveBody(t, l)
  PROVE  HomeInv'
<1>1. /\ opened[t] # <<>> /\ l = Innermost(t) /\ phase[l] = "running"
      /\ phase' = [phase EXCEPT ![l] = "draining"]
      /\ UNCHANGED <<ctx, started, opened, mainCtx, queued>>
  BY DEF LeaveBody, taskVars, loopVars
<1>2. phase'[l] = "draining" /\ \A k \in Loop \ {l} : phase'[k] = phase[k]
  BY <1>1 DEF TypeOK
<1>3. \A k \in Loop : (IsOpen(k)' <=> IsOpen(k)) /\ (phase'[k] = "new" => phase[k] = "new")
  BY <1>1, <1>2 DEF IsOpen
<1>4. ASSUME NEW u \in Task PROVE BlocksInv(u)'
  <2>1. ASSUME NEW i \in 1 .. Len(opened[u]), i < Len(opened[u])
        PROVE  opened[u][i].loop # l
    BY <1>1, <2>1, InnermostFacts
  <2>2. \A i \in 1 .. Len(opened[u]) : opened[u][i].loop \in Loop
    BY DEF HomeInv, BlocksInv, IsOpen
  <2> QED BY <1>1, <1>2, <1>3, <2>1, <2>2 DEF HomeInv, BlocksInv, Innermost
<1>5. OpenerInv'
  BY <1>1, <1>3 DEF HomeInv, OpenerInv
<1> QED BY <1>1, <1>3, <1>4, <1>5 DEF HomeInv, QueueInv, MainInv

LEMMA ExitHome ==
  ASSUME TypeOK, HomeInv, NEW t \in Task, NEW l \in Loop, NEW end \in {"closed", "failed"},
         Exit(t, l, end), queued' \subseteq queued
  PROVE  HomeInv'
<1> DEFINE n == Len(opened[t])
<1>1. /\ opened[t] # <<>> /\ l = Innermost(t)
      /\ phase' = [phase EXCEPT ![l] = end]
      /\ ctx' = [ctx EXCEPT ![t].loop = Last(opened[t]).old]
      /\ opened' = [opened EXCEPT ![t] = Front(opened[t])]
      /\ UNCHANGED <<started, mainCtx>>
  BY DEF Exit, loopVars
<1>2. phase'[l] = end /\ \A k \in Loop \ {l} : phase'[k] = phase[k]
  BY <1>1 DEF TypeOK
<1>3. /\ ctx'[t].loop = opened[t][n].old /\ opened'[t] = Front(opened[t])
      /\ \A u \in Task \ {t} : ctx'[u] = ctx[u] /\ opened'[u] = opened[u]
  <2>1. Last(opened[t]) = opened[t][n]
    BY <1>1, BlockFacts
  <2> HIDE DEF n
  <2> QED BY <1>1, <2>1 DEF TypeOK, Context
<1>4. /\ n \in Nat \ {0} /\ Len(opened'[t]) = n - 1 /\ opened'[t] \in Seq(Block)
      /\ \A i \in 1 .. n - 1 : opened'[t][i] = opened[t][i]
  BY <1>1, <1>3, BlockFacts
<1> HIDE DEF n
<1>5. ASSUME NEW u \in Task, NEW i \in 1 .. Len(opened'[u])
      PROVE  /\ i \in 1 .. Len(opened[u]) /\ opened'[u][i] = opened[u][i]
             /\ opened[u][i].loop \in Loop \ {l}
             /\ u = t => i < n
  <2>1. /\ i \in 1 .. Len(opened[u]) /\ opened'[u][i] = opened[u][i] /\ (u = t => i < n)
    <3>1. CASE u = t
      BY <1>4, <3>1 DEF n
    <3>2. CASE u # t
      BY <1>3, <3>2
    <3> QED BY <3>1, <3>2
  <2>2. opened[u][i].loop # l
    BY <1>1, <2>1, InnermostFacts DEF n
  <2> QED BY <2>1, <2>2 DEF HomeInv, BlocksInv, IsOpen
<1>6. ASSUME NEW u \in Task PROVE BlocksInv(u)'
  <2>1. ASSUME NEW i \in 1 .. Len(opened'[u])
        PROVE  /\ IsOpen(opened[u][i].loop)'
               /\ i < Len(opened'[u]) => phase'[opened'[u][i].loop] = "running"
               /\ i > 1 => opened'[u][i].old = opened'[u][i - 1].loop
    <3>1. i < Len(opened'[u]) => i < Len(opened[u])
      BY <1>3, <1>4 DEF n
    <3>2. IsOpen(opened[u][i].loop) /\ phase'[opened[u][i].loop] = phase[opened[u][i].loop]
      BY <1>2, <1>5 DEF HomeInv, BlocksInv
    <3>3. i > 1 => i - 1 \in 1 .. Len(opened'[u])
      <4>1. Len(opened'[u]) \in Nat
        BY <1>3, <1>4, Lengths
      <4> QED BY <4>1
    <3>4. BlocksInv(u) /\ i \in 1 .. Len(opened[u]) /\ opened'[u][i] = opened[u][i]
      BY <1>5 DEF HomeInv
    <3>5. IsOpen(opened[u][i].loop)'
      <4>1. opened'[u][i] = opened[u][i]
        BY <3>4
      <4> QED BY <3>2, <4>1 DEF IsOpen
    <3>6. i < Len(opened'[u]) => phase'[opened'[u][i].loop] = "running"
      BY <3>1, <3>2, <3>4 DEF BlocksInv
    <3>7. i > 1 => opened'[u][i].old = opened'[u][i - 1].loop
      BY <1>5, <3>3, <3>4 DEF BlocksInv
    <3> QED BY <3>5, <3>6, <3>7
  <2>2. ASSUME opened'[u] # <<>> PROVE u \in started' /\ ctx'[u].loop = Innermost(u)'
    <3>1. CASE u = t
      <4>1. n - 1 \in 1 .. n - 1 /\ n \in 1 .. n /\ n > 1
        BY <1>4, <2>2, <3>1, EmptySeq
      <4>2. Innermost(u)' = opened[t][n - 1].loop
        <5>1. Last(opened'[t]) = opened'[t][n - 1]
          BY <1>4, <2>2, <3>1, LastFacts
        <5>2. opened'[t][n - 1] = opened[t][n - 1]
          BY <1>4, <4>1
        <5> QED BY <3>1, <5>1, <5>2 DEF Innermost
      <4> QED BY <1>1, <1>3, <3>1, <4>1, <4>2 DEF HomeInv, BlocksInv, n
    <3>2. CASE u # t
      BY <1>1, <1>3, <2>2, <3>2 DEF HomeInv, BlocksInv, Innermost
    <3> QED BY <3>1, <3>2
  <2> QED BY <2>1, <2>2 DEF BlocksInv
<1>7. OpenerInv'
  <2>1. ASSUME NEW k \in Loop, IsOpen(k)'
        PROVE  \E u \in Task : \E i \in 1 .. Len(opened'[u]) : opened'[u][i].loop = k
    <3>1. k # l /\ IsOpen(k)
      BY <1>2, <2>1 DEF IsOpen
    <3>2. PICK u \in Task : \E i \in 1 .. Len(opened[u]) : opened[u][i].loop = k
      BY <3>1 DEF HomeInv, OpenerInv
    <3>3. PICK i \in 1 .. Len(opened[u]) : opened[u][i].loop = k
      BY <3>2
    <3>4. CASE u = t
      <4>1. i # n
        BY <1>1, <3>1, <3>3, <3>4, InnermostFacts DEF n
      <4>2. i \in 1 .. Len(opened'[t]) /\ opened'[t][i] = opened[t][i]
        BY <1>4, <3>4, <4>1 DEF n
      <4> QED BY <3>3, <3>4, <4>2
    <3>5. CASE u # t
      BY <1>3, <3>3, <3>5
    <3> QED BY <3>4, <3>5
  <2>2. ASSUME NEW u \in Task, NEW v \in Task,
               NEW i \in 1 .. Len(opened'[u]), NEW j \in 1 .. Len(opened'[v]),
               opened'[u][i].loop = opened'[v][j].loop
        PROVE  u = v /\ i = j
    <3>1. i \in 1 .. Len(opened[u]) /\ opened'[u][i] = opened[u][i]
      BY <1>5
    <3>2. j \in 1 .. Len(opened[v]) /\ opened'[v][j] = opened[v][j]
      BY <1>5
    <3>3. opened[u][i].loop = opened[v][j].loop
      BY <2>2, <3>1, <3>2
    <3> QED BY <3>1, <3>2, <3>3 DEF HomeInv, OpenerInv
  <2> QED BY <2>1, <2>2 DEF OpenerInv
<1>8. MainInv'
  BY <1>1, <1>2 DEF HomeInv, MainInv, Exit
<1>9. QueueInv'
  BY <1>1 DEF HomeInv, QueueInv
<1> QED BY <1>6, <1>7, <1>8, <1>9 DEF HomeInv

\* Every other step leaves the blocks as they are.
LEMMA HomeStep == TypeOK /\ HomeInv /\ [Next]_vars => HomeInv'
<1> SUFFICES ASSUME TypeOK, HomeInv, [Next]_vars PROVE HomeInv'
  OBVIOUS
<1> USE DEF taskVars, loopVars
<1>0. QueueInv /\ \A t \in Task : opened[t] # <<>> => t \in started
  BY DEF HomeInv, BlocksInv
<1>1. ASSUME NEW t \in Task, NEW l \in Loop, CloseLoop(t, l) \/ DrainFails(t, l) PROVE HomeInv'
  BY <1>1, ExitHome DEF CloseLoop, DrainFails
<1>2. ASSUME NEW t \in Task, NEW l \in Loop, SetEventLoop(t, l) PROVE HomeInv'
  <2>1. QueueInv'
    BY <1>0, <1>2 DEF SetEventLoop, QueueInv
  <2>2. \A u \in Task : opened[u] # <<>> => ctx'[u].loop = ctx[u].loop
    BY <1>2 DEF SetEventLoop, TypeOK
  <2> QED BY <1>2, <2>1, <2>2, HomeKept DEF SetEventLoop
<1>3. ASSUME NEW t \in Task, AllowAsyncio(t) \/ AllowReturns(t) PROVE HomeInv'
  <2>1. UNCHANGED <<opened, started, queued, phase, mainCtx>>
    BY <1>3 DEF AllowAsyncio, AllowReturns
  <2>2. QueueInv'
    BY <1>0, <2>1 DEF QueueInv
  <2>3. \A u \in Task : ctx'[u].loop = ctx[u].loop
    <3>1. PICK b : ctx' = [ctx EXCEPT ![t].shim = b]
      BY <1>3 DEF AllowAsyncio, AllowReturns
    <3> QED BY <3>1 DEF TypeOK, Context
  <2> QED BY <2>1, <2>2, <2>3, HomeKept
<1>4. ASSUME NEW t \in Task, NEW c \in Task, StartSoon(t, c) PROVE HomeInv'
  <2>1. /\ started' = started \cup {c} /\ ctx' = [ctx EXCEPT ![c] = ctx[t]] /\ Unused(c)
        /\ UNCHANGED <<opened, queued, phase, mainCtx>>
    BY <1>4 DEF StartSoon, Starts
  <2>2. QueueInv'
    BY <1>0, <2>1 DEF QueueInv, Unused
  <2>3. \A u \in Task : opened[u] # <<>> => ctx'[u].loop = ctx[u].loop
    BY <1>0, <2>1 DEF Unused, TypeOK
  <2> QED BY <2>1, <2>2, <2>3, HomeKept
<1>5. ASSUME NEW t \in Task, NEW c \in Call, AioAsTrio(t, c) PROVE HomeInv'
  <2>1. PICK l \in Loop : queued' = queued \cup {Handle(c, l, ctx[t])}
    BY <1>5 DEF AioAsTrio
  <2>2. UNCHANGED <<ctx, opened, started, phase, mainCtx>> /\ Unused(c)
    BY <1>5 DEF AioAsTrio
  <2>3. Handle(c, l, ctx[t]).what = c
    BY DEF Handle
  <2>4. QueueInv'
    BY <1>0, <2>1, <2>2, <2>3, QueueKept
  <2> QED BY <2>2, <2>4, HomeKept
<1>6. ASSUME NEW h \in queued, Runs(h) PROVE HomeInv'
  <2>1. UNCHANGED <<ctx, opened, started, phase, mainCtx>>
    BY <1>6 DEF Runs
  <2>2. PICK k : queued' \subseteq queued \cup {k} /\ (k.what \in Task => Unused(k.what))
    <3>1. CASE queued' = queued \ {h}
      <4>1. h.what \in Call /\ h.what \notin Task
        BY <1>6, ContextAssumption DEF Runs
      <4> QED BY <3>1, <4>1
    <3>2. ASSUME NEW w \in Task \cup Call, NEW l, Unused(w),
                 queued' = (queued \ {h}) \cup {Handle(w, l, h.ctx)}
          PROVE  \E k : queued' \subseteq queued \cup {k} /\ (k.what \in Task => Unused(k.what))
      <4> DEFINE k == Handle(w, l, h.ctx)
      <4>1. k.what = w
        BY DEF Handle
      <4> HIDE DEF k
      <4>2. queued' \subseteq queued \cup {k}
        BY <3>2 DEF k
      <4> QED BY <3>2, <4>1, <4>2
    <3>3. \/ queued' = queued \ {h}
          \/ \E w \in Task \cup Call : \E l :
               Unused(w) /\ queued' = (queued \ {h}) \cup {Handle(w, l, h.ctx)}
      BY <1>6 DEF Runs
    <3> QED BY <3>1, <3>2, <3>3
  <2>3. QueueInv'
    BY <1>0, <2>1, <2>2, QueueKept
  <2> QED BY <2>1, <2>3, HomeKept
<1>7. ASSUME NEW h \in queued, Spawns(h) PROVE HomeInv'
  <2>1. /\ h.what \in Task /\ started' = started \cup {h.what}
        /\ ctx' = [ctx EXCEPT ![h.what] = h.ctx] /\ queued' = queued \ {h}
        /\ UNCHANGED <<opened, phase, mainCtx>>
    BY <1>7 DEF Spawns, Starts
  <2>2. QueueInv'
    BY <1>0, <2>1 DEF QueueInv
  <2>3. \A u \in Task : opened[u] # <<>> => ctx'[u].loop = ctx[u].loop
    BY <1>0, <2>1 DEF QueueInv, TypeOK
  <2> QED BY <2>1, <2>2, <2>3, HomeKept
<1>8. CASE UNCHANGED <<ctx, opened, started, phase, mainCtx>> /\ queued' \subseteq queued
  <2>1. QueueInv'
    BY <1>0, <1>8 DEF QueueInv
  <2> QED BY <1>8, <2>1, HomeKept
<1>9. ASSUME NEW t \in Task, NEW g \in Gen, TrioIterates(t, g) PROVE HomeInv'
  BY <1>8, <1>9 DEF TrioIterates
<1>10. ASSUME NEW h \in queued, Finalizes(h) \/ \E g \in Gen : Iterates(h, g) PROVE HomeInv'
  BY <1>8, <1>10 DEF Finalizes, Iterates
<1>11. ASSUME NEW g \in Gen, Collect(g) PROVE HomeInv'
  <2>1. UNCHANGED <<ctx, opened, started, phase, mainCtx>>
    BY <1>11 DEF Collect
  <2>2. CASE queued' = queued
    BY <1>8, <2>1, <2>2
  <2>3. CASE queued' = queued \cup {Handle(g, gen[g].home, Empty)}
    <3>1. Handle(g, gen[g].home, Empty).what \notin Task
      BY ContextAssumption DEF Handle
    <3>2. QueueInv'
      BY <1>0, <2>1, <2>3, <3>1, QueueKept
    <3> QED BY <2>1, <3>2, HomeKept
  <2> QED BY <1>11, <2>2, <2>3 DEF Collect, FinalizerHook
<1>12. ASSUME NEW l \in Loop, MainLoopEnds(l) PROVE HomeInv'
  BY <1>8, <1>12 DEF MainLoopEnds
<1>13. CASE UNCHANGED vars
  BY <1>8, <1>13 DEF vars
<1> QED BY <1>1, <1>2, <1>3, <1>4, <1>5, <1>6, <1>7, <1>9, <1>10, <1>11, <1>12, <1>13,
           OpenLoopHome, LeaveBodyHome DEF Next

-----------------------------------------------------------------------------
(* Hooks.                                                                   *)

LEMMA InitHook == Init => HookInv
<1> SUFFICES ASSUME Init PROVE HookInv
  OBVIOUS
<1>1. \A d \in Loop : Users(d) = {}
  BY ContextAssumption DEF Init, Users
<1> QED BY <1>1, FS_EmptySet DEF Init, HookInv

LEMMA InstallHook ==
  ASSUME TypeOK, HookInv, NEW l \in Loop, phase[l] = "new", phase' = [phase EXCEPT ![l] = "running"],
         Install(l)
  PROVE  HookInv'
<1>0. PICK d \in Loop : d = IF hook = Trio THEN l ELSE hook
  BY DEF TypeOK
<1>1. /\ d \in Loop /\ d # Trio /\ hook' = d
      /\ refcnt' = [refcnt EXCEPT ![d] = refcnt[d] + 1] /\ uses' = [uses EXCEPT ![l] = d]
  BY <1>0, ContextAssumption DEF Install
<1>2. uses[l] = Trio /\ \A k \in Loop : uses[k] \in {Trio, d}
  BY <1>0 DEF HookInv, TypeOK
<1>3. /\ uses'[l] = d /\ phase'[l] = "running" /\ refcnt'[d] = refcnt[d] + 1
      /\ \A k \in Loop \ {l} : uses'[k] = uses[k] /\ phase'[k] = phase[k]
      /\ \A k \in Loop \ {d} : refcnt'[k] = refcnt[k]
  BY <1>1 DEF TypeOK
<1>4. Users(d)' = Users(d) \cup {l} /\ l \notin Users(d) /\ \A k \in Loop \ {d} : Users(k)' = Users(k)
  BY <1>1, <1>2, <1>3, ContextAssumption DEF Users
<1>5. \A k \in Loop : (uses'[k] = Trio <=> phase'[k] \in {"new", "closed"}) /\ uses'[k] \in {Trio, hook'}
  BY <1>1, <1>2, <1>3 DEF HookInv
<1>6. \A k \in Loop : IsFiniteSet(Users(k))' /\ refcnt'[k] = Cardinality(Users(k)')
  <2>1. IsFiniteSet(Users(d)) /\ refcnt[d] = Cardinality(Users(d))
    BY <1>1 DEF HookInv
  <2>2. IsFiniteSet(Users(d) \cup {l}) /\ Cardinality(Users(d) \cup {l}) = Cardinality(Users(d)) + 1
    BY <1>4, <2>1, FS_AddElement
  <2> QED BY <1>3, <1>4, <2>1, <2>2 DEF HookInv
<1>7. Users(d)' # {}
  BY <1>4
<1> QED BY <1>1, <1>5, <1>6, <1>7 DEF HookInv

LEMMA UninstallHook ==
  ASSUME TypeOK, HookInv, NEW l \in Loop, phase[l] = "draining", phase' = [phase EXCEPT ![l] = "closed"],
         Uninstall(l)
  PROVE  HookInv'
<1>0. PICK d : d = hook
  OBVIOUS
<1>1. /\ d \in Loop /\ d # Trio /\ uses[l] = d
      /\ refcnt' = [refcnt EXCEPT ![d] = refcnt[d] - 1] /\ uses' = [uses EXCEPT ![l] = Trio]
      /\ hook' = IF refcnt'[d] = 0 THEN Trio ELSE d
  BY <1>0, ContextAssumption DEF Uninstall, TypeOK, HookInv
<1>2. \A k \in Loop : uses[k] \in {Trio, d}
  BY <1>0 DEF HookInv
<1>3. /\ uses'[l] = Trio /\ phase'[l] = "closed" /\ refcnt'[d] = refcnt[d] - 1
      /\ \A k \in Loop \ {l} : uses'[k] = uses[k] /\ phase'[k] = phase[k]
      /\ \A k \in Loop \ {d} : refcnt'[k] = refcnt[k]
  BY <1>1 DEF TypeOK
<1>4. Users(d)' = Users(d) \ {l} /\ l \in Users(d) /\ \A k \in Loop \ {d} : Users(k)' = Users(k)
  BY <1>1, <1>2, <1>3, ContextAssumption DEF Users
<1>5. IsFiniteSet(Users(d)') /\ refcnt'[d] = Cardinality(Users(d)')
  <2>1. IsFiniteSet(Users(d)) /\ refcnt[d] = Cardinality(Users(d))
    BY <1>1 DEF HookInv
  <2>2. IsFiniteSet(Users(d) \ {l}) /\ Cardinality(Users(d) \ {l}) = Cardinality(Users(d)) - 1
    BY <1>4, <2>1, FS_RemoveElement
  <2> QED BY <1>3, <1>4, <2>1, <2>2
<1>6. hook' = Trio <=> Users(d)' = {}
  BY <1>1, <1>5, FS_EmptySet
<1>7. \A k \in Loop : (uses'[k] = Trio <=> phase'[k] \in {"new", "closed"}) /\ uses'[k] \in {Trio, hook'}
  <2>1. \A k \in Loop : uses'[k] \in {Trio, d} /\ (uses'[k] = d => Users(d)' # {})
    BY <1>2, <1>3 DEF Users
  <2> QED BY <1>1, <1>3, <1>6, <2>1 DEF HookInv
<1>8. \A k \in Loop : IsFiniteSet(Users(k))' /\ refcnt'[k] = Cardinality(Users(k)')
  BY <1>3, <1>4, <1>5 DEF HookInv
<1>9. hook' # Trio => hook' = d /\ Users(hook)' # {}
  BY <1>1, <1>6
<1> QED BY <1>7, <1>8, <1>9 DEF HookInv

LEMMA HookStep == TypeOK /\ HookInv /\ [Next]_vars => HookInv'
<1> SUFFICES ASSUME TypeOK, HookInv, [Next]_vars PROVE HookInv'
  OBVIOUS
<1>1. ASSUME UNCHANGED hookVars,
             \A l \in Loop : phase'[l] \in {"new", "closed"} <=> phase[l] \in {"new", "closed"}
      PROVE  HookInv'
  BY <1>1 DEF HookInv, Users, hookVars
<1>2. ASSUME NEW t \in Task, NEW l \in Loop, OpenLoop(t, l) PROVE HookInv'
  BY <1>2, InstallHook DEF OpenLoop
<1>3. ASSUME NEW t \in Task, NEW l \in Loop, CloseLoop(t, l) PROVE HookInv'
  BY <1>3, UninstallHook DEF CloseLoop, Exit
<1>4. ASSUME NEW t \in Task, NEW l \in Loop, LeaveBody(t, l) \/ DrainFails(t, l) PROVE HookInv'
  <2>1. PICK s \in {"draining", "failed"} :
          phase' = [phase EXCEPT ![l] = s] /\ phase[l] \in {"running", "draining"}
    BY <1>4 DEF LeaveBody, DrainFails, Exit
  <2>2. \A k \in Loop : phase'[k] \in {"new", "closed"} <=> phase[k] \in {"new", "closed"}
    BY <2>1 DEF TypeOK
  <2> QED BY <1>1, <1>4, <2>2 DEF LeaveBody, DrainFails
<1>5. CASE UNCHANGED <<hookVars, phase>>
  BY <1>1, <1>5
<1>6. CASE UNCHANGED vars
  BY <1>5, <1>6 DEF vars
<1>7. ASSUME NEW t \in Task, NEW l \in Loop, SetEventLoop(t, l) PROVE HookInv'
  BY <1>5, <1>7 DEF SetEventLoop
<1>8. ASSUME NEW t \in Task,
             \/ AllowAsyncio(t) \/ AllowReturns(t)
             \/ \E child \in Task : StartSoon(t, child)
             \/ \E c \in Call : AioAsTrio(t, c)
             \/ \E g \in Gen : TrioIterates(t, g)
      PROVE  HookInv'
  BY <1>5, <1>8 DEF AllowAsyncio, AllowReturns, StartSoon, AioAsTrio, TrioIterates
<1>9. ASSUME NEW h \in queued, Runs(h) \/ Spawns(h) \/ Finalizes(h) \/ \E g \in Gen : Iterates(h, g)
      PROVE  HookInv'
  BY <1>5, <1>9 DEF Runs, Spawns, Finalizes, Iterates
<1>10. ASSUME NEW g \in Gen, Collect(g) PROVE HookInv'
  BY <1>5, <1>10 DEF Collect
<1>11. ASSUME NEW l \in Loop, MainLoopEnds(l) PROVE HookInv'
  BY <1>5, <1>11 DEF MainLoopEnds
<1> QED BY <1>2, <1>3, <1>4, <1>6, <1>7, <1>8, <1>9, <1>10, <1>11 DEF Next

-----------------------------------------------------------------------------
(* Generators.                                                              *)

LEMMA InitGen == Init => \A g \in Gen : GenInv(g)
BY DEF Init, GenInv

\* A main loop that has ended stays so.
LEMMA StoppedStays == [Next]_vars => stopped \subseteq stopped'
<1> USE DEF loopVars
<1>1. ASSUME NEW t \in Task, NEW l \in Loop,
             OpenLoop(t, l) \/ LeaveBody(t, l) \/ CloseLoop(t, l) \/ DrainFails(t, l)
      PROVE  UNCHANGED stopped
  BY <1>1 DEF OpenLoop, LeaveBody, CloseLoop, DrainFails, Exit
<1>2. ASSUME NEW t \in Task,
             \/ AllowAsyncio(t) \/ AllowReturns(t) \/ \E l \in Loop : SetEventLoop(t, l)
             \/ \E child \in Task : StartSoon(t, child)
             \/ \E c \in Call : AioAsTrio(t, c)
             \/ \E g \in Gen : TrioIterates(t, g)
      PROVE  UNCHANGED stopped
  BY <1>2 DEF AllowAsyncio, AllowReturns, SetEventLoop, StartSoon, AioAsTrio, TrioIterates
<1>3. ASSUME NEW h \in queued, Runs(h) \/ Spawns(h) \/ Finalizes(h) \/ \E g \in Gen : Iterates(h, g)
      PROVE  UNCHANGED stopped
  BY <1>3 DEF Runs, Spawns, Finalizes, Iterates
<1>4. ASSUME NEW g \in Gen, Collect(g) PROVE UNCHANGED stopped
  BY <1>4 DEF Collect
<1>5. ASSUME NEW l \in Loop, MainLoopEnds(l) PROVE stopped \subseteq stopped'
  BY <1>5 DEF MainLoopEnds
<1>6. CASE UNCHANGED vars
  BY <1>6 DEF vars
<1> QED BY <1>1, <1>2, <1>3, <1>4, <1>5, <1>6 DEF Next

\* No handle for a generator is taken.
LEMMA GenKept ==
  ASSUME NEW g \in Gen, GenInv(g), gen'[g] = gen[g], born'[g] = born[g], phase' = phase,
         stopped \subseteq stopped',
         \A h \in queued : h.what = g => h \in queued'
  PROVE  GenInv(g)'
BY DEF GenInv

LEMMA GenStep ==
  TypeOK /\ HomeInv /\ (\A g \in Gen : GenInv(g)) /\ [Next]_vars => \A g \in Gen : GenInv(g)'
<1> SUFFICES ASSUME TypeOK, HomeInv, \A g \in Gen : GenInv(g), [Next]_vars, NEW g \in Gen
             PROVE  GenInv(g)'
  OBVIOUS
<1>0. /\ GenInv(g) /\ g \notin Call /\ g \notin Task
      /\ gen[g].state \in GenState /\ gen[g].home \in Loop \cup {Trio}
      /\ gen \in [Gen -> [state : GenState, home : Loop \cup {Trio}]]
      /\ phase \in [Loop -> {"new", "running", "draining", "closed", "failed"}]
      /\ born \in [Gen -> Loop \cup {Trio}] /\ stopped \subseteq stopped'
  BY ContextAssumption, StoppedStays DEF TypeOK
<1> USE DEF taskVars, genVars
<1>1. ASSUME NEW t \in Task, NEW l \in Loop, OpenLoop(t, l) PROVE GenInv(g)'
  <2>1. /\ phase[l] = "new" /\ phase'[l] = "running" /\ \A k \in Loop \ {l} : phase'[k] = phase[k]
        /\ UNCHANGED <<gen, born, queued>>
    BY <1>0, <1>1 DEF OpenLoop
  <2> QED BY <1>0, <2>1 DEF GenInv
<1>2. ASSUME NEW t \in Task, NEW l \in Loop, LeaveBody(t, l) PROVE GenInv(g)'
  <2>1. /\ phase[l] = "running" /\ phase'[l] = "draining" /\ \A k \in Loop \ {l} : phase'[k] = phase[k]
        /\ UNCHANGED <<born, queued>>
    BY <1>0, <1>2 DEF LeaveBody
  <2>2. gen'[g] = IF gen[g] = [state |-> "live", home |-> l] /\ l \notin stopped
                  THEN [gen[g] EXCEPT !.state = "closed"] ELSE gen[g]
    BY <1>2 DEF LeaveBody
  <2>3. CASE gen[g].state = "live" /\ gen[g].home = l /\ l \notin stopped
    <3>1. gen[g] = [state |-> "live", home |-> l]
      BY <1>0, <2>3
    <3>2. gen'[g].state = "closed" /\ gen'[g].home = gen[g].home
      BY <2>2, <2>3, <3>1
    <3> QED BY <1>0, <2>1, <3>2 DEF GenInv
  <2>4. CASE ~(gen[g].state = "live" /\ gen[g].home = l /\ l \notin stopped)
    <3>1. gen'[g] = gen[g]
      BY <2>2, <2>4
    <3> QED BY <1>0, <2>1, <2>4, <3>1 DEF GenInv
  <2> QED BY <2>3, <2>4
<1>3. ASSUME NEW t \in Task, NEW l \in Loop, CloseLoop(t, l) PROVE GenInv(g)'
  <2>1. /\ phase[l] = "draining" /\ phase'[l] = "closed" /\ \A k \in Loop \ {l} : phase'[k] = phase[k]
        /\ UNCHANGED <<gen, born, queued>> /\ ~\E h \in queued : h.loop = l
    BY <1>0, <1>3 DEF CloseLoop, Exit
  <2> QED BY <1>0, <2>1 DEF GenInv
<1>4. ASSUME NEW t \in Task, NEW l \in Loop, DrainFails(t, l) PROVE GenInv(g)'
  <2>1. /\ phase[l] = "draining" /\ phase'[l] = "failed" /\ \A k \in Loop \ {l} : phase'[k] = phase[k]
        /\ UNCHANGED <<gen, born>> /\ \A h \in queued : h.loop # l => h \in queued'
    BY <1>0, <1>4 DEF DrainFails, Exit
  <2> QED BY <1>0, <2>1 DEF GenInv
<1>5. CASE UNCHANGED <<phase, gen, born>> /\ \A h \in queued : h.what = g => h \in queued'
  BY <1>0, <1>5, GenKept
<1>6. ASSUME NEW t \in Task, NEW l \in Loop, SetEventLoop(t, l) PROVE GenInv(g)'
  BY <1>5, <1>6 DEF SetEventLoop
<1>7. ASSUME NEW t \in Task,
             \/ AllowAsyncio(t) \/ AllowReturns(t)
             \/ \E child \in Task : StartSoon(t, child)
             \/ \E c \in Call : AioAsTrio(t, c)
      PROVE  GenInv(g)'
  BY <1>5, <1>7 DEF AllowAsyncio, AllowReturns, StartSoon, AioAsTrio
<1>8. ASSUME NEW t \in Task, NEW f \in Gen, TrioIterates(t, f) PROVE GenInv(g)'
  <2>1. /\ gen[f].state = "new" /\ gen' = [gen EXCEPT ![f] = [state |-> "live", home |-> Trio]]
        /\ born' = [born EXCEPT ![f] = Trio] /\ UNCHANGED <<phase, queued>>
    BY <1>8 DEF TrioIterates, FirstIter
  <2> QED BY <1>0, <2>1 DEF GenInv
<1>9. ASSUME NEW h \in queued, Runs(h) \/ Spawns(h) PROVE GenInv(g)'
  <2>1. UNCHANGED <<phase, gen, born>> /\ queued \ {h} \subseteq queued' /\ h.what # g
    BY <1>0, <1>9 DEF Runs, Spawns
  <2> QED BY <1>5, <2>1
<1>10. ASSUME NEW h \in queued, NEW f \in Gen, Iterates(h, f) PROVE GenInv(g)'
  <2>1. Finds(h) = h.loop /\ h.loop \in Loop /\ IsOpen(h.loop)
    BY <1>10, FindsFacts DEF Iterates, Takes, IsOpen
  <2>2. PICK s \in {"live", "late"} :
          /\ gen' = [gen EXCEPT ![f] = [state |-> s, home |-> h.loop]]
          /\ s = "live" => phase[h.loop] = "running"
          /\ born' = [born EXCEPT ![f] = h.loop] /\ phase' = phase
          /\ queued' = queued \ {h} /\ h.what # g
    BY <1>0, <1>10, <2>1 DEF Iterates, FirstIter
  <2>3. CASE f = g
    <3>1. gen'[g].state = s /\ gen'[g].home = h.loop /\ born'[g] = h.loop
      BY <1>0, <2>2, <2>3
    <3> QED BY <2>2, <3>1 DEF GenInv
  <2>4. CASE f # g
    BY <1>0, <2>2, <2>4, GenKept
  <2> QED BY <2>3, <2>4
<1>11. ASSUME NEW h \in queued, Finalizes(h) PROVE GenInv(g)'
  <2>1. /\ gen' = [gen EXCEPT ![h.what].state = "closed"] /\ queued' = queued \ {h}
        /\ UNCHANGED <<phase, born>>
    BY <1>11 DEF Finalizes
  <2>2. CASE h.what = g
    <3>1. gen'[g].state = "closed" /\ gen'[g].home = gen[g].home
      BY <1>0, <2>1, <2>2
    <3> QED BY <1>0, <2>1, <3>1 DEF GenInv
  <2>3. CASE h.what # g
    BY <1>0, <2>1, <2>3, GenKept
  <2> QED BY <2>2, <2>3
<1>12. ASSUME NEW f \in Gen, Collect(f) PROVE GenInv(g)'
  <2>1. UNCHANGED <<phase, born>> /\ queued \subseteq queued'
    BY <1>12 DEF Collect, FinalizerHook
  <2>2. PICK s \in {"closed", "closing", "lost"} :
          /\ gen' = [gen EXCEPT ![f].state = s]
          /\ s = "closing" => /\ gen[f].home # Trio /\ IsOpen(gen[f].home)
                              /\ Handle(f, gen[f].home, Empty) \in queued'
    BY <1>12 DEF Collect, FinalizerHook
  <2>3. CASE f = g
    <3>1. gen'[g].state = s /\ gen'[g].home = gen[g].home
      BY <1>0, <2>2, <2>3
    <3>2. s = "closing" =>
            /\ gen[g].home \in Loop /\ phase[gen[g].home] # "closed"
            /\ \E h \in queued' : h.what = g /\ h.loop = gen[g].home
      BY <2>2, <2>3 DEF IsOpen, Handle
    <3> QED BY <1>0, <2>1, <3>1, <3>2 DEF GenInv
  <2>4. CASE f # g
    BY <1>0, <2>1, <2>2, <2>4, GenKept
  <2> QED BY <2>3, <2>4
<1>13. ASSUME NEW l \in Loop, MainLoopEnds(l) PROVE GenInv(g)'
  BY <1>5, <1>13 DEF MainLoopEnds
<1>14. CASE UNCHANGED vars
  BY <1>5, <1>14 DEF vars
<1> QED BY <1>1, <1>2, <1>3, <1>4, <1>6, <1>7, <1>8, <1>9, <1>10, <1>11, <1>12, <1>13, <1>14 DEF Next

-----------------------------------------------------------------------------
(* allow_asyncio().                                                         *)

LEMMA InitShim == Init => \A t \in Task : ShimInv(t)
BY EmptySeq DEF Init, ShimInv, Empty

\* The calls that a task is in and its context's shim_running are kept.
LEMMA ShimKept ==
  ASSUME NEW t \in Task, ShimInv(t), allow'[t] = allow[t], ctx'[t].shim = ctx[t].shim,
         t \in started' <=> t \in started, t \in inside' <=> t \in inside
  PROVE  ShimInv(t)'
<1>1. ctx'[t].shim <=> ctx[t].shim
  OBVIOUS
<1> QED BY <1>1 DEF ShimInv

LEMMA StartsShim ==
  ASSUME TypeOK, NEW t \in Task, ShimInv(t), NEW u \in Task, u \notin started, ShimInv(u),
         NEW context \in Context, Starts(u, context), UNCHANGED allow
  PROVE  ShimInv(t)'
<1>1. /\ started' = started \cup {u} /\ ctx' = [ctx EXCEPT ![u] = context]
      /\ inside' = IF context.shim THEN inside \cup {u} ELSE inside
      /\ inside \subseteq started /\ ctx \in [Task -> Context]
  BY DEF Starts, TypeOK
<1>2. CASE t = u
  <2>1. allow'[t] = <<>> /\ Len(allow'[t]) = 0 /\ t \in started' /\ ctx'[t] = context
    BY <1>1, <1>2, EmptySeq DEF ShimInv
  <2>2. t \in started' \ inside' => ~context.shim
    BY <1>1, <1>2
  <2>3. \A i \in 1 .. Len(allow'[t]) : FALSE
    BY <2>1
  <2> QED BY <2>1, <2>2, <2>3 DEF ShimInv
<1>3. CASE t # u
  <2>1. /\ ctx'[t].shim = ctx[t].shim
        /\ (t \in started' <=> t \in started) /\ (t \in inside' <=> t \in inside)
    BY <1>1, <1>3
  <2> QED BY <2>1, ShimKept
<1> QED BY <1>2, <1>3

LEMMA AllowShim ==
  ASSUME TypeOK, NEW t \in Task, ShimInv(t), AllowAsyncio(t)
  PROVE  ShimInv(t)'
<1>0. /\ t \in started /\ allow[t] \in Seq({"trampoline", "plain"})
      /\ UNCHANGED <<started, inside>>
  BY DEF AllowAsyncio, Free, TypeOK
<1>1. CASE t \in inside
  BY <1>0, <1>1 DEF ShimInv
<1>2. CASE t \notin inside
  <2>1. PICK a \in {"trampoline", "plain"} :
          /\ allow' = [allow EXCEPT ![t] = Append(allow[t], a)]
          /\ a = "plain" <=> ctx[t].shim
    BY DEF AllowAsyncio
  <2>2. ctx' = [ctx EXCEPT ![t].shim = TRUE]
    BY DEF AllowAsyncio
  <2>3. ctx'[t].shim
    BY <2>2 DEF TypeOK, Context
  <2>4. /\ allow'[t] # <<>> /\ Len(allow'[t]) = Len(allow[t]) + 1 /\ Len(allow[t]) \in Nat
        /\ \A i \in 1 .. Len(allow[t]) : allow'[t][i] = allow[t][i]
        /\ allow'[t][Len(allow[t]) + 1] = a
    <3>1. allow'[t] = Append(allow[t], a)
      BY <2>1 DEF TypeOK
    <3> QED BY <1>0, <3>1, AppendProperties, LenProperties
  <2>5. a = "plain" <=> Len(allow[t]) # 0
    BY <1>0, <1>2, <2>1, EmptySeq DEF ShimInv
  <2>6. ASSUME NEW i \in 1 .. Len(allow'[t]) PROVE allow'[t][i] = "trampoline" <=> i = 1
    <3>1. CASE i = Len(allow[t]) + 1
      BY <2>4, <2>5, <3>1
    <3>2. CASE i # Len(allow[t]) + 1
      BY <1>0, <1>2, <2>4, <3>2 DEF ShimInv
    <3> QED BY <3>1, <3>2
  <2> QED BY <1>0, <2>3, <2>4, <2>6 DEF ShimInv
<1> QED BY <1>1, <1>2

LEMMA ReturnsShim ==
  ASSUME TypeOK, NEW t \in Task, ShimInv(t), AllowReturns(t)
  PROVE  ShimInv(t)'
<1>0. /\ t \in started /\ allow[t] \in Seq({"trampoline", "plain"}) /\ allow[t] # <<>>
      /\ UNCHANGED <<started, inside>>
  BY DEF AllowReturns, Free, TypeOK
<1>1. CASE t \in inside
  BY <1>0, <1>1 DEF ShimInv
<1>2. CASE t \notin inside
  <2>1. /\ allow'[t] = Front(allow[t])
        /\ Len(allow[t]) \in Nat \ {0} /\ Last(allow[t]) = allow[t][Len(allow[t])]
        /\ Last(allow[t]) \in {"trampoline", "plain"}
        /\ allow'[t] \in Seq({"trampoline", "plain"}) /\ Len(allow'[t]) = Len(allow[t]) - 1
        /\ \A i \in 1 .. Len(allow[t]) - 1 : allow'[t][i] = allow[t][i]
    <3>1. allow'[t] = Front(allow[t])
      BY DEF AllowReturns, TypeOK
    <3> QED BY <1>0, <3>1, LastFacts
  <2>2. Last(allow[t]) = "plain" <=> Len(allow[t]) # 1
    <3>1. \A i \in 1 .. Len(allow[t]) : allow[t][i] = "trampoline" <=> i = 1
      BY <1>0, <1>2 DEF ShimInv
    <3>2. Len(allow[t]) \in 1 .. Len(allow[t])
      BY <2>1
    <3>3. Last(allow[t]) = "trampoline" <=> Len(allow[t]) = 1
      BY <2>1, <3>1, <3>2
    <3> QED BY <2>1, <3>3
  <2>3. PICK b \in BOOLEAN : ctx' = [ctx EXCEPT ![t].shim = b] /\ (b <=> Len(allow[t]) # 1)
    <3>1. ctx' = [ctx EXCEPT ![t].shim = (ctx[t].shim /\ Last(allow[t]) = "plain")]
      BY DEF AllowReturns
    <3>2. ctx[t].shim
      BY <1>0, <1>2 DEF ShimInv
    <3>3. (ctx[t].shim /\ Last(allow[t]) = "plain") <=> Len(allow[t]) # 1
      BY <2>2, <3>2
    <3>4. (ctx[t].shim /\ Last(allow[t]) = "plain") \in BOOLEAN
      OBVIOUS
    <3> QED BY <3>1, <3>3, <3>4
  <2>4. ctx'[t].shim = b
    BY <2>3 DEF TypeOK, Context
  <2>5. allow'[t] # <<>> <=> Len(allow[t]) # 1
    <3>1. allow'[t] # <<>> <=> Len(allow'[t]) # 0
      BY <2>1, EmptySeq
    <3> QED BY <2>1, <3>1
  <2>6. \A i \in 1 .. Len(allow'[t]) : allow'[t][i] = "trampoline" <=> i = 1
    BY <1>0, <1>2, <2>1 DEF ShimInv
  <2>7. ctx'[t].shim <=> allow'[t] # <<>>
    BY <2>3, <2>4, <2>5
  <2> QED BY <1>0, <2>6, <2>7 DEF ShimInv
<1> QED BY <1>1, <1>2

LEMMA ShimStep ==
  TypeOK /\ QueueInv /\ (\A t \in Task : ShimInv(t)) /\ [Next]_vars => \A t \in Task : ShimInv(t)'
<1> SUFFICES ASSUME TypeOK, QueueInv, \A t \in Task : ShimInv(t), [Next]_vars, NEW t \in Task
             PROVE  ShimInv(t)'
  OBVIOUS
<1>0. ShimInv(t) /\ ctx \in [Task -> Context]
  BY DEF TypeOK
<1> USE DEF taskVars
<1>1. CASE UNCHANGED <<started, inside, allow>> /\ ctx'[t].shim = ctx[t].shim
  BY <1>0, <1>1, ShimKept
<1>2. ASSUME NEW u \in Task, NEW l, ctx' = [ctx EXCEPT ![u].loop = l],
             UNCHANGED <<started, inside, allow>>
      PROVE  ShimInv(t)'
  <2>1. ctx'[t].shim = ctx[t].shim
    BY <1>0, <1>2 DEF Context
  <2> QED BY <1>1, <1>2, <2>1
<1>3. ASSUME NEW u \in Task, NEW l \in Loop,
             OpenLoop(u, l) \/ CloseLoop(u, l) \/ DrainFails(u, l) \/ SetEventLoop(u, l)
      PROVE  ShimInv(t)'
  BY <1>2, <1>3 DEF OpenLoop, CloseLoop, DrainFails, SetEventLoop, Exit
<1>4. ASSUME NEW u \in Task, AllowAsyncio(u) \/ AllowReturns(u) PROVE ShimInv(t)'
  <2>1. CASE t = u
    BY <1>0, <1>4, <2>1, AllowShim, ReturnsShim
  <2>2. CASE t # u
    <3>1. ctx'[t] = ctx[t] /\ allow'[t] = allow[t] /\ UNCHANGED <<started, inside>>
      BY <1>0, <1>4, <2>2 DEF AllowAsyncio, AllowReturns, TypeOK
    <3> QED BY <1>0, <3>1, ShimKept
  <2> QED BY <2>1, <2>2
<1>5. ASSUME NEW u \in Task, NEW c \in Task, StartSoon(u, c) PROVE ShimInv(t)'
  <2>1. Starts(c, ctx[u]) /\ c \notin started /\ UNCHANGED allow /\ ctx[u] \in Context
    BY <1>0, <1>5 DEF StartSoon, Unused
  <2> QED BY <1>0, <2>1, StartsShim
<1>6. ASSUME NEW h \in queued, Spawns(h) PROVE ShimInv(t)'
  <2>1. /\ h.what \in Task /\ Starts(h.what, h.ctx) /\ h.what \notin started
        /\ UNCHANGED allow /\ h.ctx \in Context
    BY <1>6 DEF Spawns, QueueInv, TypeOK
  <2> QED BY <1>0, <2>1, StartsShim
<1>7. CASE UNCHANGED taskVars
  BY <1>1, <1>7
<1>8. ASSUME NEW u \in Task, \/ \E l \in Loop : LeaveBody(u, l)
                             \/ \E c \in Call : AioAsTrio(u, c)
                             \/ \E g \in Gen : TrioIterates(u, g)
      PROVE  ShimInv(t)'
  BY <1>7, <1>8 DEF LeaveBody, AioAsTrio, TrioIterates
<1>9. ASSUME NEW h \in queued, Runs(h) \/ Finalizes(h) \/ \E g \in Gen : Iterates(h, g)
      PROVE  ShimInv(t)'
  BY <1>7, <1>9 DEF Runs, Finalizes, Iterates
<1>10. ASSUME NEW g \in Gen, Collect(g) PROVE ShimInv(t)'
  BY <1>7, <1>10 DEF Collect
<1>11. ASSUME NEW l \in Loop, MainLoopEnds(l) PROVE ShimInv(t)'
  BY <1>7, <1>11 DEF MainLoopEnds
<1>12. CASE UNCHANGED vars
  BY <1>7, <1>12 DEF vars
<1> QED BY <1>3, <1>4, <1>5, <1>6, <1>8, <1>9, <1>10, <1>11, <1>12 DEF Next

-----------------------------------------------------------------------------
(* What the tasks have opened, what the loops' channels hold and who uses   *)
(* the dispatcher agree at every step, for any number of loops.             *)
THEOREM Invariant == Spec => []IInv
<1>1. Init => IInv
  BY InitType, InitHome, InitHook, InitGen, InitShim DEF IInv
<1>2. IInv /\ [Next]_vars => IInv'
  BY TypeStep, HomeStep, HookStep, GenStep, ShimStep DEF IInv, HomeInv
<1> QED BY <1>1, <1>2, PTL DEF Spec

(* get_running_loop() in a callback is the loop that runs it, whatever      *)
(* context it was scheduled from and in whatever order loops are opened.    *)
THEOREM CallbacksRunAtHome == Spec => []RunsAtHome
<1>1. IInv => RunsAtHome
  BY FindsFacts DEF IInv, RunsAtHome
<1> QED BY <1>1, Invariant, PTL

(* The asyncgen hooks are those of one dispatcher from the first install()  *)
(* to the last uninstall(): refcnt counts the loops that use it.            *)
THEOREM HooksAreShared == Spec => []HooksFollowLoops
<1>1. IInv => HooksFollowLoops
  <2> SUFFICES ASSUME IInv PROVE HooksFollowLoops
    OBVIOUS
  <2>1. \A l \in Loop : IsOpen(l) => uses[l] = hook
    BY DEF IInv, HookInv, IsOpen
  <2>2. hook = Trio => \A l \in Loop : phase[l] \in {"new", "closed"}
    BY DEF IInv, HookInv
  <2>3. ASSUME hook # Trio PROVE \E l \in Loop : phase[l] \notin {"new", "closed"}
    <3>1. PICK l \in Loop : uses[l] = hook
      BY <2>3 DEF IInv, HookInv, Users
    <3> QED BY <2>3, <3>1 DEF IInv, HookInv
  <2> QED BY <2>1, <2>2, <2>3 DEF HooksFollowLoops
<1> QED BY <1>1, Invariant, PTL

(* The finalizer hook of a generator asks the loop in which it was first    *)
(* iterated, and that loop does not close with the aclose() outstanding; a  *)
(* loop that is not stopped in its body leaves none that it knows behind.   *)
THEOREM GeneratorsAreFinalizedAtHome == Spec => []GeneratorsGoHome
<1>1. IInv => GeneratorsGoHome
  BY DEF IInv, GenInv, GeneratorsGoHome
<1> QED BY <1>1, Invariant, PTL

(* A call of allow_asyncio() that finds shim_running set, in a task that    *)
(* was not started with it, is inside a call that runs the shim.            *)
THEOREM ShimIsNeverAssumed == Spec => []ShimCoversCall
<1>1. IInv => ShimCoversCall
  <2> SUFFICES ASSUME IInv, NEW t \in started \ inside, allow[t] # <<>>
               PROVE  "trampoline" \in ToSet(allow[t])
    BY DEF ShimCoversCall
  <2>1. t \in Task /\ ShimInv(t) /\ allow[t] \in Seq({"trampoline", "plain"})
    BY DEF IInv, TypeOK
  <2>2. 1 \in 1 .. Len(allow[t]) /\ DOMAIN allow[t] = 1 .. Len(allow[t])
    BY <2>1, EmptySeq, LenProperties
  <2>3. allow[t][1] = "trampoline"
    BY <2>1, <2>2 DEF ShimInv
  <2> QED BY <2>2, <2>3 DEF ToSet
<1> QED BY <1>1, Invariant, PTL
=============================================================================
