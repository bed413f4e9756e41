--------------------------- MODULE SemaphoreProofs ---------------------------
(***************************************************************************)
(* The semaphore on any number of CPUs, with any number of threads: its    *)
(* steps respect the invariant of Smp, it loses no wakeup, and it          *)
(* implements CountingSema.                                                *)
(***************************************************************************)
EXTENDS Semaphore, SmpProofs

\* Points at which a thread holds s->lock.
SHeld == {"wait_cpu", "signal_cpu", "signal_unlock"}

SlockInv ==
  /\ slock \in {0, 1}
  /\ slock = 1 <=> \E t \in All : pc[t] \in SHeld
  /\ \A t, u \in All : pc[t] \in SHeld /\ pc[u] \in SHeld => t = u

\* t has no token yet: it is on the list, or taken off it and not yet woken.
Due(t) == t \in Range(waiters) \/ Popped(t)

ListInv ==
  /\ count \in Nat
  /\ waiters \in Seq(Waiter)
  /\ \A i, j \in DOMAIN waiters : waiters[i] = waiters[j] => i = j

\* What the semaphore's points say: a thread without a token is going to sleep
\* with its CPU's lock held, or sleeps; a sleeper has no token.
SemaLocal(t) ==
  /\ pc[t] \in {"wait_cpu", "wait_yield", "wait_unlock"} \/ call[t] = "sema_wait"
        => t \in Waiter
  /\ pc[t] = "wait_cpu" => count = 0
  /\ pc[t] = "wait_yield" => Due(t)
  /\ pc[t] = "wait_unlock" => (state[t] = SLEEPING <=> Due(t))
  /\ Due(t) => pc[t] \in {"wait_yield", "wait_unlock"}
  /\ pc[t] = "signal_cpu" => /\ arg[t] \in Waiter
                             /\ arg[t] \notin Range(waiters)
                             /\ target[t] = cpu_id[arg[t]]

SemaInv ==
  /\ SmpInv
  /\ OneHolder
  /\ RunInv
  /\ SlockInv
  /\ ListInv
  /\ \A t \in All : SemaLocal(t)

------------------------------------------------------------------------------
\* cpu_splx(spl) at the end of a call enables interrupts again.
LEMMA ExitFacts ==
  ASSUME SmpInv, NEW c \in Cpu, NEW t \in All, t = cur_thread[c],
         pc[t] \in SemaPoints, Exit(c)
  PROVE  /\ intr' \in [Cpu -> BOOLEAN] /\ intr'[c] = TRUE
         /\ \A d \in Cpu : d # c => (intr'[d] <=> intr[d])
         /\ pc' = [pc EXCEPT ![t] = "run"]
         /\ call' \in [All -> Calls] /\ call'[t] = "none"
         /\ \A u \in All : u # t => call'[u] = call[u]
<1>1. LocalInv(t) /\ TypeOK
  BY CurFacts DEF SmpInv
<1>2. /\ call \in [All -> Calls] /\ intr \in [Cpu -> BOOLEAN] /\ spl[t] \in BOOLEAN
  BY <1>1, Zenon DEF TypeOK
<1>3. spl[t] = TRUE
  BY <1>1, <1>2 DEF LocalInv
<1>4. /\ intr' = [intr EXCEPT ![c] = @ \/ spl[t]]
      /\ pc' = [pc EXCEPT ![t] = "run"]
      /\ call' = [call EXCEPT ![t] = "none"]
  BY DEF Exit, cpu_splx
<1>5. intr' = [intr EXCEPT ![c] = TRUE]
  BY <1>3, <1>4, Zenon
<1>6. "none" \in Calls
  BY DEF Calls
<1> QED
  BY <1>2, <1>4, <1>5, <1>6

LEMMA SemaSmpStep ==
  ASSUME SemaInv, NEW c \in Cpu, sema_wait(c) \/ sema_signal(c) \/ InSema(c)
  PROVE  SmpInv' /\ OneHolder'
<1>0. SmpInv
  BY DEF SemaInv
<1>1. ListInv /\ TypeOK
  BY DEF SemaInv, SmpInv
<1>2. PICK t \in All : t = cur_thread[c]
  BY <1>0, CurFacts
<1>3. /\ call \in [All -> Calls] /\ target \in [All -> Cpu] /\ arg \in [All -> All]
      /\ spl \in [All -> BOOLEAN] /\ state \in [All -> {RUNNING, SLEEPING}]
      /\ intr \in [Cpu -> BOOLEAN] /\ intr[c] = (pc[t] \in Open)
      /\ pc[t] \in SemaPoints => spl[t] /\ call[t] # "sched_sleep"
  <2>1. intr[c] <=> pc[t] \in Open
    BY <1>0, <1>2, Zenon DEF SmpInv
  <2>2. intr \in [Cpu -> BOOLEAN]
    BY <1>1 DEF TypeOK
  <2>3. intr[c] = (pc[t] \in Open)
    BY <2>1, <2>2
  <2>4. pc[t] \in SemaPoints => spl[t] /\ call[t] # "sched_sleep"
    BY <1>0 DEF SmpInv, LocalInv, SemaPoints
  <2> QED
    BY <1>1, <2>2, <2>3, <2>4, ZenonT(30) DEF TypeOK
<1>4. ASSUME NEW fn \in {"sema_wait", "sema_signal"}, Enter(c, fn) PROVE SmpInv' /\ HoldersMove
  <2>0. PICK p \in SemaPoints \cup {"run"} : p = "outer" /\ p # "run"
    BY Zenon DEF SemaPoints
  <2>1. /\ pc[t] = "run" /\ pc' = [pc EXCEPT ![t] = p]
        /\ call' = [call EXCEPT ![t] = fn]
        /\ spl' = [spl EXCEPT ![t] = intr[c]] /\ intr' = [intr EXCEPT ![c] = FALSE]
        /\ UNCHANGED <<lock, cpu_spl, threads, cur_thread, cpu_id, state, cnt,
                       sleep_time, timer, ret, target, arg>>
    BY <1>2, <1>4, <2>0, Zenon DEF Enter, Free, cpu_splhi, runvars
  <2>2. intr[c] = TRUE
    BY <1>3, <2>1, Zenon DEF Open
  <2>3. spl' \in [All -> BOOLEAN] /\ spl'[t] = TRUE /\ \A u \in All : u # t => spl'[u] = spl[u]
    BY <1>3, <2>1, <2>2
  <2>4. /\ call' \in [All -> Calls] /\ call'[t] = fn
        /\ \A u \in All : u # t => call'[u] = call[u]
    BY <1>3, <2>1, Zenon DEF Calls
  <2>5. /\ intr' \in [Cpu -> BOOLEAN] /\ (intr'[c] <=> p = "run")
        /\ \A d \in Cpu : d # c => (intr'[d] <=> intr[d])
    BY <1>3, <2>0, <2>1, Zenon
  <2>6. LockMove(c, t, p)
    BY <2>0, <2>1, Zenon DEF LockMove, OwnHeld, IdHeld
  <2>7. pc[t] \in SemaPoints \cup {"run"}
    BY <2>1 DEF SemaPoints
  <2>8. /\ target' \in [All -> Cpu] /\ arg' \in [All -> All]
        /\ state' \in [All -> {RUNNING, SLEEPING}]
        /\ UNCHANGED <<cpu_spl, threads, cur_thread, cpu_id, cnt, sleep_time, timer, ret>>
    BY <1>3, <2>1
  <2>9. /\ \A u \in All : u # t => /\ target'[u] = target[u] /\ arg'[u] = arg[u]
                                  /\ call'[u] = call[u] /\ spl'[u] = spl[u]
        /\ call'[t] # "sched_sleep"
    BY <2>0, <2>1, <2>3, <2>4
  <2>10. /\ pc' = [pc EXCEPT ![t] = p] /\ call' \in [All -> Calls]
         /\ spl' \in [All -> BOOLEAN]
    BY <2>1, <2>3, <2>4, Zenon
  <2>11. (p = "run" => call'[t] # "cpu_show_cmd") /\ (p \in SemaPoints => spl'[t] = TRUE)
    BY <2>0, <2>3, Zenon
  <2> QED
    BY <1>0, <1>2, <2>5, <2>6, <2>7, <2>8, <2>9, <2>10, <2>11, SemaControl, ZenonT(60)
<1>5. ASSUME Exit(c), pc[t] \in SemaPoints, LockMove(c, t, "run"),
             UNCHANGED <<cpu_spl, threads, cur_thread, cpu_id, state, cnt,
                         sleep_time, timer, ret, target, arg, spl>>
      PROVE  SmpInv' /\ HoldersMove
  <2>1. /\ intr' \in [Cpu -> BOOLEAN] /\ intr'[c] = TRUE
        /\ \A d \in Cpu : d # c => (intr'[d] <=> intr[d])
        /\ pc' = [pc EXCEPT ![t] = "run"]
        /\ call' \in [All -> Calls] /\ call'[t] = "none"
        /\ \A u \in All : u # t => call'[u] = call[u]
    BY <1>0, <1>2, <1>5, ExitFacts, Zenon
  <2>2. "run" \notin SemaPoints
    BY Zenon DEF SemaPoints
  <2> QED
    BY <1>0, <1>2, <1>3, <1>5, <2>1, <2>2, SemaControl, ZenonT(60)
<1>6. ASSUME NEW p \in SemaPoints, pc[t] \in SemaPoints, pc' = [pc EXCEPT ![t] = p],
             LockMove(c, t, p),
             target' \in [All -> Cpu], arg' \in [All -> All],
             state' \in [All -> {RUNNING, SLEEPING}],
             \A u \in All : u # t => target'[u] = target[u] /\ arg'[u] = arg[u],
             UNCHANGED <<intr, cpu_spl, threads, cur_thread, cpu_id, cnt,
                         sleep_time, timer, ret, call, spl>>
      PROVE  SmpInv' /\ HoldersMove
  <2>1. p # "run" /\ "run" \notin SemaPoints /\ intr[c] = FALSE
    BY <1>3, <1>6, Zenon DEF SemaPoints, Open
  <2>2. /\ call' \in [All -> Calls] /\ spl' \in [All -> BOOLEAN] /\ spl'[t] = TRUE
        /\ intr' \in [Cpu -> BOOLEAN] /\ (intr'[c] <=> p = "run")
        /\ \A d \in Cpu : d # c => (intr'[d] <=> intr[d])
    BY <1>3, <1>6, <2>1, Zenon
  <2>3. /\ \A u \in All : u # t => /\ target'[u] = target[u] /\ arg'[u] = arg[u]
                                  /\ call'[u] = call[u] /\ spl'[u] = spl[u]
        /\ call'[t] # "sched_sleep" /\ (p = "run" => call'[t] = "none")
        /\ UNCHANGED <<cpu_spl, threads, cur_thread, cpu_id, cnt, sleep_time, timer, ret>>
    BY <1>3, <1>6, <2>1, Zenon
  <2> QED
    BY <1>0, <1>2, <1>6, <2>2, <2>3, SemaControl, ZenonT(60)
<1>7. ASSUME sema_wait_lock(c) \/ sema_wait_push(c) PROVE SmpInv' /\ HoldersMove
  <2>1. PICK p \in SemaPoints :
          /\ pc[t] \in SemaPoints /\ pc' = [pc EXCEPT ![t] = p] /\ LockMove(c, t, p)
          /\ UNCHANGED <<intr, cpu_spl, threads, cur_thread, cpu_id, cnt, state,
                         sleep_time, timer, ret, call, spl, target, arg>>
    <3>1. CASE sema_wait_lock(c)
      BY <1>2, <3>1 DEF sema_wait_lock, Goto, LockMove, SemaPoints, OwnHeld, IdHeld,
                        runvars, cpuvars
    <3>2. CASE sema_wait_push(c)
      BY <1>2, <3>2, Zenon DEF sema_wait_push, Goto, LockMove, Acquire, SemaPoints, runvars
    <3> QED
      BY <1>7, <3>1, <3>2, Zenon
  <2> QED
    BY <1>3, <1>6, <2>1, Zenon
<1>8. ASSUME sema_wait_take(c) \/ sema_signal_post(c) PROVE SmpInv' /\ HoldersMove
  <2>1. /\ Exit(c) /\ pc[t] = "outer" /\ lock' = lock
        /\ UNCHANGED <<cpu_spl, threads, cur_thread, cpu_id, state, cnt,
                       sleep_time, timer, ret, target, arg, spl>>
    BY <1>2, <1>8 DEF sema_wait_take, sema_signal_post, Test, runvars
  <2>2. pc[t] \in SemaPoints /\ LockMove(c, t, "run")
    BY <2>1 DEF SemaPoints, LockMove, OwnHeld, IdHeld
  <2> QED
    BY <1>5, <2>1, <2>2, Zenon
<1>9. ASSUME sema_wait_return(c) PROVE SmpInv' /\ HoldersMove
  <2>1. /\ Exit(c) /\ pc[t] = "wait_unlock" /\ lock' = [lock EXCEPT ![c] = 0]
        /\ UNCHANGED <<cpu_spl, threads, cur_thread, cpu_id, state, cnt,
                       sleep_time, timer, ret, target, arg, spl>>
    BY <1>2, <1>9 DEF sema_wait_return, Release, runvars
  <2>2. pc[t] \in SemaPoints /\ LockMove(c, t, "run")
    BY <2>1 DEF SemaPoints, LockMove
  <2> QED
    BY <1>5, <2>1, <2>2
<1>10. ASSUME sema_signal_return(c) PROVE SmpInv' /\ HoldersMove
  <2>1. /\ Exit(c) /\ pc[t] = "signal_unlock" /\ lock' = [lock EXCEPT ![target[t]] = 0]
        /\ UNCHANGED <<cpu_spl, threads, cur_thread, cpu_id, state, cnt,
                       sleep_time, timer, ret, target, arg, spl>>
    BY <1>2, <1>10 DEF sema_signal_return, Release, runvars
  <2>2. pc[t] \in SemaPoints /\ LockMove(c, t, "run")
    BY <2>1 DEF SemaPoints, LockMove
  <2> QED
    BY <1>5, <2>1, <2>2, Zenon
<1>11. ASSUME sema_signal_pop(c) PROVE SmpInv' /\ HoldersMove
  <2> DEFINE w == Head(waiters)
  <2>1. w \in All
    BY <1>1, <1>11, SemaAssumption DEF ListInv, sema_signal_pop, All
  <2>2. cpu_id[w] \in Cpu
    BY <1>1, <2>1, Zenon DEF TypeOK
  <2>3. /\ pc[t] = "outer" /\ pc' = [pc EXCEPT ![t] = "signal_cpu"]
        /\ arg' = [arg EXCEPT ![t] = w] /\ target' = [target EXCEPT ![t] = cpu_id[w]]
        /\ lock' = lock
        /\ UNCHANGED <<intr, cpu_spl, threads, cur_thread, cpu_id, cnt, state,
                       sleep_time, timer, ret, call, spl>>
    BY <1>2, <1>11 DEF sema_signal_pop, Goto, runvars, cpuvars
  <2> HIDE DEF w
  <2>4. /\ target' \in [All -> Cpu] /\ arg' \in [All -> All]
        /\ \A u \in All : u # t => target'[u] = target[u] /\ arg'[u] = arg[u]
    BY <1>3, <2>1, <2>2, <2>3
  <2>5. /\ pc[t] \in SemaPoints /\ "signal_cpu" \in SemaPoints
        /\ LockMove(c, t, "signal_cpu")
    BY <2>3 DEF SemaPoints, LockMove, OwnHeld, IdHeld
  <2> QED
    BY <1>3, <1>6, <2>3, <2>4, <2>5, Zenon
<1>12. ASSUME sema_signal_wake(c) PROVE SmpInv' /\ HoldersMove
  <2>1. /\ pc[t] = "signal_cpu" /\ pc' = [pc EXCEPT ![t] = "signal_unlock"]
        /\ lock[target[t]] = 0 /\ lock' = [lock EXCEPT ![target[t]] = 1]
        /\ state' = [state EXCEPT ![arg[t]] = RUNNING]
        /\ UNCHANGED <<intr, cpu_spl, threads, cur_thread, cpu_id, cnt,
                       sleep_time, timer, ret, target, arg, call, spl>>
    BY <1>2, <1>12, Zenon DEF sema_signal_wake, Goto, Acquire
  <2>2. state' \in [All -> {RUNNING, SLEEPING}]
    BY <1>3, <2>1, Zenon
  <2>3. /\ pc[t] \in SemaPoints /\ "signal_unlock" \in SemaPoints
        /\ LockMove(c, t, "signal_unlock")
    BY <2>1 DEF SemaPoints, LockMove
  <2> QED
    BY <1>3, <1>6, <2>1, <2>2, <2>3, Zenon
<1>13. ASSUME sema_wait_yield(c) PROVE SmpInv' /\ HoldersMove
  <2>1. /\ pc[t] = "wait_yield" /\ pc' = [pc EXCEPT ![t] = "wait_unlock"]
        /\ SwitchFrom(c, [state EXCEPT ![t] = SLEEPING], cnt)
        /\ UNCHANGED <<lock, intr, cpu_spl, threads, cpu_id, sleep_time, timer, ret,
                       target, arg, call, spl>>
    BY <1>2, <1>13 DEF sema_wait_yield, Goto, cpuvars
  <2>2. t # Idle[c] /\ RunInv
    BY <2>1, SemaAssumption, SmpAssumption DEF SemaInv, SemaLocal, Range
  <2> QED
    BY <1>0, <1>2, <2>1, <2>2, YieldStep, Zenon
<1>14. SmpInv' /\ HoldersMove
  BY <1>4, <1>7, <1>8, <1>9, <1>10, <1>11, <1>12, <1>13, Zenon
  DEF sema_wait, sema_signal, InSema
<1> QED
  BY <1>1, <1>14, HoldersKept, Zenon DEF SemaInv, TypeOK

------------------------------------------------------------------------------
\* thread_list_push puts a thread that is not on the list at its tail, ...
LEMMA PushList ==
  ASSUME NEW S, NEW s \in Seq(S), NEW x \in S, x \notin Range(s),
         \A i, j \in DOMAIN s : s[i] = s[j] => i = j
  PROVE  LET l == thread_list_push(s, x)
         IN /\ l \in Seq(S)
            /\ \A i, j \in DOMAIN l : l[i] = l[j] => i = j
            /\ \A y : y \in Range(l) <=> y \in Range(s) \/ y = x
<1> DEFINE l == Append(s, x)
<1>1. /\ l \in Seq(S) /\ DOMAIN l = 1 .. Len(s) + 1 /\ DOMAIN s = 1 .. Len(s)
      /\ Len(s) \in Nat /\ l[Len(s) + 1] = x
      /\ \A i \in 1 .. Len(s) : l[i] = s[i]
  OBVIOUS
<1> HIDE DEF l
<1>2. \A i \in DOMAIN s : s[i] # x
  BY DEF Range
<1>3. \A i, j \in DOMAIN l : l[i] = l[j] => i = j
  BY <1>1, <1>2
<1>4. \A y : y \in Range(l) <=> y \in Range(s) \/ y = x
  BY <1>1 DEF Range
<1> QED
  BY <1>1, <1>3, <1>4, Zenon DEF l, thread_list_push

\* ... and thread_list_pop takes exactly the head off it.
LEMMA PopList ==
  ASSUME NEW S, NEW s \in Seq(S), s # <<>>,
         \A i, j \in DOMAIN s : s[i] = s[j] => i = j
  PROVE  LET l == thread_list_pop(s)
         IN /\ l \in Seq(S) /\ Head(s) \in S /\ Head(s) \in Range(s)
            /\ \A i, j \in DOMAIN l : l[i] = l[j] => i = j
            /\ \A y : y \in Range(l) <=> y \in Range(s) /\ y # Head(s)
<1> DEFINE l == Tail(s)
<1>1. /\ l \in Seq(S) /\ DOMAIN l = 1 .. Len(s) - 1 /\ DOMAIN s = 1 .. Len(s)
      /\ Len(s) \in Nat \ {0} /\ Head(s) = s[1] /\ Head(s) \in S
      /\ \A i \in 1 .. Len(s) - 1 : l[i] = s[i + 1]
  OBVIOUS
<1> HIDE DEF l
<1>2. \A i, j \in DOMAIN l : l[i] = l[j] => i = j
  <2> TAKE i, j \in DOMAIN l
  <2>1. i + 1 \in DOMAIN s /\ j + 1 \in DOMAIN s /\ l[i] = s[i + 1] /\ l[j] = s[j + 1]
    BY <1>1
  <2>2. i \in Int /\ j \in Int
    BY <1>1
  <2>3. s[i + 1] = s[j + 1] => i + 1 = j + 1
    BY <2>1
  <2> QED
    BY <2>1, <2>2, <2>3
<1>3. ASSUME NEW y \in Range(l) PROVE y \in Range(s) /\ y # s[1]
  <2>1. PICK i \in DOMAIN l : y = l[i]
    BY <1>3 DEF Range
  <2>2. /\ i + 1 \in DOMAIN s /\ y = s[i + 1] /\ i \in Int /\ i >= 1 /\ 1 \in DOMAIN s
    BY <1>1, <2>1
  <2>3. s[i + 1] = s[1] => i + 1 = 1
    BY <2>2
  <2>4. y # s[1]
    BY <2>2, <2>3
  <2> QED
    BY <2>2, <2>4 DEF Range
<1>4. ASSUME NEW y \in Range(s), y # s[1] PROVE y \in Range(l)
  <2>1. PICK i \in DOMAIN s : y = s[i]
    BY <1>4 DEF Range
  <2>2. i - 1 \in DOMAIN l /\ l[i - 1] = y
    BY <1>1, <1>4, <2>1
  <2> QED
    BY <2>2 DEF Range
<1>5. Head(s) \in Range(s)
  BY <1>1 DEF Range
<1> QED
  BY <1>1, <1>2, <1>3, <1>4, <1>5 DEF l, thread_list_pop

------------------------------------------------------------------------------
\* A step that leaves the list and the signals on the way alone leaves alone
\* who has no token.
LEMMA DueSame ==
  ASSUME waiters' = waiters,
         \A v \in All : pc'[v] = "signal_cpu" <=> pc[v] = "signal_cpu",
         \A v \in All : pc[v] = "signal_cpu" => arg'[v] = arg[v],
         NEW u
  PROVE  Due(u)' <=> Due(u)
<1>1. Popped(u)' <=> Popped(u)
  BY DEF Popped
<1> QED
  BY <1>1 DEF Due

\* ... and says nothing new of a thread that it does not touch.
LEMMA LocalAside ==
  ASSUME SemaInv, NEW u \in All, Aside(u), waiters' = waiters,
         \A v \in All : Due(v)' <=> Due(v),
         pc[u] = "signal_cpu" => cpu_id'[arg[u]] = cpu_id[arg[u]],
         pc[u] = "wait_cpu" => count' = count
  PROVE  SemaLocal(u)'
<1>1. SemaLocal(u)
  BY DEF SemaInv
<1>2. /\ {"wait_cpu", "wait_yield", "wait_unlock", "signal_cpu"} \subseteq SemaPoints
  BY DEF SemaPoints
<1>3. CASE pc'[u] \in SemaPoints
  <2>1. /\ pc'[u] = pc[u] /\ arg'[u] = arg[u] /\ target'[u] = target[u]
        /\ state'[u] = state[u] /\ (call'[u] = "sema_wait" => call[u] = "sema_wait")
    BY <1>3 DEF Aside
  <2> QED
    BY <1>1, <2>1 DEF SemaLocal
<1>4. CASE pc'[u] \notin SemaPoints
  <2>1. /\ ~Due(u) /\ (call'[u] = "sema_wait" => call[u] = "sema_wait")
    BY <1>1, <1>2, <1>4 DEF SemaLocal, Aside
  <2> QED
    BY <1>1, <1>2, <1>4, <2>1 DEF SemaLocal
<1> QED
  BY <1>3, <1>4

LEMMA SlockSame ==
  ASSUME SlockInv, slock' = slock,
         \A v \in All : pc'[v] \in SHeld <=> pc[v] \in SHeld
  PROVE  SlockInv'
BY DEF SlockInv

\* The steps of Smp leave the semaphore's invariant alone.
LEMMA SemaSmpNext ==
  ASSUME SemaInv, NEW c \in Cpu, SmpNext(c), UNCHANGED semavars
  PROVE  SemaInv'
<1>1. SmpInv /\ RunInv
  BY DEF SemaInv
<1>2. SmpInv' /\ RunInv' /\ OneHolder'
  <2>1. lock \in [Cpu -> {0, 1}] /\ OneHolder
    BY Zenon DEF SemaInv, SmpInv, TypeOK
  <2>2. SmpInv' /\ HoldersMove
    BY <1>1, SmpNextStep, Zenon
  <2> QED
    BY <1>1, <2>1, <2>2, HoldersKept, RunStep, Zenon
<1>3. \A u \in All : Aside(u)
  BY <1>1, SmpAside
<1>4. slock' = slock /\ count' = count /\ waiters' = waiters
  BY DEF semavars
<1>5. \A u \in All : pc'[u] \in SHeld <=> pc[u] \in SHeld
  BY <1>3 DEF Aside, SHeld, SemaPoints
<1>6. SlockInv'
  BY <1>4, <1>5, SlockSame DEF SemaInv
<1>7. ListInv'
  BY <1>4 DEF SemaInv, ListInv
<1>8. \A u \in All : Due(u)' <=> Due(u)
  <2>1. \A v \in All : /\ pc'[v] = "signal_cpu" <=> pc[v] = "signal_cpu"
                       /\ pc[v] = "signal_cpu" => arg'[v] = arg[v]
    BY <1>3 DEF Aside, SemaPoints
  <2> QED
    BY <1>4, <2>1, DueSame
<1>9. ASSUME NEW u \in All PROVE SemaLocal(u)'
  <2>1. ASSUME pc[u] = "signal_cpu" PROVE cpu_id'[arg[u]] = cpu_id[arg[u]]
    <3>1. arg[u] \in All /\ Due(arg[u])
      BY <2>1, SemaAssumption, Zenon DEF SemaInv, SemaLocal, Due, Popped, All
    <3>2. pc[arg[u]] # "absent"
      BY <3>1 DEF SemaInv, SemaLocal
    <3> QED
      BY <1>3, <3>1, <3>2 DEF Aside
  <2> QED
    BY <1>3, <1>4, <1>8, <2>1, LocalAside, Zenon
<1> QED
  BY <1>2, <1>6, <1>7, <1>9 DEF SemaInv

\* A step of a thread that has nothing to wait for, and that moves nobody on or
\* off the list.
LEMMA QuietStep ==
  ASSUME SemaInv, NEW c \in Cpu, NEW t \in All, t = cur_thread[c], SmpInv', OneHolder',
         UNCHANGED <<cur_thread, state, timer, cpu_id, arg, target, waiters>>,
         \A u \in All : u # t => pc'[u] = pc[u] /\ call'[u] = call[u],
         pc[t] # "signal_cpu", pc'[t] \in {"run", "outer", "wait_cpu"}, ~Due(t),
         pc'[t] = "wait_cpu" => count' = 0,
         pc'[t] = "wait_cpu" \/ call'[t] = "sema_wait" => t \in Waiter,
         count' \in Nat, count' = count \/ slock = 0, SlockInv'
  PROVE  SemaInv'
<1>1. SmpInv /\ RunInv /\ SlockInv /\ ListInv
  BY DEF SemaInv
<1>2. RunInv'
  BY <1>1, RunKept, Zenon
<1>3. ListInv'
  BY <1>1, Zenon DEF ListInv
<1>4. \A u \in All : Due(u)' <=> Due(u)
  <2>1. \A v \in All : /\ pc'[v] = "signal_cpu" <=> pc[v] = "signal_cpu"
                       /\ pc[v] = "signal_cpu" => arg'[v] = arg[v]
    BY Zenon
  <2> QED
    BY <2>1, DueSame, Zenon
<1>5. SemaLocal(t)'
  BY <1>4 DEF SemaLocal
<1>6. ASSUME NEW u \in All, u # t PROVE SemaLocal(u)'
  <2>1. Aside(u)
    BY <1>6 DEF Aside
  <2>2. pc[u] = "wait_cpu" => count' = count
    BY <1>1 DEF SlockInv, SHeld
  <2> QED
    BY <1>4, <2>1, <2>2, LocalAside, Zenon
<1> QED
  BY <1>1, <1>2, <1>3, <1>5, <1>6, Zenon DEF SemaInv

LEMMA SemaCur ==
  ASSUME SemaInv, NEW c \in Cpu
  PROVE  /\ cur_thread[c] \in All /\ state[cur_thread[c]] = RUNNING
         /\ SemaLocal(cur_thread[c]) /\ pc \in [All -> Points] /\ call \in [All -> Calls]
         /\ SmpInv /\ RunInv /\ SlockInv /\ ListInv
<1>1. SmpInv /\ RunInv /\ SlockInv /\ ListInv
  BY DEF SemaInv
<1>2. cur_thread[c] \in All
  BY <1>1, CurFacts
<1>3. pc \in [All -> Points] /\ call \in [All -> Calls]
  BY <1>1, ZenonT(30) DEF SmpInv, TypeOK
<1> QED
  BY <1>1, <1>2, <1>3 DEF SemaInv, RunInv

\* s->lock is taken by t alone, or given back by t.
LEMMA SlockMoved ==
  ASSUME SlockInv, pc \in [All -> Points], NEW t \in All, NEW p,
         pc' = [pc EXCEPT ![t] = p],
         \/ slock = 0 /\ slock' = 1 /\ p \in SHeld
         \/ pc[t] \in SHeld /\ slock' = 0 /\ p \notin SHeld
         \/ slock' = slock /\ (pc[t] \in SHeld <=> p \in SHeld)
  PROVE  SlockInv'
<1>1. pc'[t] = p /\ \A u \in All : u # t => pc'[u] = pc[u]
  OBVIOUS
<1>2. /\ slock \in {0, 1}
      /\ slock = 1 <=> \E v \in All : pc[v] \in SHeld
      /\ \A u, v \in All : pc[u] \in SHeld /\ pc[v] \in SHeld => u = v
  BY DEF SlockInv
<1>3. CASE slock = 0 /\ slock' = 1 /\ p \in SHeld
  BY <1>1, <1>2, <1>3 DEF SlockInv
<1>4. CASE pc[t] \in SHeld /\ slock' = 0 /\ p \notin SHeld
  BY <1>1, <1>2, <1>4 DEF SlockInv
<1>5. CASE slock' = slock /\ (pc[t] \in SHeld <=> p \in SHeld)
  <2>1. \A v \in All : pc'[v] \in SHeld <=> pc[v] \in SHeld
    BY <1>1, <1>5
  <2> QED
    BY <1>5, <2>1, SlockSame
<1> QED
  BY <1>3, <1>4, <1>5

\* Entering a call, and leaving it with or without a token.
LEMMA SemaQuiet ==
  ASSUME SemaInv, NEW c \in Cpu, SmpInv', OneHolder',
         \/ sema_wait(c) \/ sema_signal(c) \/ sema_wait_take(c) \/ sema_wait_lock(c)
         \/ sema_wait_return(c) \/ sema_signal_post(c) \/ sema_signal_return(c)
  PROVE  SemaInv'
<1>1. PICK t \in All : t = cur_thread[c]
  BY SemaCur
<1>2. /\ SlockInv /\ ListInv /\ SemaLocal(t) /\ state[t] = RUNNING
      /\ pc \in [All -> Points] /\ call \in [All -> Calls] /\ count \in Nat
  BY <1>1, SemaCur DEF ListInv
<1>3. ASSUME NEW p \in {"run", "outer", "wait_cpu"}, NEW f,
             pc' = [pc EXCEPT ![t] = p], call' = [call EXCEPT ![t] = f],
             UNCHANGED <<cur_thread, state, timer, cpu_id, arg, target, waiters>>,
             pc[t] # "signal_cpu", ~Due(t), count' \in Nat, count' = count \/ slock = 0,
             p = "wait_cpu" => count' = 0,
             p = "wait_cpu" \/ f = "sema_wait" => t \in Waiter, SlockInv'
      PROVE  SemaInv'
  <2>1. /\ pc'[t] = p /\ call'[t] = f
        /\ \A u \in All : u # t => pc'[u] = pc[u] /\ call'[u] = call[u]
    BY <1>2, <1>3, Zenon
  <2> QED
    BY <1>1, <1>3, <2>1, QuietStep, ZenonT(60)
<1>4. pc[t] \notin {"wait_yield", "wait_unlock"} => ~Due(t)
  BY <1>2 DEF SemaLocal
<1>5. CASE sema_wait(c) \/ sema_signal(c)
  <2>1. PICK f \in {"sema_wait", "sema_signal"} :
          Enter(c, f) /\ (f = "sema_wait" => t \in Waiter)
    BY <1>1, <1>5, Zenon DEF sema_wait, sema_signal
  <2>2. /\ pc[t] = "run" /\ pc' = [pc EXCEPT ![t] = "outer"]
        /\ call' = [call EXCEPT ![t] = f]
        /\ UNCHANGED <<cur_thread, state, timer, cpu_id, arg, target, waiters, count, slock>>
    BY <1>1, <2>1 DEF Enter, Free, runvars, semavars
  <2>3. SlockInv'
    BY <1>2, <2>2, SlockMoved, Zenon DEF SHeld
  <2> QED
    BY <1>2, <1>3, <1>4, <2>1, <2>2, <2>3, Zenon
<1>6. CASE sema_wait_take(c)
  <2>1. /\ pc[t] = "outer" /\ slock = 0 /\ count' = count - 1 /\ count > 0
        /\ pc' = [pc EXCEPT ![t] = "run"] /\ call' = [call EXCEPT ![t] = "none"]
        /\ UNCHANGED <<cur_thread, state, timer, cpu_id, arg, target, waiters, slock>>
    BY <1>1, <1>6, Zenon DEF sema_wait_take, Test, Exit, runvars
  <2>2. SlockInv'
    BY <1>2, <2>1, SlockMoved, Zenon DEF SHeld
  <2>3. count' \in Nat
    BY <1>2, <2>1
  <2> QED
    BY <1>2, <1>3, <1>4, <2>1, <2>2, <2>3, Zenon
<1>7. CASE sema_wait_lock(c)
  <2>1. /\ pc[t] = "outer" /\ slock = 0 /\ slock' = 1 /\ count' = count /\ count <= 0
        /\ pc' = [pc EXCEPT ![t] = "wait_cpu"] /\ call[t] = "sema_wait" /\ call' = call
        /\ UNCHANGED <<cur_thread, state, timer, cpu_id, arg, target, waiters>>
    BY <1>1, <1>7, Zenon DEF sema_wait_lock, Test, Goto, runvars
  <2>2. SlockInv'
    BY <1>2, <2>1, SlockMoved, Zenon DEF SHeld
  <2>3. count' = 0 /\ t \in Waiter
    BY <1>2, <2>1, SMTT(30) DEF SemaLocal
  <2>4. call' = [call EXCEPT ![t] = "sema_wait"]
    BY <1>2, <2>1
  <2> QED
    BY <1>2, <1>3, <1>4, <2>1, <2>2, <2>3, <2>4, Zenon
<1>8. CASE sema_wait_return(c)
  <2>1. /\ pc[t] = "wait_unlock"
        /\ pc' = [pc EXCEPT ![t] = "run"] /\ call' = [call EXCEPT ![t] = "none"]
        /\ UNCHANGED <<cur_thread, state, timer, cpu_id, arg, target, waiters, slock, count>>
    BY <1>1, <1>8, Zenon DEF sema_wait_return, Exit, runvars, semavars
  <2>2. SlockInv'
    BY <1>2, <2>1, SlockMoved, Zenon DEF SHeld
  <2>3. ~Due(t)
    BY <1>2, <2>1, Zenon DEF SemaLocal, RUNNING, SLEEPING
  <2> QED
    BY <1>2, <1>3, <2>1, <2>2, <2>3, Zenon
<1>9. CASE sema_signal_post(c)
  <2>1. /\ pc[t] = "outer" /\ slock = 0 /\ count' = count + 1
        /\ pc' = [pc EXCEPT ![t] = "run"] /\ call' = [call EXCEPT ![t] = "none"]
        /\ UNCHANGED <<cur_thread, state, timer, cpu_id, arg, target, waiters, slock>>
    BY <1>1, <1>9, Zenon DEF sema_signal_post, Test, Exit, runvars
  <2>2. SlockInv'
    BY <1>2, <2>1, SlockMoved, Zenon DEF SHeld
  <2>3. count' \in Nat
    BY <1>2, <2>1
  <2> QED
    BY <1>2, <1>3, <1>4, <2>1, <2>2, <2>3, Zenon
<1>10. CASE sema_signal_return(c)
  <2>1. /\ pc[t] = "signal_unlock" /\ slock' = 0 /\ count' = count
        /\ pc' = [pc EXCEPT ![t] = "run"] /\ call' = [call EXCEPT ![t] = "none"]
        /\ UNCHANGED <<cur_thread, state, timer, cpu_id, arg, target, waiters>>
    BY <1>1, <1>10, Zenon DEF sema_signal_return, Exit, runvars
  <2>2. SlockInv'
    BY <1>2, <2>1, SlockMoved, Zenon DEF SHeld
  <2> QED
    BY <1>2, <1>3, <1>4, <2>1, <2>2, Zenon
<1> QED
  BY <1>5, <1>6, <1>7, <1>8, <1>9, <1>10, Zenon

\* thread_list_push: the thread is due from now on, and its CPU's lock is held.
LEMMA SemaPush ==
  ASSUME SemaInv, NEW c \in Cpu, SmpInv', OneHolder', sema_wait_push(c)
  PROVE  SemaInv'
<1>1. PICK t \in All : t = cur_thread[c]
  BY SemaCur
<1>2. /\ SlockInv /\ ListInv /\ SemaLocal(t) /\ SmpInv /\ RunInv
      /\ pc \in [All -> Points]
  BY <1>1, SemaCur
<1>3. /\ pc[t] = "wait_cpu" /\ pc' = [pc EXCEPT ![t] = "wait_yield"] /\ slock' = 0
      /\ waiters' = thread_list_push(waiters, t)
      /\ UNCHANGED <<cur_thread, state, timer, cpu_id, arg, target, call, count>>
  BY <1>1 DEF sema_wait_push, Goto, runvars
<1>4. pc'[t] = "wait_yield" /\ \A u \in All : u # t => pc'[u] = pc[u]
  BY <1>2, <1>3, Zenon
<1>5. RunInv'
  BY <1>1, <1>2, <1>3, <1>4, RunKept
<1>6. SlockInv'
  BY <1>2, <1>3, SlockMoved, Zenon DEF SHeld
<1>7. t \in Waiter /\ ~Due(t)
  BY <1>2, <1>3, Zenon DEF SemaLocal
<1>8. /\ waiters \in Seq(Waiter) /\ t \notin Range(waiters) /\ count \in Nat
      /\ \A i, j \in DOMAIN waiters : waiters[i] = waiters[j] => i = j
  BY <1>2, <1>7 DEF ListInv, Due
<1>9. /\ waiters' \in Seq(Waiter)
      /\ \A i, j \in DOMAIN waiters' : waiters'[i] = waiters'[j] => i = j
      /\ \A y : y \in Range(waiters') <=> y \in Range(waiters) \/ y = t
  BY <1>3, <1>7, <1>8, PushList, SMTT(30)
<1>10. ListInv'
  BY <1>3, <1>8, <1>9, Zenon DEF ListInv
<1>11. \A u \in All : u # t => pc[u] \notin SHeld
  BY <1>2, <1>3 DEF SlockInv, SHeld
<1>12. \A u : Due(u)' <=> Due(u) \/ u = t
  <2>1. \A u : Popped(u)' <=> Popped(u)
    BY <1>3, <1>4 DEF Popped
  <2>2. \A u : u \in Range(waiters)' <=> u \in Range(waiters) \/ u = t
    BY <1>9, Zenon
  <2> QED
    BY <2>1, <2>2 DEF Due
<1>13. SemaLocal(t)'
  BY <1>4, <1>7, <1>12 DEF SemaLocal
<1>14. ASSUME NEW u \in All, u # t PROVE SemaLocal(u)'
  <2>1. SemaLocal(u) /\ pc[u] # "signal_cpu"
    BY <1>11, <1>14, Zenon DEF SemaInv, SHeld
  <2> QED
    BY <1>3, <1>4, <1>12, <1>14, <2>1, Zenon DEF SemaLocal
<1> QED
  BY <1>5, <1>6, <1>10, <1>13, <1>14, Zenon DEF SemaInv

\* sched_yield_locked: the thread goes to sleep while it is due.
LEMMA SemaYield ==
  ASSUME SemaInv, NEW c \in Cpu, SmpInv', OneHolder', sema_wait_yield(c)
  PROVE  SemaInv'
<1>1. PICK t \in All : t = cur_thread[c]
  BY SemaCur
<1>2. /\ SlockInv /\ ListInv /\ SemaLocal(t) /\ SmpInv /\ RunInv
      /\ pc \in [All -> Points] /\ state \in [All -> {RUNNING, SLEEPING}]
  BY <1>1, SemaCur, Zenon DEF SmpInv, TypeOK
<1>3. /\ pc[t] = "wait_yield" /\ pc' = [pc EXCEPT ![t] = "wait_unlock"]
      /\ SwitchFrom(c, [state EXCEPT ![t] = SLEEPING], cnt)
      /\ UNCHANGED <<timer, cpu_id, arg, target, call, count, slock, waiters>>
  BY <1>1, Zenon DEF sema_wait_yield, Goto, semavars
<1>4. state' = [state EXCEPT ![t] = SLEEPING]
  BY <1>3 DEF SwitchFrom
<1>5. /\ pc'[t] = "wait_unlock" /\ state'[t] = SLEEPING
      /\ \A u \in All : u # t => pc'[u] = pc[u] /\ state'[u] = state[u]
  BY <1>2, <1>3, <1>4, Zenon
<1>6. t \in Waiter /\ Due(t) /\ t # Idle[c]
  BY <1>2, <1>3, SemaAssumption, SmpAssumption DEF SemaLocal, Range
<1>7. RunInv'
  <2>1. UNCHANGED <<lock, intr, cpu_spl, threads, sleep_time, ret, spl>>
    BY DEF sema_wait_yield, cpuvars
  <2> QED
    BY <1>1, <1>2, <1>3, <1>6, <2>1, YieldStep, Zenon
<1>8. SlockInv'
  BY <1>2, <1>3, SlockMoved, Zenon DEF SHeld
<1>9. ListInv'
  BY <1>2, <1>3, Zenon DEF ListInv
<1>10. \A u \in All : Due(u)' <=> Due(u)
  <2>1. \A v \in All : /\ pc'[v] = "signal_cpu" <=> pc[v] = "signal_cpu"
                       /\ pc[v] = "signal_cpu" => arg'[v] = arg[v]
    BY <1>3, <1>5
  <2> QED
    BY <1>3, <2>1, DueSame, Zenon
<1>11. SemaLocal(t)'
  BY <1>5, <1>6, <1>10, Zenon DEF SemaLocal
<1>12. ASSUME NEW u \in All, u # t PROVE SemaLocal(u)'
  <2>1. Aside(u)
    BY <1>3, <1>5, <1>12, Zenon DEF Aside
  <2> QED
    BY <1>3, <1>10, <2>1, LocalAside, Zenon
<1> QED
  BY <1>7, <1>8, <1>9, <1>11, <1>12 DEF SemaInv

\* thread_list_pop: the head of the list is due still, its signal on the way.
LEMMA SemaPop ==
  ASSUME SemaInv, NEW c \in Cpu, SmpInv', OneHolder', sema_signal_pop(c)
  PROVE  SemaInv' /\ \A u : Due(u)' <=> Due(u)
<1>1. PICK t \in All : t = cur_thread[c]
  BY SemaCur, Zenon
<1>2. /\ SlockInv /\ ListInv /\ SemaLocal(t) /\ SmpInv /\ RunInv
      /\ pc \in [All -> Points] /\ arg \in [All -> All] /\ target \in [All -> Cpu]
  BY <1>1, SemaCur, Zenon DEF SmpInv, TypeOK
<1>3. PICK w : w = Head(waiters)
  BY Zenon
<1>4. /\ pc[t] = "outer" /\ pc' = [pc EXCEPT ![t] = "signal_cpu"]
      /\ slock = 0 /\ slock' = 1 /\ waiters # <<>>
      /\ waiters' = thread_list_pop(waiters)
      /\ arg' = [arg EXCEPT ![t] = w] /\ target' = [target EXCEPT ![t] = cpu_id[w]]
      /\ call[t] = "sema_signal"
      /\ UNCHANGED <<cur_thread, state, timer, cpu_id, call, count>>
  BY <1>1, <1>3, Zenon DEF sema_signal_pop, Test, Goto, runvars
<1>5. /\ pc'[t] = "signal_cpu" /\ arg'[t] = w /\ target'[t] = cpu_id[w]
      /\ \A u \in All : u # t => /\ pc'[u] = pc[u] /\ arg'[u] = arg[u]
                                 /\ target'[u] = target[u]
  BY <1>2, <1>4, Zenon
<1>6. RunInv'
  BY <1>1, <1>2, <1>4, <1>5, RunKept, Zenon
<1>7. SlockInv'
  BY <1>2, <1>4, SlockMoved, Zenon DEF SHeld
<1>8. /\ waiters \in Seq(Waiter) /\ count \in Nat
      /\ \A i, j \in DOMAIN waiters : waiters[i] = waiters[j] => i = j
  BY <1>2 DEF ListInv
<1>9. /\ waiters' \in Seq(Waiter) /\ w \in Waiter /\ w \in Range(waiters)
      /\ \A i, j \in DOMAIN waiters' : waiters'[i] = waiters'[j] => i = j
      /\ \A y : y \in Range(waiters') <=> y \in Range(waiters) /\ y # w
  <2>1. PICK l : l = waiters
    BY Zenon
  <2>2. /\ l \in Seq(Waiter) /\ l # <<>> /\ w = Head(l)
        /\ \A i, j \in DOMAIN l : l[i] = l[j] => i = j
        /\ waiters' = thread_list_pop(l)
    BY <1>3, <1>4, <1>8, <2>1, Zenon
  <2>3. PICK m : m = thread_list_pop(l)
    BY Zenon
  <2>4. /\ m \in Seq(Waiter) /\ w \in Waiter /\ w \in Range(l)
        /\ \A i, j \in DOMAIN m : m[i] = m[j] => i = j
        /\ \A y : y \in Range(m) <=> y \in Range(l) /\ y # w
    BY <2>2, <2>3, PopList, Zenon
  <2> QED
    BY <2>1, <2>2, <2>3, <2>4, Zenon
<1>10. ListInv'
  BY <1>4, <1>8, <1>9, Zenon DEF ListInv
<1>11. \A u \in All : pc[u] \notin SHeld
  <2>1. slock = 0
    BY <1>4, Zenon
  <2>2. slock # 1
    BY <2>1
  <2> QED
    BY <1>2, <2>2, Zenon DEF SlockInv
<1>12. \A u : Due(u)' <=> Due(u)
  <2>1. \A u : ~Popped(u)
    BY <1>11 DEF Popped, SHeld
  <2>2. \A u : Popped(u)' <=> u = w
    BY <1>5, <1>11 DEF Popped, SHeld
  <2>3. \A u : u \in Range(waiters)' <=> u \in Range(waiters) /\ u # w
    BY <1>9
  <2> QED
    BY <1>9, <2>1, <2>2, <2>3, Zenon DEF Due
<1>13. SemaLocal(t)'
  BY <1>2, <1>4, <1>5, <1>9, <1>12, Zenon DEF SemaLocal
<1>14. ASSUME NEW u \in All, u # t PROVE SemaLocal(u)'
  <2>1. SemaLocal(u) /\ pc[u] # "signal_cpu"
    BY <1>11, <1>14, Zenon DEF SemaInv, SHeld
  <2> QED
    BY <1>4, <1>5, <1>12, <1>14, <2>1, Zenon DEF SemaLocal
<1> QED
  BY <1>6, <1>7, <1>10, <1>12, <1>13, <1>14, Zenon DEF SemaInv

\* The thread that sema_signal wakes has given its CPU away: sched_yield_locked
\* keeps the CPU's lock until it has.
LEMMA WakeAsleep ==
  ASSUME SemaInv, NEW t \in All, pc[t] = "signal_cpu", lock[target[t]] = 0
  PROVE  pc[arg[t]] = "wait_unlock" /\ Due(arg[t]) /\ arg[t] \in Waiter /\ arg[t] \in All
<1>1. PICK w \in All : w = arg[t] /\ w \in Waiter /\ target[t] = cpu_id[w] /\ Due(w)
  BY SemaAssumption DEF SemaInv, SemaLocal, Due, Popped, All
<1>2. pc[w] \in {"wait_yield", "wait_unlock"}
  BY <1>1, Zenon DEF SemaInv, SemaLocal
<1>3. ASSUME pc[w] = "wait_yield" PROVE FALSE
  <2>1. SmpInv /\ cpu_id[w] \in Cpu
    BY Zenon DEF SemaInv, SmpInv, TypeOK
  <2>2. cur_thread[cpu_id[w]] = w
    BY <1>3, <2>1 DEF SmpInv, SwitchedOutParked, Parked
  <2>3. Holds(w, cpu_id[w])
    BY <1>3, <2>2, Zenon DEF Holds, OwnHeld
  <2>4. lock[cpu_id[w]] = 1
    BY <2>1, <2>3, Zenon DEF SemaInv, OneHolder
  <2> QED
    BY <1>1, <2>4
<1> QED
  BY <1>1, <1>2, <1>3, Zenon

LEMMA SemaWake ==
  ASSUME SemaInv, NEW c \in Cpu, SmpInv', OneHolder', sema_signal_wake(c)
  PROVE  SemaInv'
<1>1. PICK t \in All : t = cur_thread[c]
  BY SemaCur
<1>2. /\ SlockInv /\ ListInv /\ SemaLocal(t) /\ SmpInv /\ RunInv
      /\ pc \in [All -> Points] /\ state \in [All -> {RUNNING, SLEEPING}]
  BY <1>1, SemaCur, Zenon DEF SmpInv, TypeOK
<1>3. PICK w : w = arg[t]
  OBVIOUS
<1>4. /\ pc[t] = "signal_cpu" /\ pc' = [pc EXCEPT ![t] = "signal_unlock"]
      /\ lock[target[t]] = 0
      /\ state' = [state EXCEPT ![w] = RUNNING]
      /\ UNCHANGED <<cur_thread, timer, cpu_id, arg, target, call, count, slock, waiters>>
  BY <1>1, <1>3, Zenon DEF sema_signal_wake, Goto, Acquire, semavars
<1>5. w \in All /\ w \in Waiter /\ pc[w] = "wait_unlock" /\ Due(w)
  BY <1>3, <1>4, WakeAsleep, Zenon
<1>6. /\ pc'[t] = "signal_unlock" /\ \A u \in All : u # t => pc'[u] = pc[u]
      /\ state'[w] = RUNNING /\ \A u \in All : u # w => state'[u] = state[u]
  BY <1>2, <1>4, <1>5, Zenon
<1>7. RunInv'
  <2>1. \A d \in Cpu : Idle[d] \in All /\ cur_thread[d] \in All
    BY <1>2, SmpAssumption, CurFacts, Zenon
  <2>2. \A d \in Cpu : state'[Idle[d]] = RUNNING /\ state'[cur_thread[d]] = RUNNING
    BY <1>2, <1>6, <2>1, Zenon DEF RunInv
  <2>3. ASSUME NEW u \in All, timer[u]
        PROVE  state'[u] = SLEEPING /\ call[u] = "sched_sleep" /\ pc'[u] = "unlock_splx"
    BY <1>2, <1>4, <1>5, <1>6, <2>3, Zenon DEF RunInv
  <2> QED
    BY <1>4, <2>2, <2>3, Zenon DEF RunInv
<1>8. SlockInv'
  BY <1>2, <1>4, SlockMoved, Zenon DEF SHeld
<1>9. ListInv'
  BY <1>2, <1>4, Zenon DEF ListInv
<1>10. \A u \in All : u # t => pc[u] # "signal_cpu"
  BY <1>2, <1>4, Zenon DEF SlockInv, SHeld
<1>11. w \notin Range(waiters)
  BY <1>2, <1>3, <1>4, Zenon DEF SemaLocal
<1>12. \A u : Due(u)' <=> Due(u) /\ u # w
  <2>1. \A u : Popped(u) <=> u = w
    BY <1>3, <1>4, <1>10 DEF Popped
  <2>2. \A u : ~Popped(u)'
    BY <1>6, <1>10 DEF Popped
  <2> QED
    BY <1>4, <1>11, <2>1, <2>2, Zenon DEF Due
<1>13. SemaLocal(t)'
  BY <1>2, <1>4, <1>6, <1>12, Zenon DEF SemaLocal
<1>14. ASSUME NEW u \in All, u # t PROVE SemaLocal(u)'
  <2>1. SemaLocal(u) /\ pc[u] # "signal_cpu"
    BY <1>10, <1>14, Zenon DEF SemaInv
  <2>2. CASE u = w
    BY <1>4, <1>5, <1>6, <1>12, <1>14, <2>1, <2>2, Zenon DEF SemaLocal, RUNNING, SLEEPING
  <2>3. CASE u # w
    BY <1>4, <1>6, <1>12, <1>14, <2>1, <2>3, Zenon DEF SemaLocal
  <2> QED
    BY <2>2, <2>3
<1> QED
  BY <1>7, <1>8, <1>9, <1>13, <1>14 DEF SemaInv

------------------------------------------------------------------------------
LEMMA SemaInitInv == SemaInit => SemaInv
<1> SUFFICES ASSUME SemaInit PROVE SemaInv
  OBVIOUS
<1>1. Init /\ slock = 0 /\ count = InitCount /\ waiters = <<>>
  BY DEF SemaInit, sema_init
<1>2. SmpInv /\ OneHolder
  BY <1>1, SmpInvInit, OneHolderInit
<1>3. /\ \A t \in All : /\ pc[t] \in {"absent", "run"} /\ call[t] = "none"
                        /\ state[t] = RUNNING /\ timer[t] = FALSE
      /\ cur_thread = Idle
  BY <1>1 DEF Init
<1>4. RunInv
  BY <1>3, SmpAssumption DEF RunInv
<1>5. SlockInv
  BY <1>1, <1>3 DEF SlockInv, SHeld
<1>6. ListInv
  BY <1>1, SemaAssumption DEF ListInv
<1>7. \A t \in All : ~Due(t)
  BY <1>1, <1>3 DEF Due, Popped, Range
<1>8. \A t \in All : SemaLocal(t)
  BY <1>3, <1>7 DEF SemaLocal
<1> QED
  BY <1>2, <1>4, <1>5, <1>6, <1>8 DEF SemaInv

LEMMA SemaInvStep == SemaInv /\ [SemaNext]_kvars => SemaInv'
<1> SUFFICES ASSUME SemaInv, [SemaNext]_kvars PROVE SemaInv'
  OBVIOUS
<1>1. CASE UNCHANGED kvars
  <2>1. vars' = vars /\ slock' = slock /\ count' = count /\ waiters' = waiters
    BY <1>1 DEF kvars, semavars
  <2>2. SmpInv' /\ OneHolder'
    BY <2>1, SmpInvStutter, OneHolderStep DEF SemaInv
  <2>3. /\ cur_thread' = cur_thread /\ state' = state /\ timer' = timer /\ pc' = pc
        /\ call' = call /\ arg' = arg /\ target' = target /\ cpu_id' = cpu_id
    BY <2>1 DEF vars, runvars, ctlvars
  <2>4. RunInv'
    BY <2>3 DEF SemaInv, RunInv
  <2>5. SlockInv' /\ ListInv'
    BY <2>1, <2>3 DEF SemaInv, SlockInv, ListInv
  <2>6. \A u : Due(u)' <=> Due(u)
    BY <2>1, <2>3, Zenon DEF Due, Popped
  <2>7. \A u \in All : SemaLocal(u)'
    BY <2>1, <2>3, <2>6, Zenon DEF SemaInv, SemaLocal
  <2> QED
    BY <2>2, <2>4, <2>5, <2>7 DEF SemaInv
<1>2. CASE SemaNext
  <2>1. PICK c \in Cpu : \/ SmpNext(c) /\ UNCHANGED semavars
                         \/ sema_wait(c) \/ sema_signal(c) \/ InSema(c)
    BY <1>2 DEF SemaNext
  <2>2. CASE SmpNext(c) /\ UNCHANGED semavars
    BY <2>2, SemaSmpNext
  <2>3. CASE sema_wait(c) \/ sema_signal(c) \/ InSema(c)
    <3>1. SmpInv' /\ OneHolder'
      BY <2>3, SemaSmpStep
    <3> QED
      BY <2>3, <3>1, SemaQuiet, SemaPush, SemaYield, SemaPop, SemaWake, Zenon DEF InSema
  <2> QED
    BY <2>1, <2>2, <2>3
<1> QED
  BY <1>1, <1>2

\* With semaphores, too, every step of every CPU keeps the invariant of the
\* processors and the one of the semaphore, whatever the number of CPUs, of
\* waiting and of signalling threads, and whatever the first count.
THEOREM SemaInvariant == SemaSpec => []SemaInv
BY SemaInitInv, SemaInvStep, PTL DEF SemaSpec

\* No wakeup is lost: a thread asleep in sema_wait is on the list, or a signal
\* has taken it off and is about to wake it.
THEOREM NoLostWakeupHolds == SemaSpec => []NoLostWakeup
<1>1. SemaInv => NoLostWakeup
  BY SemaAssumption DEF SemaInv, NoLostWakeup, SemaLocal, Due, All
<1> QED
  BY <1>1, SemaInvariant, PTL

\* The CPUs' locks keep their one holder when threads go to sleep in sema_wait
\* holding one, and are woken from other CPUs.
THEOREM SemaOneHolder == SemaSpec => []OneHolder
<1>1. SemaInv => OneHolder
  BY DEF SemaInv
<1> QED
  BY <1>1, SemaInvariant, PTL

------------------------------------------------------------------------------
\* A thread is Granted from the step that takes it off the list to its return.
WaitHeld == {"wait_yield", "wait_unlock"}

LEMMA GrantedSame ==
  ASSUME waiters' = waiters,
         \A u \in All : pc'[u] \in WaitHeld <=> pc[u] \in WaitHeld
  PROVE  Granted' = Granted
BY SemaAssumption DEF Granted, WaitHeld, All

\* Steps that CountingSema does not see.
LEMMA SemaHidden ==
  ASSUME SemaInv, NEW c \in Cpu,
         \/ SmpNext(c) /\ UNCHANGED semavars
         \/ sema_wait(c) \/ sema_signal(c) \/ sema_wait_lock(c) \/ sema_wait_yield(c)
         \/ sema_signal_wake(c) \/ sema_signal_return(c)
  PROVE  UNCHANGED A!svars
<1>1. PICK t \in All : t = cur_thread[c]
  BY SemaCur, Zenon
<1>2. pc \in [All -> Points] /\ SmpInv /\ RunInv
  BY SemaCur
<1>3. CASE SmpNext(c) /\ UNCHANGED semavars
  <2>1. \A u \in All : pc'[u] \in WaitHeld <=> pc[u] \in WaitHeld
    <3> TAKE u \in All
    <3>1. Aside(u)
      BY <1>2, <1>3, SmpAside
    <3> QED
      BY <3>1 DEF Aside, WaitHeld, SemaPoints
  <2>2. waiters' = waiters /\ count' = count
    BY <1>3 DEF semavars
  <2> QED
    BY <2>1, <2>2, GrantedSame, Zenon DEF A!svars
<1>4. ASSUME NEW p, pc' = [pc EXCEPT ![t] = p], p \in WaitHeld <=> pc[t] \in WaitHeld,
             waiters' = waiters, count' = count
      PROVE  UNCHANGED A!svars
  <2>1. \A u \in All : pc'[u] \in WaitHeld <=> pc[u] \in WaitHeld
    BY <1>2, <1>4
  <2> QED
    BY <1>4, <2>1, GrantedSame DEF A!svars
<1>5. CASE sema_wait(c) \/ sema_signal(c)
  <2>1. PICK fn : Enter(c, fn)
    BY <1>5, Zenon DEF sema_wait, sema_signal
  <2> QED
    BY <1>1, <1>4, <2>1, Zenon DEF Enter, Free, semavars, WaitHeld
<1>6. CASE sema_wait_lock(c) \/ sema_signal_wake(c) \/ sema_wait_yield(c)
  BY <1>1, <1>4, <1>6, Zenon
  DEF sema_wait_lock, sema_signal_wake, sema_wait_yield, Goto, semavars, WaitHeld
<1>7. CASE sema_signal_return(c)
  BY <1>1, <1>4, <1>7, Zenon DEF sema_signal_return, Exit, WaitHeld
<1> QED
  BY <1>3, <1>5, <1>6, <1>7, Zenon

\* Every other step is a step of CountingSema.
LEMMA SemaVisible ==
  ASSUME SemaInv, NEW c \in Cpu,
         \/ sema_wait_take(c) \/ sema_wait_push(c) \/ sema_wait_return(c)
         \/ sema_signal_post(c) \/ sema_signal_pop(c)
  PROVE  A!SNext
<1>1. PICK t \in All : t = cur_thread[c]
  BY SemaCur, Zenon
<1>2. /\ pc \in [All -> Points] /\ ListInv /\ SemaLocal(t) /\ SlockInv
      /\ state[t] = RUNNING
  BY <1>1, SemaCur, Zenon
<1>3. ASSUME NEW p, pc' = [pc EXCEPT ![t] = p]
      PROVE  pc'[t] = p /\ \A u \in All : u # t => pc'[u] = pc[u]
  BY <1>2, <1>3
<1>4. \A u \in Waiter : u \in All
  BY SemaAssumption DEF All
<1>5. CASE sema_wait_take(c) \/ sema_signal_post(c)
  <2>1. /\ pc[t] = "outer" /\ pc' = [pc EXCEPT ![t] = "run"] /\ waiters' = waiters
        /\ \/ count > 0 /\ count' = count - 1
           \/ waiters = <<>> /\ count' = count + 1
    BY <1>1, <1>5, Zenon DEF sema_wait_take, sema_signal_post, Test, Exit
  <2>2. \A u \in All : pc'[u] \in WaitHeld <=> pc[u] \in WaitHeld
    BY <1>2, <2>1 DEF WaitHeld
  <2>3. Granted' = Granted
    BY <2>1, <2>2, GrantedSame
  <2> QED
    BY <2>1, <2>3 DEF A!SNext, A!Take, A!Post
<1>6. CASE sema_wait_push(c)
  <2>1. /\ pc[t] = "wait_cpu" /\ pc' = [pc EXCEPT ![t] = "wait_yield"]
        /\ waiters' = Append(waiters, t) /\ count' = count
    BY <1>1, <1>6, Zenon DEF sema_wait_push, Goto, thread_list_push
  <2>2. t \in Waiter /\ ~Due(t) /\ count = 0
    BY <1>2, <2>1, Zenon DEF SemaLocal
  <2>3. /\ waiters \in Seq(Waiter) /\ t \notin Range(waiters)
        /\ \A i, j \in DOMAIN waiters : waiters[i] = waiters[j] => i = j
    BY <1>2, <2>2 DEF ListInv, Due
  <2>4. \A y : y \in Range(waiters') <=> y \in Range(waiters) \/ y = t
    BY <2>1, <2>2, <2>3, PushList, Zenon DEF thread_list_push
  <2>5. t \notin Granted
    BY <2>1 DEF Granted
  <2>6. Granted' = Granted
    <3>1. \A u \in Waiter : u \in Granted' <=> u \in Granted
      BY <1>3, <1>4, <2>1, <2>4, <2>5, Zenon DEF Granted
    <3> QED
      BY <3>1, Zenon DEF Granted
  <2> QED
    BY <2>1, <2>2, <2>5, <2>6 DEF A!SNext, A!Enqueue
<1>7. CASE sema_wait_return(c)
  <2>1. /\ pc[t] = "wait_unlock" /\ pc' = [pc EXCEPT ![t] = "run"]
        /\ waiters' = waiters /\ count' = count
    BY <1>1, <1>7, Zenon DEF sema_wait_return, Exit, semavars
  <2>2. t \in Waiter /\ t \notin Range(waiters)
    BY <1>2, <2>1, Zenon DEF SemaLocal, Due, RUNNING, SLEEPING
  <2>3. t \in Granted /\ Granted' = Granted \ {t}
    <3>1. \A u \in Waiter : u \in Granted' <=> u \in Granted /\ u # t
      <4>1. pc'[t] = "run" /\ \A u \in All : u # t => pc'[u] = pc[u]
        BY <1>3, <2>1, Zenon
      <4>2. Range(waiters') = Range(waiters)
        BY <2>1
      <4> QED
        BY <1>4, <4>1, <4>2 DEF Granted
    <3> QED
      BY <2>1, <2>2, <3>1, Zenon DEF Granted
  <2> QED
    BY <2>1, <2>2, <2>3 DEF A!SNext, A!Return
<1>8. CASE sema_signal_pop(c)
  <2>1. /\ pc[t] = "outer" /\ pc' = [pc EXCEPT ![t] = "signal_cpu"]
        /\ waiters # <<>> /\ waiters' = Tail(waiters) /\ count' = count
    BY <1>1, <1>8 DEF sema_signal_pop, Test, Goto, thread_list_pop
  <2>2. PICK w : w = Head(waiters)
    OBVIOUS
  <2>3. /\ waiters \in Seq(Waiter)
        /\ \A i, j \in DOMAIN waiters : waiters[i] = waiters[j] => i = j
    BY <1>2, Zenon DEF ListInv
  <2>4. /\ w \in Waiter /\ w \in Range(waiters)
        /\ \A y : y \in Range(waiters') <=> y \in Range(waiters) /\ y # w
    BY <2>1, <2>2, <2>3, PopList DEF thread_list_pop
  <2>5. Due(w) /\ w \in All
    BY <1>4, <2>4, Zenon DEF Due
  <2>6. pc[w] \in WaitHeld
    BY <2>5, Zenon DEF SemaInv, SemaLocal, WaitHeld
  <2>7. Granted' = Granted \cup {w}
    <3>1. \A u \in Waiter : u \in Granted' <=> u \in Granted \/ u = w
      BY <1>3, <1>4, <2>1, <2>4, <2>6 DEF Granted, WaitHeld
    <3> QED
      BY <2>4, <3>1, Zenon DEF Granted
  <2> QED
    BY <2>1, <2>2, <2>7, Zenon DEF A!SNext, A!HandOver
<1> QED
  BY <1>5, <1>6, <1>7, <1>8

\* sema_wait and sema_signal implement a first-in first-out counting semaphore:
\* no token is lost or made up, and no thread returns from a wait without one.
THEOREM ImplementsCountingSemaHolds == SemaSpec => ImplementsCountingSema
<1>1. SemaInit => A!SInit
  <2> SUFFICES ASSUME SemaInit PROVE A!SInit
    OBVIOUS
  <2>1. /\ count = InitCount /\ waiters = <<>>
        /\ \A t \in All : pc[t] \in {"absent", "run"}
    BY DEF SemaInit, sema_init, Init
  <2>2. Granted = {}
    BY <2>1, SemaAssumption DEF Granted, All
  <2> QED
    BY <2>1, <2>2 DEF A!SInit
<1>2. SemaInv /\ [SemaNext]_kvars => [A!SNext]_(A!svars)
  <2> SUFFICES ASSUME SemaInv, [SemaNext]_kvars PROVE A!SNext \/ UNCHANGED A!svars
    OBVIOUS
  <2>1. CASE UNCHANGED kvars
    BY <2>1 DEF kvars, semavars, vars, ctlvars, A!svars, Granted
  <2>2. CASE SemaNext
    BY <2>2, SemaHidden, SemaVisible DEF SemaNext, InSema
  <2> QED
    BY <2>1, <2>2
<1> QED
  BY <1>1, <1>2, SemaInvariant, PTL DEF SemaSpec, ImplementsCountingSema, A!SSpec
=============================================================================
