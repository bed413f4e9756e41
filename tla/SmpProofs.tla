------------------------------ MODULE SmpProofs ------------------------------
(***************************************************************************)
(* The lock, interrupt and ring invariants of Smp, for any number of CPUs  *)
(* and threads: first the steps that move one thread from one point to     *)
(* another (interrupts, entries into calls), then those that release a     *)
(* lock or work on a ring with its lock held (unlocks, the hand-over of a  *)
(* CPU in sched_next, sleeps, ticks and creations), the theorems, and last *)
(* the steps that Semaphore and Keyboard add and what theirs and Smp's say *)
(* to each other.                                                          *)
(***************************************************************************)
EXTENDS Smp, RunQueueProofs

\* Points inside sema_wait and sema_signal, which Semaphore adds, and kbd_read,
\* which Keyboard does.
SemaPoints == {"outer", "wait_cpu", "wait_yield", "wait_unlock", "signal_cpu",
               "signal_unlock"}

\* What the point a thread is at says about its locals: a handler on its stack
\* returns to an enabled point; sections on the own CPU were entered by
\* cpu_splhi with interrupts enabled, and so were the semaphore's; sections on
\* another CPU without it.
LocalInv(t) ==
  /\ ret[t] # "absent" <=>
        pc[t] \in {"tick", "tick_unlock", "kbd_lock", "kbd_cpu", "kbd_unlock"}
  /\ pc[t] = "lock_own" => spl[t] /\ target[t] = cpu_id[t]
  /\ pc[t] = "unlock_splx" => cpu_spl[cpu_id[t]]
  /\ pc[t] \in {"lock_id", "unlock_id"} \/ ret[t] \in {"lock_id", "unlock_id"}
        => target[t] # cpu_id[t]
  /\ pc[t] \in {"absent", "thread_start"} => call[t] = "none"
  /\ call[t] = "sched_sleep" => pc[t] \in {"lock_own", "unlock_splx"}
  /\ call[t] = "cpu_show_cmd" /\ (pc[t] = "run" \/ ret[t] = "run")
        => target[t] + 1 < NumCpus
  /\ pc[t] \in SemaPoints => spl[t]

\* t is about to push the thread it creates.
Creating(t) ==
  /\ call[t] = "thread_create"
  /\ pc[t] \in {"lock_own", "lock_id"} \/ ret[t] = "lock_id"

\* Only kernel_main creates, so that no two sections push the same thread.
CreateInv ==
  \A t \in All : Creating(t) => /\ t = Idle[0]
                                /\ arg[t] \in Thread
                                /\ pc[arg[t]] = "absent"
                                /\ target[t] = Home[arg[t]]

CntInv == \A t \in All : cnt[t] <= 2 * THREAD_DEFAULT_PRI - 1

SmpInv ==
  /\ TypeOK
  /\ RingsDisjoint
  /\ SwitchedOutParked
  /\ \A d \in Cpu : intr[d] <=> pc[cur_thread[d]] \in Open
  /\ \A t \in All : LocalInv(t)
  /\ CreateInv
  /\ CntInv

\* The property IntrDiscipline is a consequence.
LEMMA IntrFromInv == SmpInv => IntrDiscipline
<1> SUFFICES ASSUME SmpInv, NEW d \in Cpu
             PROVE  /\ intr[d] <=> pc[cur_thread[d]] \in Open
                    /\ pc[cur_thread[d]] = "unlock_splx" => cpu_spl[d]
                    /\ \A t \in All : Holds(t, d) /\ cpu_id[t] = d /\ cur_thread[d] = t
                                        => ~intr[d]
  BY Zenon DEF IntrDiscipline
<1>1. intr[d] <=> pc[cur_thread[d]] \in Open
  BY DEF SmpInv
<1>2. cur_thread[d] \in All /\ cpu_id[cur_thread[d]] = d
  BY DEF SmpInv, TypeOK, SwitchedOutParked
<1>3. LocalInv(cur_thread[d])
  BY <1>2 DEF SmpInv
<1>4. ASSUME NEW t \in All, Holds(t, d), cpu_id[t] = d, cur_thread[d] = t
      PROVE  ~intr[d]
  <2>1. ret[t] \in {"absent"} \cup Open
    BY DEF SmpInv, TypeOK
  <2> QED
    BY <1>1, <1>3, <1>4, <2>1 DEF Holds, LocalInv, OwnHeld, IdHeld, Open
<1> QED
  BY <1>1, <1>2, <1>3, <1>4 DEF LocalInv

\* The boot list is a sequence of threads, so its positions are numbers.
LEMMA BootDomain == DOMAIN Boot \subseteq Nat
<1>1. Boot \in Seq(Thread)
  BY SmpAssumption, Zenon
<1> QED
  BY <1>1

\* The thread that has CPU c belongs to c and has no other CPU.
LEMMA CurFacts ==
  ASSUME SmpInv, NEW c \in Cpu
  PROVE  /\ cur_thread[c] \in All
         /\ cpu_id[cur_thread[c]] = c
         /\ pc[cur_thread[c]] # "absent"
         /\ LocalInv(cur_thread[c])
         /\ \A d \in Cpu : cur_thread[d] = cur_thread[c] => d = c
<1>1. /\ cur_thread \in [Cpu -> All]
      /\ \A d \in Cpu : cpu_id[cur_thread[d]] = d /\ pc[cur_thread[d]] # "absent"
  BY DEF SmpInv, TypeOK, SwitchedOutParked
<1> QED
  BY <1>1 DEF SmpInv

\* What a step does to the holders of the locks: nothing, ...
HoldersSame ==
  /\ lock' = lock
  /\ \A u \in All, d \in Cpu : Holds(u, d)' <=> Holds(u, d)

\* ... or it takes a free lock, ...
HolderGained(h, e) ==
  /\ lock[e] = 0 /\ lock' = [lock EXCEPT ![e] = 1] /\ Holds(h, e)'
  /\ \A u \in All, d \in Cpu : u # h \/ d # e => (Holds(u, d)' <=> Holds(u, d))

\* ... releases a lock that it held, ...
HolderLost(h, e) ==
  /\ Holds(h, e) /\ lock' = [lock EXCEPT ![e] = 0] /\ ~Holds(h, e)'
  /\ \A u \in All, d \in Cpu : u # h \/ d # e => (Holds(u, d)' <=> Holds(u, d))

\* ... or a thread hands its CPU over to n with the lock held.
HolderPassed(h, n, e) ==
  /\ lock' = lock /\ Holds(h, e) /\ Holds(n, e)' /\ (h # n => ~Holds(h, e)')
  /\ \A u \in All, d \in Cpu :
        (u # h /\ u # n) \/ d # e => (Holds(u, d)' <=> Holds(u, d))

HoldersMove ==
  \/ HoldersSame
  \/ \E h \in All, e \in Cpu : HolderGained(h, e) \/ HolderLost(h, e)
  \/ \E h, n \in All, e \in Cpu : HolderPassed(h, n, e)

LEMMA GainStep ==
  ASSUME NEW h \in All, NEW e \in Cpu, lock[e] = 0, lock' = [lock EXCEPT ![e] = 1],
         Holds(h, e)',
         \A u \in All, d \in Cpu : u # h \/ d # e => (Holds(u, d)' <=> Holds(u, d))
  PROVE  HoldersMove
BY Zenon DEF HoldersMove, HolderGained

LEMMA LoseStep ==
  ASSUME NEW h \in All, NEW e \in Cpu, Holds(h, e), lock' = [lock EXCEPT ![e] = 0],
         ~Holds(h, e)',
         \A u \in All, d \in Cpu : u # h \/ d # e => (Holds(u, d)' <=> Holds(u, d))
  PROVE  HoldersMove
BY Zenon DEF HoldersMove, HolderLost

LEMMA PassStep ==
  ASSUME NEW h \in All, NEW n \in All, NEW e \in Cpu, lock' = lock,
         Holds(h, e), Holds(n, e)', h # n => ~Holds(h, e)',
         \A u \in All, d \in Cpu :
            (u # h /\ u # n) \/ d # e => (Holds(u, d)' <=> Holds(u, d))
  PROVE  HoldersMove
<1>1. HolderPassed(h, n, e)
  BY Zenon DEF HolderPassed
<1> QED
  BY <1>1, Zenon DEF HoldersMove

\* Every lock is free or has one holder, where the locks of the CPUs in S are
\* held by an interrupt handler, on behalf of no thread.
HeldOnce(S) ==
  \A d \in Cpu :
    /\ lock[d] = 1 <=> d \in S \/ \E t \in All : Holds(t, d)
    /\ \A t, u \in All : Holds(t, d) /\ Holds(u, d) => t = u
    /\ d \in S => \A t \in All : ~Holds(t, d)

\* It stays so in each of these steps.
LEMMA HeldKept ==
  ASSUME NEW S, HeldOnce(S), lock \in [Cpu -> {0, 1}], HoldersMove
  PROVE  HeldOnce(S)'
<1> DEFINE Once(d) == /\ lock[d] = 1 <=> d \in S \/ \E t \in All : Holds(t, d)
                      /\ \A t, u \in All : Holds(t, d) /\ Holds(u, d) => t = u
                      /\ d \in S => \A t \in All : ~Holds(t, d)
<1>1. \A d \in Cpu : Once(d)
  BY Zenon DEF HeldOnce
<1>2. CASE HoldersSame
  BY <1>2 DEF HeldOnce, HoldersSame
<1>3. ASSUME NEW h \in All, NEW e \in Cpu, HolderGained(h, e), NEW d \in Cpu
      PROVE  Once(d)'
  <2>1. /\ lock[e] = 0 /\ lock' = [lock EXCEPT ![e] = 1] /\ Holds(h, e)'
        /\ \A u \in All : u # h \/ d # e => (Holds(u, d)' <=> Holds(u, d))
    BY <1>3, Zenon DEF HolderGained
  <2>2. lock[e] # 1 /\ lock'[e] = 1 /\ (d # e => lock'[d] = lock[d])
    BY <2>1
  <2>3. CASE d = e
    <3>1. d \notin S /\ \A t \in All : ~Holds(t, d)
      BY <1>1, <2>2, <2>3, Zenon
    <3>2. \A t \in All : Holds(t, d)' => t = h
      BY <2>1, <3>1, Zenon
    <3> QED
      BY <2>1, <2>2, <2>3, <3>1, <3>2, Zenon
  <2>4. CASE d # e
    BY <1>1, <2>1, <2>2, <2>4, Zenon
  <2> QED
    BY <2>3, <2>4, Zenon
<1>4. ASSUME NEW h \in All, NEW e \in Cpu, HolderLost(h, e), NEW d \in Cpu
      PROVE  Once(d)'
  <2>1. /\ Holds(h, e) /\ lock' = [lock EXCEPT ![e] = 0] /\ ~Holds(h, e)'
        /\ \A u \in All : u # h \/ d # e => (Holds(u, d)' <=> Holds(u, d))
    BY <1>4, Zenon DEF HolderLost
  <2>2. lock'[e] # 1 /\ (d # e => lock'[d] = lock[d])
    BY <2>1
  <2>3. CASE d = e
    <3>1. d \notin S /\ \A t \in All : Holds(t, d) => t = h
      BY <1>1, <2>1, <2>3, Zenon
    <3>2. \A t \in All : ~Holds(t, d)'
      BY <2>1, <2>3, <3>1, Zenon
    <3> QED
      BY <2>2, <2>3, <3>1, <3>2, Zenon
  <2>4. CASE d # e
    BY <1>1, <2>1, <2>2, <2>4, Zenon
  <2> QED
    BY <2>3, <2>4, Zenon
<1>5. ASSUME NEW h \in All, NEW n \in All, NEW e \in Cpu, HolderPassed(h, n, e),
             NEW d \in Cpu
      PROVE  Once(d)'
  <2>1. /\ lock' = lock /\ Holds(h, e) /\ Holds(n, e)' /\ (h # n => ~Holds(h, e)')
        /\ \A u \in All : (u # h /\ u # n) \/ d # e => (Holds(u, d)' <=> Holds(u, d))
    BY <1>5, Zenon DEF HolderPassed
  <2>2. CASE d = e
    <3>1. d \notin S /\ lock[d] = 1 /\ \A t \in All : Holds(t, d) => t = h
      BY <1>1, <2>1, <2>2, Zenon
    <3>2. \A t \in All : Holds(t, d)' => t = n
      BY <2>1, <2>2, <3>1, Zenon
    <3> QED
      BY <2>1, <2>2, <3>1, <3>2, Zenon
  <2>3. CASE d # e
    BY <1>1, <2>1, <2>3, Zenon
  <2> QED
    BY <2>2, <2>3, Zenon
<1>6. ASSUME \A d \in Cpu : Once(d)' PROVE HeldOnce(S)'
  BY <1>6, Zenon DEF HeldOnce
<1> HIDE DEF Once
<1> QED
  BY <1>2, <1>3, <1>4, <1>5, <1>6, Zenon DEF HoldersMove

LEMMA HoldersKept ==
  ASSUME OneHolder, lock \in [Cpu -> {0, 1}], HoldersMove
  PROVE  OneHolder'
<1>1. HeldOnce({})
  BY Zenon DEF HeldOnce, OneHolder
<1>2. HeldOnce({})'
  BY <1>1, HeldKept
<1> QED
  BY <1>2, Zenon DEF HeldOnce, OneHolder

\* A step of the thread on CPU c that leaves rings, counts and cur_thread alone
\* needs to look after its own locals, its CPU's flag and the locks only.
LEMMA ControlStep ==
  ASSUME SmpInv, NEW c \in Cpu, NEW p \in Points \ {"absent"},
         TypeOK',
         threads' = threads, cur_thread' = cur_thread, cpu_id' = cpu_id,
         cnt' = cnt,
         pc' = [pc EXCEPT ![cur_thread[c]] = p],
         \A u \in All : u # cur_thread[c] =>
            /\ ret'[u] = ret[u] /\ target'[u] = target[u] /\ arg'[u] = arg[u]
            /\ call'[u] = call[u] /\ spl'[u] = spl[u],
         \A d \in Cpu : d # c => (intr'[d] <=> intr[d]),
         \A d \in Cpu : cpu_spl[d] => cpu_spl'[d],
         intr'[c] <=> p \in Open,
         LocalInv(cur_thread[c])',
         Creating(cur_thread[c])' =>
            /\ cur_thread[c] = Idle[0]
            /\ arg'[cur_thread[c]] \in Thread
            /\ pc[arg'[cur_thread[c]]] = "absent"
            /\ target'[cur_thread[c]] = Home[arg'[cur_thread[c]]]
  PROVE  SmpInv'
<1> DEFINE t == cur_thread[c]
<1>1. /\ t \in All /\ cpu_id[t] = c /\ pc[t] # "absent"
      /\ \A d \in Cpu : cur_thread[d] = t => d = c
  BY CurFacts
<1>2. /\ pc \in [All -> Points] /\ cpu_id \in [All -> Cpu] /\ arg \in [All -> All]
      /\ cur_thread \in [Cpu -> All]
  BY Zenon DEF SmpInv, TypeOK
<1>3. /\ pc'[t] = p /\ p # "absent"
      /\ \A u \in All : u # t => pc'[u] = pc[u]
      /\ \A u \in All : pc'[u] = "absent" <=> pc[u] = "absent"
  BY <1>1, <1>2
<1>4. RingsDisjoint'
  BY <1>3 DEF SmpInv, RingsDisjoint
<1>5. SwitchedOutParked'
  <2>1. /\ \A u \in All : pc[u] # "absent" /\ cur_thread[cpu_id[u]] # u
                             => pc[u] \in Parked
        /\ \A d \in Cpu : cpu_id[cur_thread[d]] = d /\ pc[cur_thread[d]] # "absent"
    BY DEF SmpInv, SwitchedOutParked
  <2> HIDE DEF t
  <2>2. \A u \in All : pc'[u] # "absent" /\ cur_thread[cpu_id[u]] # u
                          => pc'[u] \in Parked
    <3>1. cur_thread[cpu_id[t]] = t
      BY <1>1 DEF t
    <3> QED
      BY <2>1, <3>1, <1>3
  <2> QED
    BY <1>2, <1>3, <2>1, <2>2 DEF SwitchedOutParked
<1>6. \A d \in Cpu : intr'[d] <=> pc'[cur_thread'[d]] \in Open
  BY <1>1, <1>2, <1>3, SMTT(30) DEF SmpInv
<1>7. \A u \in All : LocalInv(u)'
  <2> SUFFICES ASSUME NEW u \in All, u # t PROVE LocalInv(u)'
    OBVIOUS
  <2>1. LocalInv(u)
    BY DEF SmpInv
  <2>2. /\ pc'[u] = pc[u] /\ ret'[u] = ret[u] /\ target'[u] = target[u]
        /\ call'[u] = call[u] /\ spl'[u] = spl[u] /\ cpu_id[u] \in Cpu
    BY <1>2, <1>3
  <2> QED
    BY <2>1, <2>2, ZenonT(60) DEF LocalInv
<1>8. CreateInv'
  <2> SUFFICES ASSUME NEW u \in All, Creating(u)'
               PROVE  /\ u = Idle[0] /\ arg'[u] \in Thread
                      /\ pc'[arg'[u]] = "absent"
                      /\ target'[u] = Home[arg'[u]]
    BY DEF CreateInv
  <2>1. CASE u = t
    BY <1>3, <2>1, SmpAssumption DEF All
  <2>2. CASE u # t
    <3>1. Creating(u)
      BY <1>3, <2>2 DEF Creating
    <3>2. /\ u = Idle[0] /\ arg[u] \in Thread /\ pc[arg[u]] = "absent"
          /\ target[u] = Home[arg[u]]
      BY <3>1 DEF SmpInv, CreateInv
    <3> QED
      BY <1>2, <1>3, <2>2, <3>2
  <2> QED
    BY <2>1, <2>2
<1>9. CntInv'
  BY DEF SmpInv, CntInv
<1> QED
  BY <1>4, <1>5, <1>6, <1>7, <1>8, <1>9 DEF SmpInv

\* An interrupt on CPU c, of the timer or of the keyboard.
LEMMA InterruptStep ==
  ASSUME SmpInv, NEW c \in Cpu, NEW p \in {"tick", "kbd_lock"}, intr[c],
         intr' = [intr EXCEPT ![c] = FALSE],
         pc' = [pc EXCEPT ![cur_thread[c]] = p],
         ret' = [ret EXCEPT ![cur_thread[c]] = pc[cur_thread[c]]],
         UNCHANGED <<lock, cpu_spl, runvars, target, arg, call, spl>>
  PROVE  SmpInv' /\ HoldersMove
<1> DEFINE t == cur_thread[c]
<1>1. /\ t \in All /\ cpu_id[t] = c /\ LocalInv(t)
      /\ \A d \in Cpu : cur_thread[d] = t => d = c
  BY CurFacts
<1>2. /\ pc[t] \in Open
      /\ intr' = [intr EXCEPT ![c] = FALSE]
      /\ pc' = [pc EXCEPT ![t] = p]
      /\ ret' = [ret EXCEPT ![t] = pc[t]]
      /\ UNCHANGED <<lock, cpu_spl, threads, cur_thread, cpu_id, state, cnt,
                     sleep_time, timer, target, arg, call, spl>>
  BY Zenon DEF SmpInv, runvars
<1>3. TypeOK
  BY DEF SmpInv
<1>4. p \in Points \ {"absent"} /\ p \notin Open
  BY DEF Points, Masked, KbdIrq, Open
<1>5. TypeOK'
  <2>1. pc' \in [All -> Points]
    BY <1>1, <1>2, <1>3, <1>4 DEF TypeOK
  <2>2. ret' \in [All -> {"absent"} \cup Open]
    <3>1. pc[t] \in {"absent"} \cup Open /\ ret \in [All -> {"absent"} \cup Open]
      BY <1>2, <1>3 DEF TypeOK
    <3> QED
      BY <1>2, <3>1, Zenon
  <2>3. intr' \in [Cpu -> BOOLEAN]
    BY <1>2, <1>3 DEF TypeOK
  <2> QED
    BY <1>2, <1>3, <2>1, <2>2, <2>3, ZenonT(60) DEF TypeOK
<1>6. /\ pc'[t] = p /\ ret'[t] = pc[t] /\ ret[t] = "absent"
      /\ \A u \in All : u # t => pc'[u] = pc[u] /\ ret'[u] = ret[u]
  <2>1. ret[t] = "absent"
    BY <1>1, <1>2 DEF LocalInv, Open
  <2> QED
    BY <1>1, <1>2, <1>3, <2>1 DEF TypeOK
<1>7. HoldersMove
  <2>1. \A u \in All, d \in Cpu : Holds(u, d)' <=> Holds(u, d)
    BY <1>2, <1>6, Zenon DEF Holds, OwnHeld, IdHeld, Open
  <2> QED
    BY <1>2, <2>1, Zenon DEF HoldersMove, HoldersSame
<1>8. LocalInv(t)'
  BY <1>1, <1>2, <1>6 DEF LocalInv, SemaPoints, Open
<1>9. Creating(t)' => Creating(t)
  BY <1>2, <1>6 DEF Creating
<1>10. /\ \A d \in Cpu : d # c => (intr'[d] <=> intr[d])
       /\ intr'[c] <=> p \in Open
  BY <1>2, <1>3, <1>4 DEF TypeOK
<1>11. Creating(t)' => /\ t = Idle[0] /\ arg'[t] \in Thread
                       /\ pc[arg'[t]] = "absent" /\ target'[t] = Home[arg'[t]]
  BY <1>1, <1>2, <1>9, Zenon DEF SmpInv, CreateInv
<1>12. /\ threads' = threads /\ cur_thread' = cur_thread /\ cpu_id' = cpu_id
       /\ cnt' = cnt /\ \A d \in Cpu : cpu_spl[d] => cpu_spl'[d]
       /\ \A u \in All : u # t =>
             /\ ret'[u] = ret[u] /\ target'[u] = target[u] /\ arg'[u] = arg[u]
             /\ call'[u] = call[u] /\ spl'[u] = spl[u]
  BY <1>2, <1>6, Zenon
<1> QED
  BY <1>4, <1>5, <1>7, <1>8, <1>10, <1>11, <1>12, ControlStep, Zenon

LEMMA TimerIrqStep ==
  ASSUME SmpInv, NEW c \in Cpu, timer_irq(c) PROVE SmpInv' /\ HoldersMove
<1>1. /\ intr[c] /\ intr' = [intr EXCEPT ![c] = FALSE]
      /\ pc' = [pc EXCEPT ![cur_thread[c]] = "tick"]
      /\ ret' = [ret EXCEPT ![cur_thread[c]] = pc[cur_thread[c]]]
      /\ UNCHANGED <<lock, cpu_spl, runvars, target, arg, call, spl>>
  BY Zenon DEF timer_irq
<1> QED
  BY <1>1, InterruptStep, Zenon

LEMMA TimerReturnStep ==
  ASSUME SmpInv, NEW c \in Cpu, timer_irq_return(c) PROVE SmpInv' /\ HoldersMove
<1> DEFINE t == cur_thread[c]
           p == ret[t]
<1>1. /\ t \in All /\ cpu_id[t] = c /\ LocalInv(t)
      /\ \A d \in Cpu : cur_thread[d] = t => d = c
  BY CurFacts
<1>2. /\ pc[t] = "tick_unlock"
      /\ lock' = [lock EXCEPT ![c] = 0]
      /\ intr' = [intr EXCEPT ![c] = TRUE]
      /\ pc' = [pc EXCEPT ![t] = p]
      /\ ret' = [ret EXCEPT ![t] = "absent"]
      /\ UNCHANGED <<cpu_spl, threads, cur_thread, cpu_id, state, cnt,
                     sleep_time, timer, target, arg, call, spl>>
  BY DEF timer_irq_return, Goto, Release, runvars
<1>3. TypeOK
  BY DEF SmpInv
<1>4. p \in Open /\ p \in Points \ {"absent"}
  BY <1>1, <1>2, <1>3 DEF TypeOK, LocalInv, Open, Points
<1>5. TypeOK'
  BY <1>1, <1>2, <1>3, <1>4, Zenon DEF TypeOK
<1>6. /\ pc'[t] = ret[t] /\ ret'[t] = "absent"
      /\ \A u \in All : u # t => pc'[u] = pc[u] /\ ret'[u] = ret[u]
  BY <1>1, <1>2, <1>3 DEF TypeOK
<1>7. HoldersMove
  <2>1. Holds(t, c)
    BY <1>2, Zenon DEF Holds, OwnHeld
  <2>2. ~Holds(t, c)'
    BY <1>1, <1>2, <1>4, <1>6, Zenon DEF Holds, OwnHeld, IdHeld, Open, LocalInv
  <2>3. \A u \in All, d \in Cpu : u # t \/ d # c => (Holds(u, d)' <=> Holds(u, d))
    BY <1>1, <1>2, <1>4, <1>6, ZenonT(60) DEF Holds, OwnHeld, IdHeld, Open
  <2> QED
    BY ZenonT(60), <1>1, <1>2, <1>3, <2>1, <2>2, <2>3, LoseStep
<1>8. LocalInv(t)'
  BY <1>1, <1>2, <1>4, <1>6, Zenon DEF LocalInv, SemaPoints, Open
<1>9. Creating(t)' => Creating(t)
  BY <1>2, <1>4, <1>6 DEF Creating, Open
<1>10. /\ \A d \in Cpu : d # c => (intr'[d] <=> intr[d])
       /\ intr'[c] = TRUE
  BY <1>2, <1>3 DEF TypeOK
<1>11. Creating(t) => /\ t = Idle[0] /\ arg[t] \in Thread
                      /\ pc[arg[t]] = "absent" /\ target[t] = Home[arg[t]]
  BY <1>1 DEF SmpInv, CreateInv
<1> QED
  BY ZenonT(60), <1>2, <1>4, <1>5, <1>6, <1>7, <1>8, <1>9, <1>10, <1>11, ControlStep

LEMMA ThreadStartStep ==
  ASSUME SmpInv, NEW c \in Cpu, thread_start(c) PROVE SmpInv' /\ HoldersMove
<1> DEFINE t == cur_thread[c]
<1>1. /\ t \in All /\ cpu_id[t] = c /\ LocalInv(t)
      /\ \A d \in Cpu : cur_thread[d] = t => d = c
  BY CurFacts
<1>2. /\ pc[t] = "thread_start"
      /\ lock' = [lock EXCEPT ![c] = 0]
      /\ intr' = [intr EXCEPT ![c] = TRUE]
      /\ pc' = [pc EXCEPT ![t] = "run"]
      /\ UNCHANGED <<cpu_spl, threads, cur_thread, cpu_id, state, cnt,
                     sleep_time, timer, ret, target, arg, call, spl>>
  BY DEF thread_start, Goto, Release, runvars
<1>3. TypeOK
  BY DEF SmpInv
<1>4. "run" \in Open /\ "run" \in Points \ {"absent"}
  BY DEF Open, Points
<1>5. TypeOK'
  BY ZenonT(60), <1>1, <1>2, <1>3, <1>4 DEF TypeOK
<1>6. /\ pc'[t] = "run" /\ ret[t] = "absent"
      /\ \A u \in All : u # t => pc'[u] = pc[u]
  BY <1>1, <1>2, <1>3 DEF TypeOK, LocalInv
<1>7. HoldersMove
  <2>1. Holds(t, c)
    BY <1>2, Zenon DEF Holds, OwnHeld
  <2>2. ~Holds(t, c)'
    BY <1>2, <1>6, Zenon DEF Holds, OwnHeld, IdHeld
  <2>3. \A u \in All, d \in Cpu : u # t \/ d # c => (Holds(u, d)' <=> Holds(u, d))
    BY <1>1, <1>2, <1>6, Zenon DEF Holds, OwnHeld, IdHeld
  <2> QED
    BY ZenonT(60), <1>1, <1>2, <1>3, <2>1, <2>2, <2>3, LoseStep
<1>8. call[t] = "none"
  BY <1>1, <1>2, Zenon DEF LocalInv
<1>9. LocalInv(t)'
  BY <1>1, <1>2, <1>6, <1>8, Zenon DEF LocalInv, SemaPoints
<1>10. ~Creating(t)'
  BY <1>2, <1>6 DEF Creating
<1>11. /\ \A d \in Cpu : d # c => (intr'[d] <=> intr[d])
       /\ intr'[c] = TRUE
  BY <1>2, <1>3 DEF TypeOK
<1> QED
  BY <1>2, <1>4, <1>5, <1>6, <1>7, <1>9, <1>10, <1>11, ControlStep, Zenon

\* Going for a lock, from the loop of cpu_show_cmd or from outside any call.
LEMMA LockSmpStep ==
  ASSUME SmpInv, NEW c \in Cpu, NEW fn \in Calls, NEW d \in Cpu,
         pc[cur_thread[c]] = "run",
         cpu_lock_smp(c, fn, d),
         arg' \in [All -> All],
         \A u \in All : u # cur_thread[c] => arg'[u] = arg[u],
         fn = "sched_sleep" => c = d,
         fn = "thread_create" => /\ cur_thread[c] = Idle[0]
                                 /\ arg'[cur_thread[c]] \in Thread
                                 /\ pc[arg'[cur_thread[c]]] = "absent"
                                 /\ d = Home[arg'[cur_thread[c]]]
  PROVE  SmpInv' /\ HoldersMove
<1> DEFINE t == cur_thread[c]
           p == IF c = d THEN "lock_own" ELSE "lock_id"
<1>1. /\ t \in All /\ cpu_id[t] = c /\ LocalInv(t)
      /\ \A e \in Cpu : cur_thread[e] = t => e = c
  BY CurFacts
<1>2. /\ target' = [target EXCEPT ![t] = d]
      /\ pc' = [pc EXCEPT ![t] = p]
      /\ call' = [call EXCEPT ![t] = fn]
      /\ c = d => /\ spl' = [spl EXCEPT ![t] = intr[c]]
                  /\ intr' = [intr EXCEPT ![c] = FALSE]
      /\ c # d => spl' = spl /\ intr' = intr
      /\ UNCHANGED <<lock, cpu_spl, threads, cur_thread, cpu_id, state, cnt,
                     sleep_time, timer, ret>>
  BY ZenonT(60) DEF cpu_lock_smp, cpu_splhi, runvars
<1>3. TypeOK
  BY DEF SmpInv
<1>4. /\ p \in Points \ {"absent"} /\ p \in {"lock_own", "lock_id"}
      /\ p \in Open <=> c # d
  BY DEF Open, Points, Masked
<1>5. intr[c] = TRUE
  <2>1. intr[c] \in BOOLEAN
    BY <1>3 DEF TypeOK
  <2>2. intr[c] <=> pc[t] \in Open
    BY DEF SmpInv
  <2> QED
    BY <2>1, <2>2 DEF Open
<1>6. spl' \in [All -> BOOLEAN] /\ intr' \in [Cpu -> BOOLEAN]
  BY ZenonT(60), <1>1, <1>2, <1>3, <1>5 DEF TypeOK
<1>7. TypeOK'
  BY <1>1, <1>2, <1>3, <1>4, <1>6, Zenon DEF TypeOK
<1>8. /\ pc'[t] = p /\ target'[t] = d /\ call'[t] = fn /\ ret[t] = "absent"
      /\ c = d => spl'[t] = TRUE
      /\ \A u \in All : u # t => /\ pc'[u] = pc[u] /\ target'[u] = target[u]
                                 /\ call'[u] = call[u] /\ spl'[u] = spl[u]
  <2>1. ret[t] = "absent"
    BY ZenonT(60), <1>1 DEF LocalInv
  <2>2. CASE c = d
    BY <1>1, <1>2, <1>3, <1>5, <2>1, <2>2, SMTT(30) DEF TypeOK
  <2>3. CASE c # d
    BY <1>1, <1>2, <1>3, <2>1, <2>3, Zenon DEF TypeOK
  <2> QED
    BY ZenonT(60), <2>2, <2>3
<1>9. HoldersMove
  <2>1. \A u \in All, e \in Cpu : Holds(u, e)' <=> Holds(u, e)
    BY <1>2, <1>4, <1>8, Zenon DEF Holds, OwnHeld, IdHeld
  <2> QED
    BY <1>2, <2>1, Zenon DEF HoldersMove, HoldersSame
<1>10. LocalInv(t)'
  BY <1>1, <1>2, <1>4, <1>8, SMTT(30) DEF LocalInv, SemaPoints
<1>11. Creating(t)' => /\ t = Idle[0] /\ arg'[t] \in Thread
                       /\ pc[arg'[t]] = "absent" /\ target'[t] = Home[arg'[t]]
  BY <1>2, <1>8 DEF Creating
<1>12. /\ \A e \in Cpu : e # c => (intr'[e] <=> intr[e])
       /\ intr'[c] <=> p \in Open
  <2>1. CASE c = d
    BY <1>2, <1>3, <1>4, <2>1, ZenonT(60) DEF TypeOK
  <2>2. CASE c # d
    BY ZenonT(60), <1>2, <1>4, <1>5, <2>2
  <2> QED
    BY <2>1, <2>2
<1>13. /\ UNCHANGED <<threads, cur_thread, cpu_id, cnt, cpu_spl>>
       /\ pc' = [pc EXCEPT ![cur_thread[c]] = p]
       /\ \A u \in All : u # cur_thread[c] =>
            /\ ret'[u] = ret[u] /\ target'[u] = target[u] /\ arg'[u] = arg[u]
            /\ call'[u] = call[u] /\ spl'[u] = spl[u]
  <2>1. /\ UNCHANGED <<threads, cur_thread, cpu_id, cnt, cpu_spl>>
        /\ pc' = [pc EXCEPT ![cur_thread[c]] = p]
    BY <1>2, Zenon
  <2>2. \A u \in All : u # cur_thread[c] =>
            /\ ret'[u] = ret[u] /\ target'[u] = target[u] /\ arg'[u] = arg[u]
            /\ call'[u] = call[u] /\ spl'[u] = spl[u]
    BY <1>2, <1>8
  <2> QED
    BY <2>1, <2>2, Zenon
<1> HIDE DEF p
<1> QED
  BY ZenonT(60), <1>4, <1>7, <1>9, <1>10, <1>11, <1>12, <1>13, ControlStep

LEMMA CreateStep ==
  ASSUME SmpInv, NEW c \in Cpu, thread_create(c) PROVE SmpInv' /\ HoldersMove
<1>1. PICK m \in Pending : \A j \in Pending : m <= j
  <2>1. Pending \subseteq Nat /\ Pending # {}
    BY SmpAssumption DEF thread_create, Pending
  <2> QED
    BY <2>1, NatMin, Zenon
<1>2. NextBoot \in Thread /\ pc[NextBoot] = "absent"
  <2>1. /\ (CHOOSE i \in Pending : \A j \in Pending : i <= j) \in Pending
    BY <1>1
  <2> HIDE DEF Pending
  <2>2. \A i \in Pending : Boot[i] \in Thread /\ pc[Boot[i]] = "absent"
    BY SmpAssumption DEF Pending
  <2> QED
    BY <2>1, <2>2 DEF NextBoot
<1>3. /\ cur_thread[c] = Idle[0] /\ pc[cur_thread[c]] = "run"
      /\ arg' = [arg EXCEPT ![Idle[0]] = NextBoot]
      /\ cpu_lock_smp(c, "thread_create", Home[NextBoot])
  BY DEF thread_create, Free
<1>4. Idle[0] \in All /\ arg \in [All -> All] /\ NextBoot \in All
  BY ZenonT(60), <1>2, <1>3, CurFacts DEF SmpInv, TypeOK, All
<1>5. Home[NextBoot] \in Cpu /\ "thread_create" \in Calls
  BY <1>2, SmpAssumption DEF Calls
<1>6. /\ arg' \in [All -> All] /\ arg'[Idle[0]] = NextBoot
      /\ \A u \in All : u # Idle[0] => arg'[u] = arg[u]
  BY <1>3, <1>4
<1> QED
  BY <1>2, <1>3, <1>5, <1>6, LockSmpStep

LEMMA SleepStep ==
  ASSUME SmpInv, NEW c \in Cpu, sched_sleep(c) PROVE SmpInv' /\ HoldersMove
<1>1. "sched_sleep" \in Calls /\ arg \in [All -> All]
  BY DEF Calls, SmpInv, TypeOK
<1>2. /\ pc[cur_thread[c]] = "run" /\ arg' = arg
      /\ cpu_lock_smp(c, "sched_sleep", c)
  BY DEF sched_sleep, Free
<1> QED
  BY <1>1, <1>2, LockSmpStep

LEMMA ShowStep ==
  ASSUME SmpInv, NEW c \in Cpu, cpu_show_cmd(c) PROVE SmpInv' /\ HoldersMove
<1>1. "cpu_show_cmd" \in Calls /\ arg \in [All -> All]
  BY DEF Calls, SmpInv, TypeOK
<1>2. /\ pc[cur_thread[c]] = "run" /\ arg' = arg
      /\ \/ cpu_lock_smp(c, "cpu_show_cmd", 0)
         \/ /\ call[cur_thread[c]] = "cpu_show_cmd"
            /\ cpu_lock_smp(c, "cpu_show_cmd", target[cur_thread[c]] + 1)
  BY DEF cpu_show_cmd, Free
<1>3. 0 \in Cpu
  BY SmpAssumption DEF Cpu
<1>4. call[cur_thread[c]] = "cpu_show_cmd" => target[cur_thread[c]] + 1 \in Cpu
  <2>1. target[cur_thread[c]] \in Cpu /\ LocalInv(cur_thread[c])
    BY CurFacts DEF SmpInv, TypeOK
  <2> QED
    BY <1>2, <2>1, SmpAssumption DEF LocalInv, Cpu
<1> QED
  BY <1>1, <1>2, <1>3, <1>4, LockSmpStep
------------------------------------------------------------------------------
LEMMA UnlockStep ==
  ASSUME SmpInv, NEW c \in Cpu, cpu_unlock_smp(c) PROVE SmpInv' /\ HoldersMove
<1> DEFINE t == cur_thread[c]
           e == IF pc[t] = "unlock_splx" THEN c ELSE target[t]
<1>1. /\ t \in All /\ cpu_id[t] = c /\ LocalInv(t)
      /\ \A d \in Cpu : cur_thread[d] = t => d = c
  BY CurFacts
<1>2. TypeOK
  BY DEF SmpInv
<1>3. /\ pc[t] \in {"unlock_splx", "unlock_id"}
      /\ pc' = [pc EXCEPT ![t] = "run"]
      /\ lock' = [lock EXCEPT ![e] = 0]
      /\ call' = [call EXCEPT ![t] =
                   IF @ = "cpu_show_cmd" /\ target[t] + 1 < NumCpus
                   THEN @ ELSE "none"]
      /\ UNCHANGED <<cpu_spl, threads, cur_thread, cpu_id, state, cnt,
                     sleep_time, timer, ret, target, arg, spl>>
  BY DEF cpu_unlock_smp, Goto, Release, runvars
<1>4. /\ pc[t] = "unlock_splx" => intr' = [intr EXCEPT ![c] = TRUE]
      /\ pc[t] = "unlock_id" => intr' = intr
  <2>1. CASE pc[t] = "unlock_splx"
    <3>1. cpu_spl[c] = TRUE
      BY <1>1, <1>2, <2>1 DEF LocalInv, TypeOK
    <3>2. intr' = [intr EXCEPT ![c] = @ \/ cpu_spl[c]]
      BY <2>1 DEF cpu_unlock_smp, Goto, cpu_splx
    <3> QED
      BY <2>1, <3>1, <3>2, Zenon
  <2>2. CASE pc[t] = "unlock_id"
    BY <2>2 DEF cpu_unlock_smp, Goto
  <2> QED
    BY <1>3, <2>1, <2>2
<1>5. /\ intr' \in [Cpu -> BOOLEAN] /\ intr'[c] = TRUE
      /\ \A d \in Cpu : d # c => (intr'[d] <=> intr[d])
  <2>1. pc[t] = "unlock_id" => intr[c]
    BY DEF SmpInv, Open
  <2> QED
    BY <1>2, <1>3, <1>4, <2>1, Zenon DEF TypeOK
<1>6. "run" \in Open /\ "run" \in Points \ {"absent"}
  BY DEF Open, Points
<1>7. e \in Cpu
  BY <1>1, <1>2 DEF TypeOK
<1>8. call' \in [All -> Calls]
  BY <1>1, <1>2, <1>3 DEF TypeOK, Calls
<1>9. TypeOK'
  <2>1. lock' \in [Cpu -> {0, 1}]
    BY <1>2, <1>3, <1>7 DEF TypeOK
  <2>2. pc' \in [All -> Points]
    BY <1>1, <1>2, <1>3, <1>6 DEF TypeOK
  <2> QED
    BY ZenonT(60), <1>2, <1>3, <1>5, <1>8, <2>1, <2>2 DEF TypeOK
<1>10. /\ pc'[t] = "run" /\ ret[t] = "absent"
       /\ call'[t] \in {"cpu_show_cmd", "none"}
       /\ call'[t] = "cpu_show_cmd" => target[t] + 1 < NumCpus
       /\ \A u \in All : u # t => pc'[u] = pc[u] /\ call'[u] = call[u]
  BY ZenonT(60), <1>1, <1>2, <1>3 DEF TypeOK, LocalInv
<1>11. HoldersMove
  <2>1. Holds(t, e)
    BY <1>3 DEF Holds, OwnHeld, IdHeld
  <2>3. \A u \in All, d \in Cpu : u # t \/ d # e => (Holds(u, d)' <=> Holds(u, d))
    BY <1>1, <1>3, <1>10 DEF Holds, OwnHeld, IdHeld
  <2> HIDE DEF e
  <2>6. PICK f \in Cpu : f = e
    BY <1>7
  <2>7. /\ Holds(t, f) /\ lock' = [lock EXCEPT ![f] = 0]
        /\ \A u \in All, d \in Cpu : u # t \/ d # f => (Holds(u, d)' <=> Holds(u, d))
    BY <1>3, <2>1, <2>3, <2>6
  <2>8. ~Holds(t, f)'
    BY <1>3, <1>10, <2>6, Zenon DEF Holds, OwnHeld, IdHeld
  <2> QED
    BY <1>1, <1>3, <2>7, <2>8, LoseStep, ZenonT(60)
<1>12. LocalInv(t)'
  BY <1>1, <1>3, <1>10 DEF LocalInv, SemaPoints
<1>13. ~Creating(t)'
  BY <1>3, <1>10 DEF Creating
<1>14. /\ UNCHANGED <<threads, cur_thread, cpu_id, cnt, cpu_spl>>
       /\ pc' = [pc EXCEPT ![cur_thread[c]] = "run"]
       /\ \A u \in All : u # cur_thread[c] =>
            /\ ret'[u] = ret[u] /\ target'[u] = target[u] /\ arg'[u] = arg[u]
            /\ call'[u] = call[u] /\ spl'[u] = spl[u]
  BY <1>3, <1>10
<1> HIDE DEF e
<1> QED
  BY <1>5, <1>6, <1>9, <1>11, <1>12, <1>13, <1>14, ControlStep, Zenon

\* What it means to have taken the lock that a section needs.
LEMMA LockedFacts ==
  ASSUME SmpInv, NEW c \in Cpu, NEW fn, Locked(c, fn)
  PROVE  LET t == cur_thread[c]
         IN /\ call[t] = fn
            /\ target[t] \in Cpu /\ lock[target[t]] = 0
            /\ lock' = [lock EXCEPT ![target[t]] = 1]
            /\ pc[t] \in {"lock_own", "lock_id"}
            /\ pc[t] = "lock_own" <=> target[t] = c
            /\ Unlock(t) = IF target[t] = c THEN "unlock_splx" ELSE "unlock_id"
            /\ ret[t] = "absent"
            /\ cpu_spl' \in [Cpu -> BOOLEAN]
            /\ \A d \in Cpu : cpu_spl[d] => cpu_spl'[d]
            /\ target[t] = c => cpu_spl'[c]
<1> DEFINE t == cur_thread[c]
<1>1. /\ t \in All /\ cpu_id[t] = c /\ LocalInv(t)
  BY CurFacts
<1>2. /\ target[t] \in Cpu /\ cpu_spl \in [Cpu -> BOOLEAN] /\ spl[t] \in BOOLEAN
  BY <1>1 DEF SmpInv, TypeOK
<1>3. /\ call[t] = fn
      /\ pc[t] \in {"lock_own", "lock_id"}
      /\ lock[target[t]] = 0
      /\ lock' = [lock EXCEPT ![target[t]] = 1]
      /\ cpu_spl' = [cpu_spl EXCEPT ![c] = IF pc[t] = "lock_own" THEN spl[t]
                                                                 ELSE @]
  BY DEF Locked, Acquire
<1>4. /\ pc[t] = "lock_own" <=> target[t] = c
      /\ ret[t] = "absent"
      /\ pc[t] = "lock_own" => spl[t] = TRUE
  BY <1>1, <1>2, <1>3 DEF LocalInv
<1>5. Unlock(t) = IF target[t] = c THEN "unlock_splx" ELSE "unlock_id"
  BY <1>4, Zenon DEF Unlock
<1>6. /\ cpu_spl' \in [Cpu -> BOOLEAN]
      /\ \A d \in Cpu : cpu_spl[d] => cpu_spl'[d]
      /\ target[t] = c => cpu_spl'[c]
  BY <1>2, <1>3, <1>4, Zenon
<1> QED
  BY <1>2, <1>3, <1>4, <1>5, <1>6

LEMMA ShowRingStep ==
  ASSUME SmpInv, NEW c \in Cpu, cpu_show_ring(c) PROVE SmpInv' /\ HoldersMove
<1> DEFINE t == cur_thread[c]
           p == IF target[t] = c THEN "unlock_splx" ELSE "unlock_id"
<1>1. /\ t \in All /\ cpu_id[t] = c /\ LocalInv(t)
      /\ \A d \in Cpu : cur_thread[d] = t => d = c
  BY CurFacts
<1>2. TypeOK
  BY DEF SmpInv
<1>3. /\ call[t] = "cpu_show_cmd"
      /\ target[t] \in Cpu /\ lock[target[t]] = 0
      /\ lock' = [lock EXCEPT ![target[t]] = 1]
      /\ pc[t] \in {"lock_own", "lock_id"}
      /\ pc[t] = "lock_own" <=> target[t] = c
      /\ Unlock(t) = p
      /\ ret[t] = "absent"
      /\ cpu_spl' \in [Cpu -> BOOLEAN]
      /\ \A d \in Cpu : cpu_spl[d] => cpu_spl'[d]
      /\ target[t] = c => cpu_spl'[c]
  BY LockedFacts DEF cpu_show_ring
<1>4. /\ pc' = [pc EXCEPT ![t] = p]
      /\ UNCHANGED <<intr, threads, cur_thread, cpu_id, state, cnt,
                     sleep_time, timer, ret, target, arg, call, spl>>
  BY <1>3 DEF cpu_show_ring, runvars
<1>5. /\ p \in Points \ {"absent"}
      /\ p \in Open <=> target[t] # c
  BY DEF Open, Points, OwnHeld, IdHeld
<1>6. /\ pc'[t] = p
      /\ \A u \in All : u # t => pc'[u] = pc[u]
  BY <1>1, <1>2, <1>4 DEF TypeOK
<1>7. TypeOK'
  <2>1. lock' \in [Cpu -> {0, 1}]
    BY <1>2, <1>3, Zenon DEF TypeOK
  <2>2. pc' \in [All -> Points]
    BY <1>1, <1>2, <1>4, <1>5 DEF TypeOK
  <2> QED
    BY <1>2, <1>3, <1>4, <2>1, <2>2, Zenon DEF TypeOK
<1>8. HoldersMove
  <2>2. \A u \in All, d \in Cpu :
           u # t \/ d # target[t] => (Holds(u, d)' <=> Holds(u, d))
    BY <1>1, <1>3, <1>4, <1>6 DEF Holds, OwnHeld, IdHeld
  <2>4. PICK f \in Cpu : f = target[t]
    BY <1>3, Zenon
  <2>5. Holds(t, f)'
    BY <1>3, <1>4, <1>6, <2>4 DEF Holds, OwnHeld, IdHeld
  <2> QED
    BY ZenonT(60), <1>1, <1>3, <1>4, <2>2, <2>4, <2>5, GainStep
<1>9. LocalInv(t)'
  BY <1>1, <1>3, <1>4, <1>6, Zenon DEF LocalInv, SemaPoints
<1>10. ~Creating(t)'
  BY <1>3, <1>4, <1>6, Zenon DEF Creating
<1>11. intr'[c] <=> p \in Open
  <2>1. intr[c] <=> pc[t] \in Open
    BY DEF SmpInv
  <2> QED
    BY <1>3, <1>4, <1>5, <2>1 DEF Open
<1> HIDE DEF p
<1> QED
  BY <1>3, <1>4, <1>5, <1>6, <1>7, <1>8, <1>9, <1>10, <1>11, ControlStep, Zenon

\* The context switch: the thread on CPU c has taken the CPU's lock, or had it,
\* and stops at p; n, one of the CPU's threads (perhaps the same), goes on with it.
LEMMA SwitchStep ==
  ASSUME SmpInv, NEW c \in Cpu, NEW n \in All, NEW p \in Points,
         TypeOK', CntInv',
         \/ pc[cur_thread[c]] = "tick" /\ p = "tick_unlock"
         \/ pc[cur_thread[c]] = "lock_own" /\ p = "unlock_splx" /\ cpu_spl'[c]
               /\ call[cur_thread[c]] = "sched_sleep"
         \/ pc[cur_thread[c]] = "wait_yield" /\ p = "wait_unlock",
         n \in Range(threads[c]),
         IF pc[cur_thread[c]] = "wait_yield"
         THEN lock' = lock
         ELSE lock[c] = 0 /\ lock' = [lock EXCEPT ![c] = 1],
         pc' = [pc EXCEPT ![cur_thread[c]] = p],
         cur_thread' = [cur_thread EXCEPT ![c] = n],
         \A d \in Cpu : cpu_spl[d] => cpu_spl'[d],
         UNCHANGED <<intr, threads, cpu_id, ret, target, arg, call, spl>>
  PROVE  SmpInv' /\ HoldersMove
<1> DEFINE t == cur_thread[c]
<1>1. /\ t \in All /\ cpu_id[t] = c /\ pc[t] # "absent" /\ LocalInv(t)
      /\ \A d \in Cpu : cur_thread[d] = t => d = c
  BY CurFacts
<1>2. /\ pc \in [All -> Points] /\ cur_thread \in [Cpu -> All]
      /\ cpu_id \in [All -> Cpu] /\ lock \in [Cpu -> {0, 1}]
      /\ arg \in [All -> All]
  BY Zenon DEF SmpInv, TypeOK
<1>3. PICK h \in All : h = t
  BY <1>1, Zenon
<1>4. /\ pc'[h] = p
      /\ \A u \in All : u # h => pc'[u] = pc[u]
      /\ \A u \in All : pc'[u] = "absent" <=> pc[u] = "absent"
      /\ cur_thread'[c] = n
      /\ \A d \in Cpu : d # c => cur_thread'[d] = cur_thread[d]
  BY <1>1, <1>2, <1>3
<1>5. cpu_id[n] = c /\ pc[n] # "absent"
  BY Zenon DEF SmpInv, RingsDisjoint
<1>6. \A u \in All : pc[u] # "absent" /\ cur_thread[cpu_id[u]] # u
                        => pc[u] \in Parked
  BY Zenon DEF SmpInv, SwitchedOutParked
<1>7. \A u \in All : pc'[u] # "absent" /\ cpu_id[u] = c => pc'[u] \in Parked
  <2> TAKE u \in All
  <2>1. CASE u = h
    BY <1>3, <1>4, <2>1 DEF Parked, OwnHeld
  <2>2. CASE u # h
    BY <1>3, <1>4, <1>6, <2>2, Zenon
  <2> QED
    BY <2>1, <2>2, Zenon
<1>8. RingsDisjoint'
  BY <1>4, SMTT(30) DEF SmpInv, RingsDisjoint
<1>9. SwitchedOutParked'
  <2>1. \A u \in All : pc'[u] # "absent" /\ cur_thread'[cpu_id[u]] # u
                          => pc'[u] \in Parked
    BY <1>1, <1>2, <1>3, <1>4, <1>6, <1>7, Zenon
  <2>2. \A d \in Cpu : cpu_id[cur_thread'[d]] = d /\ pc'[cur_thread'[d]] # "absent"
    <3>1. \A d \in Cpu : cpu_id[cur_thread[d]] = d /\ pc[cur_thread[d]] # "absent"
      BY Zenon DEF SmpInv, SwitchedOutParked
    <3> TAKE d \in Cpu
    <3>2. CASE d = c
      BY <1>4, <1>5, <3>2, ZenonT(60)
    <3>3. CASE d # c
      <4>1. PICK u \in All : u = cur_thread[d] /\ u = cur_thread'[d]
        BY <1>2, <1>4, <3>3, Zenon
      <4>2. cpu_id[u] = d /\ pc[u] # "absent"
        BY <3>1, <4>1, Zenon
      <4>3. pc'[u] # "absent"
        BY <1>4, <4>2, Zenon
      <4> QED
        BY <4>1, <4>2, <4>3, Zenon
    <3> QED
      BY <3>2, <3>3, Zenon
  <2> QED
    BY <2>1, <2>2, Zenon DEF SwitchedOutParked
<1>10. HoldersMove
  <2>1. Holds(n, c)'
    BY <1>4, <1>5, <1>7, Zenon DEF Holds, Parked
  <2>2. ~(target[h] = c /\ ret[h] \in IdHeld)
    BY <1>1, <1>3, Zenon DEF LocalInv, IdHeld, SmpInv, TypeOK, Open
  <2>3. ASSUME NEW u \in All, NEW d \in Cpu, (u # h /\ u # n) \/ d # c
        PROVE  Holds(u, d)' <=> Holds(u, d)
    <3>1. CASE u = h
      BY <1>1, <1>3, <1>4, <2>3, <3>1 DEF Holds, OwnHeld, IdHeld
    <3>2. CASE u # h
      BY <1>3, <1>4, <2>3, <3>2, Zenon DEF Holds
    <3> QED
      BY <3>1, <3>2
  <2>5. h # n => ~Holds(h, c)'
    BY <1>4, <2>2 DEF Holds, IdHeld
  <2>6. CASE pc[cur_thread[c]] = "wait_yield"
    <3>1. Holds(h, c)
      BY <1>3, <2>6 DEF Holds, OwnHeld
    <3> QED
      BY <2>1, <2>3, <2>5, <2>6, <3>1, PassStep, Zenon
  <2>7. CASE pc[cur_thread[c]] # "wait_yield"
    <3>1. ~Holds(h, c)
      BY <1>1, <1>3, <2>2, <2>7, Zenon DEF Holds, OwnHeld, IdHeld
    <3>2. \A u \in All, d \in Cpu : u # n \/ d # c => (Holds(u, d)' <=> Holds(u, d))
      BY <2>3, <2>5, <3>1, Zenon
    <3> QED
      BY ZenonT(60), <1>2, <2>1, <2>7, <3>2, GainStep
  <2> QED
    BY <2>6, <2>7, Zenon
<1>11. \A d \in Cpu : intr'[d] <=> pc'[cur_thread'[d]] \in Open
  <2>1. \A d \in Cpu : intr[d] <=> pc[cur_thread[d]] \in Open
    BY Zenon DEF SmpInv
  <2>2. ~intr[c]
    BY <2>1 DEF Open
  <2>3. pc'[n] \notin Open
    BY <1>4, <1>5, <1>7, Zenon DEF Parked, OwnHeld, Open
  <2> QED
    BY <1>2, <1>3, <1>4, <2>1, <2>2, <2>3, <1>1
<1>12. \A u \in All : LocalInv(u)'
  <2> TAKE u \in All
  <2>1. LocalInv(u)
    BY Zenon DEF SmpInv
  <2>2. CASE u = h
    BY <1>1, <1>3, <1>4, <2>1, <2>2, ZenonT(60) DEF LocalInv, SemaPoints
  <2>3. CASE u # h
    BY <1>2, <1>4, <2>1, <2>3, ZenonT(60) DEF LocalInv
  <2> QED
    BY <2>2, <2>3
<1>13. CreateInv'
  <2> SUFFICES ASSUME NEW u \in All, Creating(u)'
               PROVE  /\ u = Idle[0] /\ arg[u] \in Thread
                      /\ pc'[arg[u]] = "absent" /\ target[u] = Home[arg[u]]
    BY DEF CreateInv
  <2>1. Creating(u)
    <3>1. CASE u = h
      BY <1>3, <1>4, <3>1 DEF Creating
    <3>2. CASE u # h
      BY <1>4, <3>2, Zenon DEF Creating
    <3> QED
      BY <3>1, <3>2
  <2>2. /\ u = Idle[0] /\ arg[u] \in Thread
        /\ pc[arg[u]] = "absent" /\ target[u] = Home[arg[u]]
    BY <2>1 DEF SmpInv, CreateInv
  <2> QED
    BY <1>2, <1>4, <2>2, Zenon
<1> QED
  BY <1>8, <1>9, <1>10, <1>11, <1>12, <1>13, Zenon DEF SmpInv

\* What sched_next on the ring of CPU c returns.
LEMMA SwitchFromFacts ==
  ASSUME SmpInv, NEW c \in Cpu, NEW st, NEW cn \in [All -> Nat],
         \A u \in All : cn[u] <= 2 * THREAD_DEFAULT_PRI - 1,
         SwitchFrom(c, st, cn)
  PROVE  /\ state' = st
         /\ cnt' \in [All -> Nat] /\ CntInv'
         /\ sched_next(threads[c], st, cn) \in All
         /\ sched_next(threads[c], st, cn) \in Range(threads[c])
         /\ cur_thread' = [cur_thread EXCEPT ![c] = sched_next(threads[c], st, cn)]
<1>1. /\ threads[c] \in Seq(All) /\ threads[c] # <<>>
      /\ \A i, j \in DOMAIN threads[c] : threads[c][i] = threads[c][j] => i = j
  BY ZenonT(60) DEF SmpInv, TypeOK, RingsDisjoint
<1>2. /\ sched_next(threads[c], st, cn) \in Range(threads[c])
      /\ sched_next_cnt(threads[c], st, cn) \in [All -> Nat]
      /\ \A u \in All : sched_next_cnt(threads[c], st, cn)[u]
                            <= 2 * THREAD_DEFAULT_PRI - 1
  BY <1>1, SchedNextCorrect
<1>3. Range(threads[c]) \subseteq All
  BY <1>1, SeqFacts
<1> QED
  BY <1>2, <1>3 DEF SwitchFrom, CntInv

LEMMA SleepNextStep ==
  ASSUME SmpInv, NEW c \in Cpu, NEW ms \in 1..MaxSleep, sched_sleep_next(c, ms)
  PROVE  SmpInv' /\ HoldersMove
<1> DEFINE t == cur_thread[c]
<1>1. /\ t \in All /\ cpu_id[t] = c /\ LocalInv(t) /\ pc[t] # "absent"
  BY CurFacts
<1>2. TypeOK /\ CntInv
  BY DEF SmpInv
<1>3. /\ call[t] = "sched_sleep"
      /\ lock[target[t]] = 0
      /\ lock' = [lock EXCEPT ![target[t]] = 1]
      /\ pc[t] = "lock_own" <=> target[t] = c
      /\ Unlock(t) = IF target[t] = c THEN "unlock_splx" ELSE "unlock_id"
      /\ cpu_spl' \in [Cpu -> BOOLEAN]
      /\ \A d \in Cpu : cpu_spl[d] => cpu_spl'[d]
      /\ target[t] = c => cpu_spl'[c]
      /\ pc[t] \in {"lock_own", "lock_id"}
  <2>1. Locked(c, "sched_sleep")
    BY DEF sched_sleep_next
  <2> QED
    BY ZenonT(60), <2>1, LockedFacts
<1>4. pc[t] = "lock_own" /\ target[t] = c
  <2>1. pc[t] = "lock_own"
    <3>1. pc[t] \in {"lock_own", "unlock_splx"}
      BY ZenonT(60), <1>1, <1>3 DEF LocalInv
    <3> QED
      BY <1>3, <3>1
  <2> QED
    BY <1>3, <2>1
<1>5. /\ pc' = [pc EXCEPT ![t] = "unlock_splx"]
      /\ lock[c] = 0 /\ lock' = [lock EXCEPT ![c] = 1]
      /\ cpu_spl'[c]
      /\ UNCHANGED <<intr, threads, cpu_id, ret, target, arg, call, spl>>
  BY <1>3, <1>4 DEF sched_sleep_next
<1>6. ms \in 0..SleepMod - 1
  BY SmpAssumption, WidthAssumption
<1>7. PICK n \in All : /\ n \in Range(threads[c])
                       /\ cur_thread' = [cur_thread EXCEPT ![c] = n]
                       /\ cnt' \in [All -> Nat] /\ CntInv'
                       /\ state' \in [All -> {RUNNING, SLEEPING}]
                       /\ sleep_time' \in [All -> 0..SleepMod - 1]
                       /\ timer' \in [All -> BOOLEAN]
  <2>1. CASE t = Head(threads[c])
    <3>1. /\ UNCHANGED <<sleep_time, timer, state, cnt, cur_thread>>
      BY <2>1, Zenon DEF sched_sleep_next
    <3>2. t \in Range(threads[c])
      BY <1>1 DEF SmpInv, RingsDisjoint
    <3>3. cur_thread' = [cur_thread EXCEPT ![c] = t] /\ CntInv'
      BY <1>2, <3>1 DEF TypeOK, CntInv
    <3> QED
      BY ZenonT(60), <1>1, <1>2, <3>1, <3>2, <3>3 DEF TypeOK
  <2>2. CASE t # Head(threads[c])
    <3> DEFINE st == [state EXCEPT ![t] = SLEEPING]
    <3>1. /\ sleep_time' = [sleep_time EXCEPT ![t] = ms]
          /\ timer' = [timer EXCEPT ![t] = TRUE]
          /\ SwitchFrom(c, st, cnt)
      BY <2>2 DEF sched_sleep_next
    <3>2. st \in [All -> {RUNNING, SLEEPING}]
      BY <1>1, <1>2 DEF TypeOK
    <3>3. /\ sleep_time' \in [All -> 0..SleepMod - 1]
          /\ timer' \in [All -> BOOLEAN]
      BY ZenonT(60), <1>1, <1>2, <1>6, <3>1 DEF TypeOK
    <3>4. cnt \in [All -> Nat] /\ \A u \in All : cnt[u] <= 2 * THREAD_DEFAULT_PRI - 1
      BY ZenonT(60), <1>2 DEF TypeOK, CntInv
    <3> HIDE DEF st
    <3> QED
      BY <3>1, <3>2, <3>3, <3>4, SwitchFromFacts
  <2> QED
    BY <2>1, <2>2
<1>8. "unlock_splx" \in Points
  BY DEF Points, OwnHeld
<1>9. TypeOK'
  <2>1. lock' \in [Cpu -> {0, 1}] /\ cur_thread' \in [Cpu -> All]
    BY ZenonT(60), <1>2, <1>5, <1>7 DEF TypeOK
  <2>2. pc' \in [All -> Points]
    BY <1>1, <1>2, <1>5, <1>8 DEF TypeOK
  <2> QED
    BY ZenonT(60), <1>2, <1>3, <1>5, <1>7, <2>1, <2>2 DEF TypeOK
<1> QED
  BY ZenonT(60), <1>3, <1>4, <1>5, <1>7, <1>8, <1>9, SwitchStep

\* What a tick makes of the counts stays below twice the priority.
LEMMA ChargedCnt ==
  ASSUME NEW t \in All, NEW woken, NEW cn \in [All -> Nat],
         \A u \in All : cn[u] <= 2 * THREAD_DEFAULT_PRI - 1
  PROVE  /\ charge(woken_cnt(cn, woken), t) \in [All -> Nat]
         /\ \A u \in All : charge(woken_cnt(cn, woken), t)[u]
                              <= 2 * THREAD_DEFAULT_PRI - 1
<1> DEFINE f == woken_cnt(cn, woken)
<1>1. /\ THREAD_DEFAULT_PRI \in Nat
      /\ THREAD_DEFAULT_PRI <= 2 * THREAD_DEFAULT_PRI - 1
  BY PriAssumption
<1>2. \A u \in All : f[u] \in {THREAD_DEFAULT_PRI, cn[u]}
  BY DEF woken_cnt
<1>3. f \in [All -> Nat]
  BY <1>1 DEF woken_cnt
<1> HIDE DEF f
<1>4. \A u \in All : f[u] <= 2 * THREAD_DEFAULT_PRI - 1
  BY <1>1, <1>2
<1>5. /\ charge(f, t) \in [All -> Nat]
      /\ \A u \in All : charge(f, t)[u] <= 2 * THREAD_DEFAULT_PRI - 1
  BY <1>1, <1>3, <1>4, SMTT(30) DEF charge
<1> QED
  BY <1>5 DEF f

LEMMA TimerHandlerStep ==
  ASSUME SmpInv, NEW c \in Cpu, timer_irq_handler(c) PROVE SmpInv' /\ HoldersMove
<1> DEFINE t == cur_thread[c]
           sleepers == TimedSleepers(threads[c], state, timer)
           left == countdown(sleep_time, sleepers)
           woken == {u \in sleepers : left[u] = 0}
           st == woken_state(state, woken)
           cn == charge(woken_cnt(cnt, woken), t)
<1>1. /\ t \in All /\ cpu_id[t] = c /\ pc[t] # "absent"
  BY CurFacts
<1>2. TypeOK /\ CntInv
  BY DEF SmpInv
<1>3. /\ pc[t] = "tick"
      /\ pc' = [pc EXCEPT ![t] = "tick_unlock"]
      /\ lock[c] = 0 /\ lock' = [lock EXCEPT ![c] = 1]
      /\ sleep_time' = left
      /\ timer' = [u \in All |-> timer[u] /\ u \notin woken]
      /\ \/ state' = st /\ cnt' = cn /\ cur_thread' = cur_thread
         \/ SwitchFrom(c, st, cn)
      /\ UNCHANGED <<intr, cpu_spl, threads, cpu_id, ret, target, arg, call, spl>>
  BY ZenonT(60) DEF timer_irq_handler, Goto, Acquire
<1>4. sleep_time' \in [All -> 0..SleepMod - 1]
  <2>1. sleep_time \in [All -> 0..SleepMod - 1]
    BY <1>2 DEF TypeOK
  <2>2. \A s \in 0..SleepMod - 1 : (s + SleepMod - 1) % SleepMod \in 0..SleepMod - 1
    <3> TAKE s \in 0..SleepMod - 1
    <3>1. SleepMod \in Nat /\ SleepMod > 0 /\ s + SleepMod - 1 \in Nat
      BY WidthAssumption
    <3> QED
      BY <3>1, SMT
  <2> HIDE DEF sleepers
  <2>3. left \in [All -> 0..SleepMod - 1]
    BY <2>1, <2>2, Zenon DEF countdown
  <2> QED
    BY ZenonT(60), <1>3, <2>3
<1>5. timer' \in [All -> BOOLEAN]
  BY <1>2, <1>3 DEF TypeOK
<1> HIDE DEF woken
<1>6. st \in [All -> {RUNNING, SLEEPING}]
  BY <1>2 DEF TypeOK, woken_state
<1>7. /\ cn \in [All -> Nat]
      /\ \A u \in All : cn[u] <= 2 * THREAD_DEFAULT_PRI - 1
  BY <1>1, <1>2, ChargedCnt, Zenon DEF TypeOK, CntInv
<1> HIDE DEF st, cn, t, left
<1>8. PICK n \in All : /\ n \in Range(threads[c])
                       /\ cur_thread' = [cur_thread EXCEPT ![c] = n]
                       /\ cnt' \in [All -> Nat] /\ CntInv'
                       /\ state' = st
  <2>1. CASE state' = st /\ cnt' = cn /\ cur_thread' = cur_thread
    <3>1. t \in Range(threads[c])
      BY <1>1 DEF SmpInv, RingsDisjoint
    <3>2. cur_thread' = [cur_thread EXCEPT ![c] = t]
      BY <1>2, <2>1 DEF TypeOK, t
    <3> QED
      BY ZenonT(60), <1>1, <1>7, <2>1, <3>1, <3>2 DEF CntInv
  <2>2. CASE SwitchFrom(c, st, cn)
    BY <1>7, <2>2, SwitchFromFacts
  <2> QED
    BY <1>3, <2>1, <2>2
<1>9. "tick_unlock" \in Points
  BY DEF Points, OwnHeld
<1>10. TypeOK'
  <2>1. lock' \in [Cpu -> {0, 1}] /\ cur_thread' \in [Cpu -> All]
    BY ZenonT(60), <1>2, <1>3, <1>8 DEF TypeOK
  <2>2. pc' \in [All -> Points]
    BY <1>1, <1>2, <1>3, <1>9 DEF TypeOK
  <2> QED
    BY ZenonT(60), <1>2, <1>3, <1>4, <1>5, <1>6, <1>8, <2>1, <2>2 DEF TypeOK
<1> QED
  BY <1>3, <1>8, <1>9, <1>10, SwitchStep, Zenon DEF t

LEMMA PushStep ==
  ASSUME SmpInv, NEW c \in Cpu, thread_create_push(c) PROVE SmpInv' /\ HoldersMove
<1> DEFINE t == cur_thread[c]
           new == arg[t]
           e == target[t]
           p == IF target[t] = c THEN "unlock_splx" ELSE "unlock_id"
<1>1. /\ t \in All /\ cpu_id[t] = c /\ LocalInv(t) /\ pc[t] # "absent"
      /\ \A d \in Cpu : cur_thread[d] = t => d = c
  BY CurFacts
<1>2. TypeOK /\ CntInv
  BY DEF SmpInv
<1>3. /\ call[t] = "thread_create"
      /\ e \in Cpu /\ lock[e] = 0
      /\ lock' = [lock EXCEPT ![e] = 1]
      /\ pc[t] \in {"lock_own", "lock_id"}
      /\ pc[t] = "lock_own" <=> e = c
      /\ Unlock(t) = p
      /\ ret[t] = "absent"
      /\ cpu_spl' \in [Cpu -> BOOLEAN]
      /\ \A d \in Cpu : cpu_spl[d] => cpu_spl'[d]
      /\ e = c => cpu_spl'[c]
  BY ZenonT(60), LockedFacts DEF thread_create_push
<1>4. /\ t = Idle[0] /\ new \in Thread /\ new \in All /\ pc[new] = "absent"
      /\ new # t /\ e = Home[new]
  <2>1. Creating(t)
    BY <1>3 DEF Creating
  <2> QED
    BY ZenonT(60), <1>1, <2>1 DEF SmpInv, CreateInv, All
<1>5. /\ threads' = [threads EXCEPT ![e] = queue_push_back(@, new)]
      /\ cpu_id' = [cpu_id EXCEPT ![new] = e]
      /\ state' = [state EXCEPT ![new] = RUNNING]
      /\ cnt' = [cnt EXCEPT ![new] = THREAD_DEFAULT_PRI]
      /\ sleep_time' = [sleep_time EXCEPT ![new] = 0]
      /\ timer' = [timer EXCEPT ![new] = FALSE]
      /\ pc' = [pc EXCEPT ![t] = p, ![new] = "thread_start"]
      /\ UNCHANGED <<intr, cur_thread, ret, target, arg, call, spl>>
  BY <1>3, Zenon DEF thread_create_push
<1>6. PICK h \in All, n \in All, f \in Cpu : h = t /\ n = new /\ f = e
  BY <1>1, <1>3, <1>4, Zenon
<1>7. h # n /\ pc[n] = "absent" /\ n \in Thread /\ h = Idle[0] /\ f = Home[n]
  BY <1>4, <1>6
<1>8. /\ pc \in [All -> Points] /\ cpu_id \in [All -> Cpu]
      /\ cur_thread \in [Cpu -> All] /\ threads \in [Cpu -> Seq(All)]
      /\ arg \in [All -> All] /\ lock \in [Cpu -> {0, 1}]
  BY ZenonT(60), <1>2 DEF TypeOK
<1>9. /\ p \in Points \ {"absent"} /\ "thread_start" \in Points
      /\ p \in Open <=> e # c
  BY DEF Points, OwnHeld, IdHeld, Open
<1>10. /\ pc'[h] = p /\ pc'[n] = "thread_start"
       /\ \A u \in All : u # h /\ u # n => pc'[u] = pc[u]
       /\ cpu_id'[n] = f
       /\ \A u \in All : u # n => cpu_id'[u] = cpu_id[u]
       /\ threads'[f] = queue_push_back(threads[f], n)
       /\ \A d \in Cpu : d # f => threads'[d] = threads[d]
  BY <1>5, <1>6, <1>7, <1>8, Zenon
<1>11. \A d \in Cpu : cur_thread[d] # n
  <2>1. \A d \in Cpu : pc[cur_thread[d]] # "absent"
    BY DEF SmpInv, SwitchedOutParked
  <2> QED
    BY <1>7, <2>1
<1>12. TypeOK'
  <2>1. threads' \in [Cpu -> Seq(All)]
    <3>1. queue_push_back(threads[f], n) \in Seq(All)
      BY <1>8, PushBackRing
    <3> QED
      BY ZenonT(60), <1>5, <1>6, <1>8, <3>1
  <2>2. pc' \in [All -> Points] /\ lock' \in [Cpu -> {0, 1}]
    BY ZenonT(60), <1>3, <1>4, <1>1, <1>5, <1>8, <1>9
  <2>3. /\ cpu_id' \in [All -> Cpu]
        /\ state' \in [All -> {RUNNING, SLEEPING}]
        /\ cnt' \in [All -> Nat]
        /\ sleep_time' \in [All -> 0..SleepMod - 1]
        /\ timer' \in [All -> BOOLEAN]
    <3>1. /\ cpu_id' \in [All -> Cpu] /\ state' \in [All -> {RUNNING, SLEEPING}]
          /\ timer' \in [All -> BOOLEAN]
      BY ZenonT(60), <1>2, <1>3, <1>5 DEF TypeOK
    <3>2. cnt \in [All -> Nat] /\ THREAD_DEFAULT_PRI \in Nat
      BY <1>2, PriAssumption DEF TypeOK
    <3>3. sleep_time \in [All -> 0..SleepMod - 1] /\ 0 \in 0..SleepMod - 1
      BY <1>2, WidthAssumption DEF TypeOK
    <3> QED
      BY ZenonT(60), <1>5, <3>1, <3>2, <3>3
  <2> QED
    BY ZenonT(60), <1>2, <1>3, <1>5, <2>1, <2>2, <2>3 DEF TypeOK
<1> HIDE DEF p
<1>13. RingsDisjoint'
  <2> DEFINE ring == queue_push_back(threads[f], n)
  <2>1. /\ threads[f] \in Seq(All) /\ threads[f] # <<>>
        /\ Head(threads[f]) = Idle[f]
        /\ \A i, j \in DOMAIN threads[f] : threads[f][i] = threads[f][j] => i = j
        /\ n \notin Range(threads[f])
    BY <1>7, <1>8, ZenonT(60) DEF SmpInv, RingsDisjoint
  <2>0. /\ ring \in Seq(All)
        /\ ring # <<>>
        /\ Len(ring) = Len(threads[f]) + 1
        /\ \A i \in 1..Len(threads[f]) : ring[i] = threads[f][i]
        /\ ring[Len(threads[f]) + 1] = n
        /\ Range(ring) = Range(threads[f]) \cup {n}
        /\ threads[f] # <<>> => Head(ring) = Head(threads[f])
    <3> DEFINE r == threads[f]
    <3> HIDE DEF r
    <3>1. r \in Seq(All)
      BY <2>1 DEF r
    <3>2. /\ queue_push_back(r, n) \in Seq(All)
          /\ queue_push_back(r, n) # <<>>
          /\ Len(queue_push_back(r, n)) = Len(r) + 1
          /\ \A i \in 1..Len(r) : queue_push_back(r, n)[i] = r[i]
          /\ queue_push_back(r, n)[Len(r) + 1] = n
          /\ Range(queue_push_back(r, n)) = Range(r) \cup {n}
          /\ r # <<>> => Head(queue_push_back(r, n)) = Head(r)
      BY <3>1, PushBackRing, Zenon
    <3> QED
      BY <3>2 DEF r
  <2> HIDE DEF ring
  <2>2. /\ ring # <<>> /\ Head(ring) = Idle[f]
        /\ Range(ring) = Range(threads[f]) \cup {n}
    BY <2>0, <2>1
  <2>3. \A i, j \in DOMAIN ring : ring[i] = ring[j] => i = j
    <3>1. /\ ring \in Seq(All) /\ Len(ring) = Len(threads[f]) + 1
          /\ \A i \in 1..Len(threads[f]) : ring[i] = threads[f][i]
          /\ ring[Len(threads[f]) + 1] = n
      BY <2>0
    <3>2. /\ Len(threads[f]) \in Nat /\ DOMAIN threads[f] = 1..Len(threads[f])
          /\ DOMAIN ring = 1..(Len(threads[f]) + 1)
      BY <2>1, <3>1, SeqFacts
    <3>3. \A i \in 1..Len(threads[f]) : ring[i] # n
      BY <2>1, <3>1, <3>2 DEF Range
    <3>4. PICK L \in Nat : L = Len(threads[f])
      BY <3>2
    <3>5. \A i, j \in 1..L : ring[i] = ring[j] => i = j
      BY <2>1, <3>1, <3>2, <3>4, Zenon
    <3>6. /\ DOMAIN ring = 1..(L + 1) /\ ring[L + 1] = n
          /\ \A i \in 1..L : ring[i] # n
      BY <3>1, <3>2, <3>3, <3>4
    <3>7. \A i \in 1..(L + 1) : i \in 1..L \/ i = L + 1
      BY <3>4
    <3> QED
      BY <3>5, <3>6, <3>7, Zenon
  <2>4. threads'[f] = ring
    BY <1>10 DEF ring
  <2>5. \A d \in Cpu :
          /\ threads'[d] # <<>>
          /\ Head(threads'[d]) = Idle[d]
          /\ \A i, j \in DOMAIN threads'[d] :
                threads'[d][i] = threads'[d][j] => i = j
    <3> TAKE d \in Cpu
    <3>1. CASE d = f
      BY <2>2, <2>3, <2>4, <3>1
    <3>2. CASE d # f
      <4>1. threads'[d] = threads[d]
        BY <1>10, <3>2
      <4> QED
        BY <4>1 DEF SmpInv, RingsDisjoint
    <3> QED
      BY <3>1, <3>2
  <2>6. \A u \in All, d \in Cpu :
          u \in Range(threads'[d]) <=> pc'[u] # "absent" /\ cpu_id'[u] = d
    <3> TAKE u \in All, d \in Cpu
    <3>1. u \in Range(threads[d]) <=> pc[u] # "absent" /\ cpu_id[u] = d
      BY DEF SmpInv, RingsDisjoint
    <3>2. u \in Range(threads'[d]) <=> u \in Range(threads[d]) \/ (u = n /\ d = f)
      BY <1>10, <2>2, <2>4
    <3>3. pc[h] # "absent"
      BY <1>1, <1>6
    <3> QED
      BY ZenonT(60), <1>7, <1>9, <1>10, <3>1, <3>2, <3>3
  <2> QED
    BY <2>5, <2>6 DEF RingsDisjoint
<1>14. SwitchedOutParked'
  <2>1. /\ \A u \in All : pc[u] # "absent" /\ cur_thread[cpu_id[u]] # u
                             => pc[u] \in Parked
        /\ \A d \in Cpu : cpu_id[cur_thread[d]] = d /\ pc[cur_thread[d]] # "absent"
    BY DEF SmpInv, SwitchedOutParked
  <2>2. \A u \in All : pc'[u] # "absent" /\ cur_thread[cpu_id'[u]] # u
                          => pc'[u] \in Parked
    <3> TAKE u \in All
    <3>1. CASE u = n
      BY <1>10, <3>1 DEF Parked, OwnHeld
    <3>2. CASE u = h
      BY ZenonT(60), <1>1, <1>6, <1>7, <1>10, <3>2
    <3>3. CASE u # n /\ u # h
      BY <1>10, <2>1, <3>3
    <3> QED
      BY <3>1, <3>2, <3>3
  <2>3. \A d \in Cpu : cpu_id'[cur_thread[d]] = d /\ pc'[cur_thread[d]] # "absent"
    BY <1>8, <1>9, <1>10, <1>11, <2>1
  <2> QED
    BY ZenonT(60), <1>5, <2>2, <2>3 DEF SwitchedOutParked
<1>15. HoldersMove
  <2>1. Holds(h, f)'
    BY ZenonT(60), <1>3, <1>5, <1>6, <1>10 DEF Holds, OwnHeld, IdHeld, p
  <2>2. ret[n] = "absent"
    BY ZenonT(60), <1>7 DEF SmpInv, LocalInv
  <2>3. ASSUME NEW u \in All, NEW d \in Cpu, u # h \/ d # f
        PROVE  Holds(u, d)' <=> Holds(u, d)
    <3>1. CASE u = h
      <4>1. /\ cur_thread'[d] = cur_thread[d] /\ target'[u] = f /\ target[u] = f
            /\ ret'[u] = "absent" /\ ret[u] = "absent"
        BY <1>3, <1>5, <1>6, <3>1, Zenon
      <4>2. pc[u] \notin OwnHeld
        BY <1>3, <1>6, <3>1, Zenon DEF OwnHeld
      <4>3. cur_thread[d] = u => d = c
        BY <1>1, <1>6, <3>1, Zenon
      <4>4. pc'[u] \in OwnHeld => f = c
        BY <1>6, <1>10, <3>1, Zenon DEF OwnHeld, p
      <4>5. d # f /\ "absent" \notin IdHeld
        BY <2>3, <3>1 DEF IdHeld
      <4> QED
        BY <4>1, <4>2, <4>3, <4>4, <4>5, Zenon DEF Holds
    <3>2. CASE u = n
      BY ZenonT(60), <1>5, <1>7, <1>10, <1>11, <2>2, <3>2 DEF Holds, OwnHeld, IdHeld
    <3>3. CASE u # h /\ u # n
      BY ZenonT(60), <1>5, <1>10, <3>3 DEF Holds
    <3> QED
      BY <3>1, <3>2, <3>3
  <2>4. lock[f] = 0 /\ lock' = [lock EXCEPT ![f] = 1]
    BY ZenonT(60), <1>3, <1>6 DEF SmpInv
  <2> QED
    BY <1>8, <2>1, <2>3, <2>4, GainStep, Zenon
<1>16. \A d \in Cpu : intr'[d] <=> pc'[cur_thread'[d]] \in Open
  <2>1. \A d \in Cpu : intr[d] <=> pc[cur_thread[d]] \in Open
    BY DEF SmpInv
  <2>2. intr[c] <=> p \in Open
    BY <1>3, <1>9, <2>1 DEF Open
  <2> TAKE d \in Cpu
  <2>3. CASE d = c
    BY ZenonT(60), <1>5, <1>6, <1>10, <2>2, <2>3
  <2>4. CASE d # c
    <3>1. cur_thread[d] \in All /\ cur_thread[d] # h /\ cur_thread[d] # n
      BY <1>1, <1>6, <1>8, <1>11, <2>4
    <3>2. pc'[cur_thread[d]] = pc[cur_thread[d]]
      BY <1>10, <3>1
    <3>3. cur_thread'[d] = cur_thread[d] /\ intr'[d] = intr[d]
      BY <1>5
    <3> QED
      BY <2>1, <3>2, <3>3
  <2> QED
    BY <2>3, <2>4
<1>17. \A u \in All : LocalInv(u)'
  <2> TAKE u \in All
  <2>1. LocalInv(u)
    BY DEF SmpInv
  <2>2. CASE u = h
    <3>1. /\ ret'[u] = "absent" /\ target'[u] = f /\ call'[u] = "thread_create"
          /\ pc'[u] = p
      BY <1>3, <1>5, <1>6, <1>10, <2>2, Zenon
    <3>2. cpu_id'[u] = c
      BY <1>1, <1>6, <1>7, <1>10, <2>2
    <3>3. p = IF f = c THEN "unlock_splx" ELSE "unlock_id"
      BY <1>6 DEF p
    <3>4. f = c => cpu_spl'[c]
      BY <1>3, <1>6, Zenon
    <3> QED
      BY <3>1, <3>2, <3>3, <3>4, Zenon DEF LocalInv, SemaPoints
  <2>3. CASE u = n
    BY ZenonT(60), <1>5, <1>7, <1>10, <2>1, <2>3 DEF LocalInv, SemaPoints
  <2>4. CASE u # h /\ u # n
    BY ZenonT(60), <1>3, <1>5, <1>8, <1>10, <2>1, <2>4 DEF LocalInv
  <2> QED
    BY <2>2, <2>3, <2>4
<1>18. CreateInv'
  <2> SUFFICES ASSUME NEW u \in All PROVE ~Creating(u)'
    BY Zenon DEF CreateInv
  <2>1. CASE u = h
    BY ZenonT(60), <1>3, <1>5, <1>6, <1>10, <2>1 DEF Creating, p
  <2>2. CASE u # h
    <3>1. ~Creating(u)
      BY ZenonT(60), <1>7, <2>2 DEF SmpInv, CreateInv
    <3>2. ret[n] = "absent"
      BY <1>7, Zenon DEF SmpInv, LocalInv
    <3> QED
      BY ZenonT(60), <1>5, <1>10, <2>2, <3>1, <3>2 DEF Creating
  <2> QED
    BY <2>1, <2>2, Zenon
<1>19. CntInv'
  <2>1. /\ cnt \in [All -> Nat] /\ THREAD_DEFAULT_PRI \in Nat
        /\ \A u \in All : cnt[u] <= 2 * THREAD_DEFAULT_PRI - 1
        /\ THREAD_DEFAULT_PRI <= 2 * THREAD_DEFAULT_PRI - 1
    <3>1. /\ cnt \in [All -> Nat]
          /\ \A u \in All : cnt[u] <= 2 * THREAD_DEFAULT_PRI - 1
      BY ZenonT(60), <1>2 DEF CntInv, TypeOK
    <3>2. /\ THREAD_DEFAULT_PRI \in Nat
          /\ THREAD_DEFAULT_PRI <= 2 * THREAD_DEFAULT_PRI - 1
      BY PriAssumption
    <3> QED
      BY <3>1, <3>2
  <2>2. \A u \in All : cnt'[u] \in {cnt[u], THREAD_DEFAULT_PRI}
    BY <1>5, <2>1, Zenon
  <2> QED
    BY <2>1, <2>2 DEF CntInv
<1> QED
  BY <1>12, <1>13, <1>14, <1>15, <1>16, <1>17, <1>18, <1>19, Zenon DEF SmpInv

LEMMA SmpNextStep ==
  ASSUME SmpInv, NEW c \in Cpu, SmpNext(c) PROVE SmpInv' /\ HoldersMove
BY TimerIrqStep, TimerHandlerStep, TimerReturnStep, ThreadStartStep,
   CreateStep, SleepStep, ShowStep, PushStep, SleepNextStep, ShowRingStep,
   UnlockStep, Zenon DEF SmpNext, InTimer, InCall

LEMMA SmpInvStutter == SmpInv /\ UNCHANGED vars => SmpInv'
<1> SUFFICES ASSUME SmpInv, UNCHANGED vars PROVE SmpInv'
  BY Zenon
<1> USE DEF vars, cpuvars, runvars, ctlvars, SmpInv
<1>1. TypeOK' /\ RingsDisjoint'
  BY Zenon DEF TypeOK, RingsDisjoint
<1>2. SwitchedOutParked' /\ \A d \in Cpu : intr'[d] <=> pc'[cur_thread'[d]] \in Open
  BY Zenon DEF SwitchedOutParked
<1>3. (\A t \in All : LocalInv(t)) /\ CreateInv /\ CntInv
  BY Zenon
<1>4. ASSUME NEW t \in All, LocalInv(t) PROVE LocalInv(t)'
  BY <1>4, Zenon DEF LocalInv
<1>5. CreateInv' /\ CntInv'
  BY <1>3, Zenon DEF CreateInv, Creating, CntInv
<1> QED
  BY <1>1, <1>2, <1>3, <1>4, <1>5, Zenon

LEMMA SmpInvStep == SmpInv /\ [Next]_vars => SmpInv'
BY SmpNextStep, SmpInvStutter DEF Next

LEMMA OneHolderStep == SmpInv /\ OneHolder /\ [Next]_vars => OneHolder'
<1> SUFFICES ASSUME SmpInv, OneHolder, [Next]_vars PROVE OneHolder'
  OBVIOUS
<1>1. lock \in [Cpu -> {0, 1}]
  BY DEF SmpInv, TypeOK
<1>2. CASE UNCHANGED vars
  BY <1>2 DEF vars, cpuvars, runvars, ctlvars, OneHolder, Holds
<1>3. CASE Next
  BY <1>1, <1>3, SmpNextStep, HoldersKept, Zenon DEF Next
<1> QED
  BY <1>2, <1>3

LEMMA OneHolderInit == Init => OneHolder
<1> SUFFICES ASSUME Init PROVE OneHolder
  OBVIOUS
<1>1. \A d \in Cpu : lock[d] = 0
  BY DEF Init
<1>2. \A t \in All, d \in Cpu : ~Holds(t, d)
  BY Zenon DEF Init, Holds, OwnHeld, IdHeld
<1> QED
  BY <1>1, <1>2 DEF OneHolder

LEMMA SmpInvInit == Init => SmpInv
<1> SUFFICES ASSUME Init PROVE SmpInv
  OBVIOUS
<1> USE DEF Init
<1>1. /\ \A c \in Cpu : Idle[c] \in All /\ Idle[c] \notin Thread
      /\ \A t \in All : t \in Thread \/ \E c \in Cpu : Idle[c] = t
      /\ \A c, d \in Cpu : Idle[c] = Idle[d] => c = d
      /\ Idle \in [Cpu -> All] /\ Home \in [Thread -> Cpu]
  BY SmpAssumption DEF All, Range
<1>2. 0 \in Cpu
  BY SmpAssumption DEF Cpu
<1>3. /\ cpu_id \in [All -> Cpu]
      /\ \A c \in Cpu : cpu_id[Idle[c]] = c
  <2>1. \A t \in All : cpu_id[t] = IF t \in Thread THEN Home[t]
                                   ELSE CHOOSE c \in Cpu : Idle[c] = t
    OBVIOUS
  <2>2. \A t \in All : cpu_id[t] \in Cpu
    BY <1>1, <2>1
  <2>3. cpu_id \in [All -> Cpu]
    BY <2>2
  <2>4. \A c \in Cpu : cpu_id[Idle[c]] = c
    BY <1>1, <2>1
  <2> QED
    BY <2>3, <2>4, Zenon
<1>4. \A c \in Cpu : /\ threads[c] \in Seq(All) /\ threads[c] # <<>>
                     /\ Head(threads[c]) = Idle[c]
                     /\ DOMAIN threads[c] = {1}
                     /\ Range(threads[c]) = {Idle[c]}
  <2> TAKE c \in Cpu
  <2>1. threads[c] = <<Idle[c]>>
    BY DEF queue_push_back
  <2>2. <<Idle[c]>> \in Seq(All) /\ Len(<<Idle[c]>>) = 1
    BY <1>1
  <2>3. <<Idle[c]>> # <<>> /\ Head(<<Idle[c]>>) = Idle[c] /\ <<Idle[c]>>[1] = Idle[c]
    OBVIOUS
  <2>4. DOMAIN <<Idle[c]>> = {1}
    BY <2>2, SeqFacts
  <2>5. Range(<<Idle[c]>>) = {Idle[c]}
    BY <2>3, <2>4, Zenon DEF Range
  <2> QED
    BY ZenonT(60), <2>1, <2>2, <2>3, <2>4, <2>5
<1>5. \A t \in All : /\ pc[t] = "absent" <=> t \in Thread
                     /\ pc[t] \in {"absent", "run"}
                     /\ ret[t] = "absent" /\ call[t] = "none"
  OBVIOUS
<1>6. TypeOK
  <2>1. threads \in [Cpu -> Seq(All)]
    BY <1>4
  <2>2. pc \in [All -> Points]
    BY DEF Points, Open
  <2>3. /\ cnt \in [All -> Nat] /\ sleep_time \in [All -> 0..SleepMod - 1]
        /\ target \in [All -> Cpu] /\ call \in [All -> Calls]
    BY <1>2, PriAssumption, WidthAssumption DEF Calls
  <2> QED
    BY <1>1, <1>3, <2>1, <2>2, <2>3 DEF TypeOK, RUNNING, SLEEPING
<1>7. RingsDisjoint
  <2>1. \A t \in All, d \in Cpu :
          t \in Range(threads[d]) <=> pc[t] # "absent" /\ cpu_id[t] = d
    BY <1>1, <1>3, <1>4, <1>5
  <2> QED
    BY <1>4, <2>1 DEF RingsDisjoint
<1>8. SwitchedOutParked
  BY <1>1, <1>3, <1>5 DEF SwitchedOutParked
<1>10. \A d \in Cpu : intr[d] <=> pc[cur_thread[d]] \in Open
  BY <1>1, <1>5 DEF Open
<1>11. \A t \in All : LocalInv(t)
  BY <1>5 DEF LocalInv, SemaPoints
<1>12. CreateInv
  BY <1>5, Zenon DEF CreateInv, Creating
<1>13. CntInv
  BY PriAssumption DEF CntInv
<1> QED
  BY <1>6, <1>7, <1>8, <1>10, <1>11, <1>12, <1>13 DEF SmpInv

\* The invariant from which the following theorems are read off: types, rings,
\* parked contexts, lock holders, the interrupt flag and every thread's locals.
THEOREM SmpInvariant == Spec => []SmpInv
BY SmpInvInit, SmpInvStep, PTL DEF Spec

\* On any number of CPUs, every value keeps its type.
THEOREM SmpTypeOK == Spec => []TypeOK
<1>1. SmpInv => TypeOK
  BY DEF SmpInv
<1> QED
  BY <1>1, SmpInvariant, PTL

\* cpu->lock has at most one holder, and is taken exactly when it has one,
\* across every context switch and preemption.
THEOREM OneHolderHolds == Spec => []OneHolder
BY OneHolderInit, OneHolderStep, SmpInvariant, PTL DEF Spec

\* A thread loses its CPU only inside sched_next, and no CPU ever runs a thread
\* of another CPU.
THEOREM SwitchedOutParkedHolds == Spec => []SwitchedOutParked
<1>1. SmpInv => SwitchedOutParked
  BY DEF SmpInv
<1> QED
  BY <1>1, SmpInvariant, PTL

\* Interrupts are disabled exactly in handlers and sections on the own CPU, and
\* cpu_unlock_splx enables them again.
THEOREM IntrDisciplineHolds == Spec => []IntrDiscipline
BY IntrFromInv, SmpInvariant, PTL

\* Every ring begins with its CPU's idle thread and no thread is on two rings,
\* whichever CPU creates it.
THEOREM RingsDisjointHolds == Spec => []RingsDisjoint
<1>1. SmpInv => RingsDisjoint
  BY DEF SmpInv
<1> QED
  BY <1>1, SmpInvariant, PTL
------------------------------------------------------------------------------
\* Who is RUNNING, and whose sleep timer is set.
RunInv ==
  /\ \A d \in Cpu : state[Idle[d]] = RUNNING /\ state[cur_thread[d]] = RUNNING
  /\ \A t \in All : timer[t] => /\ state[t] = SLEEPING
                                /\ call[t] = "sched_sleep"
                                /\ pc[t] = "unlock_splx"

\* A step that leaves states, timers and CPUs alone keeps RunInv: only the
\* thread on CPU c moves, and it is RUNNING, so it has no timer.
LEMMA RunKept ==
  ASSUME SmpInv, RunInv, NEW c \in Cpu,
         UNCHANGED <<cur_thread, state, timer>>,
         \A u \in All : u # cur_thread[c] => pc'[u] = pc[u] /\ call'[u] = call[u]
  PROVE  RunInv'
<1>1. ASSUME NEW u \in All, timer[u]
      PROVE  state[u] = SLEEPING /\ call'[u] = "sched_sleep" /\ pc'[u] = "unlock_splx"
  <2>1. u # cur_thread[c]
    BY <1>1 DEF RunInv, RUNNING, SLEEPING
  <2> QED
    BY <1>1, <2>1 DEF RunInv
<1> QED
  BY <1>1 DEF RunInv

\* sched_next on CPU c comes out on a RUNNING thread when the idle thread is.
LEMMA SwitchRuns ==
  ASSUME SmpInv, NEW c \in Cpu, NEW st, NEW cn \in [All -> Nat],
         \A u \in All : cn[u] <= 2 * THREAD_DEFAULT_PRI - 1,
         SwitchFrom(c, st, cn), st[Idle[c]] = RUNNING
  PROVE  /\ state' = st
         /\ \E n \in All : /\ st[n] = RUNNING
                           /\ cur_thread' = [cur_thread EXCEPT ![c] = n]
<1>1. /\ threads[c] \in Seq(All) /\ threads[c] # <<>>
      /\ \A i, j \in DOMAIN threads[c] : threads[c][i] = threads[c][j] => i = j
      /\ Head(threads[c]) = Idle[c]
  BY ZenonT(60) DEF SmpInv, TypeOK, RingsDisjoint
<1>2. Idle[c] \in Range(threads[c])
  <2>1. Len(threads[c]) \in Nat \ {0} /\ DOMAIN threads[c] = 1..Len(threads[c])
    BY <1>1, SeqFacts
  <2>2. Head(threads[c]) = threads[c][1]
    BY <1>1
  <2> QED
    BY <1>1, <2>1, <2>2 DEF Range
<1>3. (\E u \in Range(threads[c]) : st[u] = RUNNING) =>
         st[sched_next(threads[c], st, cn)] = RUNNING
  BY <1>1, SchedNextCorrect
<1> QED
  BY <1>2, <1>3, SwitchFromFacts, Zenon DEF SwitchFrom

LEMMA IdleHome ==
  ASSUME SmpInv, NEW d \in Cpu
  PROVE  cpu_id[Idle[d]] = d
<1>1. threads[d] \in Seq(All) /\ threads[d] # <<>> /\ Head(threads[d]) = Idle[d]
  BY DEF SmpInv, TypeOK, RingsDisjoint
<1>2. Idle[d] \in Range(threads[d])
  <2>1. Len(threads[d]) \in Nat \ {0} /\ DOMAIN threads[d] = 1..Len(threads[d])
    BY <1>1, SeqFacts, Zenon
  <2>2. Head(threads[d]) = threads[d][1]
    BY <1>1
  <2> QED
    BY <1>1, <2>1, <2>2 DEF Range
<1>3. Idle[d] \in All
  BY SmpAssumption
<1> QED
  BY <1>2, <1>3, Zenon DEF SmpInv, RingsDisjoint

\* A thread other than the idle one goes to sleep and gives its CPU away.
LEMMA SleepRuns ==
  ASSUME SmpInv, RunInv, NEW c \in Cpu, cur_thread[c] # Idle[c],
         SwitchFrom(c, [state EXCEPT ![cur_thread[c]] = SLEEPING], cnt)
  PROVE  \A d \in Cpu : state'[Idle[d]] = RUNNING /\ state'[cur_thread'[d]] = RUNNING
<1> DEFINE t == cur_thread[c]
           st == [state EXCEPT ![t] = SLEEPING]
<1>1. /\ t \in All /\ cpu_id[t] = c
      /\ \A d \in Cpu : cur_thread[d] = t => d = c
  BY CurFacts, Zenon
<1>2. /\ state \in [All -> {RUNNING, SLEEPING}] /\ cnt \in [All -> Nat]
      /\ cur_thread \in [Cpu -> All]
      /\ \A u \in All : cnt[u] <= 2 * THREAD_DEFAULT_PRI - 1
  BY ZenonT(60) DEF SmpInv, TypeOK, CntInv
<1>3. \A d \in Cpu : Idle[d] \in All /\ Idle[d] # t
  BY <1>1, IdleHome, SmpAssumption, Zenon
<1>4. \A u \in All : u # t => st[u] = state[u]
  BY <1>2
<1>5. \A d \in Cpu : st[Idle[d]] = RUNNING
  BY <1>3, <1>4 DEF RunInv
<1> HIDE DEF st
<1>6. PICK n \in All : /\ st[n] = RUNNING /\ state' = st
                      /\ cur_thread' = [cur_thread EXCEPT ![c] = n]
  <2>1. SwitchFrom(c, st, cnt) /\ st[Idle[c]] = RUNNING
    BY <1>5 DEF st
  <2> QED
    BY <1>2, <2>1, SwitchRuns
<1>7. \A d \in Cpu : d # c => st[cur_thread[d]] = RUNNING
  BY <1>1, <1>2, <1>4 DEF RunInv
<1> QED
  BY <1>2, <1>5, <1>6, <1>7

LEMMA RunStep ==
  ASSUME SmpInv, RunInv, NEW c \in Cpu, SmpNext(c) PROVE RunInv'
<1> DEFINE t == cur_thread[c]
<1>1. t \in All /\ pc[t] # "absent" /\ LocalInv(t)
  BY CurFacts
<1>2. /\ pc \in [All -> Points] /\ call \in [All -> Calls] /\ arg \in [All -> All]
      /\ state \in [All -> {RUNNING, SLEEPING}] /\ timer \in [All -> BOOLEAN]
      /\ cur_thread \in [Cpu -> All] /\ cnt \in [All -> Nat]
      /\ \A u \in All : cnt[u] <= 2 * THREAD_DEFAULT_PRI - 1
  BY ZenonT(60) DEF SmpInv, TypeOK, CntInv
<1>3. \A d \in Cpu : Idle[d] \in All
  BY SmpAssumption
<1>4. CASE \/ timer_irq(c) \/ timer_irq_return(c) \/ thread_start(c)
           \/ cpu_show_ring(c)
  <2>1. /\ UNCHANGED <<cur_thread, state, timer, call>>
        /\ \E p : pc' = [pc EXCEPT ![t] = p]
    BY <1>4 DEF timer_irq, timer_irq_return, thread_start, cpu_show_ring, Goto, runvars
  <2> QED
    BY <1>2, <2>1, RunKept
<1>5. CASE \/ thread_create(c) \/ sched_sleep(c) \/ cpu_show_cmd(c)
           \/ cpu_unlock_smp(c)
  <2>1. /\ UNCHANGED <<cur_thread, state, timer>>
        /\ \E p : pc' = [pc EXCEPT ![t] = p]
        /\ \E f : call' = [call EXCEPT ![t] = f]
    <3>1. CASE cpu_unlock_smp(c)
      BY <3>1, Zenon DEF cpu_unlock_smp, Goto, runvars
    <3>2. CASE \E fn, d : cpu_lock_smp(c, fn, d)
      BY <3>2, Zenon DEF cpu_lock_smp, runvars
    <3> QED
      BY <1>5, <3>1, <3>2, Zenon DEF thread_create, sched_sleep, cpu_show_cmd
  <2>2. \A u \in All : u # t => pc'[u] = pc[u] /\ call'[u] = call[u]
    BY <1>2, <2>1
  <2> QED
    BY <2>1, <2>2, RunKept, Zenon
<1>6. CASE thread_create_push(c)
  <2>1. /\ call[t] = "thread_create" /\ pc[t] \in {"lock_own", "lock_id"}
        /\ pc' = [pc EXCEPT ![t] = Unlock(t), ![arg[t]] = "thread_start"]
        /\ state' = [state EXCEPT ![arg[t]] = RUNNING]
        /\ timer' = [timer EXCEPT ![arg[t]] = FALSE]
        /\ UNCHANGED <<cur_thread, call>>
    BY <1>6, Zenon DEF thread_create_push, Locked
  <2>2. arg[t] \in All
    BY <1>1, <1>2
  <2>3. ASSUME NEW u \in All, timer'[u]
        PROVE  state'[u] = SLEEPING /\ call'[u] = "sched_sleep" /\ pc'[u] = "unlock_splx"
    <3>1. u # arg[t] /\ timer[u]
      BY <1>2, <2>1, <2>2, <2>3
    <3>2. u # t
      BY <3>1 DEF RunInv, RUNNING, SLEEPING
    <3> QED
      BY <1>2, <2>1, <3>1, <3>2 DEF RunInv
  <2>4. \A u \in All : state[u] = RUNNING => state'[u] = RUNNING
    BY <1>2, <2>1
  <2> QED
    BY <1>2, <1>3, <2>1, <2>3, <2>4 DEF RunInv
<1>7. ASSUME NEW ms \in 1..MaxSleep, sched_sleep_next(c, ms) PROVE RunInv'
  <2>1. /\ call[t] = "sched_sleep" /\ pc[t] \in {"lock_own", "lock_id"}
        /\ pc' = [pc EXCEPT ![t] = Unlock(t)] /\ call' = call
    BY <1>7, Zenon DEF sched_sleep_next, Locked
  <2>2. Unlock(t) = "unlock_splx"
    BY <1>1, <2>1, Zenon DEF LocalInv, Unlock
  <2>3. CASE t = Head(threads[c])
    <3>1. UNCHANGED <<cur_thread, state, timer>>
      BY <1>7, <2>3 DEF sched_sleep_next
    <3> QED
      BY <1>2, <2>1, <3>1, RunKept
  <2>4. CASE t # Head(threads[c])
    <3>1. /\ timer' = [timer EXCEPT ![t] = TRUE]
          /\ SwitchFrom(c, [state EXCEPT ![t] = SLEEPING], cnt)
      BY <1>7, <2>4 DEF sched_sleep_next
    <3>2. state' = [state EXCEPT ![t] = SLEEPING]
      BY <3>1 DEF SwitchFrom
    <3>3. t # Idle[c]
      BY <2>4 DEF SmpInv, RingsDisjoint
    <3>4. \A d \in Cpu : state'[Idle[d]] = RUNNING /\ state'[cur_thread'[d]] = RUNNING
      BY <3>1, <3>3, SleepRuns
    <3>5. ASSUME NEW u \in All, timer'[u]
          PROVE  /\ state'[u] = SLEEPING /\ call'[u] = "sched_sleep"
                 /\ pc'[u] = "unlock_splx"
      <4>1. CASE u = t
        BY <1>1, <1>2, <2>1, <2>2, <3>2, <4>1, Zenon
      <4>2. CASE u # t
        <5>1. timer[u] /\ state'[u] = state[u] /\ pc'[u] = pc[u]
          BY <1>2, <2>1, <3>1, <3>2, <3>5, <4>2, Zenon
        <5> QED
          BY <2>1, <5>1 DEF RunInv
      <4> QED
        BY <4>1, <4>2
    <3> QED
      BY <3>4, <3>5 DEF RunInv
  <2> QED
    BY <2>3, <2>4, Zenon
<1>8. CASE timer_irq_handler(c)
  <2> DEFINE sleepers == TimedSleepers(threads[c], state, timer)
             left == countdown(sleep_time, sleepers)
             woken == {v \in sleepers : left[v] = 0}
             st == woken_state(state, woken)
             cn == charge(woken_cnt(cnt, woken), t)
  <2>1. /\ pc[t] = "tick" /\ pc' = [pc EXCEPT ![t] = "tick_unlock"] /\ call' = call
        /\ timer' = [u \in All |-> timer[u] /\ u \notin woken]
        /\ \/ state' = st /\ cur_thread' = cur_thread
           \/ SwitchFrom(c, st, cn)
    BY <1>8, ZenonT(60) DEF timer_irq_handler, Goto
  <2> HIDE DEF woken
  <2>2. /\ cn \in [All -> Nat]
        /\ \A u \in All : cn[u] <= 2 * THREAD_DEFAULT_PRI - 1
    BY <1>1, <1>2, ChargedCnt
  <2>3. \A u \in All : st[u] = IF u \in woken THEN RUNNING ELSE state[u]
    BY <1>2 DEF woken_state
  <2>4. \A d \in Cpu : st[Idle[d]] = RUNNING /\ st[cur_thread[d]] = RUNNING
    BY <1>2, <1>3, <2>3, Zenon DEF RunInv
  <2> HIDE DEF st, cn
  <2>5. PICK n \in All : /\ st[n] = RUNNING /\ state' = st
                        /\ cur_thread' = [cur_thread EXCEPT ![c] = n]
    <3>1. CASE state' = st /\ cur_thread' = cur_thread
      BY <1>1, <1>2, <2>4, <3>1, Zenon
    <3>2. CASE SwitchFrom(c, st, cn)
      BY <2>2, <2>4, <3>2, SwitchRuns
    <3> QED
      BY <2>1, <3>1, <3>2, Zenon
  <2>6. \A d \in Cpu : state'[Idle[d]] = RUNNING /\ state'[cur_thread'[d]] = RUNNING
    BY <1>2, <2>4, <2>5, Zenon
  <2>7. ASSUME NEW u \in All, timer'[u]
        PROVE  state'[u] = SLEEPING /\ call'[u] = "sched_sleep" /\ pc'[u] = "unlock_splx"
    <3>1. timer[u] /\ u \notin woken
      BY <2>1, <2>7, Zenon
    <3>2. u # t
      BY <3>1, Zenon DEF RunInv, RUNNING, SLEEPING
    <3> QED
      BY <1>2, <2>1, <2>3, <2>5, <3>1, <3>2, Zenon DEF RunInv
  <2> QED
    BY <2>6, <2>7 DEF RunInv
<1> QED
  BY <1>4, <1>5, <1>6, <1>7, <1>8 DEF SmpNext, InTimer, InCall

\* On any number of CPUs the thread that has a CPU is RUNNING, an idle thread
\* always is, and THREAD_FLAG_SLEEP_TIMER is set only on threads asleep in
\* sched_sleep: neither a tick nor a creation on another CPU disturbs it.
THEOREM RunInvariant == Spec => []RunInv
<1>1. Init => RunInv
  BY SmpAssumption DEF Init, RunInv
<1>2. SmpInv /\ RunInv /\ [Next]_vars => RunInv'
  <2>1. ASSUME RunInv, UNCHANGED vars PROVE RunInv'
    BY <2>1 DEF RunInv, vars, runvars, ctlvars
  <2> QED
    BY <2>1, RunStep DEF Next
<1> QED
  BY <1>1, <1>2, SmpInvariant, PTL DEF Spec
------------------------------------------------------------------------------
\* What a step says to the semaphore about u when it is not one of its own, ...
Aside(u) ==
  /\ pc[u] \in SemaPoints \/ pc'[u] \in SemaPoints =>
        /\ pc'[u] = pc[u] /\ arg'[u] = arg[u] /\ target'[u] = target[u]
        /\ state'[u] = state[u]
  /\ call'[u] = "sema_wait" => call[u] = "sema_wait"
  /\ pc[u] # "absent" => cpu_id'[u] = cpu_id[u]

\* u is in kbd_read, perhaps under an interrupt.
Reading(u) ==
  /\ call[u] = "kbd_read"
  /\ pc[u] \in SemaPoints \cup {"run"} \/ ret[u] = "run"

\* ... and to the keyboard.
KbdAside(u) ==
  /\ pc[u] \in KbdIrq \/ pc'[u] \in KbdIrq =>
        pc'[u] = pc[u] /\ ret'[u] = ret[u] /\ target'[u] = target[u]
  /\ call'[u] = "kbd_read" => call[u] = "kbd_read"
  /\ Reading(u) => Reading(u)'

\* t goes on at p, in the function f, outside the semaphore and the keyboard, and
\* u keeps what they look at.
Beside(t, u, p, f) ==
  /\ p \notin SemaPoints /\ pc[t] \notin SemaPoints
  /\ f \in {call[t], "none", "thread_create", "sched_sleep", "cpu_show_cmd"}
  /\ pc' = [pc EXCEPT ![t] = p] /\ call' = [call EXCEPT ![t] = f]
  /\ cpu_id' = cpu_id /\ pc[t] \notin KbdIrq /\ p \notin KbdIrq
  /\ u # t => arg'[u] = arg[u] /\ target'[u] = target[u] /\ ret'[u] = ret[u]
  /\ Reading(t) => f = "kbd_read" /\ (p = "run" \/ ret'[t] = "run")
  /\ pc[u] \in SemaPoints => state'[u] = state[u]

LEMMA SmpAside ==
  ASSUME SmpInv, RunInv, NEW c \in Cpu, SmpNext(c), NEW u \in All
  PROVE  Aside(u) /\ KbdAside(u)
<1> DEFINE t == cur_thread[c]
<1>1. t \in All /\ LocalInv(t)
  BY CurFacts
<1>2. /\ pc \in [All -> Points] /\ call \in [All -> Calls] /\ arg \in [All -> All]
      /\ target \in [All -> Cpu] /\ state \in [All -> {RUNNING, SLEEPING}]
      /\ cpu_id \in [All -> Cpu] /\ ret \in [All -> {"absent"} \cup Open]
  BY ZenonT(60) DEF SmpInv, TypeOK
<1>3. ASSUME NEW p, NEW f, Beside(t, u, p, f)
      PROVE  Aside(u) /\ KbdAside(u)
  <2>1. CASE u = t
    BY <1>1, <1>2, <1>3, <2>1, Zenon DEF Aside, KbdAside, Reading, Beside
  <2>2. CASE u # t
    BY <1>1, <1>2, <1>3, <2>2, Zenon DEF Aside, KbdAside, Reading, Beside
  <2> QED
    BY <2>1, <2>2
<1>4. \A p \in {"tick", "tick_unlock", "run", "lock_own", "lock_id", "unlock_splx",
                 "unlock_id", "thread_start", "absent"} :
        p \notin SemaPoints /\ p \notin KbdIrq
  BY DEF SemaPoints, KbdIrq
<1>5. call = [call EXCEPT ![t] = call[t]]
  BY <1>1, <1>2
<1>6. CASE timer_irq(c)
  <2>1. pc[t] \in Open /\ ret[t] = "absent"
    BY <1>1, <1>6, Zenon DEF SmpInv, timer_irq, LocalInv, Open
  <2>2. /\ pc' = [pc EXCEPT ![t] = "tick"] /\ ret' = [ret EXCEPT ![t] = pc[t]]
        /\ UNCHANGED <<cpu_id, target, arg, call, state>>
    BY <1>6 DEF timer_irq, runvars
  <2>3. Reading(t) => call[t] = "kbd_read" /\ ret'[t] = "run"
    BY <1>1, <1>2, <2>1, <2>2 DEF Reading, Open, SemaPoints
  <2>4. pc[t] \notin SemaPoints /\ pc[t] \notin KbdIrq
    BY <2>1, <1>4 DEF Open
  <2>5. u # t => ret'[u] = ret[u]
    BY <1>2, <2>2
  <2>6. Beside(t, u, "tick", call[t])
    BY <1>4, <1>5, <2>2, <2>3, <2>4, <2>5, Zenon DEF Beside
  <2> QED
    BY <1>3, <2>6, Zenon
<1>7. CASE timer_irq_handler(c)
  <2> DEFINE sleepers == TimedSleepers(threads[c], state, timer)
             left == countdown(sleep_time, sleepers)
             woken == {v \in sleepers : left[v] = 0}
  <2>1. state' = woken_state(state, woken)
    BY <1>7, ZenonT(60) DEF timer_irq_handler, SwitchFrom
  <2>2. pc[u] \in SemaPoints => u \notin woken
    BY <1>4, Zenon DEF RunInv, TimedSleepers
  <2> HIDE DEF woken
  <2>3. pc[u] \in SemaPoints => state'[u] = state[u]
    BY <1>2, <2>1, <2>2 DEF woken_state
  <2>4. /\ pc[t] = "tick" /\ pc' = [pc EXCEPT ![t] = "tick_unlock"]
        /\ UNCHANGED <<cpu_id, target, arg, call, ret>>
    BY <1>7, ZenonT(60) DEF timer_irq_handler, Goto
  <2>5. Reading(t) => call[t] = "kbd_read" /\ ret'[t] = "run"
    BY <1>4, <2>4, Zenon DEF Reading
  <2>6. Beside(t, u, "tick_unlock", call[t])
    BY <1>4, <1>5, <2>3, <2>4, <2>5, Zenon DEF Beside
  <2> QED
    BY <1>3, <2>6, Zenon
<1>8. CASE timer_irq_return(c)
  <2>1. /\ pc[t] = "tick_unlock" /\ pc' = [pc EXCEPT ![t] = ret[t]]
        /\ ret' = [ret EXCEPT ![t] = "absent"]
        /\ UNCHANGED <<cpu_id, target, arg, call, state>>
    BY <1>8, Zenon DEF timer_irq_return, Goto, runvars
  <2>2. ret[t] \notin SemaPoints /\ ret[t] \notin KbdIrq
    BY <1>1, <1>2, <1>4 DEF Open
  <2>3. Reading(t) => call[t] = "kbd_read" /\ ret[t] = "run"
    BY <1>4, <2>1, Zenon DEF Reading
  <2>4. u # t => ret'[u] = ret[u]
    BY <1>2, <2>1
  <2>5. Beside(t, u, ret[t], call[t])
    BY <1>4, <1>5, <2>1, <2>2, <2>3, <2>4, Zenon DEF Beside
  <2> QED
    BY <1>3, <2>5, Zenon
<1>9. CASE thread_start(c)
  <2>1. /\ pc[t] = "thread_start" /\ pc' = [pc EXCEPT ![t] = "run"]
        /\ UNCHANGED <<cpu_id, target, arg, call, state, ret>>
    BY <1>9, Zenon DEF thread_start, Goto, runvars
  <2>2. ~Reading(t)
    BY <1>1, <2>1, Zenon DEF Reading, LocalInv
  <2>3. Beside(t, u, "run", call[t])
    BY <1>4, <1>5, <2>1, <2>2, Zenon DEF Beside
  <2> QED
    BY <1>3, <2>3, Zenon
<1>10. ASSUME NEW fn \in {"thread_create", "sched_sleep", "cpu_show_cmd"},
              NEW d \in Cpu, pc[t] = "run", call[t] \in {"none", "cpu_show_cmd"},
              cpu_lock_smp(c, fn, d),
              u # t => arg'[u] = arg[u]
       PROVE  Aside(u) /\ KbdAside(u)
  <2>1. PICK p \in {"lock_own", "lock_id"} : pc' = [pc EXCEPT ![t] = p]
    BY <1>10, Zenon DEF cpu_lock_smp
  <2>2. /\ call' = [call EXCEPT ![t] = fn] /\ target' = [target EXCEPT ![t] = d]
        /\ UNCHANGED <<cpu_id, state, ret>>
    BY <1>10, Zenon DEF cpu_lock_smp, runvars
  <2>3. u # t => target'[u] = target[u]
    BY <1>2, <2>2
  <2>4. ~Reading(t)
    BY <1>10, Zenon DEF Reading
  <2>5. Beside(t, u, p, fn)
    BY <1>4, <1>10, <2>1, <2>2, <2>3, <2>4, Zenon DEF Beside
  <2> QED
    BY <1>3, <2>5, Zenon
<1>11. CASE thread_create(c)
  <2>1. NextBoot \in Thread
    <3>0. DOMAIN Boot \subseteq Nat
      BY BootDomain, Zenon
    <3>1. Pending \subseteq Nat /\ Pending # {}
      BY <1>11, <3>0, Zenon DEF thread_create, Pending
    <3>2. NextBoot = Boot[CHOOSE i \in Pending : \A j \in Pending : i <= j]
      BY DEF NextBoot
    <3>3. (CHOOSE i \in Pending : \A j \in Pending : i <= j) \in DOMAIN Boot
      BY <3>1, NatMin, Zenon DEF Pending
    <3> QED
      BY <3>2, <3>3, SmpAssumption
  <2>2. Home[NextBoot] \in Cpu
    BY <2>1, SmpAssumption
  <2>3. /\ pc[t] = "run" /\ call[t] = "none" /\ t = Idle[0]
        /\ arg' = [arg EXCEPT ![Idle[0]] = NextBoot]
        /\ cpu_lock_smp(c, "thread_create", Home[NextBoot])
    BY <1>11 DEF thread_create, Free
  <2> QED
    BY <1>2, <1>10, <2>2, <2>3, Zenon
<1>12. CASE sched_sleep(c)
  BY <1>10, <1>12, Zenon DEF sched_sleep, Free
<1>13. CASE cpu_show_cmd(c)
  <2>1. /\ pc[t] = "run" /\ call[t] \in {"none", "cpu_show_cmd"} /\ arg' = arg
        /\ \/ cpu_lock_smp(c, "cpu_show_cmd", 0)
           \/ /\ call[t] = "cpu_show_cmd"
              /\ cpu_lock_smp(c, "cpu_show_cmd", target[t] + 1)
    BY <1>13, Zenon DEF cpu_show_cmd, Free
  <2>2. 0 \in Cpu
    BY SmpAssumption DEF Cpu
  <2>3. call[t] = "cpu_show_cmd" => target[t] + 1 \in Cpu
    <3>1. target[t] \in Cpu /\ (call[t] = "cpu_show_cmd" => target[t] + 1 < NumCpus)
      BY <1>1, <1>2, <2>1, Zenon DEF LocalInv
    <3> QED
      BY <3>1, SmpAssumption DEF Cpu
  <2> QED
    BY <1>10, <2>1, <2>2, <2>3, Zenon
<1>14. CASE thread_create_push(c)
  <2>1. /\ call[t] = "thread_create" /\ pc[t] \in {"lock_own", "lock_id"}
        /\ pc' = [pc EXCEPT ![t] = Unlock(t), ![arg[t]] = "thread_start"]
        /\ cpu_id' = [cpu_id EXCEPT ![arg[t]] = target[t]]
        /\ state' = [state EXCEPT ![arg[t]] = RUNNING]
        /\ UNCHANGED <<target, arg, call, ret>>
    BY <1>14, Zenon DEF thread_create_push, Locked
  <2>2. arg[t] \in All /\ pc[arg[t]] = "absent"
    BY <1>1, <1>2, <2>1, Zenon DEF SmpInv, CreateInv, Creating
  <2>3. Unlock(t) \in {"unlock_splx", "unlock_id"}
    BY DEF Unlock
  <2>4. CASE u = arg[t]
    <3>1. pc[u] = "absent" /\ pc'[u] = "thread_start" /\ call[u] = "none" /\ call' = call
      BY <1>2, <2>1, <2>2, <2>4, Zenon DEF SmpInv, LocalInv
    <3> QED
      BY <1>4, <3>1, Zenon DEF Aside, KbdAside, Reading
  <2>5. CASE u # arg[t] /\ u = t
    <3>1. pc'[u] = Unlock(t) /\ cpu_id'[u] = cpu_id[u]
      BY <1>2, <2>1, <2>5, Zenon
    <3> QED
      BY <1>4, <2>1, <2>3, <2>5, <3>1, Zenon DEF Aside, KbdAside, Reading
  <2>6. CASE u # arg[t] /\ u # t
    BY <1>2, <2>1, <2>6, Zenon DEF Aside, KbdAside, Reading
  <2> QED
    BY <2>4, <2>5, <2>6, Zenon
<1>15. ASSUME NEW ms \in 1..MaxSleep, sched_sleep_next(c, ms) PROVE Aside(u) /\ KbdAside(u)
  <2>1. /\ pc[t] \in {"lock_own", "lock_id"} /\ pc' = [pc EXCEPT ![t] = Unlock(t)]
        /\ call[t] = "sched_sleep" /\ UNCHANGED <<cpu_id, target, arg, call, ret>>
        /\ state' = state \/ state' = [state EXCEPT ![t] = SLEEPING]
    BY <1>15, Zenon DEF sched_sleep_next, Locked, SwitchFrom
  <2>2. Unlock(t) \in {"unlock_splx", "unlock_id"}
    BY DEF Unlock
  <2>3. pc[u] \in SemaPoints => state'[u] = state[u]
    <3>1. pc[t] \notin SemaPoints
      BY <1>4, <2>1, Zenon
    <3> QED
      BY <1>2, <2>1, <3>1
  <2>4. ~Reading(t)
    BY <2>1 DEF Reading
  <2>5. Beside(t, u, Unlock(t), call[t])
    BY <1>4, <1>5, <2>1, <2>2, <2>3, <2>4, Zenon DEF Beside
  <2> QED
    BY <1>3, <2>5, Zenon
<1>16. CASE cpu_show_ring(c)
  <2>1. /\ pc[t] \in {"lock_own", "lock_id"} /\ pc' = [pc EXCEPT ![t] = Unlock(t)]
        /\ call[t] = "cpu_show_cmd"
        /\ UNCHANGED <<cpu_id, target, arg, call, state, ret>>
    BY <1>16, Zenon DEF cpu_show_ring, Locked, runvars
  <2>2. Unlock(t) \in {"unlock_splx", "unlock_id"}
    BY DEF Unlock
  <2>3. ~Reading(t)
    BY <2>1 DEF Reading
  <2>4. Beside(t, u, Unlock(t), call[t])
    BY <1>4, <1>5, <2>1, <2>2, <2>3, Zenon DEF Beside
  <2> QED
    BY <1>3, <2>4, Zenon
<1>17. CASE cpu_unlock_smp(c)
  <2>1. /\ pc[t] \in {"unlock_splx", "unlock_id"} /\ pc' = [pc EXCEPT ![t] = "run"]
        /\ call' = [call EXCEPT ![t] =
                      IF @ = "cpu_show_cmd" /\ target[t] + 1 < NumCpus
                      THEN @ ELSE "none"]
        /\ UNCHANGED <<cpu_id, target, arg, state, ret>>
    BY <1>17 DEF cpu_unlock_smp, Goto, runvars
  <2>2. PICK f \in {call[t], "none"} : call' = [call EXCEPT ![t] = f]
    BY <2>1, Zenon
  <2>3. ~Reading(t)
    BY <1>1, <1>4, <2>1, Zenon DEF Reading, LocalInv
  <2>4. Beside(t, u, "run", f)
    BY <1>4, <2>1, <2>2, <2>3, Zenon DEF Beside
  <2> QED
    BY <1>3, <2>4, Zenon
<1> QED
  BY <1>6, <1>7, <1>8, <1>9, <1>11, <1>12, <1>13, <1>14, <1>15, <1>16, <1>17, Zenon
     DEF SmpNext, InTimer, InCall
------------------------------------------------------------------------------
\* How the thread on CPU c, on its way through the semaphore or kbd_read to p,
\* takes or releases at most one CPU's lock.
LockMove(c, t, p) ==
  \/ /\ lock' = lock
     /\ p \notin OwnHeld \cup IdHeld
     /\ pc[t] \notin OwnHeld \cup IdHeld
  \/ /\ pc[t] = "wait_cpu" /\ p = "wait_yield"
     /\ lock[c] = 0 /\ lock' = [lock EXCEPT ![c] = 1]
  \/ /\ pc[t] = "signal_cpu" /\ p = "signal_unlock" /\ target' = target
     /\ lock[target[t]] = 0 /\ lock' = [lock EXCEPT ![target[t]] = 1]
  \/ /\ pc[t] = "wait_unlock" /\ p \in {"run", "outer"}
     /\ lock' = [lock EXCEPT ![c] = 0]
  \/ /\ pc[t] = "signal_unlock" /\ p = "run" /\ target' = target
     /\ lock' = [lock EXCEPT ![target[t]] = 0]

LEMMA SemaLocks ==
  ASSUME SmpInv, NEW c \in Cpu, NEW t \in All, t = cur_thread[c],
         NEW p, pc' = [pc EXCEPT ![t] = p], pc[t] \in SemaPoints \cup {"run"},
         UNCHANGED <<cur_thread, ret>>,
         \A u \in All : u # t => target'[u] = target[u],
         LockMove(c, t, p)
  PROVE  lock' \in [Cpu -> {0, 1}] /\ HoldersMove
<1>1. LocalInv(t) /\ \A d \in Cpu : cur_thread[d] = t => d = c
  BY CurFacts, Zenon
<1>2. /\ pc \in [All -> Points] /\ target[t] \in Cpu /\ lock \in [Cpu -> {0, 1}]
  BY Zenon DEF SmpInv, TypeOK
<1>3. ret[t] = "absent" /\ "absent" \notin IdHeld
  BY <1>1, Zenon DEF LocalInv, SemaPoints, IdHeld
<1>4. /\ pc'[t] = p
      /\ \A u \in All : u # t => pc'[u] = pc[u]
  BY <1>2, Zenon
<1>6. \A u \in All, d \in Cpu : u # t => (Holds(u, d)' <=> Holds(u, d))
  BY <1>4, Zenon DEF Holds
<1>7. \A d \in Cpu :
        Holds(t, d) <=> (d = c /\ pc[t] \in OwnHeld) \/ (target[t] = d /\ pc[t] \in IdHeld)
  <2> TAKE d \in Cpu
  <2>1. cur_thread[d] = t <=> d = c
    BY <1>1
  <2> QED
    BY <1>3, <2>1, Zenon DEF Holds
<1>8. \A d \in Cpu :
        Holds(t, d)' <=> (d = c /\ p \in OwnHeld) \/ (target'[t] = d /\ p \in IdHeld)
  <2> TAKE d \in Cpu
  <2>1. (cur_thread'[d] = t <=> d = c) /\ ret'[t] = "absent"
    BY <1>1, <1>3, Zenon
  <2> QED
    BY <1>3, <1>4, <2>1, Zenon DEF Holds
<1>9. CASE /\ lock' = lock /\ p \notin OwnHeld \cup IdHeld
           /\ pc[t] \notin OwnHeld \cup IdHeld
  <2>1. \A u \in All, d \in Cpu : Holds(u, d)' <=> Holds(u, d)
    BY <1>6, <1>7, <1>8, <1>9, Zenon
  <2> QED
    BY ZenonT(60), <1>2, <1>9, <2>1 DEF HoldersMove, HoldersSame
<1>10. ASSUME NEW e \in Cpu, lock[e] = 0, lock' = [lock EXCEPT ![e] = 1],
              \A d \in Cpu : ~Holds(t, d), \A d \in Cpu : Holds(t, d)' <=> d = e
       PROVE  lock' \in [Cpu -> {0, 1}] /\ HoldersMove
  <2>1. \A u \in All, d \in Cpu : u # t \/ d # e => (Holds(u, d)' <=> Holds(u, d))
    BY <1>6, <1>10, Zenon
  <2>2. lock' \in [Cpu -> {0, 1}]
    BY <1>2, <1>10, Zenon
  <2> QED
    BY ZenonT(60), <1>2, <1>10, <2>1, <2>2, GainStep
<1>11. ASSUME NEW e \in Cpu, lock' = [lock EXCEPT ![e] = 0],
              \A d \in Cpu : ~Holds(t, d)', \A d \in Cpu : Holds(t, d) <=> d = e
       PROVE  lock' \in [Cpu -> {0, 1}] /\ HoldersMove
  <2>1. \A u \in All, d \in Cpu : u # t \/ d # e => (Holds(u, d)' <=> Holds(u, d))
    BY <1>6, <1>11, Zenon
  <2>2. lock' \in [Cpu -> {0, 1}]
    BY <1>2, <1>11, Zenon
  <2> QED
    BY ZenonT(60), <1>2, <1>11, <2>1, <2>2, LoseStep
<1>12. /\ "wait_yield" \in OwnHeld /\ "wait_yield" \notin IdHeld
       /\ "wait_unlock" \in OwnHeld /\ "wait_unlock" \notin IdHeld
       /\ "signal_unlock" \in IdHeld /\ "signal_unlock" \notin OwnHeld
       /\ "wait_cpu" \notin OwnHeld /\ "wait_cpu" \notin IdHeld
       /\ "signal_cpu" \notin OwnHeld /\ "signal_cpu" \notin IdHeld
       /\ {"run", "outer"} \cap (OwnHeld \cup IdHeld) = {}
  BY DEF OwnHeld, IdHeld
<1>13. CASE /\ pc[t] = "wait_cpu" /\ p = "wait_yield"
            /\ lock[c] = 0 /\ lock' = [lock EXCEPT ![c] = 1]
  <2>1. \A d \in Cpu : ~Holds(t, d) /\ (Holds(t, d)' <=> d = c)
    BY <1>7, <1>8, <1>12, <1>13, ZenonT(30)
  <2> QED
    BY <1>10, <1>13, <2>1, ZenonT(30)
<1>14. CASE /\ pc[t] = "signal_cpu" /\ p = "signal_unlock" /\ target' = target
            /\ lock[target[t]] = 0 /\ lock' = [lock EXCEPT ![target[t]] = 1]
  <2>1. \A d \in Cpu : ~Holds(t, d) /\ (Holds(t, d)' <=> d = target[t])
    BY <1>7, <1>8, <1>12, <1>14, ZenonT(30)
  <2> QED
    BY <1>2, <1>10, <1>14, <2>1, Zenon
<1>15. CASE /\ pc[t] = "wait_unlock" /\ p \in {"run", "outer"}
            /\ lock' = [lock EXCEPT ![c] = 0]
  <2>1. \A d \in Cpu : ~Holds(t, d)' /\ (Holds(t, d) <=> d = c)
    BY <1>7, <1>8, <1>12, <1>15, ZenonT(30)
  <2> QED
    BY <1>11, <1>15, <2>1, ZenonT(30)
<1>16. CASE /\ pc[t] = "signal_unlock" /\ p = "run" /\ target' = target
            /\ lock' = [lock EXCEPT ![target[t]] = 0]
  <2>1. \A d \in Cpu : ~Holds(t, d)' /\ (Holds(t, d) <=> d = target[t])
    BY <1>7, <1>8, <1>12, <1>16, ZenonT(30)
  <2> QED
    BY <1>2, <1>11, <1>16, <2>1, Zenon
<1> QED
  BY <1>9, <1>13, <1>14, <1>15, <1>16, ZenonT(30) DEF LockMove

\* The steps of the semaphore and of kbd_read other than sched_yield_locked, as
\* steps of Smp: the thread on CPU c goes on to p.
LEMMA SemaControl ==
  ASSUME SmpInv, NEW c \in Cpu, NEW t \in All, t = cur_thread[c],
         NEW p \in SemaPoints \cup {"run"},
         pc' = [pc EXCEPT ![t] = p], pc[t] \in SemaPoints \cup {"run"},
         LockMove(c, t, p), intr' \in [Cpu -> BOOLEAN],
         call' \in [All -> Calls], target' \in [All -> Cpu], arg' \in [All -> All],
         spl' \in [All -> BOOLEAN], state' \in [All -> {RUNNING, SLEEPING}],
         UNCHANGED <<cpu_spl, threads, cur_thread, cpu_id, cnt, sleep_time, timer, ret>>,
         \A u \in All : u # t => /\ target'[u] = target[u] /\ arg'[u] = arg[u]
                                 /\ call'[u] = call[u] /\ spl'[u] = spl[u],
         \A d \in Cpu : d # c => (intr'[d] <=> intr[d]), intr'[c] <=> p = "run",
         call'[t] # "sched_sleep", p = "run" => call'[t] # "cpu_show_cmd",
         p \in SemaPoints => spl'[t] = TRUE
  PROVE  SmpInv' /\ HoldersMove
<1>1. LocalInv(t) /\ TypeOK
  BY CurFacts, Zenon DEF SmpInv
<1>2. pc \in [All -> Points]
  BY <1>1, Zenon DEF TypeOK
<1>3. /\ p \in Points \ {"absent"}
      /\ p \in Open <=> p = "run"
  BY Zenon DEF SemaPoints, Points, OwnHeld, IdHeld, Open, Masked
<1>4. ret[t] = "absent" /\ pc'[t] = p
  BY <1>1, <1>2, Zenon DEF LocalInv, SemaPoints
<1>5. /\ intr'[c] <=> p \in Open
      /\ lock' \in [Cpu -> {0, 1}] /\ HoldersMove
  <2>1. /\ UNCHANGED <<cur_thread, ret>>
        /\ \A u \in All : u # t => target'[u] = target[u]
    BY Zenon
  <2>2. lock' \in [Cpu -> {0, 1}] /\ HoldersMove
    BY <2>1, SemaLocks, Zenon
  <2> QED
    BY <1>3, <2>2, Zenon
<1>6. TypeOK'
  <2>1. pc' \in [All -> Points]
    BY <1>2, <1>3, Zenon
  <2> QED
    BY ZenonT(60), <1>1, <1>5, <2>1 DEF TypeOK
<1>7. LocalInv(cur_thread[c])'
  <2>1. /\ p \notin {"tick", "tick_unlock", "lock_own", "unlock_splx", "lock_id",
                    "unlock_id", "absent", "thread_start", "kbd_lock", "kbd_cpu",
                    "kbd_unlock"}
        /\ ret'[t] = "absent"
    BY <1>4, Zenon DEF SemaPoints
  <2> QED
    BY <1>4, <2>1, ZenonT(60) DEF LocalInv
<1>8. ~Creating(cur_thread[c])'
  BY <1>4, Zenon DEF Creating, SemaPoints
<1>9. /\ threads' = threads /\ cur_thread' = cur_thread /\ cpu_id' = cpu_id
      /\ cnt' = cnt /\ pc' = [pc EXCEPT ![cur_thread[c]] = p]
      /\ \A d \in Cpu : cpu_spl[d] => cpu_spl'[d]
  BY Zenon
<1>10. \A u \in All : u # cur_thread[c] =>
            /\ ret'[u] = ret[u] /\ target'[u] = target[u] /\ arg'[u] = arg[u]
            /\ call'[u] = call[u] /\ spl'[u] = spl[u]
  BY Zenon
<1>11. Creating(cur_thread[c])' =>
            /\ cur_thread[c] = Idle[0]
            /\ arg'[cur_thread[c]] \in Thread
            /\ pc[arg'[cur_thread[c]]] = "absent"
            /\ target'[cur_thread[c]] = Home[arg'[cur_thread[c]]]
  BY <1>8, Zenon
<1> QED
  BY <1>3, <1>5, <1>6, <1>7, <1>9, <1>10, <1>11, ControlStep, ZenonT(60)

\* sched_yield_locked, with the CPU's lock held: the thread on CPU c, not the
\* idle one, sleeps, and whoever sched_next chooses goes on with the lock.
LEMMA YieldStep ==
  ASSUME SmpInv, RunInv, NEW c \in Cpu, NEW t \in All, t = cur_thread[c],
         t # Idle[c], pc[t] = "wait_yield", pc' = [pc EXCEPT ![t] = "wait_unlock"],
         SwitchFrom(c, [state EXCEPT ![t] = SLEEPING], cnt),
         UNCHANGED <<lock, intr, cpu_spl, threads, cpu_id, sleep_time, timer, ret,
                     target, arg, call, spl>>
  PROVE  SmpInv' /\ HoldersMove /\ RunInv'
<1> DEFINE st == [state EXCEPT ![t] = SLEEPING]
<1>1. TypeOK
  BY Zenon DEF SmpInv
<1>2. /\ st \in [All -> {RUNNING, SLEEPING}] /\ pc \in [All -> Points]
      /\ state \in [All -> {RUNNING, SLEEPING}]
  BY <1>1, Zenon DEF TypeOK
<1>3. cnt \in [All -> Nat] /\ \A u \in All : cnt[u] <= 2 * THREAD_DEFAULT_PRI - 1
  BY <1>1, ZenonT(60) DEF SmpInv, TypeOK, CntInv
<1>4. RunInv'
  <2>1. \A d \in Cpu : state'[Idle[d]] = RUNNING /\ state'[cur_thread'[d]] = RUNNING
    BY SleepRuns, Zenon
  <2>2. state' = st
    BY Zenon DEF SwitchFrom
  <2>3. ~timer[t]
    BY Zenon DEF RunInv
  <2>4. \A u \in All : u # t => state'[u] = state[u] /\ pc'[u] = pc[u]
    BY <1>2, <2>2, Zenon
  <2> QED
    BY <2>1, <2>3, <2>4, Zenon DEF RunInv
<1> HIDE DEF st
<1>5. PICK n \in All : /\ n \in Range(threads[c])
                       /\ cur_thread' = [cur_thread EXCEPT ![c] = n]
                       /\ cnt' \in [All -> Nat] /\ CntInv'
                       /\ state' \in [All -> {RUNNING, SLEEPING}]
  <2>1. SwitchFrom(c, st, cnt)
    BY Zenon DEF st
  <2> QED
    BY <1>2, <1>3, <2>1, SwitchFromFacts
<1>6. "wait_unlock" \in Points
  BY Zenon DEF Points, OwnHeld
<1>7. TypeOK'
  <2>1. pc' \in [All -> Points] /\ cur_thread' \in [Cpu -> All]
    BY <1>1, <1>5, <1>6, Zenon DEF TypeOK
  <2> QED
    BY ZenonT(60), <1>1, <1>5, <2>1 DEF TypeOK
<1>8. SmpInv' /\ HoldersMove
  BY ZenonT(60), <1>5, <1>6, <1>7, SwitchStep
<1> QED
  BY <1>4, <1>8, Zenon

\* A step of the keyboard's handler on CPU c: it goes on to another of its
\* points, perhaps after making a thread RUNNING, ...
LEMMA KbdIrqStep ==
  ASSUME SmpInv, NEW c \in Cpu, NEW t \in All, t = cur_thread[c],
         pc[t] \in KbdIrq, NEW p \in KbdIrq, pc' = [pc EXCEPT ![t] = p],
         state' \in [All -> {RUNNING, SLEEPING}],
         lock' \in [Cpu -> {0, 1}],
         UNCHANGED <<cpu_spl, intr, threads, cur_thread, cpu_id, cnt, sleep_time,
                     timer, ret, target, arg, call, spl>>
  PROVE  SmpInv' /\ \A u \in All, d \in Cpu : Holds(u, d)' <=> Holds(u, d)
<1>1. LocalInv(t) /\ TypeOK
  BY CurFacts, Zenon DEF SmpInv
<1>2. pc \in [All -> Points] /\ \A d \in Cpu : intr[d] <=> pc[cur_thread[d]] \in Open
  BY <1>1, Zenon DEF SmpInv, TypeOK
<1>3. /\ p \in Points \ {"absent"} /\ p \notin Open /\ pc[t] \notin Open
      /\ p \notin OwnHeld \cup IdHeld /\ pc[t] \notin OwnHeld \cup IdHeld
  BY DEF Points, KbdIrq, Open, OwnHeld, IdHeld
<1>4. pc'[t] = p /\ \A u \in All : u # t => pc'[u] = pc[u]
  BY <1>2
<1>5. \A u \in All, d \in Cpu : Holds(u, d)' <=> Holds(u, d)
  BY <1>3, <1>4, ZenonT(60) DEF Holds
<1>6. TypeOK'
  <2>1. pc' \in [All -> Points]
    BY <1>2, <1>3, Zenon
  <2> QED
    BY <1>1, <2>1, ZenonT(60) DEF TypeOK
<1>7. LocalInv(t)'
  BY <1>1, <1>4, Zenon DEF LocalInv, KbdIrq, SemaPoints
<1>8. Creating(t)' => Creating(t)
  BY <1>4, Zenon DEF Creating, KbdIrq
<1>9. Creating(t)' => /\ t = Idle[0] /\ arg'[t] \in Thread
                      /\ pc[arg'[t]] = "absent" /\ target'[t] = Home[arg'[t]]
  BY <1>8, Zenon DEF SmpInv, CreateInv
<1>10. intr'[c] <=> p \in Open
  BY <1>2, <1>3
<1> QED
  BY <1>3, <1>5, <1>6, <1>7, <1>9, <1>10, ControlStep, Zenon

\* ... or returns to the point it interrupted.
LEMMA KbdReturnStep ==
  ASSUME SmpInv, NEW c \in Cpu, NEW t \in All, t = cur_thread[c],
         pc[t] \in KbdIrq, pc' = [pc EXCEPT ![t] = ret[t]],
         ret' = [ret EXCEPT ![t] = "absent"], intr' = [intr EXCEPT ![c] = TRUE],
         lock' \in [Cpu -> {0, 1}], UNCHANGED <<cpu_spl, runvars, target, arg, call, spl>>
  PROVE  SmpInv' /\ \A u \in All, d \in Cpu : Holds(u, d)' <=> Holds(u, d)
<1>1. LocalInv(t) /\ TypeOK
  BY CurFacts, Zenon DEF SmpInv
<1>2. /\ pc \in [All -> Points] /\ intr \in [Cpu -> BOOLEAN]
      /\ ret \in [All -> {"absent"} \cup Open]
      /\ UNCHANGED <<threads, cur_thread, cpu_id, state, cnt, sleep_time, timer>>
  BY <1>1, Zenon DEF TypeOK, runvars
<1>3. PICK p : p = ret[t] /\ p \in Open
  BY <1>1, <1>2, Zenon DEF LocalInv, KbdIrq
<1>4. /\ p \in Points \ {"absent"} /\ p \notin SemaPoints /\ p \notin OwnHeld
      /\ pc[t] \notin OwnHeld \cup IdHeld
      /\ p \notin {"tick", "tick_unlock", "kbd_lock", "kbd_cpu", "kbd_unlock"}
  BY <1>3 DEF Points, KbdIrq, Open, OwnHeld, IdHeld, SemaPoints
<1>5. /\ pc'[t] = p /\ ret'[t] = "absent"
      /\ \A u \in All : u # t => pc'[u] = pc[u] /\ ret'[u] = ret[u]
  BY <1>2, <1>3
<1>6. \A u \in All, d \in Cpu : Holds(u, d)' <=> Holds(u, d)
  BY <1>2, <1>3, <1>4, <1>5, Zenon DEF Holds, IdHeld
<1>7. TypeOK'
  <2>1. /\ pc' \in [All -> Points] /\ ret' \in [All -> {"absent"} \cup Open]
    BY <1>2, <1>3, <1>4
  <2>2. intr' \in [Cpu -> BOOLEAN]
    BY <1>2
  <2> QED
    BY <1>1, <1>2, <2>1, <2>2, ZenonT(60) DEF TypeOK
<1>8. LocalInv(t)'
  <2>1. p \in {"lock_id", "unlock_id", "run"}
    BY <1>3 DEF Open
  <2> QED
    BY <1>1, <1>2, <1>3, <1>4, <1>5, <2>1, Zenon DEF LocalInv, KbdIrq
<1>9. Creating(t)' => Creating(t)
  BY <1>3, <1>5, Zenon DEF Creating, Open
<1>10. Creating(t)' => /\ t = Idle[0] /\ arg'[t] \in Thread
                       /\ pc[arg'[t]] = "absent" /\ target'[t] = Home[arg'[t]]
  BY <1>9, Zenon DEF SmpInv, CreateInv
<1>11. /\ intr'[c] <=> p \in Open
       /\ \A d \in Cpu : d # c => (intr'[d] <=> intr[d])
  BY <1>2, <1>3
<1>12. /\ threads' = threads /\ cur_thread' = cur_thread /\ cpu_id' = cpu_id
       /\ cnt' = cnt /\ \A d \in Cpu : cpu_spl[d] => cpu_spl'[d]
       /\ pc' = [pc EXCEPT ![cur_thread[c]] = p]
       /\ \A u \in All : u # cur_thread[c] =>
            /\ ret'[u] = ret[u] /\ target'[u] = target[u] /\ arg'[u] = arg[u]
            /\ call'[u] = call[u] /\ spl'[u] = spl[u]
  BY <1>2, <1>3, <1>5, Zenon
<1>13. p \in Points \ {"absent"} /\ LocalInv(cur_thread[c])'
  BY <1>4, <1>8, <1>12, Zenon
<1>14. Creating(cur_thread[c])' =>
         /\ cur_thread[c] = Idle[0] /\ arg'[cur_thread[c]] \in Thread
         /\ pc[arg'[cur_thread[c]]] = "absent"
         /\ target'[cur_thread[c]] = Home[arg'[cur_thread[c]]]
  BY <1>10, <1>12, Zenon
<1> QED
  BY <1>6, <1>7, <1>11, <1>12, <1>13, <1>14, ControlStep, Zenon
==============================================================================
