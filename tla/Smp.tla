--------------------------------- MODULE Smp ---------------------------------
(***************************************************************************)
(* The processors: interrupt flags, per-CPU spinlocks, and the hand-over   *)
(* of a CPU's lock from a thread that enters sched_next to the thread that *)
(* comes out of it (cpu.h, spinlock.h, sched.c, thread.c, isr.S).  A step  *)
(* is one CPU's progress from one lock operation to the next; every spin   *)
(* on a lock is a guard.  Semaphore and Keyboard add their callers.        *)
(***************************************************************************)
EXTENDS RunQueue

CONSTANTS
  NumCpus,      \* number of CPUs; CPU 0 boots
  Thread,       \* threads made by thread_create
  Idle,         \* Idle[c]: cpus[c].idle_thread; CPU 0's runs kernel_main
  Home,         \* Home[t]: the cpu_id that t is created on
  Boot,         \* the threads in the order kernel_main creates them
  Shows,        \* threads that run cpu_show_cmd (the kernel terminal)
  Sleeps,       \* threads that call sched_sleep
  MaxSleep      \* bound: largest argument of sched_sleep

Cpu == 0 .. NumCpus - 1
All == Thread \cup Range(Idle)

ASSUME SmpAssumption ==
  /\ NumCpus \in Nat \ {0}
  /\ Idle \in [Cpu -> All]
  /\ \A c, d \in Cpu : Idle[c] = Idle[d] => c = d
  /\ Thread \cap Range(Idle) = {}
  /\ Home \in [Thread -> Cpu]
  /\ Boot \in Seq(Thread)
  /\ Shows \subseteq Thread
  /\ Sleeps \subseteq Thread
  /\ MaxSleep \in Nat \ {0}
  /\ MaxSleep < SleepMod

VARIABLES
  lock,         \* cpus[c].lock.counter
  intr,         \* the interrupt flag of CPU c
  cpu_spl,      \* cpus[c].spl
  threads,      \* cpus[c].threads, a ring
  cur_thread,   \* cpus[c].cur_thread
  cpu_id, state, cnt, sleep_time, timer,        \* fields of thread_t
  pc,           \* where thread t is: its rip, live or in its saved context
  ret,          \* the point an interrupt handler on t's stack returns to
  target,       \* the CPU whose lock t takes by cpu_lock_id
  arg,          \* the thread that t creates or wakes
  call,         \* the function t is in
  spl           \* its local spl, what cpu_splhi returned

cpuvars == <<lock, intr, cpu_spl>>
runvars == <<threads, cur_thread, cpu_id, state, cnt, sleep_time, timer>>
ctlvars == <<pc, ret, target, arg, call, spl>>
vars == <<cpuvars, runvars, ctlvars>>

\* Points at which a thread that has the CPU holds the CPU's own lock ...
OwnHeld ==
  {"thread_start", "tick_unlock", "unlock_splx", "wait_yield", "wait_unlock"}
\* ... those of them at which a context that is switched out has stopped ...
Parked == OwnHeld \ {"wait_yield"}
\* ... and points at which t holds cpus[target[t]].lock, taken by cpu_lock_id.
IdHeld == {"unlock_id", "signal_unlock"}
\* Points at which interrupts are enabled.
Open == {"run", "lock_id", "unlock_id"}
\* Points with interrupts disabled and no CPU's lock held.
Masked == {"tick", "lock_own", "wait_cpu", "signal_cpu", "outer"}
\* Points in the handler of the keyboard interrupt, with interrupts disabled.
KbdIrq == {"kbd_lock", "kbd_cpu", "kbd_unlock"}
Calls == {"none", "thread_create", "sched_sleep", "cpu_show_cmd",
          "sema_wait", "sema_signal", "kbd_read"}
Points == {"absent"} \cup OwnHeld \cup IdHeld \cup Open \cup Masked \cup KbdIrq

Init ==
  /\ lock = [c \in Cpu |-> 0]
  /\ intr = [c \in Cpu |-> TRUE]
  /\ cpu_spl = [c \in Cpu |-> FALSE]
  /\ threads = [c \in Cpu |-> queue_push_back(<<>>, Idle[c])]
  /\ cur_thread = Idle
  /\ cpu_id = [t \in All |-> IF t \in Thread THEN Home[t]
                             ELSE CHOOSE c \in Cpu : Idle[c] = t]
  /\ state = [t \in All |-> RUNNING]
  /\ cnt = [t \in All |-> THREAD_DEFAULT_PRI]
  /\ sleep_time = [t \in All |-> 0]
  /\ timer = [t \in All |-> FALSE]
  /\ pc = [t \in All |-> IF t \in Thread THEN "absent" ELSE "run"]
  /\ ret = [t \in All |-> "absent"]
  /\ target = [t \in All |-> 0]
  /\ arg = [t \in All |-> t]
  /\ call = [t \in All |-> "none"]
  /\ spl = [t \in All |-> FALSE]

\* spinlock_lock succeeds on the lock of CPU c; spinlock_unlock.
Acquire(c) == lock[c] = 0 /\ lock' = [lock EXCEPT ![c] = 1]
Release(c) == lock' = [lock EXCEPT ![c] = 0]

\* The thread that has CPU c goes from one point to another.
Goto(c, from, to) ==
  /\ pc[cur_thread[c]] = from
  /\ pc' = [pc EXCEPT ![cur_thread[c]] = to]

\* A list of waiting threads: thread_list_push at its tail, and what
\* thread_list_pop leaves of it when it takes the head.
thread_list_push(list, t) == Append(list, t)
thread_list_pop(list) == Tail(list)

SwitchFromBadStale(c, st, cn) ==
  /\ state' = st
  /\ cnt' = sched_next_cnt(threads[c], st, cn)
  /\ cur_thread' = [cur_thread EXCEPT ![c] = sched_next(threads[c], state, cnt)]

SwitchFromBadCpu(c, st, cn) ==
  /\ state' = st
  /\ cnt' = sched_next_cnt(threads[c], st, cn)
  /\ cur_thread' = [cur_thread EXCEPT ![c] = sched_next(threads[0], st, cn)]

\* sched_next on CPU c, the fields st and cn already updated: whoever it
\* chooses has the CPU afterwards, at the point its context was saved.
SwitchFrom(c, st, cn) ==
  /\ state' = st
  /\ cnt' = sched_next_cnt(threads[c], st, cn)
  /\ cur_thread' = [cur_thread EXCEPT ![c] = sched_next(threads[c], st, cn)]
------------------------------------------------------------------------------
\* The timer interrupts CPU c; the gate clears the flag.
timer_irq(c) ==
  LET t == cur_thread[c]
  IN /\ intr[c]
     /\ intr' = [intr EXCEPT ![c] = FALSE]
     /\ pc' = [pc EXCEPT ![t] = "tick"]
     /\ ret' = [ret EXCEPT ![t] = pc[t]]
     /\ UNCHANGED <<lock, cpu_spl, runvars, target, arg, call, spl>>

\* timer_irq_handler: cpu_lock, then sched_tick.
timer_irq_handler(c) ==
  LET sleepers == TimedSleepers(threads[c], state, timer)
      left == countdown(sleep_time, sleepers)
      woken == {t \in sleepers : left[t] = 0}
      st == woken_state(state, woken)
      cn == charge(woken_cnt(cnt, woken), cur_thread[c])
  IN /\ Goto(c, "tick", "tick_unlock")
     /\ Acquire(c)
     /\ sleep_time' = left
     /\ timer' = [t \in All |-> timer[t] /\ t \notin woken]
     /\ IF cn[cur_thread[c]] > 0
        THEN state' = st /\ cnt' = cn /\ UNCHANGED cur_thread
        ELSE SwitchFrom(c, st, cn)
     /\ UNCHANGED <<intr, cpu_spl, threads, cpu_id, ret, target, arg, call, spl>>

\* The handler's cpu_unlock, in whichever thread came out of sched_tick, and
\* its iretq.
timer_irq_return(c) ==
  LET t == cur_thread[c]
  IN /\ Goto(c, "tick_unlock", ret[t])
     /\ ret' = [ret EXCEPT ![t] = "absent"]
     /\ Release(c)
     /\ intr' = [intr EXCEPT ![c] = TRUE]
     /\ UNCHANGED <<cpu_spl, runvars, target, arg, call, spl>>

thread_startBadLock(c) ==
  /\ Goto(c, "thread_start", "run")
  /\ intr' = [intr EXCEPT ![c] = TRUE]
  /\ UNCHANGED <<lock, cpu_spl, runvars, ret, target, arg, call, spl>>

\* The first context of a thread: thread_start, then iretq to its entry point.
thread_start(c) ==
  /\ Goto(c, "thread_start", "run")
  /\ Release(c)
  /\ intr' = [intr EXCEPT ![c] = TRUE]
  /\ UNCHANGED <<cpu_spl, runvars, ret, target, arg, call, spl>>
------------------------------------------------------------------------------
\* cpu_splhi by the thread on CPU c, and cpu_splx(s).
cpu_splhi(c) ==
  /\ spl' = [spl EXCEPT ![cur_thread[c]] = intr[c]]
  /\ intr' = [intr EXCEPT ![c] = FALSE]

cpu_splx(c, s) == intr' = [intr EXCEPT ![c] = @ \/ s]

\* The thread on CPU c is in no call, and may make one.
Free(c) == pc[cur_thread[c]] = "run" /\ call[cur_thread[c]] = "none"

cpu_lock_smpBadSplhi(c, fn, d) ==
  LET t == cur_thread[c]
  IN /\ target' = [target EXCEPT ![t] = d]
     /\ call' = [call EXCEPT ![t] = fn]
     /\ pc' = [pc EXCEPT ![t] = "lock_id"]
     /\ UNCHANGED <<intr, spl>>
     /\ UNCHANGED <<lock, cpu_spl, runvars, ret>>

\* It goes for the lock of CPU d: cpu_lock_smp, and the same choice between
\* cpu_lock_splhi and cpu_lock_id in thread_create.
cpu_lock_smp(c, fn, d) ==
  LET t == cur_thread[c]
  IN /\ target' = [target EXCEPT ![t] = d]
     /\ call' = [call EXCEPT ![t] = fn]
     /\ \/ /\ c = d
           /\ cpu_splhi(c)
           /\ pc' = [pc EXCEPT ![t] = "lock_own"]
        \/ /\ c # d
           /\ pc' = [pc EXCEPT ![t] = "lock_id"]
           /\ UNCHANGED <<intr, spl>>
     /\ UNCHANGED <<lock, cpu_spl, runvars, ret>>

\* It has the lock, inside fn.
Locked(c, fn) ==
  LET t == cur_thread[c]
  IN /\ call[t] = fn
     /\ pc[t] \in {"lock_own", "lock_id"}
     /\ Acquire(target[t])
     /\ cpu_spl' = [cpu_spl EXCEPT ![c] = IF pc[t] = "lock_own" THEN spl[t]
                                                                ELSE @]

Unlock(t) == IF pc[t] = "lock_own" THEN "unlock_splx" ELSE "unlock_id"

\* cpu_unlock_splx or cpu_unlock, and the end of the call, unless it is the
\* loop of cpu_show_cmd and there are more CPUs.
cpu_unlock_smp(c) ==
  LET t == cur_thread[c]
  IN /\ \/ /\ Goto(c, "unlock_splx", "run")
           /\ Release(c)
           /\ cpu_splx(c, cpu_spl[c])
        \/ /\ Goto(c, "unlock_id", "run")
           /\ Release(target[t])
           /\ UNCHANGED intr
     /\ call' = [call EXCEPT ![t] =
                   IF @ = "cpu_show_cmd" /\ target[t] + 1 < NumCpus
                   THEN @ ELSE "none"]
     /\ UNCHANGED <<cpu_spl, runvars, ret, target, arg, spl>>
------------------------------------------------------------------------------
\* kernel_main, on CPU 0's idle thread, creates the threads of Boot in order.
Pending == {i \in DOMAIN Boot : pc[Boot[i]] = "absent"}
NextBootBadLast == Boot[CHOOSE i \in Pending : \A j \in Pending : i >= j]

NextBoot == Boot[CHOOSE i \in Pending : \A j \in Pending : i <= j]

thread_create(c) ==
  /\ cur_thread[c] = Idle[0]
  /\ Free(c)
  /\ Pending # {}
  /\ arg' = [arg EXCEPT ![Idle[0]] = NextBoot]
  /\ cpu_lock_smp(c, "thread_create", Home[NextBoot])

thread_create_push(c) ==
  LET t == cur_thread[c]
      new == arg[t]
  IN /\ Locked(c, "thread_create")
     /\ threads' = [threads EXCEPT ![target[t]] = queue_push_back(@, new)]
     /\ cpu_id' = [cpu_id EXCEPT ![new] = target[t]]
     /\ state' = [state EXCEPT ![new] = RUNNING]
     /\ cnt' = [cnt EXCEPT ![new] = THREAD_DEFAULT_PRI]
     /\ sleep_time' = [sleep_time EXCEPT ![new] = 0]
     /\ timer' = [timer EXCEPT ![new] = FALSE]
     /\ pc' = [pc EXCEPT ![t] = Unlock(t), ![new] = "thread_start"]
     /\ UNCHANGED <<intr, cur_thread, ret, target, arg, call, spl>>

sched_sleep(c) ==
  /\ cur_thread[c] \in Sleeps
  /\ Free(c)
  /\ cpu_lock_smp(c, "sched_sleep", c)
  /\ UNCHANGED arg

sched_sleep_next(c, ms) ==
  LET t == cur_thread[c]
  IN /\ Locked(c, "sched_sleep")
     /\ IF t = Head(threads[c])
        THEN UNCHANGED <<sleep_time, timer, state, cnt, cur_thread>>
        ELSE /\ sleep_time' = [sleep_time EXCEPT ![t] = ms]
             /\ timer' = [timer EXCEPT ![t] = TRUE]
             /\ SwitchFrom(c, [state EXCEPT ![t] = SLEEPING], cnt)
     /\ pc' = [pc EXCEPT ![t] = Unlock(t)]
     /\ UNCHANGED <<intr, threads, cpu_id, ret, target, arg, call, spl>>

\* cpu_show_cmd walks the ring of each CPU in turn.
cpu_show_cmd(c) ==
  LET t == cur_thread[c]
  IN /\ t \in Shows
     /\ \/ Free(c) /\ cpu_lock_smp(c, "cpu_show_cmd", 0)
        \/ /\ pc[t] = "run"
           /\ call[t] = "cpu_show_cmd"
           /\ cpu_lock_smp(c, "cpu_show_cmd", target[t] + 1)
     /\ UNCHANGED arg

cpu_show_ring(c) ==
  LET t == cur_thread[c]
  IN /\ Locked(c, "cpu_show_cmd")
     /\ pc' = [pc EXCEPT ![t] = Unlock(t)]
     /\ UNCHANGED <<intr, runvars, ret, target, arg, call, spl>>
------------------------------------------------------------------------------
\* The steps by which a thread goes on with the call it is in.
InCall(c) ==
  \/ thread_create_push(c)
  \/ \E ms \in 1..MaxSleep : sched_sleep_next(c, ms)
  \/ cpu_show_ring(c)
  \/ cpu_unlock_smp(c)

\* The steps by which a CPU gets through the timer interrupt and the scheduler.
InTimer(c) ==
  \/ timer_irq_handler(c)
  \/ timer_irq_return(c)
  \/ thread_start(c)

SmpNext(c) ==
  \/ timer_irq(c)
  \/ InTimer(c)
  \/ thread_create(c)
  \/ sched_sleep(c)
  \/ cpu_show_cmd(c)
  \/ InCall(c)

Next == \E c \in Cpu : SmpNext(c)

Spec == Init /\ [][Next]_vars

\* Timers fire for ever (an interrupt stays pending while interrupts are
\* disabled), and far enough apart that each thread they interrupt goes on when
\* it has the CPU; a spinning CPU gets a lock that is free again and again (the
\* calls that contend for it come at the pace of keys and boot steps).  Whether
\* a thread makes a call at all is its own affair.
FairSpec ==
  /\ Spec
  /\ \A c \in Cpu : SF_vars(timer_irq(c)) /\ SF_vars(InTimer(c))
  /\ \A t \in All : SF_vars(\E c \in Cpu : cur_thread[c] = t /\ InCall(c))
------------------------------------------------------------------------------
TypeOK ==
  /\ lock \in [Cpu -> {0, 1}]
  /\ intr \in [Cpu -> BOOLEAN]
  /\ cpu_spl \in [Cpu -> BOOLEAN]
  /\ threads \in [Cpu -> Seq(All)]
  /\ cur_thread \in [Cpu -> All]
  /\ cpu_id \in [All -> Cpu]
  /\ state \in [All -> {RUNNING, SLEEPING}]
  /\ cnt \in [All -> Nat]
  /\ sleep_time \in [All -> 0 .. SleepMod - 1]
  /\ timer \in [All -> BOOLEAN]
  /\ pc \in [All -> Points]
  /\ ret \in [All -> {"absent"} \cup Open]
  /\ target \in [All -> Cpu]
  /\ arg \in [All -> All]
  /\ call \in [All -> Calls]
  /\ spl \in [All -> BOOLEAN]

\* t holds the lock of CPU d: as the thread that has CPU d, or by cpu_lock_id,
\* perhaps under a timer interrupt that has switched away from it since.
Holds(t, d) ==
  \/ cur_thread[d] = t /\ pc[t] \in OwnHeld
  \/ target[t] = d /\ (pc[t] \in IdHeld \/ ret[t] \in IdHeld)

\* The lock of a CPU is taken exactly when some thread is at a point where it
\* must release it, and never are two: the hand-over in context_switch neither
\* loses nor doubles the lock, whichever of thread_start, timer_irq_handler,
\* sched_sleep or a wait the next thread comes out of.
OneHolder ==
  \A d \in Cpu :
    /\ lock[d] = 1 <=> \E t \in All : Holds(t, d)
    /\ \A t, u \in All : Holds(t, d) /\ Holds(u, d) => t = u

\* A thread that does not have its CPU is stopped at a point that expects to
\* hold the CPU's lock: nobody is switched out anywhere else, and only a
\* thread on the ring of CPU d ever has CPU d.
SwitchedOutParked ==
  /\ \A t \in All : pc[t] # "absent" /\ cur_thread[cpu_id[t]] # t
                       => pc[t] \in Parked
  /\ \A d \in Cpu : cpu_id[cur_thread[d]] = d /\ pc[cur_thread[d]] # "absent"

\* A CPU holds its own lock only with interrupts disabled (otherwise its timer
\* handler would spin for ever on it), and the interrupts that cpu_splhi
\* disabled are enabled again when the call ends, although cpu->spl belongs to
\* the CPU and may have been written for another thread.
IntrDiscipline ==
  \A d \in Cpu :
    /\ intr[d] <=> pc[cur_thread[d]] \in Open
    /\ pc[cur_thread[d]] = "unlock_splx" => cpu_spl[d]
    /\ \A t \in All : Holds(t, d) /\ cpu_id[t] = d /\ cur_thread[d] = t
                        => ~intr[d]

\* Whatever is on a CPU's ring, and no thread twice.
RingsDisjoint ==
  /\ \A d \in Cpu :
       /\ threads[d] # <<>>
       /\ Head(threads[d]) = Idle[d]
       /\ \A i, j \in DOMAIN threads[d] : threads[d][i] = threads[d][j] => i = j
  /\ \A t \in All, d \in Cpu :
       t \in Range(threads[d]) <=> pc[t] # "absent" /\ cpu_id[t] = d

\* A lock that is taken is released, even when its holder, with interrupts
\* enabled in a section on another CPU's ring, is preempted.  kernel_main is an
\* idle thread, which runnable threads of CPU 0 may keep off it for ever, so
\* this is asked of the runs in which kernel_main is not kept out.
LocksReleased ==
  []<>(cur_thread[0] = Idle[0]) => \A d \in Cpu : lock[d] = 1 ~> lock[d] = 0
=============================================================================
