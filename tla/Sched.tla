-------------------------------- MODULE Sched --------------------------------
(***************************************************************************)
(* One CPU's scheduler (sched.c, and the parts of thread.c, semaphore.c    *)
(* and cond.c that change thread states).  Every action is one section     *)
(* that runs with cpu->lock held, from its acquisition to the release by   *)
(* the thread that comes out of sched_next; module Smp models how the lock *)
(* makes these sections atomic.                                            *)
(***************************************************************************)
EXTENDS RunQueue

CONSTANTS
  Thread,       \* threads that thread_create may make on this CPU
  Idle,         \* cpu->idle_thread
  MaxSleep      \* bound: largest argument of sched_sleep

ASSUME SchedAssumption ==
  /\ Idle \notin Thread
  /\ MaxSleep \in Nat \ {0}
  /\ MaxSleep < SleepMod

VARIABLES
  threads,      \* cpu->threads, a ring
  cur_thread,   \* cpu->cur_thread
  state, cnt, sleep_time,
  timer,        \* THREAD_FLAG_SLEEP_TIMER is set
  ctx           \* the call a thread's saved context will return from

vars == <<threads, cur_thread, state, cnt, sleep_time, timer, ctx>>

All == Thread \cup {Idle}
Contexts == {"none", "sched_yield", "sched_sleep", "wait_list"}

Init ==
  /\ threads = queue_push_back(<<>>, Idle)
  /\ cur_thread = Idle
  /\ state = [t \in All |-> RUNNING]
  /\ cnt = [t \in All |-> THREAD_DEFAULT_PRI]
  /\ sleep_time = [t \in All |-> 0]
  /\ timer = [t \in All |-> FALSE]
  /\ ctx = [t \in All |-> "none"]

\* sched_next with the fields st and cn already updated, and the return of the
\* chosen thread from the call its context was saved in; the thread that
\* called it is in call.
SwitchFrom(call, st, cn) ==
  LET next == sched_next(threads, st, cn)
  IN /\ state' = st
     /\ cnt' = sched_next_cnt(threads, st, cn)
     /\ cur_thread' = next
     /\ ctx' = [ctx EXCEPT ![cur_thread] = call, ![next] = "none"]

\* timer_irq_handler: sched_tick on this CPU.
timer_irq_handler ==
  LET sleepers == TimedSleepers(threads, state, timer)
      left == countdown(sleep_time, sleepers)
      woken == {t \in sleepers : left[t] = 0}
      st == woken_state(state, woken)
      cn == charge(woken_cnt(cnt, woken), cur_thread)
  IN /\ sleep_time' = left
     /\ timer' = [t \in All |-> timer[t] /\ t \notin woken]
     /\ IF cn[cur_thread] > 0
        THEN /\ state' = st
             /\ cnt' = cn
             /\ UNCHANGED <<cur_thread, ctx>>
        ELSE SwitchFrom("none", st, cn)
     /\ UNCHANGED threads

\* sched_yield_locked, called by the current thread from call.
sched_yield_locked(call) ==
  /\ SwitchFrom(call, [state EXCEPT ![cur_thread] = SLEEPING], cnt)
  /\ UNCHANGED <<threads, sleep_time, timer>>

\* No caller of the three blocking calls runs on an idle thread.
sched_yield == cur_thread # Idle /\ sched_yield_locked("sched_yield")

\* sema_wait without a token, or cond_wait: the caller is on a wait list.
block == cur_thread # Idle /\ sched_yield_locked("wait_list")

sched_sleepBadFlag(ms) ==
  /\ cur_thread # Head(threads)
  /\ sleep_time' = [sleep_time EXCEPT ![cur_thread] = ms]
  /\ SwitchFrom("sched_sleep", [state EXCEPT ![cur_thread] = SLEEPING], cnt)
  /\ UNCHANGED <<threads, timer>>

\* sched_sleep(ms); on the idle thread it returns at once.
sched_sleep(ms) ==
  /\ cur_thread # Head(threads)
  /\ sleep_time' = [sleep_time EXCEPT ![cur_thread] = ms]
  /\ timer' = [timer EXCEPT ![cur_thread] = TRUE]
  /\ SwitchFrom("sched_sleep", [state EXCEPT ![cur_thread] = SLEEPING], cnt)
  /\ UNCHANGED threads

\* thread_wakeup of a thread that called sched_yield, and the wakeup in
\* sema_signal and cond_signal of a thread taken off a wait list.
wakeup(t) ==
  /\ t # cur_thread
  /\ state[t] = SLEEPING
  /\ ctx[t] \in {"sched_yield", "wait_list"}
  /\ state' = [state EXCEPT ![t] = RUNNING]
  /\ UNCHANGED <<threads, cur_thread, cnt, sleep_time, timer, ctx>>

\* thread_create(..., cpu_id of this CPU).
thread_create(t) ==
  /\ t \notin Range(threads)
  /\ threads' = queue_push_back(threads, t)
  /\ state' = [state EXCEPT ![t] = RUNNING]
  /\ cnt' = [cnt EXCEPT ![t] = THREAD_DEFAULT_PRI]
  /\ sleep_time' = [sleep_time EXCEPT ![t] = 0]
  /\ timer' = [timer EXCEPT ![t] = FALSE]
  /\ UNCHANGED <<cur_thread, ctx>>

Next ==
  \/ timer_irq_handler
  \/ sched_yield
  \/ block
  \/ \E ms \in 1..MaxSleep : sched_sleep(ms)
  \/ \E t \in Thread : wakeup(t)
  \/ \E t \in Thread : thread_create(t)

Spec == Init /\ [][Next]_vars

\* The timer of every CPU that runs is programmed to fire for ever
\* (pit.c, intr_irq_enable(IRQ_TIMER, ...)).
FairSpec == Spec /\ WF_vars(timer_irq_handler)
------------------------------------------------------------------------------
TypeOK ==
  /\ threads \in Seq(All)
  /\ cur_thread \in All
  /\ state \in [All -> {RUNNING, SLEEPING}]
  /\ cnt \in [All -> Nat]
  /\ sleep_time \in [All -> 0 .. SleepMod - 1]
  /\ timer \in [All -> BOOLEAN]
  /\ ctx \in [All -> Contexts]

\* The ring always begins with the idle thread, which is always runnable, and
\* holds no thread twice (docs/misc.md: "idle thread always first on the list,
\* always runnable"); the code keeps it so by pushing idle first and refusing
\* to put the head of the ring to sleep.
IdleFirst ==
  /\ threads # <<>>
  /\ Head(threads) = Idle
  /\ state[Idle] = RUNNING
  /\ \A i, j \in DOMAIN threads : threads[i] = threads[j] => i = j

\* The CPU never comes out of the scheduler on a thread that sleeps or that
\* is not on its ring, although sched_find falls back to the first thread of
\* its scan whatever that thread's state.
CurRunnable == cur_thread \in Range(threads) /\ state[cur_thread] = RUNNING

\* The credit a thread collects while it sleeps through replenishments stays
\* below twice its priority, and the idle thread's only goes down, so that cnt
\* never overflows and no sleeper can come back with an unbounded lead.
CntBound ==
  /\ \A t \in Thread : cnt[t] <= 2 * THREAD_DEFAULT_PRI - 1
  /\ cnt[Idle] <= THREAD_DEFAULT_PRI

\* THREAD_FLAG_SLEEP_TIMER is set exactly on the threads asleep in sched_sleep,
\* with a sleep_time that sched_check_sleeping can still count down: no thread
\* carries an old flag into a wait, and no sleep_time wraps round.
SleepTimerExact ==
  \A t \in All :
    /\ timer[t] <=> (state[t] = SLEEPING /\ ctx[t] = "sched_sleep")
    /\ timer[t] => sleep_time[t] \in 1..MaxSleep

\* A thread that blocked on a semaphore or condition, or yielded, is made
\* RUNNING by nothing but a wakeup addressed to it: no tick ends its wait.
OnlyWakeupsEndWaits ==
  [][\A t \in All :
        /\ state[t] = SLEEPING
        /\ state'[t] = RUNNING
        /\ ctx[t] # "sched_sleep"
        => wakeup(t)]_vars

\* A thread that stays RUNNING gets the CPU again and again, unless other
\* threads for ever re-enter sched_sleep (sched_check_sleeping gives each
\* thread it wakes a full count, ahead of one that waits with less).
NoStarvation ==
  \A t \in Thread :
    \/ []<>(cur_thread = t)
    \/ []<>(state[t] = SLEEPING)
    \/ [](t \notin Range(threads))
    \/ []<>(\E u \in Thread : timer[u])

\* A thread that calls sched_yield gets the CPU back (docs/misc.md: "yield() {
\* lock(); schedule(); unlock(); }", a schedule that leaves the caller runnable).
YieldReturns ==
  \A t \in Thread : ctx[t] = "sched_yield" ~> ctx[t] # "sched_yield"
------------------------------------------------------------------------------
\* The ring as a set, and the threads on it that are RUNNING.
D == INSTANCE Dispatch WITH
       members <- Range(threads),
       runnable <- {t \in Range(threads) : state[t] = RUNNING},
       running <- cur_thread

\* Every step of the scheduler is a step the abstract dispatcher allows: the
\* CPU is only ever given to a runnable thread, and a thread leaves the
\* runnable ones only through a blocking call of its own.
ImplementsDispatch == D!DSpec
=============================================================================
