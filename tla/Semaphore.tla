------------------------------ MODULE Semaphore ------------------------------
(***************************************************************************)
(* semaphore.c on the processors of Smp: sema_wait and sema_signal, step   *)
(* by step between their lock operations.  sema_wait goes to sleep holding *)
(* the CPU's lock, and sema_signal wakes a thread under the lock of that   *)
(* thread's CPU; both hold s->lock around it.                              *)
(***************************************************************************)
EXTENDS Smp

CONSTANTS
  Waiter,       \* threads that call sema_wait
  Signaller,    \* threads that call sema_signal
  InitCount,    \* the count given to sema_init
  MaxCount      \* bound on s->count

ASSUME SemaAssumption ==
  /\ Waiter \subseteq Thread
  /\ Signaller \subseteq All
  /\ InitCount \in Nat
  /\ MaxCount \in Nat

VARIABLES
  slock,        \* s->lock.counter
  count,        \* s->count
  waiters       \* s->threads

semavars == <<slock, count, waiters>>
kvars == <<vars, semavars>>

sema_init == slock = 0 /\ count = InitCount /\ waiters = <<>>

SemaInit == Init /\ sema_init

\* The thread on CPU c enters fn: cpu_splhi, and it spins for s->lock.
Enter(c, fn) ==
  /\ Free(c)
  /\ cpu_splhi(c)
  /\ pc' = [pc EXCEPT ![cur_thread[c]] = "outer"]
  /\ call' = [call EXCEPT ![cur_thread[c]] = fn]
  /\ UNCHANGED <<lock, cpu_spl, runvars, ret, target, arg, semavars>>

sema_wait(c) == cur_thread[c] \in Waiter /\ Enter(c, "sema_wait")

sema_signal(c) ==
  /\ cur_thread[c] \in Signaller
  /\ count < MaxCount
  /\ Enter(c, "sema_signal")

\* It has s->lock, at the test in fn.
Test(c, fn) ==
  /\ pc[cur_thread[c]] = "outer"
  /\ call[cur_thread[c]] = fn
  /\ slock = 0

\* The end of a call: cpu_splx(spl).
Exit(c) ==
  /\ cpu_splx(c, spl[cur_thread[c]])
  /\ pc' = [pc EXCEPT ![cur_thread[c]] = "run"]
  /\ call' = [call EXCEPT ![cur_thread[c]] = "none"]

\* sema_wait with a token: count--, and out again.
sema_wait_take(c) ==
  /\ Test(c, "sema_wait")
  /\ count > 0
  /\ count' = count - 1
  /\ Exit(c)
  /\ UNCHANGED <<lock, cpu_spl, runvars, ret, target, arg, spl, slock, waiters>>

\* sema_wait without one: on to cpu_lock, s->lock held.
sema_wait_lock(c) ==
  /\ Test(c, "sema_wait")
  /\ count <= 0
  /\ Goto(c, "outer", "wait_cpu")
  /\ slock' = 1
  /\ UNCHANGED <<cpuvars, runvars, ret, target, arg, call, spl, count, waiters>>

sema_wait_pushBadLock(c) ==
  /\ Goto(c, "wait_cpu", "wait_yield")
  /\ waiters' = thread_list_push(waiters, cur_thread[c])
  /\ slock' = 0
  /\ UNCHANGED <<cpuvars, runvars, ret, target, arg, call, spl, count>>

\* cpu_lock, thread_list_push, and s->lock is free again.
sema_wait_push(c) ==
  /\ Goto(c, "wait_cpu", "wait_yield")
  /\ Acquire(c)
  /\ waiters' = thread_list_push(waiters, cur_thread[c])
  /\ slock' = 0
  /\ UNCHANGED <<intr, cpu_spl, runvars, ret, target, arg, call, spl, count>>

sema_wait_yieldBadState(c) ==
  /\ Goto(c, "wait_yield", "wait_unlock")
  /\ SwitchFrom(c, state, cnt)
  /\ UNCHANGED <<cpuvars, threads, cpu_id, sleep_time, timer, ret, target, arg,
                 call, spl, semavars>>

\* sched_yield_locked.
sema_wait_yield(c) ==
  /\ Goto(c, "wait_yield", "wait_unlock")
  /\ SwitchFrom(c, [state EXCEPT ![cur_thread[c]] = SLEEPING], cnt)
  /\ UNCHANGED <<cpuvars, threads, cpu_id, sleep_time, timer, ret, target, arg,
                 call, spl, semavars>>

\* The end of sema_wait in the thread that was woken: cpu_unlock, cpu_splx.
sema_wait_return(c) ==
  /\ pc[cur_thread[c]] = "wait_unlock"
  /\ Release(c)
  /\ Exit(c)
  /\ UNCHANGED <<cpu_spl, runvars, ret, target, arg, spl, semavars>>

\* sema_signal with nobody waiting: count++, and out again.
sema_signal_post(c) ==
  /\ Test(c, "sema_signal")
  /\ waiters = <<>>
  /\ count' = count + 1
  /\ Exit(c)
  /\ UNCHANGED <<lock, cpu_spl, runvars, ret, target, arg, spl, slock, waiters>>

\* sema_signal with a waiter: thread_list_pop, then it spins in cpu_lock_id.
sema_signal_pop(c) ==
  LET t == cur_thread[c]
      w == Head(waiters)
  IN /\ Test(c, "sema_signal")
     /\ waiters # <<>>
     /\ waiters' = thread_list_pop(waiters)
     /\ slock' = 1
     /\ arg' = [arg EXCEPT ![t] = w]
     /\ target' = [target EXCEPT ![t] = cpu_id[w]]
     /\ Goto(c, "outer", "signal_cpu")
     /\ UNCHANGED <<cpuvars, runvars, ret, call, spl, count>>

sema_signal_wakeBadState(c) ==
  LET t == cur_thread[c]
  IN /\ Goto(c, "signal_cpu", "signal_unlock")
     /\ Acquire(target[t])
     /\ UNCHANGED <<intr, cpu_spl, runvars, ret, target, arg, call, spl, semavars>>

\* t->state = THREAD_STATE_RUNNING under the lock of t's CPU.
sema_signal_wake(c) ==
  LET t == cur_thread[c]
  IN /\ Goto(c, "signal_cpu", "signal_unlock")
     /\ Acquire(target[t])
     /\ state' = [state EXCEPT ![arg[t]] = RUNNING]
     /\ UNCHANGED <<intr, cpu_spl, threads, cur_thread, cpu_id, cnt, sleep_time,
                    timer, ret, target, arg, call, spl, semavars>>

\* cpu_unlock, spinlock_unlock, cpu_splx.
sema_signal_return(c) ==
  /\ pc[cur_thread[c]] = "signal_unlock"
  /\ Release(target[cur_thread[c]])
  /\ slock' = 0
  /\ Exit(c)
  /\ UNCHANGED <<cpu_spl, runvars, ret, target, arg, spl, count, waiters>>
------------------------------------------------------------------------------
InSema(c) ==
  \/ sema_wait_take(c)
  \/ sema_wait_lock(c)
  \/ sema_wait_push(c)
  \/ sema_wait_yield(c)
  \/ sema_wait_return(c)
  \/ sema_signal_post(c)
  \/ sema_signal_pop(c)
  \/ sema_signal_wake(c)
  \/ sema_signal_return(c)

SemaNext ==
  \E c \in Cpu :
    \/ SmpNext(c) /\ UNCHANGED semavars
    \/ sema_wait(c)
    \/ sema_signal(c)
    \/ InSema(c)

SemaSpec == SemaInit /\ [][SemaNext]_kvars

\* The fairness of Smp (a timer's firing and its handling taken together: on one
\* CPU they alternate); a thread inside the semaphore goes on, too.
SemaFairSpec ==
  /\ SemaSpec
  /\ \A c \in Cpu : SF_kvars((timer_irq(c) \/ InTimer(c)) /\ UNCHANGED semavars)
  /\ \A t \in Thread \cup Signaller \cup {Idle[0]} :
       SF_kvars(LET c == cpu_id[t]
                IN /\ cur_thread[c] = t
                   /\ \/ InCall(c) /\ UNCHANGED semavars
                      \/ InSema(c))
------------------------------------------------------------------------------
\* Somebody has taken t off the list and is about to wake it.
Popped(t) == \E u \in All : pc[u] = "signal_cpu" /\ arg[u] = t

\* No wakeup is lost: a thread asleep in sema_wait is on the list, where a
\* signal will find it, or its signal is on the way.
NoLostWakeup ==
  \A t \in Waiter :
    pc[t] = "wait_unlock" /\ state[t] = SLEEPING
       => t \in Range(waiters) \/ Popped(t)

Granted ==
  {t \in Waiter : pc[t] \in {"wait_yield", "wait_unlock"}
                  /\ t \notin Range(waiters)}

A == INSTANCE CountingSema WITH
       Client <- Waiter, tokens <- count, queue <- waiters, granted <- Granted

\* sema_wait and sema_signal are a first-in first-out counting semaphore: no
\* token is lost or made up, and no thread returns from a wait without one.
ImplementsCountingSema == A!SSpec

\* A thread that has been handed a token returns from sema_wait, unless threads
\* of its CPU for ever re-enter sched_sleep: each comes back from it with a full
\* count, ahead of the woken thread, whose count sema_signal leaves as it was.
GrantedReturns ==
  \A t \in Waiter :
    \/ t \in Granted ~> t \notin Granted
    \/ []<>(\E u \in Thread : cpu_id[u] = cpu_id[t] /\ timer[u])
=============================================================================
