----------------------------- MODULE KernelProofs -----------------------------
(* What is proved of two parts of the kernel proper: the scheduler of one CPU   *)
(* for any number of threads, and the console for any number of CPUs, levels of *)
(* interrupts and calls and any size of the queue and the buffer.               *)
EXTENDS Sched, Console, RunQueueProofs, FiniteSetTheorems

------------------------------------------------------------------------------
(* The scheduler of one CPU.                                                    *)
\* Only a thread that is not on the CPU is inside a blocking call, a sleeping
\* thread always is, and a thread that was not created yet is in none.
CtxInv ==
  /\ ctx[cur_thread] = "none"
  /\ \A t \in All : state[t] = SLEEPING => ctx[t] # "none" /\ t \in Range(threads)
  /\ \A t \in All : ctx[t] # "none" => t \in Range(threads)

\* The inductive invariant of the scheduler.
SchedInv ==
  TypeOK /\ IdleFirst /\ CurRunnable /\ CntBound /\ SleepTimerExact /\ CtxInv

LEMMA SchedInvInit == Init => SchedInv
<1> SUFFICES ASSUME Init PROVE SchedInv
  OBVIOUS
<1> USE PriAssumption, SchedAssumption, WidthAssumption DEF Init
<1>1. Idle \in All
  BY DEF All
<1>2. <<>> \in Seq(All) /\ Len(<<>>) = 0
  BY SeqFacts
<1>3. /\ threads \in Seq(All)
      /\ threads # <<>>
      /\ Len(threads) = 1
      /\ threads[1] = Idle
  <2>1. threads = <<Idle>>
    BY DEF queue_push_back
  <2>2. <<Idle>> \in Seq(All) /\ Len(<<Idle>>) = 1
    BY <1>1
  <2>3. <<Idle>>[1] = Idle /\ <<Idle>> # <<>>
    OBVIOUS
  <2> QED
    BY <2>1, <2>2, <2>3, Zenon
<1>4. DOMAIN threads = {1} /\ Head(threads) = Idle
  BY <1>3, SeqFacts, SeqTail
<1>5. Range(threads) = {Idle}
  BY <1>3, <1>4 DEF Range
<1>6. TypeOK
  BY <1>1, <1>3 DEF TypeOK, Contexts
<1>7. IdleFirst
  BY <1>1, <1>3, <1>4 DEF IdleFirst
<1>8. CurRunnable
  BY <1>1, <1>5 DEF CurRunnable
<1>9. CntBound
  BY DEF CntBound, All
<1>10. SleepTimerExact
  BY DEF SleepTimerExact, RUNNING, SLEEPING
<1>11. CtxInv
  BY <1>1 DEF CtxInv, RUNNING, SLEEPING
<1> QED
  BY <1>6, <1>7, <1>8, <1>9, <1>10, <1>11 DEF SchedInv

\* What a step that calls sched_next establishes, whatever call it comes from.
LEMMA SwitchFromCorrect ==
  ASSUME SchedInv,
         NEW call \in Contexts,
         NEW st \in [All -> {RUNNING, SLEEPING}], st[Idle] = RUNNING,
         NEW cn \in [All -> Nat],
         \A t \in Thread : cn[t] <= 2 * THREAD_DEFAULT_PRI - 1,
         cn[Idle] <= THREAD_DEFAULT_PRI,
         SwitchFrom(call, st, cn)
  PROVE  /\ state' = st
         /\ cnt' \in [All -> Nat]
         /\ CntBound'
         /\ cur_thread' \in Range(threads) /\ cur_thread' \in All
         /\ st[cur_thread'] = RUNNING
         /\ ctx' \in [All -> Contexts]
         /\ ctx'[cur_thread'] = "none"
         /\ \A t \in All : t # cur_thread' =>
               ctx'[t] = IF t = cur_thread THEN call ELSE ctx[t]
<1> USE DEF SchedInv
<1>1. /\ threads \in Seq(All) /\ threads # <<>>
      /\ \A i, j \in DOMAIN threads : threads[i] = threads[j] => i = j
      /\ Head(threads) = Idle /\ Idle \in All
  BY DEF TypeOK, IdleFirst, All
<1>2. Idle \in Range(threads) /\ Range(threads) \subseteq All
  <2>1. 1 \in DOMAIN threads /\ threads[1] = Idle
    BY <1>1, SeqFacts, SeqTail
  <2> QED
    BY <1>1, <2>1, SeqFacts DEF Range
<1>3. \A t \in All : cn[t] <= 2 * THREAD_DEFAULT_PRI - 1
  BY PriAssumption DEF All
<1>4. /\ sched_next(threads, st, cn) \in Range(threads)
      /\ st[sched_next(threads, st, cn)] = RUNNING
      /\ sched_next_cnt(threads, st, cn) \in [All -> Nat]
      /\ sched_next_cnt(threads, st, cn)[Idle] = cn[Idle]
      /\ \A t \in All : sched_next_cnt(threads, st, cn)[t]
                            <= 2 * THREAD_DEFAULT_PRI - 1
  <2>1. /\ sched_next(threads, st, cn) \in Range(threads)
        /\ (\E t \in Range(threads) : st[t] = RUNNING) =>
              st[sched_next(threads, st, cn)] = RUNNING
        /\ sched_next_cnt(threads, st, cn) \in [All -> Nat]
        /\ sched_next_cnt(threads, st, cn)[Head(threads)] = cn[Head(threads)]
        /\ \A t \in All : sched_next_cnt(threads, st, cn)[t]
                              <= 2 * THREAD_DEFAULT_PRI - 1
    BY <1>1, <1>3, SchedNextCorrect, ZenonT(60)
  <2> QED
    BY <1>1, <1>2, <2>1, ZenonT(60)
<1>5. /\ state' = st
      /\ cnt' = sched_next_cnt(threads, st, cn)
      /\ cur_thread' = sched_next(threads, st, cn)
      /\ ctx' = [ctx EXCEPT ![cur_thread] = call, ![cur_thread'] = "none"]
  BY DEF SwitchFrom
<1>6. CntBound'
  BY <1>4, <1>5 DEF CntBound, All
<1>7. cur_thread' \in All /\ cur_thread \in All /\ ctx \in [All -> Contexts]
  BY <1>2, <1>4, <1>5 DEF TypeOK
<1>8. /\ ctx' \in [All -> Contexts]
      /\ ctx'[cur_thread'] = "none"
      /\ \A t \in All : t # cur_thread' =>
            ctx'[t] = IF t = cur_thread THEN call ELSE ctx[t]
  BY <1>5, <1>7 DEF Contexts
<1> QED
  BY <1>4, <1>5, <1>6, <1>7, <1>8

\* The ring's facts depend on threads and on the idle thread's state alone.
LEMMA IdleFirstStable ==
  ASSUME IdleFirst, threads' = threads, state'[Idle] = RUNNING
  PROVE  IdleFirst'
BY DEF IdleFirst

LEMMA TimerStep == ASSUME SchedInv, timer_irq_handler PROVE SchedInv'
<1> DEFINE sleepers == TimedSleepers(threads, state, timer)
           left == [t \in All |-> IF t \in sleepers
                                  THEN (sleep_time[t] + SleepMod - 1) % SleepMod
                                  ELSE sleep_time[t]]
           woken == {t \in sleepers : left[t] = 0}
           st == [t \in All |-> IF t \in woken THEN RUNNING ELSE state[t]]
           refilled == [t \in All |-> IF t \in woken THEN THREAD_DEFAULT_PRI
                                                     ELSE cnt[t]]
           cn == charge(refilled, cur_thread)
<1>1. /\ sleep_time' = left
      /\ timer' = [t \in All |-> timer[t] /\ t \notin woken]
      /\ threads' = threads
      /\ \/ /\ state' = st
            /\ cnt' = cn
            /\ cur_thread' = cur_thread
            /\ ctx' = ctx
         \/ SwitchFrom("none", st, cn)
  <2>1. /\ DOMAIN sleep_time = All /\ DOMAIN state = All /\ DOMAIN cnt = All
    BY DEF SchedInv, TypeOK
  <2>2. /\ left = countdown(sleep_time, sleepers)
        /\ st = woken_state(state, woken)
        /\ refilled = woken_cnt(cnt, woken)
    BY <2>1 DEF countdown, woken_state, woken_cnt
  <2> HIDE DEF st, refilled
  <2>3. /\ sleep_time' = left
        /\ timer' = [t \in All |-> timer[t] /\ t \notin woken]
        /\ threads' = threads
        /\ \/ /\ state' = st
              /\ cnt' = cn
              /\ cur_thread' = cur_thread
              /\ ctx' = ctx
           \/ SwitchFrom("none", st, cn)
    BY <2>2, Zenon DEF timer_irq_handler
  <2> QED
    BY <2>3
<1>2. /\ TypeOK /\ IdleFirst /\ CurRunnable /\ CntBound
      /\ SleepTimerExact /\ CtxInv
  BY DEF SchedInv
<1>3. cur_thread \in All /\ Idle \in All
  BY <1>2 DEF TypeOK, All
<1>4. \A t \in All : t \in sleepers <=> timer[t]
  BY <1>2 DEF SleepTimerExact, CtxInv, TimedSleepers
<1>5. \A t \in All : timer[t] => left[t] = sleep_time[t] - 1
  <2> TAKE t \in All
  <2> HAVE timer[t]
  <2>1. sleep_time[t] \in 1..MaxSleep
    BY <1>2 DEF SleepTimerExact
  <2>2. left[t] = (sleep_time[t] + SleepMod - 1) % SleepMod
    BY <1>4
  <2>3. \A s \in 1..MaxSleep : (s + SleepMod - 1) % SleepMod = s - 1
    <3> TAKE s \in 1..MaxSleep
    <3>1. s - 1 \in 0..SleepMod - 1 /\ SleepMod \in Nat \ {0}
      BY SchedAssumption, WidthAssumption
    <3>2. s + SleepMod - 1 = (s - 1) + SleepMod
      BY <3>1
    <3> QED
      BY <3>1, <3>2, SMT
  <2> QED
    BY <2>1, <2>2, <2>3
<1>6. left \in [All -> 0..SleepMod - 1]
  <2>1. \A t \in All : sleep_time[t] \in 0..SleepMod - 1
    BY <1>2 DEF TypeOK
  <2>2. \A t \in All : timer[t] => sleep_time[t] \in 1..MaxSleep
    BY <1>2 DEF SleepTimerExact
  <2>3. \A t \in All : left[t] \in 0..SleepMod - 1
    <3> TAKE t \in All
    <3>1. CASE timer[t]
      BY <1>5, <2>2, <3>1, SchedAssumption, WidthAssumption
    <3>2. CASE ~timer[t]
      BY <1>4, <2>1, <3>2
    <3> QED
      BY <3>1, <3>2
  <2> QED
    BY <2>3
<1>7. \A t \in All : t \in woken <=> timer[t] /\ sleep_time[t] = 1
  BY <1>2, <1>4, <1>5 DEF SleepTimerExact
<1> HIDE DEF sleepers, left, woken
<1>8. \A t \in woken : t \in All /\ state[t] = SLEEPING /\ ctx[t] = "sched_sleep"
  <2>1. woken \subseteq All
    BY <1>2, SeqFacts DEF woken, sleepers, TimedSleepers, TypeOK
  <2> QED
    BY <1>2, <1>7, <2>1 DEF SleepTimerExact
<1>9. /\ st \in [All -> {RUNNING, SLEEPING}]
      /\ st[Idle] = RUNNING
      /\ st[cur_thread] = RUNNING
      /\ \A t \in All : st[t] = IF t \in woken THEN RUNNING ELSE state[t]
  BY <1>2, <1>3 DEF TypeOK, IdleFirst, CurRunnable
<1>10. refilled \in [All -> Nat] /\ cn \in [All -> Nat]
  <2>1. refilled \in [All -> Nat]
    BY <1>2, PriAssumption DEF TypeOK
  <2> HIDE DEF refilled
  <2> QED
    BY <1>3, <2>1 DEF charge
<1>11. /\ \A t \in Thread : cn[t] <= 2 * THREAD_DEFAULT_PRI - 1
       /\ cn[Idle] <= THREAD_DEFAULT_PRI
  <2>1. /\ \A t \in Thread : refilled[t] <= 2 * THREAD_DEFAULT_PRI - 1
        /\ refilled[Idle] <= THREAD_DEFAULT_PRI
    BY <1>2, <1>3, PriAssumption DEF CntBound, All, TypeOK
  <2>2. \A t \in All : cn[t] <= refilled[t]
    <3> HIDE DEF refilled
    <3> QED
      BY <1>3, <1>10 DEF charge
  <2> HIDE DEF refilled, cn
  <2>3. \A t \in All : cn[t] \in Nat /\ refilled[t] \in Nat
    BY <1>10
  <2>4. Thread \subseteq All
    BY DEF All
  <2> QED
    BY <1>3, <2>1, <2>2, <2>3, <2>4, PriAssumption
<1> HIDE DEF st, cn, refilled
<1>12. /\ state' = st
       /\ cnt' \in [All -> Nat]
       /\ CntBound'
       /\ cur_thread' \in Range(threads) /\ cur_thread' \in All
       /\ st[cur_thread'] = RUNNING
       /\ ctx' \in [All -> Contexts]
       /\ ctx'[cur_thread'] = "none"
       /\ \A t \in All : t # cur_thread' => ctx'[t] = ctx[t]
  <2>1. CASE /\ state' = st
             /\ cnt' = cn
             /\ cur_thread' = cur_thread
             /\ ctx' = ctx
    BY <1>2, <1>3, <1>9, <1>10, <1>11, <2>1
       DEF CntBound, TypeOK, CtxInv, CurRunnable
  <2>2. CASE SwitchFrom("none", st, cn)
    <3>1. "none" \in Contexts /\ ctx[cur_thread] = "none"
      BY <1>2 DEF Contexts, CtxInv
    <3>2. /\ state' = st
          /\ cnt' \in [All -> Nat]
          /\ CntBound'
          /\ cur_thread' \in Range(threads) /\ cur_thread' \in All
          /\ st[cur_thread'] = RUNNING
          /\ ctx' \in [All -> Contexts]
          /\ ctx'[cur_thread'] = "none"
          /\ \A t \in All : t # cur_thread' =>
                ctx'[t] = IF t = cur_thread THEN "none" ELSE ctx[t]
      BY <1>9, <1>10, <1>11, <2>2, <3>1, SwitchFromCorrect
    <3> QED
      BY <3>1, <3>2
  <2> QED
    BY <1>1, <2>1, <2>2
<1>13. TypeOK'
  <2>1. timer' \in [All -> BOOLEAN]
    BY <1>1, <1>2 DEF TypeOK
  <2>2. threads' \in Seq(All) /\ sleep_time' \in [All -> 0 .. SleepMod - 1]
    BY <1>1, <1>2, <1>6 DEF TypeOK
  <2> QED
    BY <1>9, <1>12, <2>1, <2>2, Zenon DEF TypeOK
<1>14. IdleFirst'
  BY <1>1, <1>2, <1>9, <1>12, IdleFirstStable
<1>15. CurRunnable'
  BY <1>1, <1>12 DEF CurRunnable
<1>16. SleepTimerExact'
  <2> SUFFICES ASSUME NEW t \in All
               PROVE  /\ timer'[t] <=> (state'[t] = SLEEPING /\ ctx'[t] = "sched_sleep")
                      /\ timer'[t] => sleep_time'[t] \in 1..MaxSleep
    BY DEF SleepTimerExact
  <2>1. timer'[t] <=> timer[t] /\ t \notin woken
    BY <1>1, <1>2, Zenon DEF TypeOK
  <2>2. /\ timer[t] <=> (state[t] = SLEEPING /\ ctx[t] = "sched_sleep")
        /\ timer[t] => sleep_time[t] \in 1..MaxSleep
    BY <1>2 DEF SleepTimerExact
  <2>3. state'[t] = IF t \in woken THEN RUNNING ELSE state[t]
    BY <1>9, <1>12
  <2>4. t = cur_thread' => state'[t] = RUNNING
    BY <1>12
  <2>5. timer'[t] => sleep_time'[t] \in 1..MaxSleep
    <3>1. timer'[t] => sleep_time'[t] = sleep_time[t] - 1 /\ sleep_time[t] # 1
      BY <1>1, <1>5, <1>7, <2>1
    <3> QED
      BY <2>1, <2>2, <3>1, SchedAssumption, WidthAssumption
  <2>6. timer'[t] <=> (state'[t] = SLEEPING /\ ctx'[t] = "sched_sleep")
    <3>1. CASE t = cur_thread'
      <4>1. t \in woken \/ state[t] = RUNNING
        BY <2>3, <2>4, <3>1
      <4> QED
        BY <2>1, <2>2, <2>4, <3>1, <4>1 DEF RUNNING, SLEEPING
    <3>2. CASE t # cur_thread'
      <4>1. ctx'[t] = ctx[t]
        BY <1>12, <3>2
      <4> QED
        BY <2>1, <2>2, <2>3, <4>1 DEF RUNNING, SLEEPING
    <3> QED
      BY <3>1, <3>2
  <2> QED
    BY <2>5, <2>6
<1>17. CtxInv'
  <2>1. \A t \in All : state'[t] = SLEEPING => state[t] = SLEEPING /\ t # cur_thread'
    BY <1>9, <1>12 DEF RUNNING, SLEEPING
  <2> QED
    BY <1>1, <1>2, <1>12, <2>1 DEF CtxInv
<1> QED
  BY <1>12, <1>13, <1>14, <1>15, <1>16, <1>17 DEF SchedInv

\* The blocking calls of the running thread: sched_yield, a wait, sched_sleep.
LEMMA BlockStep ==
  ASSUME SchedInv, cur_thread # Idle,
         NEW call \in Contexts \ {"none"}, NEW ms \in 1..MaxSleep,
         SwitchFrom(call, [state EXCEPT ![cur_thread] = SLEEPING], cnt),
         threads' = threads,
         \/ /\ call # "sched_sleep"
            /\ timer' = timer
            /\ sleep_time' = sleep_time
         \/ /\ call = "sched_sleep"
            /\ timer' = [timer EXCEPT ![cur_thread] = TRUE]
            /\ sleep_time' = [sleep_time EXCEPT ![cur_thread] = ms]
  PROVE  SchedInv'
<1> DEFINE st == [state EXCEPT ![cur_thread] = SLEEPING]
<1>1. /\ TypeOK /\ IdleFirst /\ CurRunnable /\ CntBound
      /\ SleepTimerExact /\ CtxInv
  BY DEF SchedInv
<1>2. cur_thread \in All /\ Idle \in All
  BY <1>1 DEF TypeOK, All
<1>3. /\ st \in [All -> {RUNNING, SLEEPING}]
      /\ st[Idle] = RUNNING
      /\ st[cur_thread] = SLEEPING
      /\ \A t \in All : t # cur_thread => st[t] = state[t]
  BY <1>1, <1>2 DEF TypeOK, IdleFirst
<1>4. /\ cnt \in [All -> Nat]
      /\ \A t \in Thread : cnt[t] <= 2 * THREAD_DEFAULT_PRI - 1
      /\ cnt[Idle] <= THREAD_DEFAULT_PRI
  BY <1>1 DEF TypeOK, CntBound
<1>5. SwitchFrom(call, st, cnt)
  OBVIOUS
<1> HIDE DEF st
<1>6. /\ state' = st
      /\ cnt' \in [All -> Nat]
      /\ CntBound'
      /\ cur_thread' \in Range(threads) /\ cur_thread' \in All
      /\ st[cur_thread'] = RUNNING
      /\ ctx' \in [All -> Contexts]
      /\ ctx'[cur_thread'] = "none"
      /\ \A t \in All : t # cur_thread' =>
            ctx'[t] = IF t = cur_thread THEN call ELSE ctx[t]
  BY <1>3, <1>4, <1>5, SwitchFromCorrect
<1>7. cur_thread' # cur_thread
  BY <1>3, <1>6 DEF RUNNING, SLEEPING
<1>8. timer[cur_thread] = FALSE
  BY <1>1, <1>2 DEF SleepTimerExact, CurRunnable, TypeOK, RUNNING, SLEEPING
<1>9. /\ timer' \in [All -> BOOLEAN]
      /\ sleep_time' \in [All -> 0..SleepMod - 1]
      /\ \A t \in All : t # cur_thread => timer'[t] = timer[t]
                                          /\ sleep_time'[t] = sleep_time[t]
      /\ timer'[cur_thread] <=> call = "sched_sleep"
      /\ timer'[cur_thread] => sleep_time'[cur_thread] = ms
  <2>1. timer \in [All -> BOOLEAN] /\ sleep_time \in [All -> 0..SleepMod - 1]
    BY <1>1 DEF TypeOK
  <2>2. ms \in 0..SleepMod - 1
    BY SchedAssumption, WidthAssumption
  <2>3. CASE call # "sched_sleep"
    BY <1>8, <2>1, <2>3
  <2>4. CASE call = "sched_sleep"
    BY <1>2, <2>1, <2>2, <2>4, Zenon
  <2> QED
    BY <2>3, <2>4
<1>10. TypeOK'
  BY <1>1, <1>3, <1>6, <1>9, Zenon DEF TypeOK
<1>11. IdleFirst'
  BY <1>1, <1>3, <1>6, IdleFirstStable
<1>12. CurRunnable'
  BY <1>6 DEF CurRunnable
<1>13. SleepTimerExact'
  <2> SUFFICES ASSUME NEW t \in All
               PROVE  /\ timer'[t] <=> (state'[t] = SLEEPING /\ ctx'[t] = "sched_sleep")
                      /\ timer'[t] => sleep_time'[t] \in 1..MaxSleep
    BY DEF SleepTimerExact
  <2>1. /\ timer[t] <=> (state[t] = SLEEPING /\ ctx[t] = "sched_sleep")
        /\ timer[t] => sleep_time[t] \in 1..MaxSleep
    BY <1>1 DEF SleepTimerExact
  <2>2. CASE t = cur_thread
    BY <1>3, <1>6, <1>7, <1>9, <2>2
  <2>3. CASE t = cur_thread'
    <3>1. state[t] = RUNNING /\ state'[t] = RUNNING
      BY <1>3, <1>6, <1>7, <2>3
    <3> QED
      BY <1>7, <1>9, <2>1, <2>3, <3>1 DEF RUNNING, SLEEPING
  <2>4. CASE t # cur_thread /\ t # cur_thread'
    BY <1>3, <1>6, <1>9, <2>1, <2>4
  <2> QED
    BY <2>2, <2>3, <2>4
<1>14. CtxInv'
  <2>1. cur_thread \in Range(threads)
    BY <1>1 DEF CurRunnable
  <2> QED
    BY <1>1, <1>3, <1>6, <2>1 DEF CtxInv, RUNNING, SLEEPING
<1> QED
  BY <1>6, <1>10, <1>11, <1>12, <1>13, <1>14 DEF SchedInv

LEMMA WakeupStep ==
  ASSUME SchedInv, NEW t \in Thread, wakeup(t) PROVE SchedInv'
<1>1. t \in All
  BY DEF All
<1>2. ctx[t] \in {"sched_yield", "wait_list"}
  BY DEF wakeup
<1>3. /\ state' = [state EXCEPT ![t] = RUNNING]
      /\ UNCHANGED <<threads, cur_thread, cnt, sleep_time, timer, ctx>>
  BY DEF wakeup
<1>4. TypeOK'
  BY <1>1, <1>3 DEF SchedInv, TypeOK
<1>5. IdleFirst' /\ CurRunnable' /\ CntBound'
  BY <1>1, <1>3 DEF SchedInv, TypeOK, IdleFirst, CurRunnable, CntBound
<1>6. SleepTimerExact'
  BY <1>1, <1>2, <1>3 DEF SchedInv, TypeOK, SleepTimerExact, RUNNING, SLEEPING
<1>7. CtxInv'
  BY <1>1, <1>3 DEF SchedInv, TypeOK, CtxInv, RUNNING, SLEEPING
<1> QED
  BY <1>4, <1>5, <1>6, <1>7 DEF SchedInv

LEMMA CreateStep ==
  ASSUME SchedInv, NEW t \in Thread, thread_create(t) PROVE SchedInv'
<1>1. t \in All /\ t # Idle
  BY SchedAssumption, WidthAssumption DEF All
<1>2. /\ t \notin Range(threads)
      /\ threads' = queue_push_back(threads, t)
      /\ state' = [state EXCEPT ![t] = RUNNING]
      /\ cnt' = [cnt EXCEPT ![t] = THREAD_DEFAULT_PRI]
      /\ sleep_time' = [sleep_time EXCEPT ![t] = 0]
      /\ timer' = [timer EXCEPT ![t] = FALSE]
      /\ UNCHANGED <<cur_thread, ctx>>
  BY DEF thread_create
<1>3. TypeOK /\ IdleFirst /\ CurRunnable /\ CntBound /\ SleepTimerExact /\ CtxInv
  BY DEF SchedInv
<1>4. threads \in Seq(All) /\ threads # <<>>
  BY <1>3 DEF TypeOK, IdleFirst
<1>5. /\ threads' \in Seq(All)
      /\ threads' # <<>>
      /\ Len(threads') = Len(threads) + 1
      /\ \A i \in 1..Len(threads) : threads'[i] = threads[i]
      /\ threads'[Len(threads) + 1] = t
      /\ Range(threads') = Range(threads) \cup {t}
      /\ Head(threads') = Head(threads)
  <2> DEFINE new == queue_push_back(threads, t)
  <2>1. /\ new \in Seq(All)
        /\ new # <<>>
        /\ Len(new) = Len(threads) + 1
        /\ \A i \in 1..Len(threads) : new[i] = threads[i]
        /\ new[Len(threads) + 1] = t
        /\ Range(new) = Range(threads) \cup {t}
        /\ threads # <<>> => Head(new) = Head(threads)
    BY <1>1, <1>4, PushBackRing, Zenon
  <2>2. threads' = new
    BY <1>2
  <2> HIDE DEF new
  <2> QED
    BY <1>4, <2>1, <2>2, Zenon
<1>6. TypeOK'
  <2>1. /\ THREAD_DEFAULT_PRI \in Nat
        /\ 0 \in 0 .. SleepMod - 1
    BY PriAssumption, WidthAssumption
  <2>2. /\ cur_thread \in All /\ ctx \in [All -> Contexts]
        /\ state \in [All -> {RUNNING, SLEEPING}] /\ cnt \in [All -> Nat]
        /\ sleep_time \in [All -> 0 .. SleepMod - 1] /\ timer \in [All -> BOOLEAN]
    BY <1>3, Zenon DEF TypeOK
  <2>3. cur_thread' \in All /\ ctx' \in [All -> Contexts]
    BY <1>2, <2>2, Zenon
  <2>4. state' \in [All -> {RUNNING, SLEEPING}]
    BY <1>2, <2>2, Zenon
  <2>5. cnt' \in [All -> Nat]
    BY <1>2, <2>1, <2>2, Zenon
  <2>6. sleep_time' \in [All -> 0 .. SleepMod - 1]
    BY <1>2, <2>1, <2>2, Zenon
  <2>7. timer' \in [All -> BOOLEAN]
    BY <1>2, <2>2, Zenon
  <2> QED
    BY <1>5, <2>3, <2>4, <2>5, <2>6, <2>7, Zenon DEF TypeOK
<1>7. IdleFirst'
  <2>1. /\ Len(threads) \in Nat
        /\ DOMAIN threads = 1..Len(threads)
        /\ DOMAIN threads' = 1..Len(threads) + 1
    BY <1>4, <1>5, SeqFacts
  <2>2. ASSUME NEW i \in DOMAIN threads', NEW j \in DOMAIN threads',
               threads'[i] = threads'[j]
        PROVE  i = j
    <3>1. \A k \in DOMAIN threads : threads[k] # t
      BY <1>2 DEF Range
    <3>2. \A k \in DOMAIN threads' : k \in DOMAIN threads \/ k = Len(threads) + 1
      BY <2>1
    <3>3. \A k, l \in DOMAIN threads : threads[k] = threads[l] => k = l
      BY <1>3 DEF IdleFirst
    <3> QED
      BY <1>5, <2>1, <2>2, <3>1, <3>2, <3>3
  <2> QED
    BY <1>1, <1>2, <1>3, <1>5, <2>2 DEF IdleFirst, TypeOK
<1>8. CurRunnable'
  BY <1>1, <1>2, <1>3, <1>5 DEF CurRunnable, TypeOK
<1>9. CntBound'
  BY <1>1, <1>2, <1>3, PriAssumption DEF CntBound, TypeOK, All
<1>10. ctx[t] = "none"
  BY <1>1, <1>2, <1>3 DEF CtxInv
<1>11. SleepTimerExact'
  BY <1>1, <1>2, <1>3, <1>10 DEF SleepTimerExact, TypeOK, RUNNING, SLEEPING
<1>12. CtxInv'
  BY <1>1, <1>2, <1>3, <1>5 DEF CtxInv, TypeOK, RUNNING, SLEEPING
<1> QED
  BY <1>6, <1>7, <1>8, <1>9, <1>11, <1>12 DEF SchedInv

LEMMA SchedInvStep == SchedInv /\ [Next]_vars => SchedInv'
<1> SUFFICES ASSUME SchedInv, [Next]_vars PROVE SchedInv'
  OBVIOUS
<1>1. CASE timer_irq_handler
  BY <1>1, TimerStep
<1>2. ASSUME NEW call \in {"sched_yield", "wait_list"},
             cur_thread # Idle, sched_yield_locked(call)
      PROVE  SchedInv'
  <2>1. 1 \in 1..MaxSleep
    BY SchedAssumption, WidthAssumption
  <2> QED
    BY <1>2, <2>1, BlockStep, Zenon DEF sched_yield_locked, Contexts
<1>3. ASSUME NEW ms \in 1..MaxSleep, sched_sleep(ms) PROVE SchedInv'
  <2>1. cur_thread # Idle
    BY <1>3 DEF sched_sleep, SchedInv, IdleFirst
  <2> QED
    BY <1>3, <2>1, BlockStep, Zenon DEF sched_sleep, Contexts
<1>4. ASSUME NEW t \in Thread, wakeup(t) PROVE SchedInv'
  BY <1>4, WakeupStep
<1>5. ASSUME NEW t \in Thread, thread_create(t) PROVE SchedInv'
  BY <1>5, CreateStep
<1>6. CASE UNCHANGED vars
  BY <1>6 DEF vars, SchedInv, TypeOK, IdleFirst, CurRunnable, CntBound,
              SleepTimerExact, CtxInv
<1> QED
  BY <1>1, <1>2, <1>3, <1>4, <1>5, <1>6 DEF Next, sched_yield, block

\* The inductive invariant holds in every reachable state of the scheduler.
THEOREM SchedInvariant == Spec => []SchedInv
<1> QED
  BY SchedInvInit, SchedInvStep, PTL DEF Spec

\* For every set of threads: the ring is headed by a runnable idle thread
\* and holds no thread twice.
THEOREM IdleFirstHolds == Spec => []IdleFirst
<1>1. SchedInv => IdleFirst
  BY DEF SchedInv
<1> QED
  BY <1>1, SchedInvariant, PTL

\* For every set of threads: the CPU runs only RUNNING threads of its ring.
THEOREM CurRunnableHolds == Spec => []CurRunnable
<1>1. SchedInv => CurRunnable
  BY DEF SchedInv
<1> QED
  BY <1>1, SchedInvariant, PTL

\* For every priority: counts stay below twice the priority, however long a
\* thread sleeps through replenishments.
THEOREM CntBoundHolds == Spec => []CntBound
<1>1. SchedInv => CntBound
  BY DEF SchedInv
<1> QED
  BY <1>1, SchedInvariant, PTL

\* For every bound on sleep times: the sleep timer flag marks exactly the
\* threads asleep in sched_sleep, and their sleep_time never wraps.
THEOREM SleepTimerExactHolds == Spec => []SleepTimerExact
<1>1. SchedInv => SleepTimerExact
  BY DEF SchedInv
<1> QED
  BY <1>1, SchedInvariant, PTL

\* A tick, a blocking call or a creation never makes RUNNING a thread that
\* waits for a wakeup.
LEMMA WaitsEndByWakeup ==
  ASSUME SchedInv, [Next]_vars
  PROVE  [\A t \in All : /\ state[t] = SLEEPING
                         /\ state'[t] = RUNNING
                         /\ ctx[t] # "sched_sleep"
                         => wakeup(t)]_vars
<1> SUFFICES ASSUME Next,
                    NEW t \in All, state[t] = SLEEPING, state'[t] = RUNNING,
                    ctx[t] # "sched_sleep"
             PROVE  wakeup(t)
  OBVIOUS
<1>1. /\ state \in [All -> {RUNNING, SLEEPING}] /\ cur_thread \in All
      /\ RUNNING # SLEEPING
      /\ ~timer[t]
      /\ t \in Range(threads)
  BY DEF SchedInv, TypeOK, SleepTimerExact, CtxInv, RUNNING, SLEEPING
<1>2. CASE timer_irq_handler
  <2>1. t \notin TimedSleepers(threads, state, timer)
    BY <1>1, Zenon DEF TimedSleepers
  <2>2. state'[t] = state[t]
    BY <1>1, <1>2, <2>1, Zenon DEF timer_irq_handler, SwitchFrom, woken_state
  <2> QED
    BY <1>1, <2>2
<1>3. ASSUME NEW call, sched_yield_locked(call) PROVE wakeup(t)
  <2>1. state' = [state EXCEPT ![cur_thread] = SLEEPING]
    BY <1>3 DEF sched_yield_locked, SwitchFrom
  <2> QED
    BY <1>1, <2>1
<1>4. ASSUME NEW ms, sched_sleep(ms) PROVE wakeup(t)
  <2>1. state' = [state EXCEPT ![cur_thread] = SLEEPING]
    BY <1>4 DEF sched_sleep, SwitchFrom
  <2> QED
    BY <1>1, <2>1
<1>5. ASSUME NEW u \in Thread, wakeup(u) PROVE wakeup(t)
  <2>1. state' = [state EXCEPT ![u] = RUNNING]
    BY <1>5 DEF wakeup
  <2>2. t = u
    BY <1>1, <2>1
  <2> QED
    BY <1>5, <2>2
<1>6. ASSUME NEW u \in Thread, thread_create(u) PROVE wakeup(t)
  <2>1. state' = [state EXCEPT ![u] = RUNNING] /\ u \notin Range(threads)
    BY <1>6 DEF thread_create
  <2> QED
    BY <1>1, <2>1
<1> QED
  BY <1>2, <1>3, <1>4, <1>5, <1>6 DEF Next, sched_yield, block

\* For every set of threads: only a wakeup addressed to a thread that waits
\* on a semaphore, a condition or after sched_yield ends its wait.
THEOREM OnlyWakeupsEndWaitsHolds == Spec => OnlyWakeupsEndWaits
<1>1. SchedInv /\ [Next]_vars =>
        [\A t \in All : /\ state[t] = SLEEPING
                        /\ state'[t] = RUNNING
                        /\ ctx[t] # "sched_sleep"
                        => wakeup(t)]_vars
  BY WaitsEndByWakeup
<1> QED
  BY <1>1, SchedInvariant, PTL DEF Spec, OnlyWakeupsEndWaits

\* Every scheduler step is a dispatcher step.
LEMMA DispatchStep ==
  ASSUME SchedInv, SchedInv', [Next]_vars
  PROVE  [D!DNext]_(D!dvars)
<1> DEFINE R == {t \in Range(threads) : state[t] = RUNNING}
<1>1. /\ state \in [All -> {RUNNING, SLEEPING}] /\ cur_thread \in All
      /\ cur_thread \in R /\ R \subseteq Range(threads)
      /\ Range(threads) \subseteq All
      /\ RUNNING # SLEEPING
      /\ Head(threads) = Idle
  BY SeqFacts, Zenon DEF SchedInv, TypeOK, CurRunnable, IdleFirst, RUNNING, SLEEPING
<1>2. cur_thread' \in R'
  BY DEF SchedInv, CurRunnable
<1>3. CASE timer_irq_handler
  <2>1. threads' = threads
    BY <1>3, Zenon DEF timer_irq_handler
  <2>2. \A t \in All : state[t] = RUNNING => state'[t] = RUNNING
    BY <1>1, <1>3, Zenon DEF timer_irq_handler, SwitchFrom, woken_state
  <2>3. R \subseteq R' /\ R' \subseteq Range(threads)
    BY <1>1, <2>1, <2>2
  <2> QED
    BY <1>2, <2>1, <2>3 DEF D!DNext, D!Tick
<1>4. ASSUME cur_thread # Idle, threads' = threads,
             state' = [state EXCEPT ![cur_thread] = SLEEPING]
      PROVE  D!DNext
  <2>1. R' = R \ {cur_thread}
    BY <1>1, <1>4
  <2> QED
    BY <1>2, <1>4, <2>1 DEF D!DNext, D!Block
<1>5. ASSUME NEW t \in Thread, wakeup(t) PROVE D!DNext
  <2>1. /\ state[t] = SLEEPING
        /\ state' = [state EXCEPT ![t] = RUNNING]
        /\ threads' = threads /\ cur_thread' = cur_thread
    BY <1>5 DEF wakeup
  <2>2. t \in All /\ t \in Range(threads)
    BY <2>1 DEF SchedInv, CtxInv, All
  <2>3. R' = R \cup {t} /\ t \notin R
    BY <1>1, <2>1, <2>2
  <2> QED
    BY <2>1, <2>2, <2>3 DEF D!DNext, D!Wake
<1>6. ASSUME NEW t \in Thread, thread_create(t) PROVE D!DNext
  <2>1. /\ t \notin Range(threads)
        /\ threads' = queue_push_back(threads, t)
        /\ state' = [state EXCEPT ![t] = RUNNING]
        /\ cur_thread' = cur_thread
    BY <1>6 DEF thread_create
  <2>2. threads \in Seq(All) /\ t \in All
    BY DEF SchedInv, TypeOK, All
  <2>3. Range(threads') = Range(threads) \cup {t}
    <3>1. Range(queue_push_back(threads, t)) = Range(threads) \cup {t}
      BY <2>2, PushBackRing
    <3> QED
      BY <2>1, <3>1, Zenon
  <2>4. R' = R \cup {t}
    BY <1>1, <2>1, <2>2, <2>3
  <2> QED
    BY <2>1, <2>3, <2>4 DEF D!DNext, D!Create
<1>7. CASE UNCHANGED vars
  BY <1>7 DEF vars, D!dvars
<1>8. ASSUME NEW call, sched_yield_locked(call)
      PROVE  threads' = threads /\ state' = [state EXCEPT ![cur_thread] = SLEEPING]
  BY <1>8 DEF sched_yield_locked, SwitchFrom
<1>9. ASSUME NEW ms, sched_sleep(ms)
      PROVE  /\ threads' = threads /\ cur_thread # Idle
             /\ state' = [state EXCEPT ![cur_thread] = SLEEPING]
  BY <1>1, <1>9 DEF sched_sleep, SwitchFrom
<1> QED
  BY <1>3, <1>4, <1>5, <1>6, <1>7, <1>8, <1>9 DEF Next, sched_yield, block

\* For every set of threads, priority and sleep bound: sched.c's scheduler
\* implements the dispatcher.
THEOREM SchedImplementsDispatch == Spec => ImplementsDispatch
<1>1. Init => D!DInit
  <2> SUFFICES ASSUME Init PROVE D!DInit
    OBVIOUS
  <2>1. Idle \in All /\ threads = <<Idle>>
    BY DEF Init, queue_push_back, All
  <2>2. Range(threads) = {Idle}
    BY <2>1 DEF Range
  <2>3. state[Idle] = RUNNING /\ cur_thread = Idle
    BY <2>1 DEF Init
  <2> QED
    BY <2>2, <2>3 DEF D!DInit
<1>2. SchedInv /\ SchedInv' /\ [Next]_vars => [D!DNext]_(D!dvars)
  BY DispatchStep
<1> QED
  BY <1>1, <1>2, SchedInvariant, PTL DEF Spec, ImplementsDispatch, D!DSpec
------------------------------------------------------------------------------
(* The console: the locks, the queue, the buffer and what is drawn.             *)
Has == {"first", "last", "console_unlock"}  \* has the console's lock
HasQ == {"push", "pop"}                     \* has the queue's lock
Off == Has \cup HasQ \cup {"console_lock", "cons_lock", "drain_lock"}
Drains == {"drain", "drain_lock", "pop", "draw"}
BeforePush == {"cons_putstr", "cons_lock", "push"}

\* A context that has a lock or spins for one has interrupts off and nothing above it.
LockInv ==
    /\ point = [x \in Ctx |-> point[x]]
    /\ intr \in [Processors -> BOOLEAN] /\ spl \in [Ctx -> BOOLEAN] /\ s_drain \in [Ctx -> BOOLEAN]
    /\ lock \in Ctx \cup {None} /\ \A x \in Ctx : point[x] \in Has <=> lock = x
    /\ qlock \in Ctx \cup {None} /\ \A x \in Ctx : point[x] \in HasQ <=> qlock = x
    /\ \A x \in Ctx : point[x] \in Off => ~intr[x[1]] /\ Runs(x)

\* Who is still to add its message; every message in the queue has somebody to draw it.
Pre == {x \in Ctx : point[x] \in BeforePush}
QueueInv ==
    /\ calls \in 0..MaxCalls /\ write_pos \in Nat /\ read_pos \in 0..write_pos
    /\ IsFiniteSet(Pre) /\ Cardinality(Pre) + write_pos <= calls
    /\ run_lock \in {0, 1}
    /\ run_lock = 1 <=> \E x \in Ctx : point[x] \in Drains
    /\ \A x, y \in Ctx : point[x] \in Drains /\ point[y] \in Drains => x = y
    /\ read_pos < write_pos => \E x \in Ctx : point[x] \in Drains \cup {"run_lock"}

\* The last messages are in their slots, and those since the last wrap in the buffer,
\* before pos.
Kept(n) ==
    LET m == msg[n % MAX_MSG_QUEUE]
    IN  /\ m[3] = n
        /\ wraps[n+1] = wraps[write_pos+1] =>
            /\ m[1] \in Nat /\ m[2] \in Nat /\ m[1] + m[2] <= pos
            /\ \A k \in m[1]..m[1]+m[2]-1 : buf[k] = n
BufInv ==
    /\ pos \in 0..MAX_CONSOLE_BUF
    /\ msg \in [0..MAX_MSG_QUEUE-1 -> Int \X Int \X Int]
    /\ buf \in [0..MAX_CONSOLE_BUF-1 -> Int]
    /\ wraps \in Seq(Nat) /\ Len(wraps) = write_pos + 1
    /\ \A j \in 1..write_pos+1 : wraps[j] <= wraps[write_pos+1]
    /\ \A n \in 0..write_pos-1 : write_pos - n <= MAX_MSG_QUEUE => Kept(n)

\* The messages drawn are those before read_pos, less the one that is being drawn.
DrawnInv ==
    /\ popped = [x \in Ctx |-> popped[x]]
    /\ drawn \in Seq([number : Int, whole : BOOLEAN, safe : BOOLEAN]) /\ DrawnInOrder
    /\ \A x \in Ctx : point[x] = "draw" =>
           popped[x] = read_pos - 1 /\ popped[x] \in Nat /\ Len(drawn) = read_pos - 1
    /\ (\A x \in Ctx : point[x] # "draw") => Len(drawn) = read_pos
-------------------------------------------------------------------------------
LEMMA NoneIsNoContext == None \notin Ctx
BY DEF None, Ctx

LEMMA Pair ==
    ASSUME NEW x \in Ctx
    PROVE  x[1] \in Processors /\ x[2] \in 0..MaxNest /\ x = <<x[1], x[2]>>
BY DEF Ctx

\* A step of the context that runs on its CPU leaves alone those that have interrupts off.
LEMMA OffStep ==
    ASSUME LockInv, NEW y \in Ctx, NEW to, GoesTo(y, to), Runs(y), point[y] # "idle",
           intr' \in [Processors -> BOOLEAN], \A c \in Processors : c # y[1] => intr'[c] = intr[c],
           to \in Off => ~intr'[y[1]]
    PROVE  \A x \in Ctx : point'[x] \in Off => ~intr'[x[1]] /\ Runs(x)'
<1> SUFFICES ASSUME NEW x \in Ctx, point'[x] \in Off
             PROVE  ~intr'[x[1]] /\ Runs(x)'
  OBVIOUS
<1>0. /\ MaxNest \in Nat
      /\ x[1] \in Processors /\ x[2] \in 0..MaxNest /\ x = <<x[1], x[2]>>
      /\ y[1] \in Processors /\ y[2] \in 0..MaxNest /\ y = <<y[1], y[2]>>
  BY Pair, ConsoleAssumption
<1>p. /\ point' = [z \in Ctx |-> IF z = y THEN to ELSE point[z]]
      /\ \A c \in Processors, k \in 0..MaxNest : <<c, k>> \in Ctx
  BY Zenon DEF LockInv, GoesTo, Ctx
<1>1. CASE x = y
  <2>1. ASSUME NEW k \in x[2]+1..MaxNest PROVE point'[<<x[1], k>>] = "idle"
    <3>1. k \in 0..MaxNest /\ k # y[2] /\ point[<<y[1], k>>] = "idle" /\ <<x[1], k>> # y
      BY <1>0, <1>1, <2>1 DEF Runs
    <3> QED BY <3>1, <1>0, <1>1, <1>p
  <2>2. ~intr'[x[1]]
    BY <1>1, <1>p
  <2> QED BY <2>1, <2>2 DEF Runs
<1>2. CASE x # y
  <2>1. point[x] \in Off /\ ~intr[x[1]] /\ Runs(x)
    BY <1>2, <1>p DEF LockInv
  <2>2. point[x] # "idle"
    BY <2>1 DEF Off, Has, HasQ
  <2>3. x[1] # y[1]
    <3>1. SUFFICES ASSUME x[1] = y[1] PROVE FALSE
      OBVIOUS
    <3>2. CASE x[2] < y[2]
      BY <1>0, <2>1, <3>1, <3>2 DEF Runs
    <3>3. CASE y[2] < x[2]
      BY <1>0, <2>2, <3>1, <3>3 DEF Runs
    <3> QED BY <1>0, <1>2, <3>1, <3>2, <3>3
  <2>4. ASSUME NEW k \in x[2]+1..MaxNest PROVE point'[<<x[1], k>>] = "idle"
    <3>1. k \in 0..MaxNest /\ point[<<x[1], k>>] = "idle" /\ <<x[1], k>> # y
      BY <1>0, <2>1, <2>3, <2>4 DEF Runs
    <3> QED BY <3>1, <1>0, <1>p
  <2>5. ~intr'[x[1]]
    BY <1>0, <2>1, <2>3
  <2> QED BY <2>4, <2>5 DEF Runs
<1> QED BY <1>1, <1>2

\* A call enters its context only with interrupts on, or where no handler runs.
LEMMA OffCall ==
    ASSUME LockInv, NEW y \in Ctx, NEW fn \in Calls, Call(y, fn)
    PROVE  LockInv'
<1>0. /\ MaxNest \in Nat /\ fn \notin Off /\ fn \notin Has /\ fn \notin HasQ
      /\ y[1] \in Processors /\ y[2] \in 0..MaxNest /\ y = <<y[1], y[2]>>
      /\ "idle" \notin Has /\ "idle" \notin HasQ
  BY Pair, ConsoleAssumption DEF Off, Has, HasQ
<1>a. point[y] = "idle" /\ Runs(y) /\ GoesTo(y, fn) /\ (y[2] = 0 \/ intr[y[1]])
  BY DEF Call, At, CpuOf
<1>b. intr' \in [Processors -> BOOLEAN] /\ \A c \in Processors : c # y[1] => intr'[c] = intr[c]
  <2>1. PICK j \in BOOLEAN : intr' = [intr EXCEPT ![y[1]] = j]
    BY Zenon DEF Call, CpuOf
  <2> QED BY <2>1, <1>0 DEF LockInv
<1>p. /\ point' = [z \in Ctx |-> IF z = y THEN fn ELSE point[z]]
      /\ \A c \in Processors, k \in 0..MaxNest : <<c, k>> \in Ctx
  BY <1>a, Zenon DEF LockInv, GoesTo, Ctx
<1>1. ASSUME NEW x \in Ctx, point'[x] \in Off PROVE ~intr'[x[1]] /\ Runs(x)'
  <2>1. point[x] \in Off /\ ~intr[x[1]] /\ Runs(x) /\ x # y
    BY <1>0, <1>1, <1>a, <1>b, <1>p DEF LockInv
  <2>2. point[x] # "idle" /\ x[1] \in Processors /\ x[2] \in 0..MaxNest /\ x = <<x[1], x[2]>>
    BY <2>1, Pair DEF Off, Has, HasQ
  <2>3. x[1] # y[1]
    <3>1. SUFFICES ASSUME x[1] = y[1] PROVE FALSE
      OBVIOUS
    <3>2. y[2] = 0
      BY <2>1, <3>1, <1>a, <1>b, <1>p
    <3>3. x[2] # 0
      BY <2>1, <2>2, <3>1, <3>2, <1>0
    <3> QED BY <1>0, <1>a, <1>b, <1>p, <2>2, <3>1, <3>2, <3>3 DEF Runs
  <2>4. ASSUME NEW k \in x[2]+1..MaxNest PROVE point'[<<x[1], k>>] = "idle"
    <3>1. k \in 0..MaxNest /\ point[<<x[1], k>>] = "idle" /\ <<x[1], k>> # y
      BY <1>0, <2>1, <2>2, <2>3, <2>4 DEF Runs
    <3> QED BY <3>1, <2>2, <1>a, <1>b, <1>p
  <2> QED BY <2>1, <2>2, <2>3, <2>4, <1>a, <1>b, <1>p DEF Runs
<1>2. UNCHANGED <<spl, s_drain, lock, qlock>>
  BY DEF Call, queue
<1> QED BY <1>0, <1>a, <1>b, <1>p, <1>1, <1>2 DEF LockInv

\* What a step does to the locks: nothing, or it takes a free one, or it releases its own.
Locks(y, to) ==
    /\ \/ lock' = lock /\ (to \in Has <=> point[y] \in Has)
       \/ lock = None /\ lock' = y /\ to \in Has
       \/ point[y] \in Has /\ lock' = None /\ to \notin Has
    /\ \/ qlock' = qlock /\ (to \in HasQ <=> point[y] \in HasQ)
       \/ qlock = None /\ qlock' = y /\ to \in HasQ
       \/ point[y] \in HasQ /\ qlock' = None /\ to \notin HasQ

LEMMA LockStep ==
    ASSUME LockInv, NEW y \in Ctx, NEW to, GoesTo(y, to), Runs(y), point[y] # "idle",
           intr' \in [Processors -> BOOLEAN], \A c \in Processors : c # y[1] => intr'[c] = intr[c],
           to \in Off => ~intr'[y[1]],
           spl' \in [Ctx -> BOOLEAN], s_drain' \in [Ctx -> BOOLEAN], Locks(y, to)
    PROVE  LockInv'
<1>1. point' = [z \in Ctx |-> IF z = y THEN to ELSE point[z]]
  BY DEF LockInv, GoesTo
<1>2. lock' \in Ctx \cup {None} /\ \A x \in Ctx : point'[x] \in Has <=> lock' = x
  BY <1>1, NoneIsNoContext DEF LockInv, Locks
<1>3. qlock' \in Ctx \cup {None} /\ \A x \in Ctx : point'[x] \in HasQ <=> qlock' = x
  BY <1>1, NoneIsNoContext DEF LockInv, Locks
<1>4. \A x \in Ctx : point'[x] \in Off => ~intr'[x[1]] /\ Runs(x)'
  BY OffStep
<1> QED BY <1>1, <1>2, <1>3, <1>4 DEF LockInv

LEMMA LockInit == ConsInit => LockInv
BY NoneIsNoContext DEF ConsInit, LockInv, Has, HasQ, Off

LEMMA LockNext == LockInv /\ [ConsNext]_consvars => LockInv'
<1> SUFFICES ASSUME LockInv, [ConsNext]_consvars PROVE LockInv'
  OBVIOUS
<1> USE DEF Has, HasQ, Off
<1>1. ASSUME NEW y \in Ctx, NEW fn \in Calls, Call(y, fn) PROVE LockInv'
  BY <1>1, OffCall
<1>2. ASSUME NEW y \in Ctx, Step(y) PROVE LockInv'
  <2>0. y[1] \in Processors /\ intr \in [Processors -> BOOLEAN] /\ spl \in [Ctx -> BOOLEAN] /\ s_drain \in [Ctx -> BOOLEAN]
    BY Pair DEF LockInv
  <2>f. point[y] \in Off => ~intr[y[1]]
    BY DEF LockInv
  <2> DEFINE Flags(to) ==
        /\ GoesTo(y, to) /\ Runs(y) /\ point[y] # "idle"
        /\ intr' \in [Processors -> BOOLEAN] /\ \A c \in Processors : c # y[1] => intr'[c] = intr[c]
        /\ to \in Off => ~intr'[y[1]]
        /\ spl' \in [Ctx -> BOOLEAN] /\ s_drain' \in [Ctx -> BOOLEAN]
  <2>k. ASSUME NEW to, Flags(to), Locks(y, to) PROVE LockInv'
    BY <2>k, LockStep
  <2> HIDE DEF Flags
  <2>1. CASE console_splhi(y)
    <3>1. Flags("console_lock") /\ Locks(y, "console_lock")
      BY <2>0, <2>1 DEF console_splhi, cpu_splhi, At, GoesTo, CpuOf, queue, Flags, Locks
    <3> QED BY <3>1, <2>k
  <2>2. CASE console_lock(y)
    <3>1. Flags("first") /\ Locks(y, "first")
      BY <2>0, <2>f, <2>2 DEF console_lock, At, GoesTo, queue, Flags, Locks
    <3> QED BY <3>1, <2>k
  <2>3. CASE console_draw(y)
    <3>1. CASE At(y, "first") /\ GoesTo(y, "last")
      <4>1. Flags("last") /\ Locks(y, "last")
        BY <2>0, <2>f, <2>3, <3>1 DEF console_draw, At, GoesTo, queue, Flags, Locks
      <4> QED BY <4>1, <2>k
    <3>2. CASE At(y, "last") /\ GoesTo(y, "console_unlock")
      <4>1. Flags("console_unlock") /\ Locks(y, "console_unlock")
        BY <2>0, <2>f, <2>3, <3>2 DEF console_draw, At, GoesTo, queue, Flags, Locks
      <4> QED BY <4>1, <2>k
    <3> QED BY <2>3, <3>1, <3>2 DEF console_draw
  <2>4. CASE console_unlock(y)
    <3>1. Flags("return") /\ Locks(y, "return")
      BY <2>0, <2>4, Zenon DEF console_unlock, cpu_splx, SplxValue, At, GoesTo, CpuOf, queue, Flags, Locks
    <3> QED BY <3>1, <2>k
  <2>5. CASE cons_splhi(y)
    <3>1. Flags("cons_lock") /\ Locks(y, "cons_lock")
      BY <2>0, <2>5 DEF cons_splhi, cpu_splhi, At, GoesTo, CpuOf, queue, Flags, Locks
    <3> QED BY <3>1, <2>k
  <2>6. CASE Acquire(y, "cons_lock", "push")
    <3>1. Flags("push") /\ Locks(y, "push")
      BY <2>0, <2>f, <2>6 DEF Acquire, At, GoesTo, Flags, Locks
    <3> QED BY <3>1, <2>k
  <2>7. ASSUME NEW n \in Sizes, cons_msg_putstr(y, n) PROVE LockInv'
    <3>1. Flags("run_lock") /\ Locks(y, "run_lock")
      BY <2>0, <2>7, Zenon DEF cons_msg_putstr, cpu_splx, SplxValue, At, GoesTo, CpuOf, Flags, Locks
    <3> QED BY <3>1, <2>k
  <2>8. CASE cons_run(y)
    <3>1. CASE run_lock # 0 /\ GoesTo(y, "return") /\ intr' = intr
      <4>1. Flags("return") /\ Locks(y, "return")
        BY <2>0, <2>8, <3>1 DEF cons_run, At, Flags, Locks
      <4> QED BY <4>1, <2>k
    <3>2. CASE GoesTo(y, "drain") /\ intr' = [intr EXCEPT ![CpuOf(y)] = @ \/ ~spl[y]]
      <4>1. Flags("drain") /\ Locks(y, "drain")
        BY <2>0, <2>8, <3>2 DEF cons_run, At, CpuOf, Flags, Locks
      <4> QED BY <4>1, <2>k
    <3> QED BY <2>8, <3>1, <3>2 DEF cons_run
  <2>9. CASE cons_drain(y)
    <3>1. Flags("drain_lock") /\ Locks(y, "drain_lock")
      BY <2>0, <2>9 DEF cons_drain, cpu_splhi, At, GoesTo, CpuOf, queue, Flags, Locks
    <3> QED BY <3>1, <2>k
  <2>10. CASE Acquire(y, "drain_lock", "pop")
    <3>1. Flags("pop") /\ Locks(y, "pop")
      BY <2>0, <2>f, <2>10 DEF Acquire, At, GoesTo, Flags, Locks
    <3> QED BY <3>1, <2>k
  <2>11. CASE cons_msg_pop(y)
    <3>1. Flags("draw") /\ Locks(y, "draw")
      BY <2>0, <2>11, Zenon DEF cons_msg_pop, cpu_splx, SplxValue, At, GoesTo, CpuOf, Flags, Locks
    <3> QED BY <3>1, <2>k
  <2>12. CASE cons_done(y)
    <3>1. Flags("return") /\ Locks(y, "return")
      BY <2>0, <2>12, Zenon DEF cons_done, ReturnSpl, cpu_splx, SplxValue, At, GoesTo, CpuOf, Flags, Locks
    <3> QED BY <3>1, <2>k
  <2>13. CASE Draw(y)
    <3>1. Flags("drain") /\ Locks(y, "drain")
      BY <2>0, <2>13 DEF Draw, At, GoesTo, queue, Flags, Locks
    <3> QED BY <3>1, <2>k
  <2>14. CASE Return(y)
    <3>1. Flags("idle") /\ Locks(y, "idle")
      BY <2>0, <2>14 DEF Return, At, GoesTo, CpuOf, queue, Flags, Locks
    <3> QED BY <3>1, <2>k
  <2> QED BY <1>2, <2>1, <2>2, <2>3, <2>4, <2>5, <2>6, <2>7, <2>8, <2>9, <2>10, <2>11,
             <2>12, <2>13, <2>14, Zenon DEF Step
<1>3. CASE UNCHANGED consvars
  BY <1>3 DEF consvars, queue, LockInv, Runs
<1> QED BY <1>1, <1>2, <1>3 DEF ConsNext, Done

\* Whoever has the console's lock or the queue's, in console_putstr or cons_putstr,
\* has interrupts off and no handler on top of it, on every CPU.
THEOREM HoldersRunHolds == ConsSpec => []HoldersRun
<1>1. LockInv => HoldersRun
  BY DEF LockInv, HoldersRun, Off, CpuOf
<1> QED BY <1>1, LockInit, LockNext, PTL DEF ConsSpec
-------------------------------------------------------------------------------
One(b) == IF b THEN 1 ELSE 0

LEMMA PreMove ==
    ASSUME LockInv, IsFiniteSet(Pre), NEW y \in Ctx, NEW to, GoesTo(y, to)
    PROVE  /\ IsFiniteSet(Pre') /\ Cardinality(Pre) \in Nat
           /\ Cardinality(Pre') + One(point[y] \in BeforePush) = Cardinality(Pre) + One(to \in BeforePush)
<1>p. point' = [z \in Ctx |-> IF z = y THEN to ELSE point[z]] /\ Cardinality(Pre) \in Nat
  BY FS_CardinalityType DEF LockInv, GoesTo
<1>1. CASE point[y] \in BeforePush /\ to \in BeforePush
  <2>1. Pre' = Pre
    BY <1>p, <1>1 DEF Pre
  <2> QED BY <2>1, <1>p, <1>1 DEF One
<1>2. CASE point[y] \notin BeforePush /\ to \notin BeforePush
  <2>1. Pre' = Pre
    BY <1>p, <1>2 DEF Pre
  <2> QED BY <2>1, <1>p, <1>2 DEF One
<1>3. CASE point[y] \notin BeforePush /\ to \in BeforePush
  <2>1. Pre' = Pre \cup {y} /\ y \notin Pre
    BY <1>p, <1>3 DEF Pre
  <2>2. IsFiniteSet(Pre') /\ Cardinality(Pre') = Cardinality(Pre) + 1
    BY <2>1, FS_AddElement
  <2> QED BY <2>2, <1>p, <1>3 DEF One
<1>4. CASE point[y] \in BeforePush /\ to \notin BeforePush
  <2>1. Pre' = Pre \ {y} /\ y \in Pre
    BY <1>p, <1>4 DEF Pre
  <2>2. IsFiniteSet(Pre') /\ Cardinality(Pre') = Cardinality(Pre) - 1
    BY <2>1, FS_RemoveElement
  <2> QED BY <2>2, <1>p, <1>4 DEF One
<1> QED BY <1>1, <1>2, <1>3, <1>4

\* What a step does to run_lock, and to whom the messages of the queue are left.
Runner(y, to) ==
    \/ run_lock' = run_lock /\ (to \in Drains <=> point[y] \in Drains)
    \/ run_lock = 0 /\ run_lock' = 1 /\ to \in Drains
    \/ point[y] \in Drains /\ run_lock' = 0 /\ to \notin Drains
Left(y, to) ==
    \/ to \in Drains \cup {"run_lock"}
    \/ UNCHANGED <<read_pos, write_pos>> /\ point[y] \notin Drains \cup {"run_lock"}
    \/ UNCHANGED <<read_pos, write_pos>> /\ point[y] = "run_lock" /\ run_lock = 1
    \/ ~(read_pos' < write_pos')

LEMMA QueueStep ==
    ASSUME LockInv, QueueInv, NEW y \in Ctx, NEW to, GoesTo(y, to), Runner(y, to), Left(y, to),
           calls' \in 0..MaxCalls, write_pos' \in Nat, read_pos' \in 0..write_pos',
           write_pos' + calls + One(to \in BeforePush) <= write_pos + calls' + One(point[y] \in BeforePush)
    PROVE  QueueInv'
<1>p. point' = [z \in Ctx |-> IF z = y THEN to ELSE point[z]]
  BY DEF LockInv, GoesTo
<1>1. IsFiniteSet(Pre') /\ Cardinality(Pre') + write_pos' <= calls'
  <2>1. /\ IsFiniteSet(Pre') /\ Cardinality(Pre) \in Nat
        /\ Cardinality(Pre') + One(point[y] \in BeforePush) = Cardinality(Pre) + One(to \in BeforePush)
    BY PreMove DEF QueueInv
  <2>2. Cardinality(Pre') \in Nat
    BY <2>1, FS_CardinalityType
  <2>3. /\ Cardinality(Pre) + write_pos <= calls
        /\ calls \in Int /\ calls' \in Int /\ write_pos \in Int /\ MaxCalls \in Nat
    BY ConsoleAssumption DEF QueueInv
  <2>4. One(point[y] \in BeforePush) \in Int /\ One(to \in BeforePush) \in Int
    BY DEF One
  <2> QED BY <2>1, <2>2, <2>3, <2>4
<1>2. /\ run_lock' \in {0, 1}
      /\ run_lock' = 1 <=> \E x \in Ctx : point'[x] \in Drains
      /\ \A x, z \in Ctx : point'[x] \in Drains /\ point'[z] \in Drains => x = z
  BY <1>p DEF QueueInv, Runner
<1>3. read_pos' < write_pos' => \E x \in Ctx : point'[x] \in Drains \cup {"run_lock"}
  BY <1>p DEF QueueInv, Left, Drains
<1> QED BY <1>1, <1>2, <1>3 DEF QueueInv

LEMMA QueueInit == ConsInit => QueueInv
<1> SUFFICES ASSUME ConsInit PROVE QueueInv
  OBVIOUS
<1>1. Pre = {}
  BY DEF ConsInit, Pre, BeforePush
<1>2. IsFiniteSet(Pre) /\ Cardinality(Pre) = 0
  BY <1>1, FS_EmptySet
<1> QED BY <1>2, ConsoleAssumption DEF ConsInit, QueueInv, Drains

\* The positions do not wrap: the calls are fewer than POS_RANGE.
LEMMA NoWrap ==
    ASSUME LockInv, QueueInv, NEW y \in Ctx
    PROVE  /\ point[y] \in BeforePush => write_pos + 1 <= calls
           /\ point[y] \in BeforePush => (write_pos + 1) % POS_RANGE = write_pos + 1
           /\ read_pos < write_pos => (read_pos + 1) % POS_RANGE = read_pos + 1
<1>1. /\ calls \in Nat /\ calls < POS_RANGE /\ POS_RANGE \in Nat /\ MaxCalls \in Nat
      /\ write_pos \in Nat /\ read_pos \in Nat /\ Cardinality(Pre) \in Nat
      /\ Cardinality(Pre) + write_pos <= calls /\ IsFiniteSet(Pre)
  BY ConsoleAssumption, FS_CardinalityType DEF QueueInv
<1>2. ASSUME point[y] \in BeforePush PROVE write_pos + 1 <= calls
  <2>1. y \in Pre
    BY <1>2 DEF Pre
  <2>2. Cardinality(Pre) # 0
    BY <2>1, <1>1, FS_EmptySet
  <2> QED BY <1>1, <2>2
<1>3. ASSUME NEW n \in Nat, n < POS_RANGE PROVE n % POS_RANGE = n
  BY <1>1, <1>3
<1> QED BY <1>1, <1>2, <1>3

LEMMA QueueNext == LockInv /\ QueueInv /\ [ConsNext]_consvars => QueueInv'
<1> SUFFICES ASSUME LockInv, QueueInv, [ConsNext]_consvars PROVE QueueInv'
  OBVIOUS
<1> USE DEF BeforePush, Drains, One
<1>0. /\ calls \in 0..MaxCalls /\ MaxCalls \in Nat /\ write_pos \in Nat /\ read_pos \in 0..write_pos
      /\ run_lock \in {0, 1}
  BY ConsoleAssumption DEF QueueInv
<1> DEFINE Same == UNCHANGED <<run_lock, write_pos, read_pos, calls>>
           Work == Drains \cup {"run_lock"}
           Fits(y, to) ==
             /\ GoesTo(y, to) /\ Runner(y, to) /\ Left(y, to)
             /\ calls' \in 0..MaxCalls /\ write_pos' \in Nat /\ read_pos' \in 0..write_pos'
             /\ write_pos' + calls + One(to \in BeforePush) <= write_pos + calls' + One(point[y] \in BeforePush)
<1>k. ASSUME NEW y \in Ctx, NEW to, Fits(y, to) PROVE QueueInv'
  <2>1. /\ GoesTo(y, to) /\ Runner(y, to) /\ Left(y, to)
        /\ calls' \in 0..MaxCalls /\ write_pos' \in Nat /\ read_pos' \in 0..write_pos'
        /\ write_pos' + calls + One(to \in BeforePush) <= write_pos + calls' + One(point[y] \in BeforePush)
    BY <1>k
  <2> HIDE DEF BeforePush, Drains, One
  <2> QED BY <2>1, QueueStep
\* A step that leaves the queue alone, and neither begins nor ends a part of cons_putstr.
<1>s_drain. ASSUME NEW y \in Ctx, NEW to, GoesTo(y, to), Same,
             to \in BeforePush => point[y] \in BeforePush, to \in Drains <=> point[y] \in Drains,
             point[y] \in Work => to \in Work
      PROVE  QueueInv'
  <2>1. Fits(y, to)
    BY <1>0, <1>s_drain DEF Runner, Left
  <2> HIDE DEF Fits
  <2> QED BY <2>1, <1>k
<1>1. ASSUME NEW y \in Ctx, NEW fn \in Calls, Call(y, fn) PROVE QueueInv'
  <2>1. fn \notin Work /\ fn \in {"console_putstr", "cons_putstr"}
    BY ConsoleAssumption
  <2>2. Fits(y, fn)
    BY <1>0, <1>1, <2>1 DEF Call, At, GoesTo, queue, Runner, Left
  <2> HIDE DEF Fits
  <2> QED BY <2>2, <1>k
<1>2. ASSUME NEW y \in Ctx, Step(y) PROVE QueueInv'
  <2> HIDE DEF Fits
  <2>1. CASE console_splhi(y)
    BY <2>1, <1>s_drain DEF console_splhi, cpu_splhi, At, queue
  <2>2. CASE console_lock(y)
    BY <2>2, <1>s_drain DEF console_lock, At, queue
  <2>3. CASE console_draw(y)
    BY <2>3, <1>s_drain DEF console_draw, At, queue
  <2>4. CASE console_unlock(y)
    BY <2>4, <1>s_drain DEF console_unlock, At, queue
  <2>5. CASE cons_splhi(y)
    BY <2>5, <1>s_drain DEF cons_splhi, cpu_splhi, At, queue
  <2>6. CASE Acquire(y, "cons_lock", "push")
    BY <2>6, <1>s_drain DEF Acquire, At
  <2>7. ASSUME NEW n \in Sizes, cons_msg_putstr(y, n) PROVE QueueInv'
    <3>1. point[y] = "push" /\ GoesTo(y, "run_lock") /\ UNCHANGED <<run_lock, read_pos, calls>>
      BY <2>7 DEF cons_msg_putstr, At
    <3>2. write_pos' = write_pos + 1
      BY <2>7, <3>1, NoWrap DEF cons_msg_putstr, cons_msg_push
    <3>3. Fits(y, "run_lock")
      BY <1>0, <3>1, <3>2 DEF Fits, Runner, Left
    <3> QED BY <3>3, <1>k
  <2>8. CASE cons_run(y)
    <3>1. /\ point[y] = "run_lock" /\ UNCHANGED <<read_pos, write_pos, calls>>
          /\ \/ run_lock # 0 /\ GoesTo(y, "return") /\ run_lock' = run_lock
             \/ run_lock = 0 /\ run_lock' = 1 /\ GoesTo(y, "drain")
      BY <2>8 DEF cons_run, At
    <3>2. Fits(y, "return") \/ Fits(y, "drain")
      BY <1>0, <3>1 DEF Fits, Runner, Left
    <3> QED BY <3>2, <1>k
  <2>9. CASE cons_drain(y)
    BY <2>9, <1>s_drain DEF cons_drain, cpu_splhi, At, queue
  <2>10. CASE Acquire(y, "drain_lock", "pop")
    BY <2>10, <1>s_drain DEF Acquire, At
  <2>11. CASE cons_msg_pop(y)
    <3>1. /\ point[y] = "pop" /\ GoesTo(y, "draw") /\ UNCHANGED <<run_lock, write_pos, calls>>
          /\ read_pos < write_pos /\ read_pos' = (read_pos + 1) % POS_RANGE
      BY <2>11 DEF cons_msg_pop, At
    <3>2. read_pos' = read_pos + 1
      BY <3>1, NoWrap
    <3>3. Fits(y, "draw")
      BY <1>0, <3>1, <3>2 DEF Fits, Runner, Left
    <3> QED BY <3>3, <1>k
  <2>12. CASE cons_done(y)
    <3>1. /\ point[y] = "pop" /\ GoesTo(y, "return") /\ UNCHANGED <<read_pos, write_pos, calls>>
          /\ run_lock' = 0 /\ ~(read_pos < write_pos)
      BY <2>12 DEF cons_done, At
    <3>2. Fits(y, "return")
      BY <1>0, <3>1 DEF Fits, Runner, Left
    <3> QED BY <3>2, <1>k
  <2>13. CASE Draw(y)
    BY <2>13, <1>s_drain DEF Draw, At, queue
  <2>14. CASE Return(y)
    BY <2>14, <1>s_drain DEF Return, At, queue
  <2> QED BY <1>2, <2>1, <2>2, <2>3, <2>4, <2>5, <2>6, <2>7, <2>8, <2>9, <2>10, <2>11,
             <2>12, <2>13, <2>14, Zenon DEF Step
<1>3. CASE UNCHANGED consvars
  BY <1>3 DEF consvars, queue, QueueInv, Pre
<1> QED BY <1>1, <1>2, <1>3 DEF ConsNext, Done

\* When nobody is in cons_putstr the queue is empty: the context that releases run_lock
\* has seen it empty under the queue's lock, and one that adds a message after that
\* finds run_lock free.
THEOREM NothingLeftHolds == ConsSpec => []NothingLeft
<1>1. QueueInv => NothingLeft
  BY DEF QueueInv, NothingLeft, Drains
<1> QED BY <1>1, LockInit, LockNext, QueueInit, QueueNext, PTL DEF ConsSpec
-------------------------------------------------------------------------------
\* Less than a queue apart, two messages are in different slots.
LEMMA SlotsApart ==
    ASSUME NEW q \in Nat, q > 0, NEW a \in Nat, NEW b \in Nat, a < b, b - a < q
    PROVE  a % q # b % q
<1>1. a - q * (a \div q) = a % q /\ a \div q \in Int
  OBVIOUS
<1>2. b - q * (b \div q) = b % q /\ b \div q \in Int
  OBVIOUS
<1>3. ASSUME NEW d \in Int, NEW e \in Int, b - a = q * e - q * d PROVE FALSE
  <2>1. q * e - q * d = q * (e - d) /\ e - d \in Int
    OBVIOUS
  <2>2. ASSUME NEW f \in Int, f <= 0 PROVE q * f <= 0
    BY <2>2
  <2>3. ASSUME NEW f \in Int, f >= 1 PROVE q * f >= q
    BY <2>3
  <2>4. CASE e - d <= 0
    <3>1. q * (e - d) <= 0
      BY <2>1, <2>2, <2>4
    <3> QED BY <3>1, <2>1, <1>3
  <2>5. CASE e - d >= 1
    <3>1. q * (e - d) >= q
      BY <2>1, <2>3, <2>5
    <3> QED BY <3>1, <2>1, <1>3
  <2> QED BY <2>1, <2>4, <2>5
<1>4. SUFFICES ASSUME a % q = b % q PROVE FALSE
  OBVIOUS
<1>5. b - a = q * (b \div q) - q * (a \div q)
  BY <1>1, <1>2, <1>4
<1> QED BY <1>1, <1>2, <1>3, <1>5, Zenon

LEMMA BufInit == ConsInit => BufInv
<1> SUFFICES ASSUME ConsInit PROVE BufInv
  OBVIOUS
<1>1. /\ MAX_MSG_QUEUE \in Nat /\ MAX_CONSOLE_BUF \in Nat
  BY ConsoleAssumption
<1>2. wraps = <<0>> /\ write_pos = 0
  BY DEF ConsInit
<1>3. wraps \in Seq(Nat) /\ Len(wraps) = write_pos + 1 /\ wraps[1] = 0
  BY <1>2
<1>4. msg \in [0..MAX_MSG_QUEUE-1 -> Int \X Int \X Int] /\ buf \in [0..MAX_CONSOLE_BUF-1 -> Int]
  BY <1>1 DEF ConsInit
<1> QED BY <1>1, <1>2, <1>3, <1>4 DEF ConsInit, BufInv

LEMMA BufPush ==
    ASSUME LockInv, QueueInv, BufInv, NEW y \in Ctx, NEW size \in Sizes, cons_msg_putstr(y, size)
    PROVE  BufInv'
<1> DEFINE Q == MAX_MSG_QUEUE
           w == write_pos
           fits == pos + size <= MAX_CONSOLE_BUF
           p == IF fits THEN pos ELSE 0
           d == IF fits THEN 0 ELSE 1
<1>a. /\ Q \in Nat /\ Q > 0 /\ MAX_CONSOLE_BUF \in Nat /\ w \in Nat
      /\ size \in Nat /\ size < MAX_CONSOLE_BUF
  BY ConsoleAssumption DEF QueueInv
<1>b. pos \in Nat /\ pos <= MAX_CONSOLE_BUF
  BY <1>a DEF BufInv
<1>c. w % Q \in 0..Q-1
  BY <1>a
<1>d. p \in Nat /\ p + size <= MAX_CONSOLE_BUF /\ d \in {0, 1}
  BY <1>a, <1>b
<1>0. /\ Q \in Nat /\ Q > 0 /\ MAX_CONSOLE_BUF \in Nat /\ w \in Nat /\ pos \in Nat
      /\ size \in Nat /\ size < MAX_CONSOLE_BUF /\ w % Q \in 0..Q-1
      /\ p \in Nat /\ p + size <= MAX_CONSOLE_BUF /\ d \in {0, 1}
  BY <1>a, <1>b, <1>c, <1>d
<1>1. write_pos' = w + 1
  BY NoWrap DEF cons_msg_putstr, cons_msg_push, At, BeforePush
<1>2. /\ pos' = IF fits THEN pos + size ELSE 0
      /\ buf' = [k \in DOMAIN buf |-> IF k \in p..p+size-1 THEN w ELSE buf[k]]
      /\ msg' = [msg EXCEPT ![w % Q] = <<p, size, w>>]
  BY DEF cons_msg_putstr, cons_buffer_alloc, cons_msg_push
<1>3. wraps' = Append(wraps, wraps[Len(wraps)] + d)
  BY DEF cons_msg_putstr
<1>4. /\ wraps' \in Seq(Nat) /\ Len(wraps') = w + 2
      /\ \A j \in 1..w+1 : wraps'[j] = wraps[j] /\ wraps[j] \in Nat
      /\ wraps'[w+2] = wraps[w+1] + d
  <2> HIDE DEF d
  <2>1. wraps \in Seq(Nat) /\ Len(wraps) = w + 1 /\ wraps[w+1] \in Nat /\ wraps[w+1] + d \in Nat
    <3>1. wraps \in Seq(Nat) /\ Len(wraps) = w + 1
      BY DEF BufInv
    <3> QED BY <1>a, <1>d, <3>1
  <2> QED BY <1>a, <1>3, <2>1
<1>5. \A j \in 1..w+2 : wraps'[j] <= wraps'[w+2]
  <2> HIDE DEF d
  <2>1. \A j \in 1..w+1 : wraps[j] <= wraps[w+1]
    BY DEF BufInv
  <2>2. wraps[w+1] \in Nat /\ d \in {0, 1}
    BY <1>a, <1>d, <1>4
  <2>3. ASSUME NEW j \in 1..w+1 PROVE wraps'[j] <= wraps'[w+2]
    <3>1. wraps'[j] = wraps[j] /\ wraps[j] \in Nat /\ wraps[j] <= wraps[w+1]
      BY <1>4, <2>1
    <3> QED BY <3>1, <2>2, <1>4
  <2> QED BY <1>a, <1>4, <2>2, <2>3
<1>6. /\ msg' \in [0..Q-1 -> Int \X Int \X Int] /\ buf' \in [0..MAX_CONSOLE_BUF-1 -> Int]
      /\ pos' \in 0..MAX_CONSOLE_BUF
  <2>1. pos' \in 0..MAX_CONSOLE_BUF
    BY <1>a, <1>b, <1>2
  <2> HIDE DEF p
  <2>2. msg' \in [0..Q-1 -> Int \X Int \X Int]
    <3>1. <<p, size, w>> \in Int \X Int \X Int
      BY <1>a, <1>d
    <3>2. msg \in [0..Q-1 -> Int \X Int \X Int]
      BY DEF BufInv
    <3> QED BY <1>2, <3>1, <3>2, Zenon
  <2>3. buf \in [0..MAX_CONSOLE_BUF-1 -> Int] /\ w \in Int
    BY <1>a DEF BufInv
  <2>4. buf' \in [0..MAX_CONSOLE_BUF-1 -> Int]
    BY <1>2, <2>3
  <2> QED BY <2>1, <2>2, <2>4
<1>7. ASSUME NEW n \in 0..w, w + 1 - n <= Q PROVE Kept(n)'
  <2>1. CASE n = w
    <3>1. msg'[n % Q] = <<p, size, n>>
      BY <1>0, <1>2, <2>1 DEF BufInv
    <3>2. ASSUME wraps'[n+1] = wraps'[w+2]
          PROVE  p + size <= pos' /\ \A k \in p..p+size-1 : buf'[k] = n
      <4>1. d = 0
        BY <1>0, <1>4, <2>1, <3>2
      <4> QED BY <4>1, <1>0, <1>2, <2>1 DEF BufInv
    <3> HIDE DEF p, d
    <3> QED BY <3>1, <3>2, <1>0, <1>1, <2>1 DEF Kept
  <2>2. CASE n < w
    <3>0. n \in 0..w-1 /\ n \in Nat /\ w - n <= Q /\ w - n < Q
      BY <1>a, <1>7, <2>2
    <3>a. Kept(n)
      BY <3>0 DEF BufInv
    <3>b. n % Q # w % Q
      BY <1>a, <2>2, <3>0, SlotsApart
    <3>1. Kept(n) /\ n % Q # w % Q /\ n % Q \in 0..Q-1
      BY <3>0, <3>a, <3>b, <1>a
    <3>2. msg'[n % Q] = msg[n % Q]
      BY <3>1, <1>0, <1>2 DEF BufInv
    <3>3. ASSUME wraps'[n+1] = wraps'[w+2] PROVE wraps[n+1] = wraps[w+1] /\ fits
      <4>1. wraps[n+1] <= wraps[w+1] /\ wraps[n+1] = wraps[w+1] + d
            /\ wraps[n+1] \in Nat /\ wraps[w+1] \in Nat
        BY <1>0, <1>4, <2>2, <3>3 DEF BufInv
      <4> QED BY <4>1, <1>0
    <3>4. ASSUME NEW a \in Nat, NEW b \in Nat, a + b <= pos, fits, \A k \in a..a+b-1 : buf[k] = n
          PROVE  a + b <= pos' /\ \A k \in a..a+b-1 : buf'[k] = n
      <4>1. pos' = pos + size /\ p = pos
        BY <1>2, <3>4
      <4>2. ASSUME NEW k \in a..a+b-1 PROVE buf'[k] = n
        <5> HIDE DEF p
        <5>1. DOMAIN buf = 0..MAX_CONSOLE_BUF-1
          BY DEF BufInv
        <5>2. k \in 0..MAX_CONSOLE_BUF-1 /\ k \notin p..p+size-1 /\ buf[k] = n
          BY <1>a, <1>b, <3>4, <4>1
        <5> QED BY <1>2, <5>1, <5>2
      <4> QED BY <1>a, <1>b, <3>4, <4>1, <4>2
    <3> HIDE DEF p, d, fits
    <3>5. ASSUME wraps'[n+1] = wraps'[write_pos'+1]
          PROVE  LET m == msg[n % Q] IN
                 /\ m[1] \in Nat /\ m[2] \in Nat /\ m[1] + m[2] <= pos'
                 /\ \A k \in m[1]..m[1]+m[2]-1 : buf'[k] = n
      <4>1. wraps'[n+1] = wraps'[w+2]
        BY <1>1, <1>a, <3>5
      <4>2. wraps[n+1] = wraps[w+1] /\ fits
        BY <4>1, <3>3
      <4> DEFINE a == msg[n % Q][1]
                 b == msg[n % Q][2]
      <4>3. a \in Nat /\ b \in Nat /\ a + b <= pos /\ \A k \in a..a+b-1 : buf[k] = n
        BY <3>1, <4>2 DEF Kept
      <4>4. a + b <= pos' /\ \A k \in a..a+b-1 : buf'[k] = n
        <5> HIDE DEF a, b
        <5> QED BY <4>2, <4>3, <3>4
      <4> QED BY <4>3, <4>4
    <3> QED BY <3>1, <3>2, <3>5 DEF Kept
  <2> QED BY <2>1, <2>2, <1>a
<1>8. ASSUME NEW n \in 0..write_pos'-1, write_pos' - n <= Q PROVE Kept(n)'
  BY <1>a, <1>1, <1>7, <1>8
<1>9. /\ Len(wraps') = write_pos' + 1
      /\ \A j \in 1..write_pos'+1 : wraps'[j] <= wraps'[write_pos'+1]
  <2>1. write_pos' + 1 = w + 2
    BY <1>a, <1>1
  <2> QED BY <2>1, <1>4, <1>5
<1> HIDE DEF w, Q, p, d, fits
<1> QED BY <1>4, <1>6, <1>8, <1>9 DEF BufInv, Q

LEMMA BufNext == LockInv /\ QueueInv /\ BufInv /\ [ConsNext]_consvars => BufInv'
<1> SUFFICES ASSUME LockInv, QueueInv, BufInv, [ConsNext]_consvars PROVE BufInv'
  OBVIOUS
<1>1. ASSUME NEW y \in Ctx, NEW size \in Sizes, cons_msg_putstr(y, size) PROVE BufInv'
  BY <1>1, BufPush
<1>2. CASE UNCHANGED <<write_pos, msg, pos, buf, wraps>>
  BY <1>2 DEF BufInv, Kept
<1>3. ASSUME NEW y \in Ctx, Step(y), \A n \in Sizes : ~cons_msg_putstr(y, n)
      PROVE  UNCHANGED <<write_pos, msg, pos, buf, wraps>>
  BY <1>3, Zenon DEF Step, queue, console_splhi, console_lock, console_draw, console_unlock, cons_splhi,
       Acquire, cons_run, cons_drain, cons_msg_pop, cons_done, Draw, Return
<1> QED BY <1>1, <1>2, <1>3, Zenon DEF ConsNext, Call, Done, consvars, queue

\* A step that neither pops nor draws.
LEMMA DrawSame ==
    ASSUME LockInv, DrawnInv, NEW y \in Ctx, NEW to, GoesTo(y, to), point[y] # "draw", to # "draw",
           UNCHANGED <<read_pos, popped, drawn>>
    PROVE  DrawnInv'
BY DEF LockInv, DrawnInv, DrawnInOrder, GoesTo

LEMMA DrawPop ==
    ASSUME LockInv, QueueInv, DrawnInv, NEW y \in Ctx, cons_msg_pop(y)
    PROVE  DrawnInv'
<1>1. /\ point[y] = "pop" /\ GoesTo(y, "draw") /\ drawn' = drawn
      /\ popped' = [popped EXCEPT ![y] = read_pos] /\ read_pos \in Nat
      /\ read_pos < write_pos /\ read_pos' = (read_pos + 1) % POS_RANGE
  <2>1. write_pos \in Nat /\ read_pos \in 0..write_pos
    BY Zenon DEF QueueInv
  <2>2. read_pos \in Nat
    BY <2>1
  <2> QED
    BY <2>2, Zenon DEF cons_msg_pop, At
<1>2. read_pos' = read_pos + 1
  BY <1>1, NoWrap
<1>3. \A x \in Ctx : point[x] # "draw"
  BY <1>1 DEF QueueInv, Drains
<1>4. \A x \in Ctx : point'[x] = "draw" => x = y
  BY <1>1, <1>3 DEF LockInv, GoesTo
<1>5. point'[y] = "draw"
  BY <1>1 DEF LockInv, GoesTo
<1>6. popped' = [x \in Ctx |-> popped'[x]] /\ popped'[y] = read_pos
  BY <1>1, Zenon DEF DrawnInv
<1>7. Len(drawn') = read_pos
  BY <1>1, <1>3 DEF DrawnInv
<1> QED BY <1>1, <1>2, <1>4, <1>5, <1>6, <1>7 DEF DrawnInv, DrawnInOrder

\* The message drawn is the next one, and in its slot and in the buffer if it is safe.
LEMMA DrawDraw ==
    ASSUME LockInv, QueueInv, BufInv, DrawnInv, NEW y \in Ctx, Draw(y)
    PROVE  DrawnInv'
<1> DEFINE n == popped[y]
           m == msg[n % MAX_MSG_QUEUE]
           whole == m[3] = n /\ \A k \in m[1]..m[1]+m[2]-1 : buf[k] = n
           safe == write_pos - n <= MAX_MSG_QUEUE /\ wraps[n+1] = wraps[Len(wraps)]
           r == [number |-> n, whole |-> whole, safe |-> safe]
<1>1. /\ point[y] = "draw" /\ GoesTo(y, "drain") /\ UNCHANGED <<popped, read_pos>>
      /\ drawn' = Append(drawn, r)
  BY DEF Draw, At, queue
<1>2. /\ n = read_pos - 1 /\ n \in Nat /\ Len(drawn) = n
      /\ read_pos \in Nat /\ write_pos \in Nat /\ n \in 0..write_pos-1
  BY <1>1, SMTT(30) DEF DrawnInv, QueueInv
<1>3. safe => whole
  <2>1. SUFFICES ASSUME safe PROVE whole
    OBVIOUS
  <2>2. Kept(n) /\ wraps[n+1] = wraps[write_pos+1]
    BY <1>2, <2>1 DEF BufInv
  <2> QED BY <2>2, Zenon DEF Kept
<1>4. r \in [number : Int, whole : BOOLEAN, safe : BOOLEAN] /\ r.number = n /\ (r.safe => r.whole)
  <2> HIDE DEF n, whole, safe
  <2>1. whole \in BOOLEAN /\ safe \in BOOLEAN /\ n \in Int
    BY <1>2 DEF whole, safe
  <2> QED BY <2>1, <1>3
<1> HIDE DEF r, whole, safe, n
<1>5. drawn \in Seq([number : Int, whole : BOOLEAN, safe : BOOLEAN]) /\ DrawnInOrder
  BY DEF DrawnInv
<1>6. /\ drawn' \in Seq([number : Int, whole : BOOLEAN, safe : BOOLEAN]) /\ Len(drawn') = n + 1
      /\ \A j \in 1..n : drawn'[j] = drawn[j]
      /\ drawn'[n+1] = r
  BY <1>1, <1>2, <1>4, <1>5
<1>7. DrawnInOrder'
  <2>1. \A j \in 1..n : drawn[j].number = j - 1 /\ (drawn[j].safe => drawn[j].whole)
    BY <1>2, <1>5 DEF DrawnInOrder
  <2>2. ASSUME NEW j \in 1..n+1
        PROVE  drawn'[j].number = j - 1 /\ (drawn'[j].safe => drawn'[j].whole)
    <3>1. CASE j \in 1..n
      BY <3>1, <2>1, <1>6
    <3>2. CASE j = n + 1
      <4>1. drawn'[j] = r /\ n = j - 1
        BY <3>2, <1>2, <1>6
      <4> QED BY <4>1, <1>4
    <3> QED BY <3>1, <3>2, <1>2
  <2>3. Len(drawn') = n + 1
    BY <1>6
  <2> QED BY <2>2, <2>3 DEF DrawnInOrder
<1>8. \A x \in Ctx : point'[x] # "draw"
  BY <1>1 DEF LockInv, QueueInv, Drains, GoesTo
<1>9. Len(drawn') = read_pos'
  BY <1>1, <1>2, <1>6
<1> QED BY <1>1, <1>6, <1>7, <1>8, <1>9 DEF DrawnInv

LEMMA DrawNext == LockInv /\ QueueInv /\ BufInv /\ DrawnInv /\ [ConsNext]_consvars => DrawnInv'
<1> SUFFICES ASSUME LockInv, QueueInv, BufInv, DrawnInv, [ConsNext]_consvars PROVE DrawnInv'
  OBVIOUS
<1>1. ASSUME NEW y \in Ctx, cons_msg_pop(y) PROVE DrawnInv'
  BY <1>1, DrawPop
<1>2. ASSUME NEW y \in Ctx, Draw(y) PROVE DrawnInv'
  BY <1>2, DrawDraw
<1>3. ASSUME NEW y \in Ctx, NEW fn \in Calls, Call(y, fn) PROVE DrawnInv'
  <2>1. fn # "draw"
    BY ConsoleAssumption
  <2> QED BY <1>3, <2>1, DrawSame DEF Call, At, queue
<1>4. ASSUME NEW y \in Ctx, Step(y), ~cons_msg_pop(y), ~Draw(y) PROVE DrawnInv'
  <2>1. ASSUME NEW n \in Sizes, cons_msg_putstr(y, n) PROVE DrawnInv'
    <3>1. point[y] = "push" /\ GoesTo(y, "run_lock") /\ UNCHANGED <<read_pos, popped, drawn>>
      BY <2>1 DEF cons_msg_putstr, At
    <3> QED BY <3>1, DrawSame, Zenon
  <2>2. ASSUME \A n \in Sizes : ~cons_msg_putstr(y, n) PROVE DrawnInv'
    <3>1. /\ UNCHANGED <<read_pos, popped, drawn>> /\ point[y] # "draw"
          /\ \E to \in {"console_lock", "first", "last", "console_unlock", "return", "cons_lock",
                        "push", "drain", "drain_lock", "pop", "idle"} : GoesTo(y, to)
      BY <1>4, <2>2, Zenon DEF Step, At, queue, console_splhi, cpu_splhi, console_lock, console_draw,
           console_unlock, cons_splhi, Acquire, cons_run, cons_drain, cons_done, Return
    <3> QED BY <3>1, DrawSame
  <2> QED BY <2>1, <2>2
<1>5. CASE UNCHANGED consvars
  BY <1>5 DEF consvars, queue, DrawnInv, DrawnInOrder
<1> QED BY <1>1, <1>2, <1>3, <1>4, <1>5 DEF ConsNext, Done

LEMMA DrawInit == ConsInit => DrawnInv
BY DEF ConsInit, DrawnInv, DrawnInOrder

\* The messages are drawn in the order of cons_msg_push, each one once, and whole unless
\* the queue or the buffer came round to it, whatever MAX_MSG_QUEUE and MAX_CONSOLE_BUF are.
THEOREM DrawnInOrderHolds == ConsSpec => []DrawnInOrder
<1>1. DrawnInv => DrawnInOrder
  BY DEF DrawnInv
<1> QED BY <1>1, LockInit, LockNext, QueueInit, QueueNext, BufInit, BufNext, DrawInit, DrawNext,
           PTL DEF ConsSpec
==============================================================================
