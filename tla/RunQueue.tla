------------------------------ MODULE RunQueue ------------------------------
(***************************************************************************)
(* The pure part of sched.c: what the scheduler computes from one CPU's    *)
(* thread ring.  A ring is a sequence whose first element is cpu->threads  *)
(* (the idle thread); thread_t's fields are functions on threads.          *)
(***************************************************************************)
EXTENDS Naturals, Sequences, Functions

CONSTANTS
  THREAD_DEFAULT_PRI,  \* thread.h; every thread's pri, which no code changes
  SleepMod             \* 2^w, w the width of thread_t.sleep_time

ASSUME PriAssumption == THREAD_DEFAULT_PRI \in Nat \ {0}
ASSUME WidthAssumption == SleepMod \in Nat \ {0}

RUNNING == "RUNNING"
SLEEPING == "SLEEPING"

\* Definitions whose name has a suffix Bad... are faulty variants of the one
\* they precede; each shows that a property notices the fault.
queue_push_backBadFront(ring, t) == <<t>> \o ring

\* queue_push_back: the new element goes between the last one and the head.
queue_push_back(ring, t) == Append(ring, t)

\* The order in which a scan that begins at threads->next meets the ring.
ScanOrder(ring) == [i \in DOMAIN ring |-> ring[(i % Len(ring)) + 1]]

FirstBestBadState(order, state, cnt, i) ==
  \A j \in DOMAIN order :
     \/ cnt[order[j]] < cnt[order[i]]
     \/ cnt[order[j]] = cnt[order[i]] /\ i <= j

FirstBestBadTie(order, state, cnt, i) ==
  /\ state[order[i]] = RUNNING
  /\ \A j \in DOMAIN order : state[order[j]] = RUNNING =>
        \/ cnt[order[j]] < cnt[order[i]]
        \/ cnt[order[j]] = cnt[order[i]] /\ j <= i

\* t is the first of the RUNNING threads with the largest cnt (the scan keeps
\* a thread only if its cnt is strictly larger than the best one so far).
FirstBest(order, state, cnt, i) ==
  /\ state[order[i]] = RUNNING
  /\ \A j \in DOMAIN order : state[order[j]] = RUNNING =>
        \/ cnt[order[j]] < cnt[order[i]]
        \/ cnt[order[j]] = cnt[order[i]] /\ i <= j

\* sched_find(threads->next); with no RUNNING thread, where the scan began.
sched_find(ring, state, cnt) ==
  LET order == ScanOrder(ring)
  IN IF \E i \in DOMAIN order : state[order[i]] = RUNNING
     THEN order[CHOOSE i \in DOMAIN order : FirstBest(order, state, cnt, i)]
     ELSE order[1]

replenishBadNone(ring, cnt) == cnt

\* The loop in sched_next that gives every thread but the head new counts.
replenish(ring, cnt) ==
  [t \in DOMAIN cnt |-> IF t \in Range(Tail(ring))
                        THEN (cnt[t] \div 2) + THREAD_DEFAULT_PRI
                        ELSE cnt[t]]

\* The counts sched_next leaves behind.
sched_next_cnt(ring, state, cnt) ==
  IF cnt[sched_find(ring, state, cnt)] = 0 THEN replenish(ring, cnt) ELSE cnt

\* The thread sched_next switches to (the current one: no switch).
sched_next(ring, state, cnt) ==
  sched_find(ring, state, sched_next_cnt(ring, state, cnt))

TimedSleepersBadFlag(ring, state, timer) ==
  {t \in Range(ring) : state[t] = SLEEPING}

\* sched_check_sleeping: the threads whose sleep_time it decrements, what is
\* left of it, and what becomes of the threads it wakes.
TimedSleepers(ring, state, timer) ==
  {t \in Range(ring) : state[t] = SLEEPING /\ timer[t]}

countdown(sleep_time, sleepers) ==
  [t \in DOMAIN sleep_time |-> IF t \in sleepers
                               THEN (sleep_time[t] + SleepMod - 1) % SleepMod
                               ELSE sleep_time[t]]

woken_state(state, woken) ==
  [t \in DOMAIN state |-> IF t \in woken THEN RUNNING ELSE state[t]]

woken_cnt(cnt, woken) ==
  [t \in DOMAIN cnt |-> IF t \in woken THEN THREAD_DEFAULT_PRI ELSE cnt[t]]

\* sched_tick's charge to the current thread: --cnt, never left below zero.
charge(cnt, t) == [cnt EXCEPT ![t] = IF @ > 1 THEN @ - 1 ELSE 0]
=============================================================================
