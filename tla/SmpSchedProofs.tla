---------------------------- MODULE SmpSchedProofs ----------------------------
(***************************************************************************)
(* Smp implements one Sched per CPU, for any number of CPUs and threads.   *)
(***************************************************************************)
EXTENDS SmpSched, SmpProofs

\* What CPU c's scheduler knows of a table of all threads.
Here(c, f) == [t \in On(c) |-> f[t]]

\* The call that a thread of CPU c that is switched out returns from.
Saved(c) == [t \in On(c) |-> IF t # cur_thread[c] /\ pc[t] = "unlock_splx"
                             THEN call[t] ELSE "none"]

\* Sched's copies of RunQueue's operators are RunQueue's: first the scan,
\* then sched_next.
LEMMA SchedFind ==
  ASSUME NEW c \in Cpu, NEW ring, NEW st, NEW cn
  PROVE  S(c)!sched_find(ring, st, cn) = sched_find(ring, st, cn)
<1> DEFINE order == ScanOrder(ring)
<1>1. S(c)!ScanOrder(ring) = order
  BY DEF S!ScanOrder, ScanOrder
<1>2. S(c)!RUNNING = RUNNING
  BY DEF S!RUNNING, RUNNING
<1> HIDE DEF order
<1>3. \A i \in DOMAIN order : S(c)!FirstBest(order, st, cn, i) <=> FirstBest(order, st, cn, i)
  BY <1>2 DEF S!FirstBest, FirstBest
<1> DEFINE first == CHOOSE i \in DOMAIN order : FirstBest(order, st, cn, i)
           firstS == CHOOSE i \in DOMAIN order : S(c)!FirstBest(order, st, cn, i)
<1>4. firstS = first
  BY <1>3, Zenon
<1>5. S(c)!sched_find(ring, st, cn) =
        IF \E i \in DOMAIN order : st[order[i]] = S(c)!RUNNING THEN order[firstS] ELSE order[1]
  BY <1>1 DEF S!sched_find
<1>6. sched_find(ring, st, cn) =
        IF \E i \in DOMAIN order : st[order[i]] = RUNNING THEN order[first] ELSE order[1]
  BY DEF sched_find, order
<1> HIDE DEF first, firstS
<1> QED
  BY <1>2, <1>4, <1>5, <1>6

LEMMA SchedCopies ==
  ASSUME NEW c \in Cpu
  PROVE  /\ S(c)!RUNNING = RUNNING /\ S(c)!SLEEPING = SLEEPING
         /\ \A ring, st, cn : /\ S(c)!sched_next_cnt(ring, st, cn) = sched_next_cnt(ring, st, cn)
                              /\ S(c)!sched_next(ring, st, cn) = sched_next(ring, st, cn)
<1>1. ASSUME NEW ring, NEW st, NEW cn
      PROVE  S(c)!sched_next_cnt(ring, st, cn) = sched_next_cnt(ring, st, cn)
  <2>1. S(c)!replenish(ring, cn) = replenish(ring, cn)
    BY Zenon DEF S!replenish, replenish, S!Range, Range
  <2>2. S(c)!sched_find(ring, st, cn) = sched_find(ring, st, cn)
    BY SchedFind
  <2> QED
    BY <2>1, <2>2 DEF S!sched_next_cnt, sched_next_cnt
<1>2. \A ring, st, cn : S(c)!sched_next(ring, st, cn) = sched_next(ring, st, cn)
  BY <1>1, SchedFind DEF S!sched_next, sched_next
<1> QED
  BY <1>1, <1>2 DEF S!RUNNING, RUNNING, S!SLEEPING, SLEEPING

\* Threads run on the CPU they are created for.
HomeInv == \A t \in Thread : cpu_id[t] = Home[t]

\* The threads of CPU c are the ones whose cpu_id is c; its ring and the thread
\* it runs are among them.
LEMMA OnFacts ==
  ASSUME SmpInv, HomeInv, NEW c \in Cpu
  PROVE  /\ On(c) \subseteq All
         /\ \A t \in All : t \in On(c) <=> cpu_id[t] = c
         /\ threads[c] \in Seq(On(c)) /\ threads[c] # <<>>
         /\ Range(threads[c]) \subseteq On(c)
         /\ Head(threads[c]) = Idle[c]
         /\ cur_thread[c] \in On(c)
<1>1. /\ Idle[c] \in All /\ \A d \in Cpu : Idle[d] = Idle[c] => d = c
  BY SmpAssumption
<1>2. On(c) \subseteq All
  BY <1>1 DEF On, All
<1>3. ASSUME NEW t \in All PROVE t \in On(c) <=> cpu_id[t] = c
  <2>1. CASE t \in Thread
    BY <2>1, SmpAssumption DEF On, HomeInv, Range
  <2>2. CASE t \notin Thread
    <3>1. PICK d \in Cpu : t = Idle[d]
      BY <2>2, SmpAssumption DEF All, Range
    <3>2. cpu_id[t] = d
      BY <3>1, IdleHome
    <3> QED
      BY <1>1, <2>2, <3>1, <3>2 DEF On
  <2> QED
    BY <2>1, <2>2
<1>4. /\ threads[c] \in Seq(All) /\ threads[c] # <<>> /\ Head(threads[c]) = Idle[c]
      /\ \A t \in All : t \in Range(threads[c]) => cpu_id[t] = c
  BY DEF SmpInv, TypeOK, RingsDisjoint
<1>5. Range(threads[c]) \subseteq On(c)
  BY <1>3, <1>4, SeqFacts DEF Range
<1>6. threads[c] \in Seq(On(c))
  BY <1>4, <1>5, SeqFacts DEF Range
<1>7. cur_thread[c] \in All /\ cpu_id[cur_thread[c]] = c
  BY CurFacts
<1> QED
  BY <1>2, <1>3, <1>4, <1>5, <1>6, <1>7

\* The thread on CPU c, alone on its ring, goes where it waits in the call fn.
Leaves(c, fn) ==
  /\ call' = call
  /\ \A u \in On(c) : u # cur_thread[c] => pc'[u] = pc[u]
  /\ fn = IF pc'[cur_thread[c]] = "unlock_splx" THEN call[cur_thread[c]] ELSE "none"

CntOK(cn) == cn \in [All -> Nat] /\ \A u \in All : cn[u] <= 2 * THREAD_DEFAULT_PRI - 1

\* The saved contexts after a switch: the thread that leaves is in call fn, the
\* one that comes out is in none.
LEMMA SavedSwitch ==
  ASSUME SmpInv, HomeInv, NEW c \in Cpu, NEW n \in On(c), NEW fn, Leaves(c, fn),
         cur_thread' = [cur_thread EXCEPT ![c] = n]
  PROVE  Saved(c)' = [Saved(c) EXCEPT ![cur_thread[c]] = fn, ![n] = "none"]
<1> DEFINE t == cur_thread[c]
<1>1. t \in On(c) /\ cur_thread'[c] = n
  <2>1. cur_thread \in [Cpu -> All]
    BY DEF SmpInv, TypeOK
  <2> QED
    BY <2>1, OnFacts
<1>2. ASSUME NEW u \in On(c)
      PROVE  Saved(c)'[u] = IF u = n THEN "none" ELSE IF u = t THEN fn ELSE Saved(c)[u]
  BY <1>1, <1>2 DEF Saved, Leaves
<1> QED
  BY <1>1, <1>2, Zenon DEF Saved

\* sched_next reads and writes only the threads of the ring.
LEMMA NextHere ==
  ASSUME NEW c, NEW ring \in Seq(On(c)), ring # <<>>, NEW st, NEW cn,
         On(c) \subseteq DOMAIN cn, NEW B \in Nat,
         \A t \in On(c) : cn[t] \in Nat /\ cn[t] <= B
  PROVE  /\ sched_next(ring, Here(c, st), Here(c, cn)) = sched_next(ring, st, cn)
         /\ sched_next_cnt(ring, Here(c, st), Here(c, cn))
               = Here(c, sched_next_cnt(ring, st, cn))
<1>1. PICK D : D = On(c)
  OBVIOUS
<1>2. PICK stD, cnD : stD = Here(c, st) /\ cnD = Here(c, cn)
  OBVIOUS
<1>3. /\ ring \in Seq(D) /\ D \subseteq DOMAIN cn /\ cnD \in [D -> Nat]
      /\ \A t \in D : stD[t] = st[t] /\ cnD[t] = cn[t]
      /\ \E b \in Nat : \A t \in D : cnD[t] <= b
  BY <1>1, <1>2 DEF Here
<1>4. sched_next(ring, stD, cnD) = sched_next(ring, st, cn)
  BY <1>3, NextReadsRing
<1>5. sched_next_cnt(ring, stD, cnD) = [t \in D |-> sched_next_cnt(ring, st, cn)[t]]
  BY <1>3, NextReadsRing
<1> QED
  BY <1>1, <1>2, <1>4, <1>5 DEF Here

\* sched_next on CPU c is the sched_next of its Sched.
LEMMA SchedSwitch ==
  ASSUME SmpInv, HomeInv, NEW c \in Cpu, NEW st, NEW cn, CntOK(cn),
         SwitchFrom(c, st, cn), NEW fn, Leaves(c, fn)
  PROVE  S(c)!SwitchFrom(fn, Here(c, st), Here(c, cn))
<1> DEFINE n == sched_next(threads[c], st, cn)
<1>1. /\ On(c) \in SUBSET All /\ threads[c] \in Seq(On(c)) /\ threads[c] # <<>>
      /\ Range(threads[c]) \subseteq On(c)
  BY OnFacts
<1>0. cn \in [All -> Nat] /\ \A u \in All : cn[u] <= 2 * THREAD_DEFAULT_PRI - 1
  BY DEF CntOK
<1>2. PICK B \in Nat : \A u \in All : cn[u] <= B
  <2>1. 2 * THREAD_DEFAULT_PRI - 1 \in Nat
    BY PriAssumption
  <2> QED
    BY <1>0, <2>1
<1>3. /\ sched_next(threads[c], Here(c, st), Here(c, cn)) = n
      /\ sched_next_cnt(threads[c], Here(c, st), Here(c, cn))
           = Here(c, sched_next_cnt(threads[c], st, cn))
  <2>1. On(c) \subseteq DOMAIN cn /\ \A t \in On(c) : cn[t] \in Nat /\ cn[t] <= B
    BY <1>0, <1>1, <1>2
  <2> QED
    BY <1>1, <1>2, <2>1, NextHere
<1>8. PICK a, b : a = Here(c, st) /\ b = Here(c, cn)
  OBVIOUS
<1>4. n \in On(c)
  <2>1. /\ threads[c] \in Seq(All)
        /\ \A i, j \in DOMAIN threads[c] : threads[c][i] = threads[c][j] => i = j
    BY DEF SmpInv, TypeOK, RingsDisjoint
  <2>2. n \in Range(threads[c])
    BY <1>0, <1>1, <2>1, SchedNextCorrect, ZenonT(60)
  <2> QED
    BY <1>1, <2>2
<1>5. /\ state' = st /\ cnt' = sched_next_cnt(threads[c], st, cn)
      /\ cur_thread' = [cur_thread EXCEPT ![c] = n]
  BY DEF SwitchFrom
<1> HIDE DEF n
<1>6. Saved(c)' = [Saved(c) EXCEPT ![cur_thread[c]] = fn, ![n] = "none"]
  BY <1>4, <1>5, SavedSwitch, Zenon
<1>7. cur_thread'[c] = n
  BY <1>5 DEF SmpInv, TypeOK
<1>9. /\ S(c)!sched_next(threads[c], a, b) = cur_thread'[c]
      /\ S(c)!sched_next_cnt(threads[c], a, b) = Here(c, cnt')
      /\ a = Here(c, state')
  BY <1>3, <1>5, <1>7, <1>8, SchedCopies, SMTT(30)
<1>10. S(c)!SwitchFrom(fn, a, b)
  BY <1>6, <1>7, <1>9, Zenon DEF S!SwitchFrom, Here, Saved
<1> QED
  BY <1>8, <1>10

\* A step that leaves alone what CPU d's scheduler sees.
LEMMA SchedSame ==
  ASSUME NEW d \in Cpu, threads'[d] = threads[d], cur_thread'[d] = cur_thread[d],
         \A u \in On(d) : /\ state'[u] = state[u] /\ cnt'[u] = cnt[u]
                          /\ sleep_time'[u] = sleep_time[u] /\ timer'[u] = timer[u],
         \A u \in On(d) : \/ u = cur_thread[d]
                          \/ pc'[u] = pc[u] /\ call'[u] = call[u]
                          \/ pc[u] # "unlock_splx" /\ pc'[u] # "unlock_splx"
  PROVE  UNCHANGED S(d)!vars
<1>1. Saved(d)' = Saved(d)
  BY DEF Saved
<1>2. /\ Here(d, state)' = Here(d, state) /\ Here(d, cnt)' = Here(d, cnt)
      /\ Here(d, sleep_time)' = Here(d, sleep_time) /\ Here(d, timer)' = Here(d, timer)
  BY DEF Here
<1> QED
  BY <1>1, <1>2, Zenon DEF S!vars, Saved, Here

\* sched_next on CPU c leaves alone what the other CPUs' schedulers see.
LEMMA SwitchElsewhere ==
  ASSUME SmpInv, HomeInv, NEW c \in Cpu, NEW st, NEW cn, DOMAIN cn = All,
         SwitchFrom(c, st, cn)
  PROVE  /\ \A u \in All \ On(c) : cnt'[u] = cn[u]
         /\ \A d \in Cpu \ {c} : cur_thread'[d] = cur_thread[d]
         /\ state' = st
<1>1. ASSUME NEW u \in All \ On(c) PROVE cnt'[u] = cn[u]
  <2>1. threads[c] \in Seq(On(c)) /\ threads[c] # <<>>
    BY OnFacts
  <2>2. Tail(threads[c]) \in Seq(On(c))
    BY <2>1
  <2>3. u \notin Range(Tail(threads[c]))
    BY <2>2, SeqFacts DEF Range
  <2> QED
    BY <2>3 DEF SwitchFrom, sched_next_cnt, replenish
<1>2. \A d \in Cpu \ {c} : cur_thread'[d] = cur_thread[d]
  BY DEF SwitchFrom, SmpInv, TypeOK
<1> QED
  BY <1>1, <1>2 DEF SwitchFrom

\* sched_sleep on CPU c is the sched_sleep of its Sched.
LEMMA SchedSleep ==
  ASSUME SmpInv, HomeInv, NEW c \in Cpu, NEW ms \in 1..MaxSleep,
         cur_thread[c] # Head(threads[c]), call[cur_thread[c]] = "sched_sleep",
         sleep_time' = [sleep_time EXCEPT ![cur_thread[c]] = ms],
         timer' = [timer EXCEPT ![cur_thread[c]] = TRUE],
         SwitchFrom(c, [state EXCEPT ![cur_thread[c]] = SLEEPING], cnt),
         pc' = [pc EXCEPT ![cur_thread[c]] = "unlock_splx"], call' = call,
         threads' = threads
  PROVE  S(c)!Next
<1> DEFINE t == cur_thread[c]
           st == [state EXCEPT ![t] = SLEEPING]
<1>1. t \in On(c) /\ On(c) \subseteq All
  BY OnFacts
<1>2. /\ state \in [All -> {RUNNING, SLEEPING}] /\ cnt \in [All -> Nat]
      /\ DOMAIN sleep_time = All /\ DOMAIN timer = All /\ DOMAIN pc = All
      /\ \A u \in All : cnt[u] <= 2 * THREAD_DEFAULT_PRI - 1
  BY ZenonT(60) DEF SmpInv, TypeOK, CntInv
<1>3. /\ Here(c, st) = [Here(c, state) EXCEPT ![t] = SLEEPING]
      /\ Here(c, sleep_time') = [Here(c, sleep_time) EXCEPT ![t] = ms]
      /\ Here(c, timer') = [Here(c, timer) EXCEPT ![t] = TRUE]
  BY <1>1, <1>2, Zenon DEF Here
<1>4. S(c)!SwitchFrom("sched_sleep", Here(c, st), Here(c, cnt))
  <2>1. PICK s, k : s = st /\ k = cnt /\ SwitchFrom(c, s, k)
    OBVIOUS
  <2> HIDE DEF st
  <2>2. CntOK(k) /\ Leaves(c, "sched_sleep")
    BY <1>1, <1>2, <2>1 DEF CntOK, Leaves
  <2>3. S(c)!SwitchFrom("sched_sleep", Here(c, s), Here(c, k))
    BY <2>1, <2>2, SchedSwitch, Zenon
  <2> QED
    BY <2>1, <2>3, Zenon DEF S!SwitchFrom
<1> HIDE DEF st
<1>5. S(c)!sched_sleep(ms)
  BY <1>3, <1>4, SchedCopies, Zenon DEF S!sched_sleep, Here
<1> QED
  BY <1>5 DEF S!Next

\* The pieces of sched_tick are the ones Sched computes from its own tables.
LEMMA TickHere ==
  ASSUME SmpInv, HomeInv, NEW c \in Cpu, NEW w \in SUBSET On(c)
  PROVE  /\ S(c)!TimedSleepers(threads[c], Here(c, state), Here(c, timer))
              = TimedSleepers(threads[c], state, timer)
         /\ S(c)!countdown(Here(c, sleep_time), w) = Here(c, countdown(sleep_time, w))
         /\ S(c)!woken_state(Here(c, state), w) = Here(c, woken_state(state, w))
         /\ S(c)!charge(S(c)!woken_cnt(Here(c, cnt), w), cur_thread[c])
              = Here(c, charge(woken_cnt(cnt, w), cur_thread[c]))
<1>1. /\ On(c) \subseteq All /\ Range(threads[c]) \subseteq On(c)
      /\ cur_thread[c] \in On(c)
  BY OnFacts, Zenon
<1>2. DOMAIN state = All /\ DOMAIN cnt = All /\ DOMAIN sleep_time = All
  BY DEF SmpInv, TypeOK
<1>3. S(c)!TimedSleepers(threads[c], Here(c, state), Here(c, timer))
         = TimedSleepers(threads[c], state, timer)
  BY <1>1, SchedCopies, Zenon DEF S!TimedSleepers, TimedSleepers, Here, S!Range, Range
<1>4. S(c)!countdown(Here(c, sleep_time), w) = Here(c, countdown(sleep_time, w))
  BY <1>1, <1>2, Zenon DEF S!countdown, countdown, Here
<1>5. S(c)!woken_state(Here(c, state), w) = Here(c, woken_state(state, w))
  BY <1>1, <1>2, SchedCopies, Zenon DEF S!woken_state, woken_state, Here
<1>6. S(c)!woken_cnt(Here(c, cnt), w) = Here(c, woken_cnt(cnt, w))
  BY <1>1, <1>2 DEF S!woken_cnt, woken_cnt, Here
<1>7. PICK k : k = woken_cnt(cnt, w)
  OBVIOUS
<1>9. DOMAIN k = All
  BY <1>2, <1>7 DEF woken_cnt
<1>8. S(c)!charge(Here(c, k), cur_thread[c]) = Here(c, charge(k, cur_thread[c]))
  BY <1>1, <1>9 DEF S!charge, charge, Here
<1> QED
  BY <1>3, <1>4, <1>5, <1>6, <1>7, <1>8, Zenon

\* sched_tick on CPU c is the tick of its Sched.
LEMMA SchedTick ==
  ASSUME SmpInv, HomeInv, NEW c \in Cpu, timer_irq_handler(c)
  PROVE  S(c)!timer_irq_handler
<1> DEFINE cur == cur_thread[c]
           sl == TimedSleepers(threads[c], state, timer)
           left == countdown(sleep_time, sl)
           w == {v \in sl : left[v] = 0}
           st == woken_state(state, w)
           cn == charge(woken_cnt(cnt, w), cur)
           slS == S(c)!TimedSleepers(threads[c], Here(c, state), Here(c, timer))
           leftS == S(c)!countdown(Here(c, sleep_time), slS)
           wS == {t \in slS : leftS[t] = 0}
           stS == S(c)!woken_state(Here(c, state), wS)
           cnS == S(c)!charge(S(c)!woken_cnt(Here(c, cnt), wS), cur)
<1>1. /\ sleep_time' = left /\ timer' = [v \in All |-> timer[v] /\ v \notin w]
      /\ IF cn[cur] > 0 THEN state' = st /\ cnt' = cn /\ cur_thread' = cur_thread
                      ELSE SwitchFrom(c, st, cn)
      /\ pc' = [pc EXCEPT ![cur] = "tick_unlock"] /\ threads' = threads /\ call' = call
  BY ZenonT(60) DEF timer_irq_handler, Goto
<1>2. /\ On(c) \subseteq All /\ Range(threads[c]) \subseteq On(c) /\ cur \in On(c)
  BY OnFacts
<1>3. sl \subseteq On(c) /\ w \subseteq On(c)
  BY <1>2, Zenon DEF TimedSleepers
<1>4. slS = sl /\ leftS = Here(c, left)
  BY <1>3, TickHere
<1>5. wS = w
  BY <1>3, <1>4, Zenon DEF Here
<1>6. stS = Here(c, st) /\ cnS = Here(c, cn)
  BY <1>3, <1>5, TickHere, Zenon
<1>7. CntOK(cn)
  BY <1>2, ChargedCnt, Zenon DEF SmpInv, TypeOK, CntInv, CntOK
<1>8. Leaves(c, "none") /\ \A u \in On(c) : u # cur => pc'[u] = pc[u]
  <2>1. DOMAIN pc = All
    BY DEF SmpInv, TypeOK
  <2> QED
    BY <1>1, <1>2, <2>1, Zenon DEF Leaves
<1> HIDE DEF sl, left, w, st, cn, slS, leftS, wS, stS, cnS
<1>9. Here(c, sleep_time)' = leftS /\ UNCHANGED threads[c]
  BY <1>1, <1>4, Zenon DEF Here
<1>10. Here(c, timer)' = [t \in S(c)!All |-> Here(c, timer)[t] /\ t \notin wS]
  <2>1. S(c)!All = On(c)
    BY Zenon DEF S!All, On
  <2> QED
    BY <1>1, <1>2, <1>5, <2>1, Zenon DEF Here
<1>11. IF cnS[cur] > 0
       THEN /\ Here(c, state)' = stS
            /\ Here(c, cnt)' = cnS
            /\ UNCHANGED <<cur_thread[c], Saved(c)>>
       ELSE /\ Here(c, state)' = stS
            /\ Here(c, cnt)' = S(c)!sched_next_cnt(threads[c], stS, cnS)
            /\ (cur_thread[c])' = S(c)!sched_next(threads[c], stS, cnS)
            /\ Saved(c)' = [Saved(c) EXCEPT ![cur] = "none",
                 ![S(c)!sched_next(threads[c], stS, cnS)] = "none"]
  <2>1. cnS[cur] = cn[cur]
    BY <1>2, <1>6 DEF Here
  <2>2. CASE cn[cur] > 0
    <3>1. state' = st /\ cnt' = cn /\ cur_thread' = cur_thread
      BY <1>1, <2>2
    <3>2. Saved(c)' = Saved(c)
      BY <1>1, <1>8, <3>1 DEF Saved
    <3>3. Here(c, state)' = stS /\ Here(c, cnt)' = cnS
      BY <1>6, <3>1, Zenon DEF Here
    <3> QED
      BY <2>1, <2>2, <3>1, <3>2, <3>3, Zenon
  <2>3. CASE ~(cn[cur] > 0)
    <3>1. PICK s, k : s = st /\ k = cn /\ SwitchFrom(c, s, k)
      BY <1>1, <2>3, Zenon
    <3>2. CntOK(k) /\ Leaves(c, "none")
      BY <1>7, <1>8, <3>1
    <3>3. S(c)!SwitchFrom("none", Here(c, s), Here(c, k))
      BY <3>1, <3>2, SchedSwitch, Zenon
    <3> DEFINE HS == Here(c, s)
               HK == Here(c, k)
    <3> HIDE DEF HS, HK
    <3>5. /\ Here(c, state)' = HS
          /\ Here(c, cnt)' = S(c)!sched_next_cnt(threads[c], HS, HK)
          /\ (cur_thread[c])' = S(c)!sched_next(threads[c], HS, HK)
          /\ Saved(c)' = [Saved(c) EXCEPT ![cur] = "none",
               ![S(c)!sched_next(threads[c], HS, HK)] = "none"]
      BY <3>3, Zenon DEF S!SwitchFrom, Here, Saved, HS, HK
    <3>4. HS = stS /\ HK = cnS
      BY <1>6, <3>1 DEF HS, HK
    <3> QED
      BY <2>1, <2>3, <3>4, <3>5, Zenon
  <2> QED
    BY <2>2, <2>3
<1> QED
  BY <1>9, <1>10, <1>11, Zenon
     DEF S!timer_irq_handler, S!SwitchFrom, slS, leftS, wS, stS, cnS, Here, Saved

\* The thread that has CPU c goes on with a call or an interrupt, and no ring,
\* count or state changes.
Quiet(c) ==
  /\ UNCHANGED runvars
  /\ \A u \in All : u # cur_thread[c] => pc'[u] = pc[u] /\ call'[u] = call[u]

\* No scheduler sees such a step.
LEMMA QuietSame ==
  ASSUME SmpInv, HomeInv, NEW c \in Cpu, NEW d \in Cpu, Quiet(c)
  PROVE  UNCHANGED S(d)!vars
<1>1. On(d) \subseteq All /\ (cur_thread[c] \in On(d) => d = c)
  BY OnFacts
<1>2. /\ threads' = threads /\ cur_thread' = cur_thread /\ state' = state
      /\ cnt' = cnt /\ sleep_time' = sleep_time /\ timer' = timer
  BY DEF Quiet, runvars
<1>3. \A u \in On(d) : \/ u = cur_thread[d]
                       \/ pc'[u] = pc[u] /\ call'[u] = call[u]
  BY <1>1 DEF Quiet
<1> QED
  BY <1>2, <1>3, SchedSame

\* The handlers that are such steps.
LEMMA QuietSteps ==
  ASSUME SmpInv, NEW c \in Cpu,
         \/ timer_irq(c) \/ timer_irq_return(c) \/ thread_start(c)
         \/ thread_create(c) \/ sched_sleep(c) \/ cpu_show_cmd(c)
         \/ cpu_show_ring(c) \/ cpu_unlock_smp(c)
  PROVE  Quiet(c)
<1>1. DOMAIN pc = All /\ DOMAIN call = All
  BY DEF SmpInv, TypeOK
<1>2. ASSUME NEW fn, NEW d, cpu_lock_smp(c, fn, d) PROVE Quiet(c)
  BY <1>1, <1>2 DEF cpu_lock_smp, Quiet
<1>3. CASE timer_irq(c)
  BY <1>1, <1>3, Zenon DEF timer_irq, Quiet
<1>4. CASE timer_irq_return(c)
  BY <1>1, <1>4 DEF timer_irq_return, Goto, Quiet
<1>5. CASE thread_start(c)
  BY <1>1, <1>5 DEF thread_start, Goto, Quiet
<1>6. CASE thread_create(c)
  BY <1>2, <1>6 DEF thread_create
<1>7. CASE sched_sleep(c)
  BY <1>2, <1>7, Zenon DEF sched_sleep
<1>8. CASE cpu_show_cmd(c)
  BY <1>2, <1>8, Zenon DEF cpu_show_cmd
<1>9. CASE cpu_show_ring(c)
  BY <1>1, <1>9, Zenon DEF cpu_show_ring, Quiet
<1>10. CASE cpu_unlock_smp(c)
  BY <1>1, <1>10 DEF cpu_unlock_smp, Goto, Quiet
<1> QED
  BY <1>3, <1>4, <1>5, <1>6, <1>7, <1>8, <1>9, <1>10

\* thread_create on any CPU is the thread_create of the Sched of the CPU that
\* it pushes onto, and of no other.
LEMMA SchedPush ==
  ASSUME SmpInv, HomeInv, NEW c \in Cpu, NEW d \in Cpu, thread_create_push(c)
  PROVE  [S(d)!Next]_(S(d)!vars)
<1> DEFINE t == cur_thread[c]
           e == target[t]
<1>1. PICK new : new = arg[t]
  OBVIOUS
<1>2. /\ threads' = [threads EXCEPT ![e] = queue_push_back(@, new)]
      /\ state' = [state EXCEPT ![new] = RUNNING]
      /\ cnt' = [cnt EXCEPT ![new] = THREAD_DEFAULT_PRI]
      /\ sleep_time' = [sleep_time EXCEPT ![new] = 0]
      /\ timer' = [timer EXCEPT ![new] = FALSE]
      /\ pc' = [pc EXCEPT ![t] = Unlock(t), ![new] = "thread_start"]
      /\ cur_thread' = cur_thread /\ call' = call
      /\ call[t] = "thread_create" /\ pc[t] \in {"lock_own", "lock_id"}
  BY <1>1, Zenon DEF thread_create_push, Locked
<1>3. t \in All /\ cpu_id[t] = c
  BY Zenon DEF SmpInv, TypeOK, SwitchedOutParked
<1>4. new \in Thread /\ pc[new] = "absent" /\ e = Home[new] /\ e \in Cpu /\ t # new
  <2>1. Creating(t)
    BY <1>2 DEF Creating
  <2> QED
    BY <1>1, <1>2, <1>3, <2>1, SmpAssumption, ZenonT(60) DEF SmpInv, CreateInv
<1>5. /\ DOMAIN pc = All /\ DOMAIN threads = Cpu /\ DOMAIN state = All /\ DOMAIN cnt = All
      /\ DOMAIN sleep_time = All /\ DOMAIN timer = All /\ new \in All
  BY <1>4 DEF SmpInv, TypeOK, All
<1>6. On(d) \subseteq All /\ \A u \in All : u \in On(d) <=> cpu_id[u] = d
  BY OnFacts
<1>7. cpu_id[new] = e
  BY <1>4 DEF HomeInv
<1> HIDE DEF t, e
<1>8. CASE d # e
  <2>1. new \notin On(d)
    BY <1>5, <1>6, <1>7, <1>8, Zenon
  <2>2. \A u \in On(d) : /\ state'[u] = state[u] /\ cnt'[u] = cnt[u]
                         /\ sleep_time'[u] = sleep_time[u] /\ timer'[u] = timer[u]
    BY <1>2, <1>5, <1>6, <2>1, Zenon
  <2>3. threads'[d] = threads[d] /\ cur_thread'[d] = cur_thread[d]
    BY <1>2, <1>5, <1>8, Zenon
  <2>4. \A u \in On(d) : \/ u = cur_thread[d]
                         \/ pc'[u] = pc[u] /\ call'[u] = call[u]
    BY <1>2, <1>3, <1>5, <1>6, <2>1 DEF t
  <2> QED
    BY <2>2, <2>3, <2>4, SchedSame, Zenon
<1>9. CASE d = e
  <2>1. new \in {u \in Thread : Home[u] = d} /\ new \in On(d)
    BY <1>4, <1>9, Zenon DEF On
  <2>2. /\ Here(d, state)' = [Here(d, state) EXCEPT ![new] = S(d)!RUNNING]
        /\ Here(d, cnt)' = [Here(d, cnt) EXCEPT ![new] = THREAD_DEFAULT_PRI]
        /\ Here(d, sleep_time)' = [Here(d, sleep_time) EXCEPT ![new] = 0]
        /\ Here(d, timer)' = [Here(d, timer) EXCEPT ![new] = FALSE]
    BY <1>2, <1>5, <1>6, SchedCopies, Zenon DEF Here
  <2>3. /\ (threads[d])' = S(d)!queue_push_back(threads[d], new)
        /\ (cur_thread[d])' = cur_thread[d]
    BY <1>2, <1>5, <1>9, Zenon DEF S!queue_push_back, queue_push_back
  <2>4. Saved(d)' = Saved(d)
    BY <1>2, <1>3, <1>4, <1>5, <1>6, Zenon DEF Saved, t
  <2>5. new \notin S(d)!Range(threads[d])
    BY <1>4, <1>5, SMTT(30) DEF S!Range, Range, SmpInv, RingsDisjoint
  <2>6. S(d)!thread_create(new)
    BY <2>2, <2>3, <2>4, <2>5, Zenon DEF S!thread_create, Here, Saved
  <2> QED
    BY <2>1, <2>6 DEF S!Next
<1> QED
  BY <1>8, <1>9

\* sched_tick on CPU c leaves the other schedulers alone.
LEMMA TickElsewhere ==
  ASSUME SmpInv, HomeInv, NEW c \in Cpu, NEW d \in Cpu \ {c}, timer_irq_handler(c)
  PROVE  UNCHANGED S(d)!vars
<1> DEFINE t == cur_thread[c]
           sl == TimedSleepers(threads[c], state, timer)
           left == countdown(sleep_time, sl)
           w == {v \in sl : left[v] = 0}
           st == woken_state(state, w)
           cn == charge(woken_cnt(cnt, w), t)
<1>1. /\ sleep_time' = left /\ timer' = [v \in All |-> timer[v] /\ v \notin w]
      /\ IF cn[t] > 0 THEN state' = st /\ cnt' = cn /\ cur_thread' = cur_thread
                      ELSE SwitchFrom(c, st, cn)
      /\ pc' = [pc EXCEPT ![t] = "tick_unlock"] /\ threads' = threads /\ call' = call
  BY ZenonT(60) DEF timer_irq_handler, Goto
<1>2. /\ Range(threads[c]) \subseteq On(c) /\ t \in On(c)
      /\ \A u \in All : u \in On(c) <=> cpu_id[u] = c
  BY OnFacts
<1>3. On(d) \subseteq All /\ \A u \in All : u \in On(d) <=> cpu_id[u] = d
  BY OnFacts
<1>4. \A u \in On(d) : u \in All \ On(c) /\ u \notin sl /\ u \notin w /\ u # t
  BY <1>2, <1>3 DEF TimedSleepers
<1>5. /\ DOMAIN state = All /\ DOMAIN cnt = All /\ DOMAIN sleep_time = All
      /\ DOMAIN pc = All /\ timer \in [All -> BOOLEAN] /\ cur_thread \in [Cpu -> All]
  BY Zenon DEF SmpInv, TypeOK
<1>6. ASSUME NEW u \in On(d)
      PROVE  left[u] = sleep_time[u] /\ st[u] = state[u] /\ cn[u] = cnt[u]
  <2>1. left[u] = sleep_time[u]
    BY <1>3, <1>4, <1>5, Zenon DEF countdown
  <2>2. st[u] = state[u]
    BY <1>3, <1>4, <1>5 DEF woken_state
  <2>3. cn[u] = cnt[u]
    BY <1>3, <1>4, <1>5, Zenon DEF woken_cnt, charge
  <2> QED
    BY <2>1, <2>2, <2>3, Zenon
<1>7. DOMAIN cn = All
  BY <1>5 DEF woken_cnt, charge
<1> HIDE DEF sl, left, w, st, cn, t
<1>8. /\ \A u \in On(d) : state'[u] = state[u] /\ cnt'[u] = cnt[u]
      /\ cur_thread'[d] = cur_thread[d]
  <2>1. CASE cn[t] > 0
    BY <1>1, <1>6, <2>1, Zenon
  <2>2. CASE ~(cn[t] > 0)
    <3>1. PICK s, k : s = st /\ k = cn /\ SwitchFrom(c, s, k)
      BY <1>1, <2>2, Zenon
    <3>2. DOMAIN k = All
      BY <1>7, <3>1
    <3>3. /\ \A u \in All \ On(c) : cnt'[u] = k[u]
          /\ \A v \in Cpu \ {c} : cur_thread'[v] = cur_thread[v]
          /\ state' = s
      <4>1. SwitchFrom(c, s, k)
        BY <3>1
      <4> QED
        BY <3>2, <4>1, SwitchElsewhere, Zenon
    <3> QED
      BY <1>4, <1>6, <3>1, <3>3
  <2> QED
    BY <2>1, <2>2, Zenon
<1>9. \A u \in On(d) : sleep_time'[u] = sleep_time[u] /\ timer'[u] = timer[u]
  BY <1>1, <1>3, <1>4, <1>5, <1>6, Zenon
<1>10. \A u \in On(d) : pc'[u] = pc[u] /\ call'[u] = call[u]
  BY <1>1, <1>3, <1>4, <1>5, Zenon
<1>11. threads'[d] = threads[d]
  BY <1>1
<1> QED
  BY <1>8, <1>9, <1>10, <1>11, SchedSame, Zenon

\* sched_sleep, on the CPU that runs it and on the others.
LEMMA SchedSleepNext ==
  ASSUME SmpInv, HomeInv, NEW c \in Cpu, NEW d \in Cpu,
         NEW ms \in 1..MaxSleep, sched_sleep_next(c, ms)
  PROVE  [S(d)!Next]_(S(d)!vars)
<1> DEFINE t == cur_thread[c]
<1>1. /\ call[t] = "sched_sleep" /\ pc' = [pc EXCEPT ![t] = Unlock(t)]
      /\ pc[t] \in {"lock_own", "lock_id"} /\ threads' = threads /\ call' = call
  BY DEF sched_sleep_next, Locked
<1>2. /\ DOMAIN state = All /\ DOMAIN cnt = All /\ DOMAIN sleep_time = All
      /\ DOMAIN timer = All /\ DOMAIN pc = All
  BY DEF SmpInv, TypeOK
<1>3. t \in On(c) /\ t \in All /\ \A u \in All : u \in On(c) <=> cpu_id[u] = c
  BY OnFacts
<1>4. On(d) \subseteq All /\ \A u \in All : u \in On(d) <=> cpu_id[u] = d
  BY OnFacts
<1>5. Unlock(t) = "unlock_splx"
  <2>1. pc[t] = "lock_own"
    BY <1>1, <1>3, Zenon DEF SmpInv, LocalInv
  <2> QED
    BY <2>1, Zenon DEF Unlock
<1>6. \A u \in On(d) : \/ u = cur_thread[d]
                       \/ pc'[u] = pc[u] /\ call'[u] = call[u]
  BY <1>1, <1>2, <1>3, <1>4
<1>7. CASE t = Head(threads[c])
  <2>1. /\ sleep_time' = sleep_time /\ timer' = timer /\ state' = state
        /\ cnt' = cnt /\ cur_thread' = cur_thread
    BY <1>7 DEF sched_sleep_next
  <2> QED
    BY <1>1, <1>6, <2>1, SchedSame, Zenon
<1>8. CASE t # Head(threads[c])
  <2>1. /\ sleep_time' = [sleep_time EXCEPT ![t] = ms]
        /\ timer' = [timer EXCEPT ![t] = TRUE]
        /\ SwitchFrom(c, [state EXCEPT ![t] = SLEEPING], cnt)
    BY <1>8 DEF sched_sleep_next
  <2>2. CASE d = c
    <3>1. S(c)!Next
      BY <1>1, <1>5, <1>8, <2>1, SchedSleep, Zenon
    <3> QED
      BY <2>2, <3>1, Zenon
  <2>3. CASE d # c
    <3>1. PICK s : s = [state EXCEPT ![t] = SLEEPING] /\ SwitchFrom(c, s, cnt)
      BY <2>1, Zenon
    <3>0. DOMAIN cnt = All
      BY <1>2, Zenon
    <3>2. /\ \A u \in All \ On(c) : cnt'[u] = cnt[u]
          /\ \A v \in Cpu \ {c} : cur_thread'[v] = cur_thread[v]
          /\ state' = s
      <4>1. SwitchFrom(c, s, cnt)
        BY <3>1, Zenon
      <4> QED
        BY <3>0, <4>1, SwitchElsewhere, SMT
    <3>3. \A u \in On(d) : u \in All \ On(c) /\ u # t
      BY <1>3, <1>4, <2>3, SMTT(30)
    <3>4. \A u \in On(d) : /\ state'[u] = state[u] /\ cnt'[u] = cnt[u]
                           /\ sleep_time'[u] = sleep_time[u] /\ timer'[u] = timer[u]
      BY <1>2, <2>1, <3>1, <3>2, <3>3, Zenon
    <3> QED
      BY <1>1, <1>6, <2>3, <3>2, <3>4, SchedSame, Zenon
  <2> QED
    BY <2>2, <2>3
<1> QED
  BY <1>7, <1>8, Zenon

\* Every step of Smp, as the scheduler of any CPU d sees it.
LEMMA SchedStep ==
  ASSUME SmpInv, HomeInv, NEW c \in Cpu, NEW d \in Cpu, SmpNext(c)
  PROVE  [S(d)!Next]_(S(d)!vars)
<1>1. CASE timer_irq_handler(c)
  <2>1. CASE d = c
    <3>1. S(d)!timer_irq_handler
      BY <1>1, <2>1, SchedTick
    <3> QED
      BY <3>1 DEF S!Next
  <2>2. CASE d # c
    <3>1. UNCHANGED S(d)!vars
      BY <1>1, <2>2, TickElsewhere
    <3> QED
      BY <3>1
  <2> QED
    BY <2>1, <2>2
<1>2. CASE thread_create_push(c)
  BY <1>2, SchedPush
<1>3. CASE \E ms \in 1..MaxSleep : sched_sleep_next(c, ms)
  BY <1>3, SchedSleepNext
<1>4. CASE \/ timer_irq(c) \/ timer_irq_return(c) \/ thread_start(c)
           \/ thread_create(c) \/ sched_sleep(c) \/ cpu_show_cmd(c)
           \/ cpu_show_ring(c) \/ cpu_unlock_smp(c)
  <2>1. Quiet(c)
    BY <1>4, QuietSteps
  <2>2. UNCHANGED S(d)!vars
    BY <2>1, QuietSame
  <2> QED
    BY <2>2
<1> QED
  BY <1>1, <1>2, <1>3, <1>4, Zenon DEF SmpNext, InTimer, InCall

\* cpu_id is written by thread_create alone, which makes a thread on its CPU.
LEMMA HomeStep == SmpInv /\ HomeInv /\ [Next]_vars => HomeInv'
<1> SUFFICES ASSUME SmpInv, HomeInv, [Next]_vars PROVE HomeInv'
  OBVIOUS
<1>1. CASE UNCHANGED vars
  BY <1>1 DEF HomeInv, vars, runvars
<1>2. ASSUME NEW c \in Cpu, SmpNext(c) PROVE HomeInv'
  <2>1. CASE thread_create_push(c)
    <3> DEFINE t == cur_thread[c]
    <3>1. /\ cpu_id' = [cpu_id EXCEPT ![arg[t]] = target[t]]
          /\ call[t] = "thread_create" /\ pc[t] \in {"lock_own", "lock_id"}
      BY <2>1 DEF thread_create_push, Locked
    <3>2. t \in All /\ DOMAIN cpu_id = All
      BY DEF SmpInv, TypeOK
    <3>3. target[t] = Home[arg[t]]
      BY <3>1, <3>2, Zenon DEF SmpInv, CreateInv, Creating
    <3> QED
      BY <3>1, <3>2, <3>3, Zenon DEF HomeInv, All
  <2>2. CASE timer_irq_handler(c) \/ \E ms \in 1..MaxSleep : sched_sleep_next(c, ms)
    BY <2>2 DEF timer_irq_handler, sched_sleep_next, HomeInv
  <2>3. CASE \/ timer_irq(c) \/ timer_irq_return(c) \/ thread_start(c)
             \/ thread_create(c) \/ sched_sleep(c) \/ cpu_show_cmd(c)
             \/ cpu_show_ring(c) \/ cpu_unlock_smp(c)
    BY <2>3, QuietSteps, Zenon DEF Quiet, runvars, HomeInv
  <2> QED
    BY <1>2, <2>1, <2>2, <2>3, Zenon DEF SmpNext, InTimer, InCall
<1> QED
  BY <1>1, <1>2 DEF Next

\* Each CPU starts with a ring of its idle thread.
LEMMA SchedInit == Init => HomeInv /\ \A c \in Cpu : S(c)!Init
<1> SUFFICES ASSUME Init PROVE HomeInv /\ \A c \in Cpu : S(c)!Init
  OBVIOUS
<1>1. HomeInv
  BY DEF Init, HomeInv, All
<1>2. ASSUME NEW c \in Cpu PROVE S(c)!Init
  <2>1. On(c) \subseteq All /\ S(c)!All = On(c)
    BY SmpAssumption DEF On, All, S!All
  <2>2. /\ threads[c] = S(c)!queue_push_back(<<>>, Idle[c]) /\ cur_thread[c] = Idle[c]
    BY DEF Init, S!queue_push_back, queue_push_back
  <2>3. /\ Here(c, state) = [t \in S(c)!All |-> S(c)!RUNNING]
        /\ Here(c, cnt) = [t \in S(c)!All |-> THREAD_DEFAULT_PRI]
        /\ Here(c, sleep_time) = [t \in S(c)!All |-> 0]
        /\ Here(c, timer) = [t \in S(c)!All |-> FALSE]
    BY <2>1, SchedCopies, Zenon DEF Here, Init
  <2>4. Saved(c) = [t \in S(c)!All |-> "none"]
    BY <2>1 DEF Saved, Init
  <2> QED
    BY <2>2, <2>3, <2>4, Zenon DEF S!Init, Here, Saved
<1> QED
  BY <1>1, <1>2

\* On any number of CPUs, with threads created across CPUs, timers that fire
\* anywhere and calls that end with the lock handed to another thread, each
\* CPU's ring, counts and states go through the steps of the sequential
\* scheduler sched.c is written as, and no step of one CPU touches what another
\* CPU's scheduler sees, except thread_create's push under that CPU's lock.
THEOREM ImplementsSchedHolds == Spec => ImplementsSched
<1>1. Init => HomeInv /\ \A c \in Cpu : S(c)!Init
  BY SchedInit
<1>2. SmpInv /\ HomeInv /\ [Next]_vars => HomeInv'
  BY HomeStep
<1>3. SmpInv /\ HomeInv /\ [Next]_vars
        => [\A c \in Cpu : [S(c)!Next]_(S(c)!vars)]_vars
  <2> SUFFICES ASSUME SmpInv, HomeInv, Next, NEW d \in Cpu
               PROVE  [S(d)!Next]_(S(d)!vars)
    OBVIOUS
  <2> QED
    BY SchedStep DEF Next
<1> QED
  BY <1>1, <1>2, <1>3, SmpInvariant, PTL DEF Spec, ImplementsSched
=============================================================================
