--------------------------- MODULE RunQueueProofs ---------------------------
(***************************************************************************)
(* What the scheduler's scan and its bookkeeping of counts compute, for    *)
(* every ring.                                                             *)
(***************************************************************************)
EXTENDS RunQueue, WellFoundedInduction, TLAPS

\* The length, the domain and the elements of a ring or a list, as the proofs
\* below use them.
LEMMA SeqFacts ==
  ASSUME NEW S, NEW seq \in Seq(S)
  PROVE  /\ Len(seq) \in Nat
         /\ DOMAIN seq = 1..Len(seq)
         /\ \A n \in 1..Len(seq) : seq[n] \in S
         /\ Range(seq) \in SUBSET S
         /\ (seq # <<>>) => (Len(seq) \in Nat \ {0})
  BY DEF Range

\* Taking the first element of a nonempty list moves the others one place.
LEMMA SeqTail ==
  ASSUME NEW S, NEW seq \in Seq(S), seq # <<>>
  PROVE  /\ Head(seq) \in S /\ Head(seq) = seq[1]
         /\ Tail(seq) \in Seq(S)
         /\ Len(Tail(seq)) = Len(seq) - 1
         /\ \A n \in 1..Len(Tail(seq)) : Tail(seq)[n] = seq[n + 1]
  OBVIOUS

\* Appending an element leaves the others, and the head, where they are.
LEMMA SeqAppend ==
  ASSUME NEW S, NEW seq \in Seq(S), NEW elt \in S
  PROVE  /\ Append(seq, elt) \in Seq(S) \ {<<>>}
         /\ Len(Append(seq, elt)) = Len(seq) + 1
         /\ \A n \in 1..Len(seq) : Append(seq, elt)[n] = seq[n]
         /\ Append(seq, elt)[Len(seq) + 1] = elt
         /\ (seq = <<>>) => Head(Append(seq, elt)) = elt
         /\ (seq # <<>>) => Head(Append(seq, elt)) = Head(seq)
         /\ (seq = <<>>) => Tail(Append(seq, elt)) = <<>>
         /\ (seq # <<>>) => Tail(Append(seq, elt)) = Append(Tail(seq), elt)
  OBVIOUS

\* Every nonempty set of natural numbers has a least element.
LEMMA NatMin ==
  ASSUME NEW T, T \subseteq Nat, T # {}
  PROVE  \E m \in T : \A k \in T : m <= k
<1> DEFINE R == {ss \in Nat \X Nat : ss[1] < ss[2]}
<1>1. R = OpToRel(<, Nat)
  BY Zenon DEF OpToRel
<1>2. IsWellFoundedOn(R, Nat)
  BY <1>1, NatLessThanWellFounded, Zenon
<1>3. \A x, y \in Nat : y < x => <<y, x>> \in R
  OBVIOUS
<1> HIDE DEF R
<1>4. \E x \in T : \A y \in T : ~ (<<y, x>> \in R)
  BY <1>2, WFMin, Zenon
<1>5. PICK x \in T : \A y \in T : ~ (<<y, x>> \in R)
  BY <1>4
<1>6. ASSUME NEW k \in T PROVE x <= k
  <2>1. ~(k < x)
    BY <1>3, <1>5, Zenon
  <2> QED
    BY <2>1
<1> QED
  BY <1>6

\* The scan from threads->next round to threads meets exactly the ring.
LEMMA ScanMeetsRing ==
  ASSUME NEW T, NEW ring \in Seq(T), ring # <<>>
  PROVE  /\ DOMAIN ScanOrder(ring) = 1..Len(ring)
         /\ \A i \in 1..Len(ring) : ScanOrder(ring)[i] \in Range(ring)
         /\ \A t \in Range(ring) : \E i \in 1..Len(ring) : ScanOrder(ring)[i] = t
         /\ Range(ring) \subseteq T
         /\ Len(ring) \in Nat \ {0}
<1>1. /\ Len(ring) \in Nat \ {0}
      /\ DOMAIN ring = 1..Len(ring)
  BY SeqFacts
<1>2. \A i \in 1..Len(ring) : (i % Len(ring)) + 1 \in 1..Len(ring)
  BY <1>1
<1>3. \A i \in 1..Len(ring) : ScanOrder(ring)[i] = ring[(i % Len(ring)) + 1]
  BY <1>1 DEF ScanOrder
<1>4. ASSUME NEW t \in Range(ring)
      PROVE \E i \in 1..Len(ring) : ScanOrder(ring)[i] = t
  <2>1. PICK k \in 1..Len(ring) : ring[k] = t
    BY <1>1 DEF Range
  <2>2. CASE k = 1
    <3>1. Len(ring) % Len(ring) = 0
      BY <1>1
    <3> QED
      BY <1>1, <1>3, <2>1, <2>2, <3>1
  <2>3. CASE k # 1
    <3>1. k - 1 \in 1..Len(ring) /\ (k - 1) % Len(ring) = k - 1
      BY <1>1, <2>3
    <3> QED
      BY <1>1, <1>3, <2>1, <3>1
  <2> QED
    BY <2>2, <2>3
<1>5. DOMAIN ScanOrder(ring) = 1..Len(ring)
  BY <1>1 DEF ScanOrder
<1>6. \A i \in 1..Len(ring) : ring[i] \in Range(ring) /\ ring[i] \in T
  BY <1>1, SeqFacts DEF Range
<1>7. \A i \in 1..Len(ring) : ScanOrder(ring)[i] \in Range(ring)
  BY <1>2, <1>3, <1>6, Zenon
<1>8. Range(ring) \subseteq T
  BY <1>1, <1>6 DEF Range
<1> QED
  BY <1>1, <1>4, <1>5, <1>7, <1>8

\* sched_find stays on the ring, and whenever some thread of the ring is
\* RUNNING it returns a RUNNING one with the largest count.
THEOREM SchedFindCorrect ==
  ASSUME NEW T, NEW ring \in Seq(T), ring # <<>>,
         NEW state, NEW cnt \in [T -> Nat],
         \E b \in Nat : \A t \in T : cnt[t] <= b
  PROVE  LET next == sched_find(ring, state, cnt)
         IN /\ next \in Range(ring)
            /\ (\E t \in Range(ring) : state[t] = RUNNING) =>
                  /\ state[next] = RUNNING
                  /\ \A t \in Range(ring) :
                        state[t] = RUNNING => cnt[t] <= cnt[next]
<1>0. PICK B \in Nat : \A t \in T : cnt[t] <= B
  OBVIOUS
<1> DEFINE order == ScanOrder(ring)
           N == Len(ring)
           Ready == {i \in 1..N : state[order[i]] = RUNNING}
<1>1. /\ DOMAIN order = 1..N
      /\ \A i \in 1..N : order[i] \in Range(ring) /\ order[i] \in T
      /\ \A t \in Range(ring) : \E i \in 1..N : order[i] = t
      /\ N \in Nat \ {0}
  BY ScanMeetsRing
<1> HIDE DEF order, N
<1>2. CASE Ready = {}
  <2>1. ~ \E i \in DOMAIN order : state[order[i]] = RUNNING
    BY <1>1, <1>2
  <2>2. sched_find(ring, state, cnt) = order[1]
    BY <2>1 DEF sched_find, order
  <2>3. ~ \E t \in Range(ring) : state[t] = RUNNING
    BY <1>1, <2>1
  <2> QED
    BY <1>1, <2>2, <2>3
<1>3. CASE Ready # {}
  <2> DEFINE Gaps == {B - cnt[order[i]] : i \in Ready}
  <2>1. Gaps \subseteq Nat /\ Gaps # {}
    <3>1. ASSUME NEW i \in Ready PROVE B - cnt[order[i]] \in Nat
      <4>1. order[i] \in T
        BY <1>1
      <4>2. cnt[order[i]] \in Nat /\ cnt[order[i]] <= B
        BY <1>0, <4>1
      <4> QED
        BY <4>2
    <3>2. PICK i \in Ready : TRUE
      BY <1>3
    <3>3. B - cnt[order[i]] \in Gaps
      BY <3>2
    <3> HIDE DEF Ready
    <3> QED
      BY <3>1, <3>3
  <2>2. PICK g \in Gaps : \A k \in Gaps : g <= k
    BY <2>1, NatMin, Zenon
  <2> DEFINE Firsts == {i \in Ready : B - cnt[order[i]] = g}
  <2>3. Firsts \subseteq Nat /\ Firsts # {}
    <3>1. PICK i \in Ready : B - cnt[order[i]] = g
      BY <2>2
    <3>2. i \in Firsts
      BY <3>1
    <3>3. Firsts \subseteq Ready /\ Ready \subseteq 1..N
      OBVIOUS
    <3>4. 1..N \subseteq Nat
      BY <1>1
    <3> HIDE DEF Firsts, Ready
    <3> QED
      BY <3>2, <3>3, <3>4
  <2>4. PICK f \in Firsts : \A k \in Firsts : f <= k
    BY <2>3, NatMin, Zenon
  <2>5. \A j \in Ready : \/ cnt[order[j]] < cnt[order[f]]
                         \/ cnt[order[j]] = cnt[order[f]] /\ f <= j
    <3> TAKE j \in Ready
    <3>1. B - cnt[order[f]] = g /\ g <= B - cnt[order[j]]
      <4>1. B - cnt[order[j]] \in Gaps
        OBVIOUS
      <4> HIDE DEF Gaps
      <4> QED
        BY <2>2, <2>4, <4>1
    <3>2. cnt[order[f]] \in Nat /\ cnt[order[j]] \in Nat
      BY <1>1
    <3>3. ASSUME cnt[order[j]] = cnt[order[f]] PROVE f <= j
      <4>1. j \in Firsts
        BY <3>1, <3>3
      <4> QED
        BY <2>4, <3>3, <4>1
    <3> DEFINE x == cnt[order[f]]
               y == cnt[order[j]]
    <3>4. B - x = g /\ g <= B - y /\ x \in Nat /\ y \in Nat
      BY <3>1, <3>2
    <3>5. y = x => f <= j
      BY <3>3, Zenon
    <3> HIDE DEF x, y
    <3>6. y < x \/ y = x
      <4> HIDE DEF Ready, Gaps, Firsts
      <4> QED
        BY <3>4
    <3>7. \/ y < x
          \/ y = x /\ f <= j
      BY <3>5, <3>6, Zenon
    <3> QED
      BY <3>7, Zenon DEF x, y
  <2>6. FirstBest(order, state, cnt, f)
    BY <1>1, <2>4, <2>5, Zenon DEF FirstBest
  <2> DEFINE i == CHOOSE k \in DOMAIN order : FirstBest(order, state, cnt, k)
  <2>7. i \in 1..N /\ FirstBest(order, state, cnt, i)
    BY <1>1, <2>4, <2>6, Zenon
  <2> HIDE DEF i
  <2>8. \E k \in DOMAIN order : state[order[k]] = RUNNING
    BY <1>1, <1>3, Zenon
  <2>9. sched_find(ring, state, cnt) = order[i]
    BY <2>8 DEF sched_find, order, i
  <2>10. ASSUME NEW t \in Range(ring), state[t] = RUNNING
         PROVE  cnt[t] <= cnt[order[i]]
    <3>1. PICK j \in 1..N : order[j] = t
      BY <1>1
    <3>2. \/ cnt[order[j]] < cnt[order[i]]
          \/ cnt[order[j]] = cnt[order[i]]
      BY <1>1, <2>7, <2>10, <3>1, Zenon DEF FirstBest
    <3>3. cnt[order[i]] \in Nat /\ cnt[order[j]] \in Nat
      BY <1>1, <2>7, <3>1
    <3> DEFINE x == cnt[order[i]]
               y == cnt[order[j]]
    <3>4. x \in Nat /\ y \in Nat /\ (y < x \/ y = x)
      BY <3>2, <3>3, Zenon
    <3> HIDE DEF x, y
    <3>5. y <= x
      BY <3>4
    <3> QED
      BY <3>1, <3>5, Zenon DEF x, y
  <2> QED
    BY <1>1, <2>7, <2>9, <2>10 DEF FirstBest
<1> QED
  BY <1>2, <1>3

\* queue_push_back adds its thread to the ring and keeps the ring's head.
LEMMA PushBackRing ==
  ASSUME NEW T, NEW ring \in Seq(T), NEW t \in T
  PROVE  /\ queue_push_back(ring, t) \in Seq(T)
         /\ queue_push_back(ring, t) # <<>>
         /\ Len(queue_push_back(ring, t)) = Len(ring) + 1
         /\ \A i \in 1..Len(ring) : queue_push_back(ring, t)[i] = ring[i]
         /\ queue_push_back(ring, t)[Len(ring) + 1] = t
         /\ Range(queue_push_back(ring, t)) = Range(ring) \cup {t}
         /\ ring # <<>> => Head(queue_push_back(ring, t)) = Head(ring)
<1> DEFINE new == Append(ring, t)
<1>1. /\ new \in Seq(T)
      /\ new # <<>>
      /\ Len(new) = Len(ring) + 1
      /\ \A i \in 1..Len(ring) : new[i] = ring[i]
      /\ new[Len(ring) + 1] = t
  BY SeqAppend
<1>2. /\ Len(ring) \in Nat
      /\ DOMAIN ring = 1..Len(ring)
      /\ DOMAIN new = 1..(Len(ring) + 1)
  BY <1>1, SeqFacts
<1> HIDE DEF new
<1>3. Range(new) = Range(ring) \cup {t}
  <2>1. \A i \in DOMAIN new : i \in DOMAIN ring \/ i = Len(ring) + 1
    BY <1>2
  <2>2. \A i \in DOMAIN ring : i \in DOMAIN new /\ new[i] = ring[i]
    BY <1>1, <1>2
  <2>3. Len(ring) + 1 \in DOMAIN new
    BY <1>2
  <2> QED
    BY <1>1, <2>1, <2>2, <2>3 DEF Range
<1>4. ring # <<>> => Head(new) = Head(ring)
  BY SeqAppend DEF new
<1> QED
  BY <1>1, <1>3, <1>4 DEF queue_push_back, new

\* sched_next runs a RUNNING thread if there is one, and its replenishment
\* keeps every count below 2 * pri and leaves the head's count alone.
THEOREM SchedNextCorrect ==
  ASSUME NEW T, NEW ring \in Seq(T), ring # <<>>,
         \A i, j \in DOMAIN ring : ring[i] = ring[j] => i = j,
         NEW state, NEW cnt \in [T -> Nat],
         \A t \in T : cnt[t] <= 2 * THREAD_DEFAULT_PRI - 1
  PROVE  /\ sched_next(ring, state, cnt) \in Range(ring)
         /\ (\E t \in Range(ring) : state[t] = RUNNING) =>
               state[sched_next(ring, state, cnt)] = RUNNING
         /\ sched_next_cnt(ring, state, cnt) \in [T -> Nat]
         /\ sched_next_cnt(ring, state, cnt)[Head(ring)] = cnt[Head(ring)]
         /\ \A t \in T : sched_next_cnt(ring, state, cnt)[t]
                            <= 2 * THREAD_DEFAULT_PRI - 1
<1> DEFINE P == THREAD_DEFAULT_PRI
           new == sched_next_cnt(ring, state, cnt)
<1>1. P \in Nat \ {0}
  BY PriAssumption
<1>2. \A c \in Nat : c <= 2 * P - 1 => /\ (c \div 2) + P \in Nat
                                      /\ (c \div 2) + P <= 2 * P - 1
  BY <1>1
<1>3. Head(ring) \notin Range(Tail(ring))
  <2>1. /\ Len(ring) \in Nat \ {0}
        /\ DOMAIN ring = 1..Len(ring)
        /\ Tail(ring) \in Seq(T)
        /\ Len(Tail(ring)) = Len(ring) - 1
        /\ \A i \in 1..Len(Tail(ring)) : Tail(ring)[i] = ring[i + 1]
        /\ Head(ring) = ring[1]
    BY SeqFacts, SeqTail
  <2>2. DOMAIN Tail(ring) = 1..(Len(ring) - 1)
    BY <2>1, SeqFacts
  <2>3. ASSUME NEW i \in DOMAIN Tail(ring), Tail(ring)[i] = Head(ring)
        PROVE FALSE
    <3>1. i + 1 \in DOMAIN ring /\ 1 \in DOMAIN ring /\ i + 1 # 1
      BY <2>1, <2>2
    <3>2. ring[i + 1] = ring[1]
      BY <2>1, <2>2, <2>3
    <3> QED
      BY <3>1, <3>2
  <2> QED
    BY <2>3 DEF Range
<1>4. DOMAIN cnt = T /\ Head(ring) \in T
  BY SeqTail
<1>5. /\ replenish(ring, cnt) \in [T -> Nat]
      /\ replenish(ring, cnt)[Head(ring)] = cnt[Head(ring)]
      /\ \A t \in T : replenish(ring, cnt)[t] <= 2 * P - 1
  <2>1. \A t \in T : replenish(ring, cnt)[t] = IF t \in Range(Tail(ring))
                                               THEN (cnt[t] \div 2) + P
                                               ELSE cnt[t]
    BY <1>4 DEF replenish
  <2>2. replenish(ring, cnt) = [t \in T |-> replenish(ring, cnt)[t]]
    BY <1>4 DEF replenish
  <2>3. \A t \in T : cnt[t] \in Nat /\ cnt[t] <= 2 * P - 1
    OBVIOUS
  <2>4. \A t \in T : /\ replenish(ring, cnt)[t] \in Nat
                     /\ replenish(ring, cnt)[t] <= 2 * P - 1
    BY <1>2, <2>1, <2>3, Zenon
  <2> QED
    BY <1>3, <1>4, <2>1, <2>2, <2>4
<1>6. /\ new \in [T -> Nat]
      /\ new[Head(ring)] = cnt[Head(ring)]
      /\ \A t \in T : new[t] <= 2 * P - 1
  BY <1>5 DEF sched_next_cnt
<1>7. 2 * P - 1 \in Nat
  BY <1>1
<1> HIDE DEF new, P
<1>8. /\ sched_find(ring, state, new) \in Range(ring)
      /\ (\E t \in Range(ring) : state[t] = RUNNING) =>
            state[sched_find(ring, state, new)] = RUNNING
  <2>1. new \in [T -> Nat] /\ \E b \in Nat : \A t \in T : new[t] <= b
    BY <1>6, <1>7, Zenon
  <2>2. sched_find(ring, state, new) \in Range(ring)
    BY <2>1, SchedFindCorrect, ZenonT(60)
  <2>3. (\E t \in Range(ring) : state[t] = RUNNING) =>
            state[sched_find(ring, state, new)] = RUNNING
    BY <2>1, SchedFindCorrect, ZenonT(60)
  <2> QED
    BY <2>2, <2>3, Zenon
<1>9. sched_next(ring, state, cnt) = sched_find(ring, state, new)
  BY Zenon DEF sched_next, new
<1> QED
  <2>1. /\ new \in [T -> Nat]
        /\ new[Head(ring)] = cnt[Head(ring)]
    BY <1>6, Zenon
  <2>2. \A t \in T : new[t] <= 2 * THREAD_DEFAULT_PRI - 1
    BY <1>6, Zenon DEF P
  <2> QED
    BY <1>8, <1>9, <2>1, <2>2, Zenon DEF new

\* sched_find reads nothing but the state and the count of the ring's threads.
LEMMA FindReadsRing ==
  ASSUME NEW T, NEW ring \in Seq(T), ring # <<>>, NEW s1, NEW s2, NEW n1, NEW n2,
         \A t \in Range(ring) : s1[t] = s2[t] /\ n1[t] = n2[t]
  PROVE  sched_find(ring, s1, n1) = sched_find(ring, s2, n2)
<1> DEFINE order == ScanOrder(ring)
           first(st, cn) == CHOOSE i \in DOMAIN order : FirstBest(order, st, cn, i)
           ready(st) == \E i \in DOMAIN order : st[order[i]] = RUNNING
<1>1. \A i \in DOMAIN order : order[i] \in Range(ring)
  BY ScanMeetsRing
<1>2. \A st, cn : sched_find(ring, st, cn) =
                     IF ready(st) THEN order[first(st, cn)] ELSE order[1]
  BY DEF sched_find
<1> HIDE DEF order
<1>3. \A i \in DOMAIN order : s1[order[i]] = s2[order[i]] /\ n1[order[i]] = n2[order[i]]
  BY <1>1
<1>4. \A i \in DOMAIN order : FirstBest(order, s1, n1, i) <=> FirstBest(order, s2, n2, i)
  BY <1>3 DEF FirstBest
<1>5. first(s1, n1) = first(s2, n2)
  BY <1>4, Zenon
<1>6. ready(s1) <=> ready(s2)
  BY <1>3
<1> HIDE DEF first, ready
<1> QED
  BY <1>2, <1>5, <1>6

\* So a scheduler that knows only the threads D of its own ring computes the
\* same as one whose tables hold all threads.
LEMMA NextReadsRing ==
  ASSUME NEW D, NEW ring \in Seq(D), ring # <<>>,
         NEW st, NEW cn, D \subseteq DOMAIN cn, NEW stD, NEW cnD \in [D -> Nat],
         \A t \in D : stD[t] = st[t] /\ cnD[t] = cn[t],
         \E b \in Nat : \A t \in D : cnD[t] <= b
  PROVE  /\ sched_next(ring, stD, cnD) = sched_next(ring, st, cn)
         /\ sched_next_cnt(ring, stD, cnD)
               = [t \in D |-> sched_next_cnt(ring, st, cn)[t]]
<1> DEFINE new == sched_next_cnt(ring, st, cn)
           newD == sched_next_cnt(ring, stD, cnD)
<1>1. Range(ring) \subseteq D
  BY SeqFacts DEF Range
<1>2. \A t \in Range(ring) : stD[t] = st[t] /\ cnD[t] = cn[t]
  BY <1>1
<1>3. DOMAIN cnD = D /\ \A t \in D : cnD[t] = cn[t]
  OBVIOUS
<1>4. sched_find(ring, stD, cnD) = sched_find(ring, st, cn)
  BY <1>2, FindReadsRing
<1>5. sched_find(ring, st, cn) \in Range(ring)
  <2>1. sched_find(ring, stD, cnD) \in Range(ring)
    BY SchedFindCorrect, ZenonT(60)
  <2> QED
    BY <1>4, <2>1
<1>6. newD = [t \in D |-> new[t]]
  <2>1. replenish(ring, cnD) = [t \in D |-> replenish(ring, cn)[t]]
    BY <1>3 DEF replenish
  <2>2. cnD[sched_find(ring, stD, cnD)] = cn[sched_find(ring, st, cn)]
    BY <1>2, <1>4, <1>5
  <2>3. CASE cn[sched_find(ring, st, cn)] = 0
    BY <2>1, <2>2, <2>3 DEF sched_next_cnt
  <2>4. CASE cn[sched_find(ring, st, cn)] # 0
    BY <2>2, <2>4 DEF sched_next_cnt
  <2> QED
    BY <2>3, <2>4
<1>7. \A t \in Range(ring) : newD[t] = new[t]
  BY <1>1, <1>6
<1> HIDE DEF new, newD
<1>8. sched_find(ring, stD, newD) = sched_find(ring, st, new)
  BY <1>2, <1>7, FindReadsRing
<1>9. sched_next(ring, stD, cnD) = sched_next(ring, st, cn)
  BY <1>8 DEF sched_next, new, newD
<1> QED
  BY <1>6, <1>9 DEF new, newD
=============================================================================
