------------------------------ MODULE SchedScan ------------------------------
(***************************************************************************)
(* The loop of sched_find as the code runs it, to be compared with the     *)
(* definition by CHOOSE that modules RunQueue, Sched and Smp use.          *)
(***************************************************************************)
EXTENDS Integers, Sequences, Sched

RECURSIVE Scan(_, _, _, _)
\* The rest of the scan after i threads: best is <<cnt, next_thread>>.
Scan(order, i, best, st) ==
  IF i > Len(order) THEN best[2]
  ELSE LET t == order[i]
       IN Scan(order, i + 1,
               IF st[t] = RUNNING /\ cnt[t] > best[1] THEN <<cnt[t], t>> ELSE best,
               st)

\* sched_find(begin) with begin = threads->next.
sched_find_loop == LET order == ScanOrder(threads)
                   IN Scan(order, 1, <<-1, order[1]>>, state)

\* In every reachable state the scan of sched_find ends on the thread its
\* declarative definition names: the first RUNNING one with the largest cnt.
FindIsScan == sched_find_loop = sched_find(threads, state, cnt)
=============================================================================
