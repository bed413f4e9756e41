------------------------------ MODULE SmpSched ------------------------------
(***************************************************************************)
(* Smp implements one Sched per CPU.                                       *)
(***************************************************************************)
EXTENDS Smp

\* The threads of CPU c.
On(c) == {t \in Thread : Home[t] = c} \cup {Idle[c]}

\* The scheduler of CPU c, a section under its lock being one step.
S(c) == INSTANCE Sched WITH
          Thread <- {t \in Thread : Home[t] = c},
          Idle <- Idle[c],
          threads <- threads[c],
          cur_thread <- cur_thread[c],
          state <- [t \in On(c) |-> state[t]],
          cnt <- [t \in On(c) |-> cnt[t]],
          sleep_time <- [t \in On(c) |-> sleep_time[t]],
          timer <- [t \in On(c) |-> timer[t]],
          ctx <- [t \in On(c) |->
                    IF t # cur_thread[c] /\ pc[t] = "unlock_splx"
                    THEN call[t] ELSE "none"]

\* Sections of several CPUs and threads interleave, but what each CPU's ring
\* goes through is a behaviour of Sched: every section is atomic.
ImplementsSched ==
  /\ \A c \in Cpu : S(c)!Init
  /\ [][\A c \in Cpu : [S(c)!Next]_(S(c)!vars)]_vars
=============================================================================
