------------------------------- MODULE Dispatch -------------------------------
(***************************************************************************)
(* What one CPU's scheduler promises the code that runs on it: some        *)
(* runnable thread runs; a thread stops being runnable only by its own     *)
(* call, while it runs; the idle thread always is runnable, so that the    *)
(* CPU always has something to run.  Nothing is said about which runnable  *)
(* thread is chosen: the counts of sched.c are one way to choose.          *)
(***************************************************************************)
CONSTANTS Thread, Idle

VARIABLES
  members,      \* the threads of this CPU
  runnable,     \* those that may be given the CPU
  running       \* the one that has it

dvars == <<members, runnable, running>>

DInit ==
  /\ members = {Idle}
  /\ runnable = {Idle}
  /\ running = Idle

Create(t) ==
  /\ t \notin members
  /\ members' = members \cup {t}
  /\ runnable' = runnable \cup {t}
  /\ UNCHANGED running

Wake(t) ==
  /\ t \in members \ runnable
  /\ runnable' = runnable \cup {t}
  /\ UNCHANGED <<members, running>>

\* A tick: timed sleeps end, and the CPU may go to any runnable thread.
Tick ==
  /\ runnable \subseteq runnable'
  /\ runnable' \subseteq members
  /\ running' \in runnable'
  /\ UNCHANGED members

\* The running thread gives up the CPU and waits to be woken.
Block ==
  /\ running # Idle
  /\ runnable' = runnable \ {running}
  /\ running' \in runnable'
  /\ UNCHANGED members

DNext ==
  \/ \E t \in Thread : Create(t) \/ Wake(t)
  \/ Tick
  \/ Block

DSpec == DInit /\ [][DNext]_dvars
=============================================================================
