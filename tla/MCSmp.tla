-------------------------------- MODULE MCSmp --------------------------------
EXTENDS SmpSched, TLC

CONSTANTS idle0, idle1, worker, test, kterm

MCThread == {worker, test, kterm}
MCIdle == (0 :> idle0) @@ (1 :> idle1)

\* kernel_main creates test_thread and then kterm_run on CPU 1; the worker
\* stands for a thread of kernel_main's own CPU.  It is made first, so that
\* kernel_main may be preempted in the middle of a section on CPU 1.
MCHome == [t \in MCThread |-> IF t = worker THEN 0 ELSE 1]
MCBoot == <<worker, test, kterm>>
=============================================================================
