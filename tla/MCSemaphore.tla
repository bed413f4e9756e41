----------------------------- MODULE MCSemaphore -----------------------------
EXTENDS Semaphore, TLC

CONSTANTS idle0, idle1, w2, s3, s4

\* A thread that waits shares CPU 1 with two that sleep, which between them can
\* keep it off the CPU; kernel_main, on CPU 0, signals.
MCThread == {w2, s3, s4}
MCIdle == (0 :> idle0) @@ (1 :> idle1)
MCHome == [t \in MCThread |-> 1]
MCBoot == <<s4, s3, w2>>
=============================================================================
