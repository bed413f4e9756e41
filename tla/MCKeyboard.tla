----------------------------- MODULE MCKeyboard -----------------------------
EXTENDS Keyboard, TLC

CONSTANTS idle0, idle1, test, kterm

MCThread == {test, kterm}
MCIdle == (0 :> idle0) @@ (1 :> idle1)

\* kernel_main creates test_thread and then kterm_run on CPU 1.
MCHome == [t \in MCThread |-> 1]
MCBoot == <<test, kterm>>
=============================================================================
