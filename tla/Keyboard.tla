------------------------------ MODULE Keyboard ------------------------------
(***************************************************************************)
(* kbd_8042.c and cond.c on the processors of Smp: the keyboard interrupt  *)
(* handler of one CPU fills a ring buffer and signals a condition that     *)
(* kbd_read waits on in the kernel terminal's thread, on any CPU.          *)
(***************************************************************************)
EXTENDS Smp

CONSTANTS
  KbdCpu,       \* the CPU that kbd_8042_init routes the interrupt to
  Reader,       \* the thread that calls kbd_read (kterm_run)
  Code,         \* the scan codes of the ordinary keys that are pressed
  KBD_BUFSIZE,
  MaxKeys,      \* bound on the number of ordinary keys pressed
  MaxMods       \* bound on the changes of the modifiers

ASSUME KbdAssumption ==
  /\ KbdCpu \in Cpu
  /\ Reader \in Thread
  /\ Code \subseteq 0 .. 127
  /\ KBD_BUFSIZE \in Nat \ {0}
  /\ MaxKeys \in Nat
  /\ MaxMods \in Nat

\* kernel_main starts the terminal after every other thread, and only the
\* terminal runs cpu_show_cmd.
ASSUME ReaderAssumption ==
  /\ \A i \in DOMAIN Boot : Boot[i] = Reader => i = Len(Boot)
  /\ Shows \subseteq {Reader}

VARIABLES
  klock,                \* kbd.lock.counter
  kwait,                \* kbd.cond.threads
  buf, read_pos, write_pos, shift, caps,        \* fields of keyboard_t
  code,                 \* the handler's local code
  kwake,                \* the thread that the handler's cond_signal wakes
  codes,                \* kbd_read's local buf, from index i
  out_buf,              \* all that kbd_read has returned
  typed,                \* history: the ordinary keys pressed, and how
  mods,                 \* history: the number of changes of the modifiers
  overtaken             \* history: the keys not yet decoded at such a change

modvars == <<shift, caps, mods, overtaken>>
kbdvars == <<klock, kwait, buf, read_pos, write_pos, code, kwake, codes, out_buf,
             typed, modvars>>
kvars == <<vars, kbdvars>>

kbd_8042_init ==
  /\ klock = 0
  /\ kwait = <<>>
  /\ buf = [i \in 0 .. KBD_BUFSIZE - 1 |-> 0]
  /\ read_pos = 0
  /\ write_pos = 0
  /\ shift = FALSE
  /\ caps = FALSE
  /\ code = 0
  /\ kwake = Reader
  /\ codes = <<>>
  /\ out_buf = <<>>
  /\ typed = <<>>
  /\ mods = 0
  /\ overtaken = {}

KbdInit == Init /\ kbd_8042_init

\* The scan codes of q to p, a to l and z to m in the tables.
Letters == (16 .. 25) \cup (30 .. 38) \cup (44 .. 50)

kbd_decodeBadCaps(k) ==
  [key |-> k, shifted |-> k # 72 /\ (IF caps THEN ~shift ELSE shift)]

\* The character for a code: which key, and whether it is from the shifted
\* table (72 is the same in both).
kbd_decode(k) ==
  [key |-> k,
   shifted |-> k # 72 /\ (IF caps /\ k \in Letters THEN ~shift ELSE shift)]
------------------------------------------------------------------------------
\* irq_handler on a modifier key: it changes kbd and returns (break codes of
\* ordinary keys change nothing).
kbd_check_special ==
  /\ intr[KbdCpu]
  /\ mods < MaxMods
  /\ \/ shift' = ~shift /\ UNCHANGED caps
     \/ caps' = ~caps /\ UNCHANGED shift
  /\ mods' = mods + 1
  /\ overtaken' = overtaken \cup (Len(out_buf) + 1 .. Len(typed))
  /\ UNCHANGED <<vars, klock, kwait, buf, read_pos, write_pos, code, kwake,
                 codes, out_buf, typed>>

\* irq_handler on an ordinary key, up to spinlock_lock.  More keys than the
\* buffer holds are outside the model: kbd_read then runs off its local array.
kbd_irq(k) ==
  LET t == cur_thread[KbdCpu]
  IN /\ intr[KbdCpu]
     /\ Len(typed) < MaxKeys
     /\ write_pos - read_pos < KBD_BUFSIZE
     /\ typed' = Append(typed, [key |-> k, shift |-> shift, caps |-> caps])
     /\ code' = k
     /\ intr' = [intr EXCEPT ![KbdCpu] = FALSE]
     /\ pc' = [pc EXCEPT ![t] = "kbd_lock"]
     /\ ret' = [ret EXCEPT ![t] = pc[t]]
     /\ UNCHANGED <<lock, cpu_spl, runvars, target, arg, call, spl, klock, kwait,
                    buf, read_pos, write_pos, kwake, codes, out_buf, modvars>>

\* _isr_ret
iretq(t) ==
  /\ pc' = [pc EXCEPT ![t] = ret[t]]
  /\ ret' = [ret EXCEPT ![t] = "absent"]
  /\ intr' = [intr EXCEPT ![KbdCpu] = TRUE]

irq_handler_putBadIndex ==
  LET t == cur_thread[KbdCpu]
  IN /\ pc[t] = "kbd_lock"
     /\ klock = 0
     /\ buf' = [buf EXCEPT ![(write_pos + 1) % KBD_BUFSIZE] = code]
     /\ write_pos' = write_pos + 1
     /\ \/ /\ kwait = <<>>
           /\ iretq(t)
           /\ UNCHANGED <<klock, kwait, kwake>>
        \/ /\ kwait # <<>>
           /\ kwake' = Head(kwait)
           /\ kwait' = thread_list_pop(kwait)
           /\ klock' = 1
           /\ pc' = [pc EXCEPT ![t] = "kbd_cpu"]
           /\ UNCHANGED <<intr, ret>>
     /\ UNCHANGED <<lock, cpu_spl, runvars, target, arg, call, spl,
                    read_pos, code, codes, out_buf, typed, modvars>>

\* The code goes into the buffer; cond_signal pops a waiter if there is one,
\* and otherwise the handler is done.
irq_handler_put ==
  LET t == cur_thread[KbdCpu]
  IN /\ pc[t] = "kbd_lock"
     /\ klock = 0
     /\ buf' = [buf EXCEPT ![write_pos % KBD_BUFSIZE] = code]
     /\ write_pos' = write_pos + 1
     /\ \/ /\ kwait = <<>>
           /\ iretq(t)
           /\ UNCHANGED <<klock, kwait, kwake>>
        \/ /\ kwait # <<>>
           /\ kwake' = Head(kwait)
           /\ kwait' = thread_list_pop(kwait)
           /\ klock' = 1
           /\ pc' = [pc EXCEPT ![t] = "kbd_cpu"]
           /\ UNCHANGED <<intr, ret>>
     /\ UNCHANGED <<lock, cpu_spl, runvars, target, arg, call, spl,
                    read_pos, code, codes, out_buf, typed, modvars>>

\* cond_signal: t->state = THREAD_STATE_RUNNING under the lock of t's CPU.
cond_signal_wake ==
  /\ Goto(KbdCpu, "kbd_cpu", "kbd_unlock")
  /\ Acquire(cpu_id[kwake])
  /\ state' = [state EXCEPT ![kwake] = RUNNING]
  /\ UNCHANGED <<intr, cpu_spl, threads, cur_thread, cpu_id, cnt, sleep_time,
                 timer, ret, target, arg, call, spl, kbdvars>>

\* cpu_unlock, spinlock_unlock, iretq.
irq_handler_return ==
  LET t == cur_thread[KbdCpu]
  IN /\ pc[t] = "kbd_unlock"
     /\ Release(cpu_id[kwake])
     /\ klock' = 0
     /\ iretq(t)
     /\ UNCHANGED <<cpu_spl, runvars, target, arg, call, spl, kwait, buf,
                    read_pos, write_pos, code, kwake, codes,
                    out_buf, typed, modvars>>
------------------------------------------------------------------------------
\* kbd_read: spinlock_lock_splhi.
kbd_read(c) ==
  LET t == cur_thread[c]
  IN /\ t = Reader
     /\ Free(c)
     /\ cpu_splhi(c)
     /\ pc' = [pc EXCEPT ![t] = "outer"]
     /\ call' = [call EXCEPT ![t] = "kbd_read"]
     /\ UNCHANGED <<lock, cpu_spl, runvars, ret, target, arg, kbdvars>>

\* The codes the second loop of kbd_read takes out of the ring.
Unread == [i \in 1 .. write_pos - read_pos |->
             buf[(read_pos + i - 1) % KBD_BUFSIZE]]

\* The lock is had, and there are codes: they are copied and the lock released.
kbd_read_copy(c) ==
  LET t == cur_thread[c]
  IN /\ Goto(c, "outer", "run")
     /\ klock = 0
     /\ read_pos < write_pos
     /\ codes' = Unread
     /\ read_pos' = write_pos
     /\ cpu_splx(c, spl[t])
     /\ UNCHANGED <<lock, cpu_spl, runvars, ret, target, arg, call, spl, klock,
                    kwait, buf, write_pos, code, kwake, out_buf,
                    typed, modvars>>

kbd_read_waitBadLock(c) ==
  /\ Goto(c, "outer", "wait_cpu")
  /\ klock = 0
  /\ read_pos >= write_pos
  /\ UNCHANGED <<cpuvars, runvars, ret, target, arg, call, spl, kbdvars>>

\* The lock is had, and there is nothing to read: cond_wait, up to cpu_lock.
kbd_read_wait(c) ==
  /\ Goto(c, "outer", "wait_cpu")
  /\ klock = 0
  /\ read_pos >= write_pos
  /\ klock' = 1
  /\ UNCHANGED <<cpuvars, runvars, ret, target, arg, call, spl, kwait, buf,
                 read_pos, write_pos, code, kwake, codes, out_buf,
                 typed, modvars>>

\* thread_list_push, and kbd.lock is free again.
cond_wait_push(c) ==
  /\ Goto(c, "wait_cpu", "wait_yield")
  /\ Acquire(c)
  /\ kwait' = thread_list_push(kwait, cur_thread[c])
  /\ klock' = 0
  /\ UNCHANGED <<intr, cpu_spl, runvars, ret, target, arg, call, spl, buf,
                 read_pos, write_pos, code, kwake, codes, out_buf,
                 typed, modvars>>

\* sched_yield_locked.
cond_wait_yield(c) ==
  /\ Goto(c, "wait_yield", "wait_unlock")
  /\ SwitchFrom(c, [state EXCEPT ![cur_thread[c]] = SLEEPING], cnt)
  /\ UNCHANGED <<cpuvars, threads, cpu_id, sleep_time, timer, ret, target, arg,
                 call, spl, kbdvars>>

\* The thread that was woken: cpu_unlock, and it spins for kbd.lock again.
cond_wait_return(c) ==
  /\ Goto(c, "wait_unlock", "outer")
  /\ Release(c)
  /\ UNCHANGED <<intr, cpu_spl, runvars, ret, target, arg, call, spl, kbdvars>>

\* One turn of the last loop of kbd_read, with interrupts enabled and no lock.
kbd_read_decode(c) ==
  LET t == cur_thread[c]
  IN /\ pc[t] = "run"
     /\ call[t] = "kbd_read"
     /\ out_buf' = Append(out_buf, kbd_decode(Head(codes)))
     /\ codes' = Tail(codes)
     /\ call' = [call EXCEPT ![t] = IF Tail(codes) = <<>> THEN "none" ELSE @]
     /\ UNCHANGED <<cpuvars, runvars, pc, ret, target, arg, spl, klock, kwait,
                    buf, read_pos, write_pos, code, kwake, typed, modvars>>
------------------------------------------------------------------------------
InIrq ==
  \/ irq_handler_put
  \/ cond_signal_wake
  \/ irq_handler_return

InRead(c) ==
  \/ kbd_read_copy(c)
  \/ kbd_read_wait(c)
  \/ cond_wait_push(c)
  \/ cond_wait_yield(c)
  \/ cond_wait_return(c)
  \/ kbd_read_decode(c)

KbdNext ==
  \/ kbd_check_special
  \/ \E k \in Code : kbd_irq(k)
  \/ InIrq
  \/ \E c \in Cpu :
       \/ SmpNext(c) /\ UNCHANGED kbdvars
       \/ kbd_read(c)
       \/ InRead(c)

KbdSpec == KbdInit /\ [][KbdNext]_kvars

------------------------------------------------------------------------------
\* The keys that the handler has put into the buffer.
Stored ==
  LET n == Len(typed) - IF pc[cur_thread[KbdCpu]] = "kbd_lock" THEN 1 ELSE 0
  IN [i \in 1 .. n |-> typed[i].key]

\* kbd_read returns every key once and in the order typed: what it has
\* returned, what it still has to decode and what is in the ring are together
\* the keys pressed, also when the positions have gone round the buffer.
KeysInOrder ==
  [i \in DOMAIN out_buf |-> out_buf[i].key] \o codes \o Unread = Stored

\* A key that was read before the modifiers changed again has the character it
\* was typed with: of a letter's two, the upper-case one exactly when one of
\* shift and caps was on.  (kbd_decode looks at the modifiers when kbd_read
\* returns, not when the key is pressed, so nothing is said of other keys.)
CharsAsTyped ==
  \A i \in DOMAIN out_buf \ overtaken :
    LET k == typed[i]
    IN out_buf[i].shifted <=> /\ k.key # 72
                              /\ k.shift # (k.caps /\ k.key \in Letters)

\* kbd_read is never asleep with a key in the buffer, unless the handler that
\* put it there is on its way to wake it: cond_wait loses no signal, because
\* the reader is on the list before kbd.lock is free.
ReaderNotAsleepOnKeys ==
  /\ state[Reader] = SLEEPING
  /\ pc[Reader] = "wait_unlock"
  /\ read_pos < write_pos
  => pc[cur_thread[KbdCpu]] = "kbd_cpu" /\ kwake = Reader

\* The handler never spins for the code it interrupted, neither on the lock of
\* the reader's CPU nor on kbd.lock while the reader that holds it spins for its
\* CPU's lock: thread_create holds another CPU's lock with interrupts enabled,
\* and only the order in which kernel_main creates the threads keeps a handler
\* that needs that lock away.
NoSelfDeadlock ==
  LET t == cur_thread[KbdCpu]
      HoldsLock(c) == ret[t] = "unlock_id" /\ target[t] = c
  IN /\ pc[t] = "kbd_cpu" => ~HoldsLock(cpu_id[kwake])
     /\ pc[t] = "kbd_lock" /\ pc[Reader] = "wait_cpu" => ~HoldsLock(cpu_id[Reader])
=============================================================================
