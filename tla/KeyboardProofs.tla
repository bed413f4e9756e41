--------------------------- MODULE KeyboardProofs ---------------------------
(***************************************************************************)
(* The keyboard on any number of CPUs, with any number of threads and keys *)
(* and a buffer of any size.                                               *)
(***************************************************************************)
EXTENDS KeyboardSteps

\* t is at p, or an interrupt has taken it from there.
At(t, p) == pc[t] = p \/ ret[t] = p

\* Only kernel_main creates threads, and the reader is the last one; it is still
\* at its start, waiting for the lock, when thread_create has it in the ring.
BootInv ==
  /\ \A t \in All : call[t] = "thread_create" => t = Idle[0]
  /\ \A t \in All : call[t] = "cpu_show_cmd" => t \in Shows
  /\ \A t \in All : At(t, "lock_id") \/ At(t, "unlock_id")
                       => call[t] \in {"thread_create", "cpu_show_cmd"}
  /\ \A i \in DOMAIN Boot : pc[Boot[i]] = "absent" => pc[Reader] = "absent"
  /\ \A t \in All : Creating(t) =>
        /\ pc[Reader] = "absent"
        /\ arg[t] = Reader => \A i \in DOMAIN Boot : Boot[i] # Reader => pc[Boot[i]] # "absent"
  /\ \A t \in All : call[t] = "thread_create" /\ At(t, "unlock_id") =>
        \/ pc[Reader] = "absent"
        \/ pc[Reader] = "thread_start" /\ target[t] = cpu_id[Reader]

KbdInv == ProcInv /\ WaitInv /\ ReadInv /\ DataInv /\ BootInv
------------------------------------------------------------------------------
\* What a step of thread t that neither starts nor pushes a thread does to the calls.
BootStep(t) ==
  /\ pc'[t] # "absent"
  /\ call'[t] = "thread_create" => /\ call[t] = "thread_create"
                                   /\ arg'[t] = arg[t] /\ target'[t] = target[t]
                                   /\ pc'[t] # "lock_own"
  /\ call'[t] = "cpu_show_cmd" => t \in Shows
  /\ \A p \in {"lock_id", "unlock_id"} :
       At(t, p)' => (At(t, p) /\ call'[t] = call[t]) \/ call'[t] = "cpu_show_cmd"

\* The reader that starts has its CPU's lock: thread_create is not in its section.
LEMMA ReaderStarts ==
  ASSUME ProcInv, NEW c \in Cpu, cur_thread[c] = Reader, pc[Reader] = "thread_start",
         NEW u \in All, At(u, "unlock_id"), target[u] = cpu_id[Reader]
  PROVE  FALSE
<1>1. /\ Reader \in All /\ SmpInv /\ HeldOnce(HandlerHeld)
      /\ cpu_id[Reader] = c
  BY KbdAssumption, Zenon DEF ProcInv, All, SmpInv, SwitchedOutParked
<1>2. Holds(Reader, c)
  BY Zenon DEF Holds, OwnHeld
<1>3. Holds(u, c)
  <2>1. "unlock_id" \in IdHeld
    BY DEF IdHeld
  <2> QED
    BY <1>1, <2>1, Zenon DEF Holds, At
<1>4. u = Reader
  BY <1>1, <1>2, <1>3, Zenon DEF HeldOnce
<1>5. LocalInv(Reader)
  BY <1>1, Zenon DEF SmpInv
<1>6. ret[Reader] = "absent"
  BY <1>5, Zenon DEF LocalInv
<1> QED
  BY <1>4, <1>6, Zenon DEF At

\* Such a step of the thread that has CPU c.
LEMMA BootMoves ==
  ASSUME ProcInv, BootInv, NEW c \in Cpu, NEW t, t = cur_thread[c],
         \A u \in All : u # t => /\ pc'[u] = pc[u] /\ ret'[u] = ret[u]
                                 /\ call'[u] = call[u] /\ target'[u] = target[u]
                                 /\ arg'[u] = arg[u],
         cpu_id'[Reader] = cpu_id[Reader], BootStep(t)
  PROVE  BootInv'
<1>1. /\ Reader \in All /\ SmpInv /\ Boot \in Seq(Thread)
      /\ t \in All /\ pc[t] # "absent"
  BY KbdAssumption, SmpAssumption, CurFacts, Zenon DEF ProcInv, All
<1>2. \A i \in DOMAIN Boot : Boot[i] \in All
  BY <1>1 DEF All
<1>3. \A u \in All : pc'[u] = "absent" <=> pc[u] = "absent"
  BY <1>1, Zenon DEF BootStep
<1>4. ASSUME NEW u \in All, call'[u] = "thread_create"
      PROVE  /\ call[u] = "thread_create" /\ arg'[u] = arg[u] /\ target'[u] = target[u]
             /\ Creating(u)' => Creating(u)
             /\ At(u, "unlock_id")' => At(u, "unlock_id")
  <2>1. CASE u # t
    BY <1>4, <2>1, Zenon DEF Creating, At
  <2>2. CASE u = t
    <3>1. At(t, "lock_id")' => At(t, "lock_id")
      BY <1>4, <2>2, Zenon DEF BootStep
    <3>2. At(t, "unlock_id")' => At(t, "unlock_id")
      BY <1>4, <2>2, Zenon DEF BootStep
    <3>3. call[t] = "thread_create" /\ arg'[t] = arg[t] /\ target'[t] = target[t]
          /\ pc'[t] # "lock_own"
      BY <1>4, <2>2, Zenon DEF BootStep
    <3>4. Creating(t)' => Creating(t)
      BY <3>1, <3>3, Zenon DEF Creating, At
    <3> QED
      BY <2>2, <3>2, <3>3, <3>4, Zenon
  <2> QED
    BY <2>1, <2>2, Zenon
<1>5. ASSUME NEW u \in All, call'[u] = "cpu_show_cmd" PROVE u \in Shows
  BY <1>5, Zenon DEF BootStep, BootInv
<1>6. ASSUME NEW u \in All, At(u, "lock_id")' \/ At(u, "unlock_id")'
      PROVE  call'[u] \in {"thread_create", "cpu_show_cmd"}
  <2>1. CASE u # t
    <3>1. At(u, "lock_id") \/ At(u, "unlock_id")
      BY <1>6, <2>1, Zenon DEF At
    <3> QED
      BY <2>1, <3>1, Zenon DEF BootInv
  <2>2. CASE u = t
    <3>1. \/ call'[t] = "cpu_show_cmd"
          \/ call'[t] = call[t] /\ (At(t, "lock_id") \/ At(t, "unlock_id"))
      BY <1>6, <2>2, Zenon DEF BootStep
    <3> QED
      BY <1>1, <2>2, <3>1, Zenon DEF BootInv
  <2> QED
    BY <2>1, <2>2, Zenon
<1>7. ASSUME NEW u \in All, Creating(u)'
      PROVE  /\ pc'[Reader] = "absent"
             /\ arg'[u] = Reader =>
                  \A i \in DOMAIN Boot : Boot[i] # Reader => pc'[Boot[i]] # "absent"
  <2>1. call'[u] = "thread_create"
    BY <1>7, Zenon DEF Creating
  <2>2. Creating(u) /\ arg'[u] = arg[u]
    BY <1>4, <1>7, <2>1, Zenon
  <2>3. /\ pc[Reader] = "absent"
        /\ arg[u] = Reader =>
             \A i \in DOMAIN Boot : Boot[i] # Reader => pc[Boot[i]] # "absent"
    BY <2>2, Zenon DEF BootInv
  <2> QED
    BY <1>1, <1>2, <1>3, <2>2, <2>3, Zenon
<1>8. ASSUME NEW u \in All, call'[u] = "thread_create", At(u, "unlock_id")'
      PROVE  \/ pc'[Reader] = "absent"
             \/ pc'[Reader] = "thread_start" /\ target'[u] = cpu_id'[Reader]
  <2>1. call[u] = "thread_create" /\ At(u, "unlock_id") /\ target'[u] = target[u]
    BY <1>4, <1>8, Zenon
  <2>2. \/ pc[Reader] = "absent"
        \/ pc[Reader] = "thread_start" /\ target[u] = cpu_id[Reader]
    BY <2>1, Zenon DEF BootInv
  <2>3. pc[Reader] = "thread_start" /\ target[u] = cpu_id[Reader] => Reader # t
    BY <2>1, ReaderStarts, Zenon
  <2> QED
    BY <1>1, <1>3, <2>1, <2>2, <2>3, Zenon
<1>9. \A u \in All : call'[u] = "thread_create" => u = Idle[0]
  BY <1>4, Zenon DEF BootInv
<1>10. \A i \in DOMAIN Boot : pc'[Boot[i]] = "absent" => pc'[Reader] = "absent"
  BY <1>1, <1>2, <1>3, Zenon DEF BootInv
<1> QED
  BY <1>5, <1>6, <1>7, <1>8, <1>9, <1>10, Zenon DEF BootInv
\* A step of the thread on CPU c that only changes where it is.
LEMMA BootGoes ==
  ASSUME ProcInv, BootInv, NEW c \in Cpu, NEW t \in All, t = cur_thread[c],
         UNCHANGED <<call, target, arg, cpu_id>>,
         \A u \in All : u # t => pc'[u] = pc[u] /\ ret'[u] = ret[u],
         pc'[t] \notin {"absent", "lock_own"},
         \A p \in {"lock_id", "unlock_id"} : At(t, p)' => At(t, p)
  PROVE  BootInv'
<1>3. BootStep(t)
  <2>1. /\ pc'[t] # "absent" /\ pc'[t] # "lock_own"
        /\ call'[t] = call[t] /\ arg'[t] = arg[t] /\ target'[t] = target[t]
        /\ \A p \in {"lock_id", "unlock_id"} : At(t, p)' => At(t, p)
    BY Zenon
  <2>2. call[t] = "cpu_show_cmd" => t \in Shows
    BY Zenon DEF BootInv
  <2> QED
    BY <2>1, <2>2, Zenon DEF BootStep
<1> QED
  BY <1>3, BootMoves, Zenon

\* An interrupt, the steps of a handler, and its return.
LEMMA BootInterrupt ==
  ASSUME ProcInv, BootInv, NEW c \in Cpu, NEW p \in KbdIrq \cup {"tick"},
         UNCHANGED <<call, target, arg, cpu_id>>,
         pc' = [pc EXCEPT ![cur_thread[c]] = p],
         ret' = [ret EXCEPT ![cur_thread[c]] = pc[cur_thread[c]]]
  PROVE  BootInv'
<1>1. SmpInv
  BY Zenon DEF ProcInv
<1>2. PICK t \in All : t = cur_thread[c]
  BY <1>1, CurFacts, Zenon
<1>3. pc \in [All -> Points] /\ ret \in [All -> {"absent"} \cup Open]
  BY <1>1, Zenon DEF SmpInv, TypeOK
<1>4. pc'[t] = p /\ ret'[t] = pc[t]
      /\ \A u \in All : u # t => pc'[u] = pc[u] /\ ret'[u] = ret[u]
  BY <1>2, <1>3, Zenon
<1>5. p \notin {"absent", "lock_own", "lock_id", "unlock_id"}
  BY DEF KbdIrq
<1>6. \A q \in {"lock_id", "unlock_id"} : At(t, q)' => At(t, q)
  BY <1>4, <1>5, Zenon DEF At
<1>7. /\ t \in All /\ t = cur_thread[c]
      /\ \A u \in All : u # t => pc'[u] = pc[u] /\ ret'[u] = ret[u]
      /\ pc'[t] \notin {"absent", "lock_own"}
      /\ \A q \in {"lock_id", "unlock_id"} : At(t, q)' => At(t, q)
  BY <1>2, <1>4, <1>5, <1>6, Zenon
<1> QED
  BY <1>7, BootGoes, Zenon

LEMMA BootReturn ==
  ASSUME ProcInv, BootInv, NEW c \in Cpu,
         pc[cur_thread[c]] \in KbdIrq \cup {"tick_unlock"},
         UNCHANGED <<call, target, arg, cpu_id>>,
         pc' = [pc EXCEPT ![cur_thread[c]] = ret[cur_thread[c]]],
         ret' = [ret EXCEPT ![cur_thread[c]] = "absent"]
  PROVE  BootInv'
<1>1. SmpInv
  BY Zenon DEF ProcInv
<1>2. PICK t \in All : t = cur_thread[c] /\ LocalInv(t)
  BY <1>1, CurFacts, Zenon
<1>3. pc \in [All -> Points] /\ ret \in [All -> {"absent"} \cup Open]
  BY <1>1, Zenon DEF SmpInv, TypeOK
<1>4. pc'[t] = ret[t] /\ ret'[t] = "absent"
      /\ \A u \in All : u # t => pc'[u] = pc[u] /\ ret'[u] = ret[u]
  BY <1>2, <1>3, Zenon
<1>5. ret[t] # "absent"
  <2>1. pc[t] \in {"tick", "tick_unlock", "kbd_lock", "kbd_cpu", "kbd_unlock"}
    BY <1>2, Zenon DEF KbdIrq
  <2> QED
    BY <1>2, <2>1, Zenon DEF LocalInv
<1>6. ret[t] \notin {"absent", "lock_own"}
  BY <1>2, <1>3, <1>5 DEF Open
<1>7. \A q \in {"lock_id", "unlock_id"} : At(t, q)' => At(t, q)
  BY <1>4, Zenon DEF At
<1>8. /\ t \in All /\ t = cur_thread[c]
      /\ \A u \in All : u # t => pc'[u] = pc[u] /\ ret'[u] = ret[u]
      /\ pc'[t] \notin {"absent", "lock_own"}
      /\ \A q \in {"lock_id", "unlock_id"} : At(t, q)' => At(t, q)
  BY <1>2, <1>4, <1>6, <1>7, Zenon
<1> QED
  BY <1>8, BootGoes, Zenon

\* A step between points that are no calls' of thread_create and cpu_show_cmd.
LEMMA BootGoto ==
  ASSUME ProcInv, BootInv, NEW c \in Cpu, NEW from, NEW to, Goto(c, from, to),
         UNCHANGED <<ret, call, target, arg, cpu_id>>,
         to \notin {"absent", "lock_own", "lock_id", "unlock_id"}
  PROVE  BootInv'
<1>1. SmpInv
  BY Zenon DEF ProcInv
<1>2. PICK t \in All : t = cur_thread[c]
  BY <1>1, CurFacts, Zenon
<1>3. pc \in [All -> Points]
  BY <1>1, Zenon DEF SmpInv, TypeOK
<1>4. pc'[t] = to /\ \A u \in All : u # t => pc'[u] = pc[u] /\ ret'[u] = ret[u]
  BY <1>2, <1>3, Zenon DEF Goto
<1>5. \A q \in {"lock_id", "unlock_id"} : At(t, q)' => At(t, q)
  BY <1>4, Zenon DEF At
<1>6. /\ t \in All /\ t = cur_thread[c]
      /\ \A u \in All : u # t => pc'[u] = pc[u] /\ ret'[u] = ret[u]
      /\ pc'[t] \notin {"absent", "lock_own"}
      /\ \A q \in {"lock_id", "unlock_id"} : At(t, q)' => At(t, q)
  BY <1>2, <1>4, <1>5, Zenon
<1> QED
  BY <1>6, BootGoes, Zenon
\* A step of thread t within, into or out of a call other than thread_create.
LEMMA BootCall ==
  ASSUME ProcInv, BootInv, NEW c \in Cpu, NEW t \in All, t = cur_thread[c],
         UNCHANGED <<ret, arg, cpu_id>>,
         \A u \in All : u # t => pc'[u] = pc[u] /\ call'[u] = call[u]
                                 /\ target'[u] = target[u],
         ret[t] = "absent", pc'[t] # "absent", call'[t] # "thread_create",
         call'[t] = "cpu_show_cmd" => t \in Shows,
         pc'[t] \in {"lock_id", "unlock_id"} => call'[t] = "cpu_show_cmd"
  PROVE  BootInv'
<1>1. \A p \in {"lock_id", "unlock_id"} : At(t, p)' => call'[t] = "cpu_show_cmd"
  BY Zenon DEF At
<1>2. BootStep(t)
  BY <1>1, Zenon DEF BootStep
<1> QED
  BY <1>2, BootMoves, Zenon

\* In a call, outside the handlers, there is no interrupt to return from.
LEMMA NoReturn ==
  ASSUME SmpInv, NEW c \in Cpu,
         pc[cur_thread[c]] \in {"run", "lock_own", "lock_id", "unlock_splx", "unlock_id",
                                "outer"}
  PROVE  /\ cur_thread[c] \in All /\ ret[cur_thread[c]] = "absent"
         /\ LocalInv(cur_thread[c])
<1>1. cur_thread[c] \in All /\ LocalInv(cur_thread[c])
  BY CurFacts, Zenon
<1>2. pc[cur_thread[c]] \notin {"tick", "tick_unlock", "kbd_lock", "kbd_cpu", "kbd_unlock"}
  OBVIOUS
<1> QED
  BY <1>1, <1>2, Zenon DEF LocalInv

LEMMA BootTimer ==
  ASSUME ProcInv, BootInv, NEW c \in Cpu, timer_irq(c) \/ InTimer(c)
  PROVE  BootInv'
<1>1. CASE timer_irq(c)
  <2>1. PICK p \in KbdIrq \cup {"tick"} : p = "tick"
    BY Zenon
  <2>2. /\ pc' = [pc EXCEPT ![cur_thread[c]] = p]
        /\ ret' = [ret EXCEPT ![cur_thread[c]] = pc[cur_thread[c]]]
        /\ UNCHANGED <<call, target, arg, cpu_id>>
    BY <1>1, <2>1, Zenon DEF timer_irq, runvars
  <2> QED
    BY <2>2, BootInterrupt, Zenon
<1>2. CASE timer_irq_handler(c)
  <2>1. /\ Goto(c, "tick", "tick_unlock")
        /\ UNCHANGED <<ret, call, target, arg, cpu_id>>
        /\ "tick_unlock" \notin {"absent", "lock_own", "lock_id", "unlock_id"}
    BY <1>2, Zenon DEF timer_irq_handler
  <2> QED
    BY <2>1, BootGoto, Zenon
<1>3. CASE timer_irq_return(c)
  <2>1. /\ pc[cur_thread[c]] \in KbdIrq \cup {"tick_unlock"}
        /\ pc' = [pc EXCEPT ![cur_thread[c]] = ret[cur_thread[c]]]
        /\ ret' = [ret EXCEPT ![cur_thread[c]] = "absent"]
        /\ UNCHANGED <<call, target, arg, cpu_id>>
    BY <1>3, Zenon DEF timer_irq_return, Goto, runvars
  <2> QED
    BY <2>1, BootReturn, Zenon
<1>4. CASE thread_start(c)
  <2>1. /\ Goto(c, "thread_start", "run")
        /\ UNCHANGED <<ret, call, target, arg, cpu_id>>
        /\ "run" \notin {"absent", "lock_own", "lock_id", "unlock_id"}
    BY <1>4, Zenon DEF thread_start, runvars
  <2> QED
    BY <2>1, BootGoto, Zenon
<1> QED
  BY <1>1, <1>2, <1>3, <1>4, Zenon DEF InTimer

\* What cpu_lock_smp changes.
LEMMA LockSmpMoves ==
  ASSUME SmpInv, NEW c \in Cpu, NEW fn, NEW d, cpu_lock_smp(c, fn, d),
         NEW t \in All, t = cur_thread[c]
  PROVE  /\ call'[t] = fn /\ UNCHANGED <<ret, cpu_id>>
         /\ pc'[t] = "lock_own" \/ (pc'[t] = "lock_id" /\ c # d)
         /\ \A u \in All : u # t => pc'[u] = pc[u] /\ call'[u] = call[u]
                                    /\ target'[u] = target[u]
<1>1. pc \in [All -> Points] /\ call \in [All -> Calls] /\ target \in [All -> Cpu]
  BY Zenon DEF SmpInv, TypeOK
<1>2. /\ call' = [call EXCEPT ![t] = fn] /\ target' = [target EXCEPT ![t] = d]
      /\ UNCHANGED <<ret, cpu_id>>
  BY Zenon DEF cpu_lock_smp, runvars
<1>3. \/ pc' = [pc EXCEPT ![t] = "lock_own"]
      \/ pc' = [pc EXCEPT ![t] = "lock_id"] /\ c # d
  BY Zenon DEF cpu_lock_smp
<1>4. /\ pc'[t] = "lock_own" \/ (pc'[t] = "lock_id" /\ c # d)
      /\ \A u \in All : u # t => pc'[u] = pc[u]
  BY <1>1, <1>3, Zenon
<1>5. /\ call'[t] = fn
      /\ \A u \in All : u # t => call'[u] = call[u] /\ target'[u] = target[u]
  BY <1>1, <1>2, Zenon
<1> QED
  BY <1>2, <1>4, <1>5, Zenon
LEMMA BootCalls ==
  ASSUME ProcInv, BootInv, NEW c \in Cpu, sched_sleep(c) \/ cpu_show_cmd(c)
  PROVE  BootInv'
<1>1. SmpInv
  BY Zenon DEF ProcInv
<1>2. pc[cur_thread[c]] = "run"
  BY Zenon DEF sched_sleep, cpu_show_cmd, Free
<1>3. PICK t \in All : t = cur_thread[c] /\ ret[t] = "absent"
  <2>1. pc[cur_thread[c]] \in {"run", "lock_own", "lock_id", "unlock_splx", "unlock_id",
                               "outer"}
    BY <1>2, Zenon
  <2> QED
    BY <1>1, <2>1, NoReturn, Zenon
<1>4. UNCHANGED arg
  BY Zenon DEF sched_sleep, cpu_show_cmd
<1>5. CASE sched_sleep(c)
  <2>1. PICK fn, d : fn = "sched_sleep" /\ d = c /\ cpu_lock_smp(c, fn, d)
    BY <1>5, Zenon DEF sched_sleep
  <2>2. /\ call'[t] = fn /\ UNCHANGED <<ret, cpu_id>>
        /\ pc'[t] = "lock_own" \/ (pc'[t] = "lock_id" /\ c # d)
        /\ \A u \in All : u # t => pc'[u] = pc[u] /\ call'[u] = call[u]
                                   /\ target'[u] = target[u]
    <3>1. SmpInv /\ cpu_lock_smp(c, fn, d) /\ t \in All /\ t = cur_thread[c]
      BY <1>1, <1>3, <2>1, Zenon
    <3> QED
      BY <3>1, LockSmpMoves
  <2>3. /\ pc'[t] # "absent" /\ call'[t] # "thread_create" /\ call'[t] # "cpu_show_cmd"
        /\ pc'[t] \notin {"lock_id", "unlock_id"}
    BY <2>1, <2>2
  <2> QED
    BY <1>3, <1>4, <2>2, <2>3, BootCall, Zenon
<1>6. CASE cpu_show_cmd(c)
  <2>1. PICK fn, d : fn = "cpu_show_cmd" /\ cpu_lock_smp(c, fn, d) /\ cur_thread[c] \in Shows
    BY <1>6, Zenon DEF cpu_show_cmd
  <2>2. /\ call'[t] = fn /\ UNCHANGED <<ret, cpu_id>>
        /\ pc'[t] = "lock_own" \/ (pc'[t] = "lock_id" /\ c # d)
        /\ \A u \in All : u # t => pc'[u] = pc[u] /\ call'[u] = call[u]
                                   /\ target'[u] = target[u]
    <3>1. SmpInv /\ cpu_lock_smp(c, fn, d) /\ t \in All /\ t = cur_thread[c]
      BY <1>1, <1>3, <2>1, Zenon
    <3> QED
      BY <3>1, LockSmpMoves
  <2>3. pc'[t] # "absent" /\ call'[t] # "thread_create" /\ call'[t] = "cpu_show_cmd"
    BY <2>1, <2>2
  <2> QED
    BY <1>3, <1>4, <2>1, <2>2, <2>3, BootCall, Zenon
<1> QED
  BY <1>5, <1>6

LEMMA BootShowRing ==
  ASSUME ProcInv, BootInv, NEW c \in Cpu, cpu_show_ring(c)
  PROVE  BootInv'
<1>1. SmpInv
  BY Zenon DEF ProcInv
<1>2. /\ Locked(c, "cpu_show_cmd") /\ pc' = [pc EXCEPT ![cur_thread[c]] = Unlock(cur_thread[c])]
      /\ UNCHANGED <<ret, target, arg, call, cpu_id>>
  BY Zenon DEF cpu_show_ring, runvars
<1>3. PICK t \in All : t = cur_thread[c] /\ call[t] = "cpu_show_cmd" /\ ret[t] = "absent"
  <2>1. call[cur_thread[c]] = "cpu_show_cmd" /\ pc[cur_thread[c]] \in {"lock_own", "lock_id"}
    BY <1>2, Zenon DEF Locked
  <2>2. pc[cur_thread[c]] \in {"run", "lock_own", "lock_id", "unlock_splx", "unlock_id",
                               "outer"}
    BY <2>1, Zenon
  <2> QED
    BY <1>1, <2>1, <2>2, NoReturn, Zenon
<1>4. pc \in [All -> Points] /\ t \in Shows
  BY <1>1, <1>3, Zenon DEF SmpInv, TypeOK, BootInv
<1>5. Unlock(t) # "absent"
  BY DEF Unlock
<1>6. pc'[t] # "absent" /\ \A u \in All : u # t => pc'[u] = pc[u]
  BY <1>2, <1>3, <1>4, <1>5, Zenon
<1> QED
  BY <1>2, <1>3, <1>4, <1>6, BootCall, Zenon

LEMMA BootSleepNext ==
  ASSUME ProcInv, BootInv, NEW c \in Cpu, NEW ms, sched_sleep_next(c, ms)
  PROVE  BootInv'
<1>1. SmpInv
  BY Zenon DEF ProcInv
<1>2. /\ Locked(c, "sched_sleep") /\ pc' = [pc EXCEPT ![cur_thread[c]] = Unlock(cur_thread[c])]
      /\ UNCHANGED <<ret, target, arg, call, cpu_id>>
  BY Zenon DEF sched_sleep_next
<1>3. /\ call[cur_thread[c]] = "sched_sleep" /\ LocalInv(cur_thread[c])
      /\ pc[cur_thread[c]] \in {"lock_own", "lock_id"}
  BY <1>1, <1>2, CurFacts, Zenon DEF Locked
<1>4. pc[cur_thread[c]] = "lock_own"
  BY <1>3 DEF LocalInv
<1>5. Goto(c, "lock_own", "unlock_splx")
  BY <1>2, <1>4, Zenon DEF Goto, Unlock
<1>6. "unlock_splx" \notin {"absent", "lock_own", "lock_id", "unlock_id"}
  BY Zenon
<1> QED
  BY <1>2, <1>5, <1>6, BootGoto, Zenon

LEMMA BootUnlock ==
  ASSUME ProcInv, BootInv, NEW c \in Cpu, cpu_unlock_smp(c)
  PROVE  BootInv'
<1>1. SmpInv
  BY Zenon DEF ProcInv
<1>2. /\ pc[cur_thread[c]] \in {"unlock_splx", "unlock_id"}
      /\ pc' = [pc EXCEPT ![cur_thread[c]] = "run"]
      /\ UNCHANGED <<ret, target, arg, cpu_id>>
      /\ \/ call' = [call EXCEPT ![cur_thread[c]] = "none"]
         \/ /\ call' = [call EXCEPT ![cur_thread[c]] = "cpu_show_cmd"]
            /\ call[cur_thread[c]] = "cpu_show_cmd"
  BY Zenon DEF cpu_unlock_smp, Goto, runvars
<1>3. PICK t \in All : t = cur_thread[c] /\ ret[t] = "absent"
  <2>1. pc[cur_thread[c]] \in {"run", "lock_own", "lock_id", "unlock_splx", "unlock_id",
                               "outer"}
    BY <1>2, Zenon
  <2> QED
    BY <1>1, <2>1, NoReturn, Zenon
<1>4. pc \in [All -> Points] /\ call \in [All -> Calls]
  BY <1>1, Zenon DEF SmpInv, TypeOK
<1>5. call[t] = "cpu_show_cmd" => t \in Shows
  BY Zenon DEF BootInv
<1>6. /\ pc'[t] = "run"
      /\ call'[t] = "none" \/ (call'[t] = "cpu_show_cmd" /\ t \in Shows)
      /\ \A u \in All : u # t => pc'[u] = pc[u] /\ call'[u] = call[u]
  BY <1>2, <1>3, <1>4, <1>5, Zenon
<1>7. /\ pc'[t] # "absent" /\ call'[t] # "thread_create"
      /\ pc'[t] \notin {"lock_id", "unlock_id"} /\ (call'[t] = "cpu_show_cmd" => t \in Shows)
  BY <1>6
<1> QED
  BY <1>2, <1>3, <1>6, <1>7, BootCall, ZenonT(60)
\* kernel_main goes for the next thread, which is the reader only when no other is left.
LEMMA NextIsLast ==
  ASSUME Pending # {}
  PROVE  /\ \E i \in DOMAIN Boot : pc[Boot[i]] = "absent"
         /\ NextBoot = Reader =>
              \A i \in DOMAIN Boot : Boot[i] # Reader => pc[Boot[i]] # "absent"
<1>1. Boot \in Seq(Thread) /\ \A i \in DOMAIN Boot : Boot[i] = Reader => i = Len(Boot)
  BY SmpAssumption, ReaderAssumption, Zenon
<1>2. DOMAIN Boot = 1 .. Len(Boot) /\ Len(Boot) \in Nat
  BY <1>1, SeqFacts, Zenon
<1>3. Pending \subseteq DOMAIN Boot /\ \A i \in DOMAIN Boot : i \in Pending <=> pc[Boot[i]] = "absent"
  BY Zenon DEF Pending
<1>4. Pending \subseteq Nat
  BY <1>2, <1>3
<1>5. \E m \in Pending : \A k \in Pending : m <= k
  BY <1>4, NatMin, Zenon
<1>6. PICK m \in Pending : NextBoot = Boot[m] /\ \A k \in Pending : m <= k
  BY <1>5, Zenon DEF NextBoot
<1>7. ASSUME NextBoot = Reader, NEW i \in DOMAIN Boot, Boot[i] # Reader, pc[Boot[i]] = "absent"
      PROVE  FALSE
  <2>1. m = Len(Boot) /\ m <= i
    BY <1>1, <1>3, <1>6, <1>7, Zenon
  <2>2. i = m
    BY <1>2, <1>7, <2>1
  <2> QED
    BY <1>6, <1>7, <2>2, Zenon
<1> QED
  BY <1>3, <1>6, <1>7, Zenon

LEMMA BootCreate ==
  ASSUME ProcInv, BootInv, NEW c \in Cpu, thread_create(c)
  PROVE  BootInv'
<1>1. SmpInv /\ Reader \in All /\ Reader \in Thread
  BY KbdAssumption, Zenon DEF ProcInv, All
<1>2. /\ Idle[0] = cur_thread[c] /\ Free(c) /\ Pending # {}
      /\ arg' = [arg EXCEPT ![Idle[0]] = NextBoot]
      /\ cpu_lock_smp(c, "thread_create", Home[NextBoot])
  BY Zenon DEF thread_create
<1>3. PICK t \in All : t = Idle[0] /\ t = cur_thread[c] /\ ret[t] = "absent" /\ pc[t] = "run"
  <2>1. pc[cur_thread[c]] = "run"
    BY <1>2, Zenon DEF Free
  <2>2. pc[cur_thread[c]] \in {"run", "lock_own", "lock_id", "unlock_splx", "unlock_id",
                               "outer"}
    BY <2>1, Zenon
  <2> QED
    BY <1>1, <1>2, <2>1, <2>2, NoReturn, Zenon
<1>4. /\ call'[t] = "thread_create" /\ UNCHANGED <<ret, cpu_id>>
      /\ pc'[t] \in {"lock_own", "lock_id"}
      /\ \A u \in All : u # t => pc'[u] = pc[u] /\ call'[u] = call[u]
                                 /\ target'[u] = target[u]
  <2>1. PICK fn, d : fn = "thread_create" /\ cpu_lock_smp(c, fn, d)
    BY <1>2, Zenon
  <2>2. SmpInv /\ cpu_lock_smp(c, fn, d) /\ t \in All /\ t = cur_thread[c]
    BY <1>1, <1>3, <2>1, Zenon
  <2>3. /\ call'[t] = fn /\ UNCHANGED <<ret, cpu_id>>
        /\ pc'[t] = "lock_own" \/ (pc'[t] = "lock_id" /\ c # d)
        /\ \A u \in All : u # t => pc'[u] = pc[u] /\ call'[u] = call[u]
                                   /\ target'[u] = target[u]
    BY <2>2, LockSmpMoves
  <2> QED
    BY <2>1, <2>3, Zenon
<1>5. arg'[t] = NextBoot /\ \A u \in All : u # t => arg'[u] = arg[u]
  <2>1. arg \in [All -> All]
    BY <1>1, Zenon DEF SmpInv, TypeOK
  <2> QED
    BY <1>2, <1>3, <2>1, Zenon
<1>6. /\ \E i \in DOMAIN Boot : pc[Boot[i]] = "absent"
      /\ NextBoot = Reader =>
           \A i \in DOMAIN Boot : Boot[i] # Reader => pc[Boot[i]] # "absent"
  BY <1>2, NextIsLast, Zenon
<1>7. pc[Reader] = "absent"
  BY <1>6, Zenon DEF BootInv
<1>8. \A i \in DOMAIN Boot : Boot[i] \in All
  BY SmpAssumption DEF All
<1>9. \A u \in All : pc'[u] = "absent" <=> pc[u] = "absent"
  BY <1>3, <1>4, Zenon
<1>10. \A u \in All : call'[u] = "thread_create" => u = t
  BY <1>3, <1>4, Zenon DEF BootInv
<1>11. pc'[Reader] = "absent"
  BY <1>1, <1>7, <1>9, Zenon
<1>12. ~At(t, "unlock_id")'
  BY <1>3, <1>4 DEF At
<1>13. \A u \in All : call'[u] = "cpu_show_cmd" => u \in Shows
  <2>1. call'[t] # "cpu_show_cmd"
    BY <1>4
  <2> QED
    BY <1>4, <2>1, Zenon DEF BootInv
<1>14. ASSUME NEW u \in All, At(u, "lock_id")' \/ At(u, "unlock_id")'
       PROVE  call'[u] \in {"thread_create", "cpu_show_cmd"}
  <2>1. CASE u = t
    BY <1>4, <2>1, Zenon
  <2>2. CASE u # t
    <3>1. At(u, "lock_id") \/ At(u, "unlock_id")
      BY <1>4, <1>14, <2>2, Zenon DEF At
    <3> QED
      BY <1>4, <2>2, <3>1, Zenon DEF BootInv
  <2> QED
    BY <2>1, <2>2
<1>15. ASSUME NEW u \in All, Creating(u)', arg'[u] = Reader
       PROVE  \A i \in DOMAIN Boot : Boot[i] # Reader => pc'[Boot[i]] # "absent"
  <2>1. u = t
    BY <1>10, <1>15, Zenon DEF Creating
  <2> QED
    BY <1>5, <1>6, <1>8, <1>9, <1>15, <2>1, Zenon
<1>16. \A u \in All : call'[u] = "thread_create" => u = Idle[0]
  BY <1>3, <1>10, Zenon
<1> QED
  BY <1>11, <1>13, <1>14, <1>15, <1>16, Zenon DEF BootInv
\* A new thread is pushed: the reader only when all the others are there.
LEMMA BootPush ==
  ASSUME ProcInv, BootInv, NEW c \in Cpu, thread_create_push(c)
  PROVE  BootInv'
<1>1. SmpInv /\ Reader \in All
  BY KbdAssumption, Zenon DEF ProcInv, All
<1>2. /\ call[cur_thread[c]] = "thread_create"
      /\ pc[cur_thread[c]] \in {"lock_own", "lock_id"}
  BY Zenon DEF thread_create_push, Locked
<1>3. PICK t \in All : t = cur_thread[c] /\ ret[t] = "absent"
  <2>1. pc[cur_thread[c]] \in {"run", "lock_own", "lock_id", "unlock_splx", "unlock_id",
                               "outer"}
    BY <1>2, Zenon
  <2> QED
    BY <1>1, <2>1, NoReturn, Zenon
<1>4. Creating(t)
  BY <1>2, <1>3, Zenon DEF Creating
<1>5. PICK new \in All : /\ new = arg[t] /\ pc[new] = "absent" /\ t = Idle[0] /\ new # t
  <2>1. t = Idle[0] /\ arg[t] \in All /\ pc[arg[t]] = "absent"
    BY <1>1, <1>4, Zenon DEF SmpInv, CreateInv, All
  <2>2. pc[t] # "absent"
    BY <1>1, <1>3, CurFacts, Zenon
  <2> QED
    BY <2>1, <2>2, Zenon
<1>6. /\ pc \in [All -> Points] /\ cpu_id \in [All -> Cpu]
  BY <1>1, Zenon DEF SmpInv, TypeOK
<1>7. /\ pc' = [pc EXCEPT ![t] = Unlock(t), ![new] = "thread_start"]
      /\ cpu_id' = [cpu_id EXCEPT ![new] = target[t]]
      /\ UNCHANGED <<ret, target, arg, call>>
  BY <1>3, <1>5, Zenon DEF thread_create_push
<1>8. /\ pc'[t] = Unlock(t) /\ pc'[new] = "thread_start"
      /\ \A u \in All : u # t /\ u # new => pc'[u] = pc[u]
      /\ cpu_id'[new] = target[t]
      /\ \A u \in All : u # new => cpu_id'[u] = cpu_id[u]
  BY <1>5, <1>6, <1>7, Zenon
<1>9. Unlock(t) \in {"unlock_splx", "unlock_id"}
  BY Zenon DEF Unlock
<1>10. /\ pc[Reader] = "absent"
       /\ new = Reader => \A i \in DOMAIN Boot : Boot[i] # Reader => pc[Boot[i]] # "absent"
  BY <1>4, <1>5, Zenon DEF BootInv
<1>11. new # Reader => pc'[Reader] = "absent"
  <2>1. Reader # t
    BY <1>1, <1>3, <1>10, CurFacts, Zenon
  <2> QED
    BY <1>1, <1>8, <1>10, <2>1, Zenon
<1>12. \A i \in DOMAIN Boot : pc'[Boot[i]] = "absent" => pc'[Reader] = "absent"
  <2>1. ASSUME NEW i \in DOMAIN Boot, pc'[Boot[i]] = "absent", new = Reader PROVE FALSE
    <3>1. Boot[i] \in All
      BY SmpAssumption DEF All
    <3>2. Boot[i] # t /\ Boot[i] # new
      BY <1>8, <1>9, <2>1
    <3>3. pc[Boot[i]] = "absent"
      BY <1>8, <2>1, <3>1, <3>2, Zenon
    <3> QED
      BY <1>10, <2>1, <3>2, <3>3, Zenon
  <2> QED
    BY <1>11, <2>1, Zenon
<1>13. \A u \in All : call[u] = "thread_create" => u = t
  BY <1>5, Zenon DEF BootInv
<1>14. \A u \in All : ~Creating(u)'
  <2>1. ~Creating(t)'
    BY <1>3, <1>7, <1>8, <1>9 DEF Creating
  <2> QED
    BY <1>7, <1>13, <2>1, Zenon DEF Creating
<1>15. ASSUME NEW u \in All, At(u, "lock_id")' \/ At(u, "unlock_id")'
       PROVE  call'[u] \in {"thread_create", "cpu_show_cmd"}
  <2>1. CASE u = t
    BY <1>2, <1>3, <1>7, <2>1, Zenon
  <2>2. CASE u = new
    <3>1. ret[new] = "absent"
      <4>1. LocalInv(new)
        BY <1>1, Zenon DEF SmpInv
      <4> QED
        BY <1>5, <4>1, Zenon DEF LocalInv
    <3> QED
      BY <1>7, <1>8, <1>15, <2>2, <3>1 DEF At
  <2>3. CASE u # t /\ u # new
    <3>1. At(u, "lock_id") \/ At(u, "unlock_id")
      BY <1>7, <1>8, <1>15, <2>3, Zenon DEF At
    <3> QED
      BY <1>7, <3>1, Zenon DEF BootInv
  <2> QED
    BY <2>1, <2>2, <2>3, Zenon
<1>16. ASSUME NEW u \in All, call'[u] = "thread_create"
       PROVE  \/ pc'[Reader] = "absent"
              \/ pc'[Reader] = "thread_start" /\ target'[u] = cpu_id'[Reader]
  BY <1>7, <1>8, <1>11, <1>13, <1>16, Zenon
<1>17. \A u \in All : call'[u] = "thread_create" => u = Idle[0]
  BY <1>5, <1>7, <1>13, Zenon
<1>18. \A u \in All : call'[u] = "cpu_show_cmd" => u \in Shows
  BY <1>7, Zenon DEF BootInv
<1> QED
  BY <1>12, <1>14, <1>15, <1>16, <1>17, <1>18, Zenon DEF BootInv

LEMMA BootSmp ==
  ASSUME ProcInv, BootInv, NEW c \in Cpu, SmpNext(c)
  PROVE  BootInv'
<1>1. CASE timer_irq(c) \/ InTimer(c)
  BY <1>1, BootTimer, Zenon
<1>2. CASE thread_create(c)
  BY <1>2, BootCreate, Zenon
<1>3. CASE sched_sleep(c) \/ cpu_show_cmd(c)
  BY <1>3, BootCalls, Zenon
<1>4. CASE thread_create_push(c)
  BY <1>4, BootPush, Zenon
<1>5. CASE \E ms \in 1 .. MaxSleep : sched_sleep_next(c, ms)
  BY <1>5, BootSleepNext, Zenon
<1>6. CASE cpu_show_ring(c)
  BY <1>6, BootShowRing, Zenon
<1>7. CASE cpu_unlock_smp(c)
  BY <1>7, BootUnlock, Zenon
<1> QED
  BY <1>1, <1>2, <1>3, <1>4, <1>5, <1>6, <1>7, Zenon DEF SmpNext, InCall
\* The handler's steps.
LEMMA BootIrq ==
  ASSUME ProcInv, BootInv, (\E k \in Code : kbd_irq(k)) \/ InIrq
  PROVE  BootInv'
<1>1. KbdCpu \in Cpu
  BY KbdAssumption
<1>2. CASE \E k \in Code : kbd_irq(k)
  <2>1. PICK p \in KbdIrq \cup {"tick"} : p = "kbd_lock"
    BY Zenon DEF KbdIrq
  <2>2. /\ pc' = [pc EXCEPT ![cur_thread[KbdCpu]] = p]
        /\ ret' = [ret EXCEPT ![cur_thread[KbdCpu]] = pc[cur_thread[KbdCpu]]]
        /\ UNCHANGED <<call, target, arg, cpu_id>>
    BY <1>2, <2>1, Zenon DEF kbd_irq, runvars
  <2> QED
    BY <1>1, <2>2, BootInterrupt, Zenon
<1>3. ASSUME pc[cur_thread[KbdCpu]] \in KbdIrq, iretq(cur_thread[KbdCpu]),
             UNCHANGED <<call, target, arg, cpu_id>>
      PROVE  BootInv'
  <2>1. /\ pc[cur_thread[KbdCpu]] \in KbdIrq \cup {"tick_unlock"}
        /\ pc' = [pc EXCEPT ![cur_thread[KbdCpu]] = ret[cur_thread[KbdCpu]]]
        /\ ret' = [ret EXCEPT ![cur_thread[KbdCpu]] = "absent"]
    BY <1>3, Zenon DEF iretq
  <2> QED
    BY <1>1, <1>3, <2>1, BootReturn, Zenon
<1>4. ASSUME NEW from, NEW to, Goto(KbdCpu, from, to), to \in {"kbd_cpu", "kbd_unlock"},
             UNCHANGED <<ret, call, target, arg, cpu_id>>
      PROVE  BootInv'
  <2>1. to \notin {"absent", "lock_own", "lock_id", "unlock_id"}
    BY <1>4
  <2> QED
    BY <1>1, <1>4, <2>1, BootGoto, Zenon
<1>5. CASE irq_handler_put
  <2>1. /\ pc[cur_thread[KbdCpu]] = "kbd_lock" /\ pc[cur_thread[KbdCpu]] \in KbdIrq
        /\ UNCHANGED <<call, target, arg, cpu_id>>
    BY <1>5, Zenon DEF irq_handler_put, runvars, KbdIrq
  <2>2. \/ iretq(cur_thread[KbdCpu])
        \/ Goto(KbdCpu, "kbd_lock", "kbd_cpu") /\ UNCHANGED ret
    BY <1>5, Zenon DEF irq_handler_put, Goto
  <2> QED
    BY <1>3, <1>4, <2>1, <2>2, Zenon
<1>6. CASE cond_signal_wake
  <2>1. Goto(KbdCpu, "kbd_cpu", "kbd_unlock") /\ UNCHANGED <<ret, call, target, arg, cpu_id>>
    BY <1>6, Zenon DEF cond_signal_wake
  <2> QED
    BY <1>4, <2>1, Zenon
<1>7. CASE irq_handler_return
  <2>1. /\ pc[cur_thread[KbdCpu]] \in KbdIrq /\ iretq(cur_thread[KbdCpu])
        /\ UNCHANGED <<call, target, arg, cpu_id>>
    BY <1>7, Zenon DEF irq_handler_return, runvars, KbdIrq
  <2> QED
    BY <1>3, <2>1, Zenon
<1> QED
  BY <1>2, <1>5, <1>6, <1>7, Zenon DEF InIrq

\* The reader's steps.
LEMMA BootRead ==
  ASSUME ProcInv, BootInv, NEW c \in Cpu, kbd_read(c) \/ InRead(c)
  PROVE  BootInv'
<1>1. SmpInv
  BY Zenon DEF ProcInv
<1>2. pc \in [All -> Points] /\ call \in [All -> Calls]
  BY <1>1, Zenon DEF SmpInv, TypeOK
<1>3. ASSUME NEW p, NEW f, pc[cur_thread[c]] = "run", p \in {"run", "outer"},
             f \in {"none", "kbd_read"},
             pc' = [pc EXCEPT ![cur_thread[c]] = p] ,
             call' = [call EXCEPT ![cur_thread[c]] = f],
             UNCHANGED <<ret, target, arg, cpu_id>>
      PROVE  BootInv'
  <2>1. PICK t \in All : t = cur_thread[c] /\ ret[t] = "absent"
    <3>1. pc[cur_thread[c]] \in {"run", "lock_own", "lock_id", "unlock_splx", "unlock_id",
                                 "outer"}
      BY <1>3, Zenon
    <3> QED
      BY <1>1, <3>1, NoReturn, Zenon
  <2>2. pc'[t] = p /\ call'[t] = f
        /\ \A u \in All : u # t => pc'[u] = pc[u] /\ call'[u] = call[u]
                                   /\ target'[u] = target[u]
    BY <1>2, <1>3, <2>1, Zenon
  <2>3. /\ pc'[t] # "absent" /\ call'[t] # "thread_create" /\ call'[t] # "cpu_show_cmd"
        /\ pc'[t] \notin {"lock_id", "unlock_id"}
    BY <1>3, <2>2
  <2> QED
    BY <1>3, <2>1, <2>2, <2>3, BootCall, Zenon
<1>4. ASSUME NEW from, NEW to, Goto(c, from, to),
             to \in {"run", "outer", "wait_cpu", "wait_yield", "wait_unlock"},
             UNCHANGED <<ret, call, target, arg, cpu_id>>
      PROVE  BootInv'
  <2>1. to \notin {"absent", "lock_own", "lock_id", "unlock_id"}
    BY <1>4
  <2> QED
    BY <1>4, <2>1, BootGoto, Zenon
<1>5. CASE kbd_read(c)
  <2>1. /\ pc[cur_thread[c]] = "run"
        /\ pc' = [pc EXCEPT ![cur_thread[c]] = "outer"]
        /\ call' = [call EXCEPT ![cur_thread[c]] = "kbd_read"]
        /\ UNCHANGED <<ret, arg, target, cpu_id>>
    BY <1>5, Zenon DEF kbd_read, Free, runvars
  <2> QED
    BY <1>3, <2>1, Zenon
<1>6. CASE kbd_read_decode(c)
  <2>1. /\ pc[cur_thread[c]] = "run" /\ call[cur_thread[c]] = "kbd_read"
        /\ pc' = pc /\ UNCHANGED <<ret, arg, target, cpu_id>>
    BY <1>6, Zenon DEF kbd_read_decode, runvars
  <2>2. \/ call' = [call EXCEPT ![cur_thread[c]] = "none"]
        \/ call' = [call EXCEPT ![cur_thread[c]] = "kbd_read"]
    BY <1>6, <2>1, Zenon DEF kbd_read_decode
  <2>3. pc' = [pc EXCEPT ![cur_thread[c]] = "run"]
    BY <1>2, <2>1
  <2> QED
    BY <1>3, <2>1, <2>2, <2>3, Zenon
<1>7. CASE kbd_read_copy(c)
  <2>1. Goto(c, "outer", "run") /\ UNCHANGED <<ret, call, target, arg, cpu_id>>
    BY <1>7, Zenon DEF kbd_read_copy, runvars
  <2> QED
    BY <1>4, <2>1, Zenon
<1>8. CASE kbd_read_wait(c)
  <2>1. Goto(c, "outer", "wait_cpu") /\ UNCHANGED <<ret, call, target, arg, cpu_id>>
    BY <1>8, Zenon DEF kbd_read_wait, runvars
  <2> QED
    BY <1>4, <2>1, Zenon
<1>9. CASE cond_wait_push(c)
  <2>1. Goto(c, "wait_cpu", "wait_yield") /\ UNCHANGED <<ret, call, target, arg, cpu_id>>
    BY <1>9, Zenon DEF cond_wait_push, runvars
  <2> QED
    BY <1>4, <2>1, Zenon
<1>10. CASE cond_wait_yield(c)
  <2>1. Goto(c, "wait_yield", "wait_unlock") /\ UNCHANGED <<ret, call, target, arg, cpu_id>>
    BY <1>10, Zenon DEF cond_wait_yield
  <2> QED
    BY <1>4, <2>1, Zenon
<1>11. CASE cond_wait_return(c)
  <2>1. Goto(c, "wait_unlock", "outer") /\ UNCHANGED <<ret, call, target, arg, cpu_id>>
    BY <1>11, Zenon DEF cond_wait_return, runvars
  <2> QED
    BY <1>4, <2>1, Zenon
<1> QED
  BY <1>5, <1>6, <1>7, <1>8, <1>9, <1>10, <1>11, Zenon DEF InRead
------------------------------------------------------------------------------
LEMMA KbdInvInit == KbdInit => KbdInv
<1> SUFFICES ASSUME KbdInit PROVE KbdInv
  OBVIOUS
<1>1. Init /\ SmpInv /\ OneHolder
  BY SmpInvInit, OneHolderInit, Zenon DEF KbdInit
<1>2. /\ pc = [t \in All |-> IF t \in Thread THEN "absent" ELSE "run"]
      /\ ret = [t \in All |-> "absent"] /\ call = [t \in All |-> "none"]
      /\ cur_thread = Idle
  BY <1>1, Zenon DEF Init
<1>3. /\ \A t \in All : pc[t] \in {"absent", "run"} /\ ret[t] = "absent" /\ call[t] = "none"
      /\ Reader \in All /\ pc[Reader] = "absent"
  BY <1>2, KbdAssumption, Zenon DEF All
<1>4. Handler \in {"absent", "run"}
  <2>1. cur_thread[KbdCpu] \in All
    BY <1>1, KbdAssumption, CurFacts, Zenon
  <2> QED
    BY <1>3, <2>1, Zenon DEF Handler
<1>5. Handler \notin KbdIrq /\ Handler \notin {"kbd_lock", "kbd_cpu", "kbd_unlock"}
  BY <1>4 DEF KbdIrq
<1>6. /\ klock = 0 /\ kwait = <<>>
      /\ buf = [i \in 0 .. KBD_BUFSIZE - 1 |-> 0] /\ read_pos = 0 /\ write_pos = 0
      /\ shift = FALSE /\ caps = FALSE /\ code = 0 /\ codes = <<>> /\ out_buf = <<>>
      /\ typed = <<>> /\ overtaken = {}
  BY DEF KbdInit, kbd_8042_init
<1>7. ProcInv
  <2>1. HandlerHeld = {}
    BY <1>5, Zenon DEF HandlerHeld
  <2>2. HeldOnce(HandlerHeld)
    BY <1>1, <2>1, Zenon DEF HeldOnce, OneHolder
  <2>3. \A u \in All : pc[u] \notin KbdIrq
    BY <1>3 DEF KbdIrq
  <2>4. RunInv
    BY <1>1, SmpAssumption DEF Init, RunInv
  <2> QED
    BY <1>1, <2>2, <2>3, <2>4, Zenon DEF ProcInv
<1>8. WaitInv
  <2>1. <<>> # <<Reader>> /\ 0 # 1 /\ 0 >= 0
    OBVIOUS
  <2>2. ~Waits /\ pc[Reader] # "wait_cpu"
    BY <1>3 DEF Waits
  <2> QED
    BY <1>5, <1>6, <2>1, <2>2, Zenon DEF WaitInv
<1>9. ReadInv
  <2>1. \A u \in All : pc[u] \notin SemaPoints /\ call[u] # "kbd_read"
    BY <1>3 DEF SemaPoints
  <2> QED
    BY <1>3, <1>6, <2>1, Zenon DEF ReadInv
<1>10. DataInv
  <2>1. DataTypeOK
    <3>1. \A S : <<>> \in Seq(S)
      OBVIOUS
    <3>2. 0 \in 0 .. 127 /\ 0 \in Nat
      OBVIOUS
    <3>3. buf \in [0 .. KBD_BUFSIZE - 1 -> 0 .. 127]
      BY <1>6, <3>2, Zenon
    <3> QED
      BY <1>6, <3>1, <3>2, <3>3, Zenon DEF DataTypeOK
  <2>2. RingInv
    <3>1. Handler # "kbd_lock" /\ Len(typed) = write_pos
      BY <1>5, <1>6
    <3>2. /\ read_pos <= write_pos /\ write_pos - read_pos <= KBD_BUFSIZE
          /\ \A i \in read_pos + 1 .. write_pos : FALSE
      BY <1>6, KbdAssumption
    <3> QED
      BY <3>1, <3>2, Zenon DEF RingInv
  <2>3. OutInv /\ ModInv
    BY <1>6 DEF OutInv, ModInv, CharsAsTyped
  <2> QED
    BY <2>1, <2>2, <2>3, Zenon DEF DataInv
<1>11. BootInv
  <2>1. \A t \in All : /\ call[t] # "thread_create" /\ call[t] # "cpu_show_cmd"
                       /\ ~At(t, "lock_id") /\ ~At(t, "unlock_id")
    BY <1>3 DEF At
  <2> QED
    BY <1>3, <2>1, Zenon DEF BootInv, Creating
<1> QED
  BY <1>7, <1>8, <1>9, <1>10, <1>11, Zenon DEF KbdInv

\* A step that leaves the threads and the keyboard's control alone.
LEMMA ControlSame ==
  ASSUME ProcInv, WaitInv, ReadInv, BootInv,
         UNCHANGED <<vars, klock, kwait, kwake, read_pos, write_pos, codes>>
  PROVE  /\ ProcInv' /\ WaitInv' /\ ReadInv' /\ BootInv'
         /\ Handler' = Handler
<1>1. /\ UNCHANGED vars
      /\ UNCHANGED <<lock, cur_thread, cpu_id, state, timer, pc, ret, target, arg, call>>
  BY DEF vars, cpuvars, runvars, ctlvars
<1>2. Handler' = Handler /\ HandlerHeld' = HandlerHeld /\ (Waits' <=> Waits)
  BY <1>1, Zenon DEF Handler, HandlerHeld, Waits
<1>3. SmpInv' /\ RunInv'
  <2>1. SmpInv'
    BY <1>1, SmpInvStutter, Zenon DEF ProcInv
  <2>2. RunInv'
    BY <1>1, Zenon DEF ProcInv, RunInv
  <2> QED
    BY <2>1, <2>2
<1>4. \A t \in All, d \in Cpu : Holds(t, d)' <=> Holds(t, d)
  BY <1>1, Zenon DEF Holds
<1>5. HeldOnce(HandlerHeld)'
  <2>1. HeldOnce(HandlerHeld)
    BY Zenon DEF ProcInv
  <2> QED
    BY <1>1, <1>2, <1>4, <2>1, Zenon DEF HeldOnce
<1>6. ProcInv'
  BY <1>1, <1>3, <1>5, Zenon DEF ProcInv
<1>7. WaitInv'
  BY <1>1, <1>2, Zenon DEF WaitInv
<1>8. ReadInv'
  BY <1>1, Zenon DEF ReadInv, Reading
<1>9. BootInv'
  BY <1>1, Zenon DEF BootInv, Creating, At
<1> QED
  BY <1>2, <1>6, <1>7, <1>8, <1>9, Zenon
\* Every step keeps the invariant: of the handler, of the reader, and of the rest.
LEMMA KbdInvStep == KbdInv /\ [KbdNext]_kvars => KbdInv'
<1> SUFFICES ASSUME KbdInv, [KbdNext]_kvars PROVE KbdInv'
  OBVIOUS
<1>1. ProcInv /\ WaitInv /\ ReadInv /\ DataInv /\ BootInv
  BY Zenon DEF KbdInv
<1>2. CASE UNCHANGED kvars
  <2>1. /\ UNCHANGED <<vars, klock, kwait, kwake, read_pos, write_pos, codes>>
        /\ UNCHANGED <<buf, read_pos, write_pos, shift, caps, overtaken, code, codes,
                       out_buf, typed>>
    BY <1>2 DEF kvars, kbdvars, modvars
  <2>2. ProcInv' /\ WaitInv' /\ ReadInv' /\ BootInv' /\ Handler' = Handler
    BY <1>1, <2>1, ControlSame, Zenon
  <2>3. DataInv'
    BY <1>1, <2>1, <2>2, DataSame, Zenon
  <2> QED
    BY <2>2, <2>3, Zenon DEF KbdInv
<1>3. CASE kbd_check_special
  <2>1. UNCHANGED <<vars, klock, kwait, kwake, read_pos, write_pos, codes>>
    BY <1>3, Zenon DEF kbd_check_special
  <2>2. ProcInv' /\ WaitInv' /\ ReadInv' /\ BootInv'
    BY <1>1, <2>1, ControlSame, Zenon
  <2>3. DataInv'
    BY <1>1, <1>3, SpecialData, Zenon
  <2> QED
    BY <2>2, <2>3, Zenon DEF KbdInv
<1>4. CASE \E k \in Code : kbd_irq(k)
  <2>1. PICK k \in Code : kbd_irq(k)
    BY <1>4, Zenon
  <2>2. ProcInv' /\ WaitInv' /\ ReadInv' /\ Handler \notin KbdIrq /\ Handler' = "kbd_lock"
    BY <1>1, <2>1, IrqControl, Zenon
  <2>3. Handler # "kbd_lock"
    BY <2>2, Zenon DEF KbdIrq
  <2>4. DataInv'
    BY <1>1, <2>1, <2>2, <2>3, IrqData, Zenon
  <2>5. BootInv'
    BY <1>1, <1>4, BootIrq, Zenon
  <2> QED
    BY <2>2, <2>4, <2>5, Zenon DEF KbdInv
<1>5. CASE InIrq
  <2>1. BootInv'
    BY <1>1, <1>5, BootIrq, Zenon
  <2>2. CASE irq_handler_put
    <3>1. /\ ProcInv' /\ WaitInv' /\ ReadInv'
          /\ Handler = "kbd_lock" /\ Handler' # "kbd_lock"
      BY <1>1, <2>2, PutControl, Zenon
    <3>2. DataInv'
      BY <1>1, <2>2, <3>1, PutData, Zenon
    <3> QED
      BY <2>1, <3>1, <3>2, Zenon DEF KbdInv
  <2>3. CASE cond_signal_wake
    <3>1. /\ ProcInv' /\ WaitInv' /\ ReadInv'
          /\ Handler = "kbd_cpu" /\ Handler' = "kbd_unlock"
      BY <1>1, <2>3, WakeControl, Zenon
    <3>2. UNCHANGED <<buf, read_pos, write_pos, shift, caps, overtaken, code, codes,
                      out_buf, typed>>
      BY <2>3 DEF cond_signal_wake, kbdvars, modvars
    <3>3. Handler' = "kbd_lock" <=> Handler = "kbd_lock"
      BY <3>1
    <3>4. DataInv'
      BY <1>1, <3>2, <3>3, DataSame, Zenon
    <3> QED
      BY <2>1, <3>1, <3>4, Zenon DEF KbdInv
  <2>4. CASE irq_handler_return
    <3>1. /\ ProcInv' /\ WaitInv' /\ ReadInv'
          /\ Handler = "kbd_unlock" /\ Handler' \notin KbdIrq
      BY <1>1, <2>4, ReturnControl, Zenon
    <3>2. UNCHANGED <<buf, read_pos, write_pos, shift, caps, overtaken, code, codes,
                      out_buf, typed>>
      BY <2>4 DEF irq_handler_return, modvars
    <3>3. Handler' = "kbd_lock" <=> Handler = "kbd_lock"
      BY <3>1 DEF KbdIrq
    <3>4. DataInv'
      BY <1>1, <3>2, <3>3, DataSame, Zenon
    <3> QED
      BY <2>1, <3>1, <3>4, Zenon DEF KbdInv
  <2> QED
    BY <1>5, <2>2, <2>3, <2>4, Zenon DEF InIrq
<1>6. ASSUME NEW c \in Cpu, SmpNext(c), UNCHANGED kbdvars PROVE KbdInv'
  <2>1. ProcInv' /\ WaitInv' /\ ReadInv' /\ HandlerKept
    BY <1>1, <1>6, SmpKbd, Zenon
  <2>2. Handler' = "kbd_lock" <=> Handler = "kbd_lock"
    BY <2>1, Zenon DEF HandlerKept, KbdIrq
  <2>3. UNCHANGED <<buf, read_pos, write_pos, shift, caps, overtaken, code, codes,
                    out_buf, typed>>
    BY <1>6 DEF kbdvars, modvars
  <2>4. DataInv'
    BY <1>1, <2>2, <2>3, DataSame, Zenon
  <2>5. BootInv'
    BY <1>1, <1>6, BootSmp, Zenon
  <2> QED
    BY <2>1, <2>4, <2>5, Zenon DEF KbdInv
<1>7. ASSUME NEW c \in Cpu, kbd_read(c) \/ InRead(c) PROVE KbdInv'
  <2>1. BootInv'
    BY <1>1, <1>7, BootRead, Zenon
  <2>2. HandlerKept => (Handler' = "kbd_lock" <=> Handler = "kbd_lock")
    BY Zenon DEF HandlerKept, KbdIrq
  <2>3. CASE kbd_read_copy(c)
    <3>1. ProcInv' /\ WaitInv' /\ ReadInv' /\ HandlerKept /\ Reader = cur_thread[c]
      BY <1>1, <2>3, CopyControl, Zenon DEF DataInv
    <3>2. pc[Reader] \in SemaPoints
      BY <2>3, <3>1, Zenon DEF kbd_read_copy, Goto, SemaPoints
    <3>3. codes = <<>>
      BY <1>1, <3>2, Zenon DEF ReadInv
    <3>4. DataInv'
      BY <1>1, <2>2, <2>3, <3>1, <3>3, CopyData, Zenon
    <3> QED
      BY <2>1, <3>1, <3>4, Zenon DEF KbdInv
  <2>4. CASE kbd_read_decode(c)
    <3>1. /\ ProcInv' /\ WaitInv' /\ ReadInv' /\ HandlerKept
          /\ Reader = cur_thread[c] /\ codes # <<>>
      BY <1>1, <2>4, DecodeControl, Zenon
    <3>2. DataInv'
      BY <1>1, <2>2, <2>4, <3>1, DecodeData, Zenon
    <3> QED
      BY <2>1, <3>1, <3>2, Zenon DEF KbdInv
  <2>5. CASE \/ kbd_read(c) \/ kbd_read_wait(c) \/ cond_wait_push(c)
             \/ cond_wait_return(c) \/ cond_wait_yield(c)
    <3>1. ProcInv' /\ WaitInv' /\ ReadInv' /\ HandlerKept
      BY <1>1, <2>5, ReadControl, WaitControl, PushControl, WokenControl, YieldControl, Zenon
    <3>2. UNCHANGED <<buf, read_pos, write_pos, shift, caps, overtaken, code, codes,
                      out_buf, typed>>
      BY <2>5 DEF kbd_read, kbd_read_wait, cond_wait_push, cond_wait_return,
                  cond_wait_yield, kbdvars, modvars
    <3>3. DataInv'
      BY <1>1, <2>2, <3>1, <3>2, DataSame, Zenon
    <3> QED
      BY <2>1, <3>1, <3>3, Zenon DEF KbdInv
  <2> QED
    BY <1>7, <2>3, <2>4, <2>5, Zenon DEF InRead
<1> QED
  BY <1>2, <1>3, <1>4, <1>5, <1>6, <1>7, Zenon DEF KbdNext
\* The inductive invariant of the keyboard: who holds which lock, where the reader
\* and the handler stand, and how the ring, the codes and the keys pressed relate.
THEOREM KbdInvariant == KbdSpec => []KbdInv
<1> QED
  BY KbdInvInit, KbdInvStep, PTL DEF KbdSpec

\* cond_wait loses no signal: with any number of threads and CPUs, the reader that
\* is asleep while there are keys in the ring has been taken off the list by the
\* handler, which is about to wake it.
THEOREM ReaderNotAsleepOnKeysHolds == KbdSpec => []ReaderNotAsleepOnKeys
<1>1. ASSUME KbdInv PROVE ReaderNotAsleepOnKeys
  <2> SUFFICES ASSUME state[Reader] = SLEEPING, pc[Reader] = "wait_unlock",
                      read_pos < write_pos
               PROVE  Handler = "kbd_cpu" /\ kwake = Reader
    BY Zenon DEF ReaderNotAsleepOnKeys, Handler
  <2>1. WaitInv /\ DataTypeOK
    BY <1>1, Zenon DEF KbdInv, DataInv
  <2>2. ~(read_pos >= write_pos)
    BY <2>1 DEF DataTypeOK
  <2>3. Handler = "kbd_cpu"
    BY <2>1, <2>2, Zenon DEF WaitInv, Waits
  <2> QED
    BY <2>1, <2>3, Zenon DEF WaitInv
<1> QED
  BY <1>1, KbdInvariant, PTL

\* kbd_read returns every key once and in the order typed, for a buffer of any size
\* and however often the positions go round it.
THEOREM KeysInOrderHolds == KbdSpec => []KeysInOrder
<1>1. KbdInv => KeysInOrder
  BY InOrder, Zenon DEF KbdInv
<1> QED
  BY <1>1, KbdInvariant, PTL

\* A key that no change of the modifiers overtook has the character it was typed with.
THEOREM CharsAsTypedHolds == KbdSpec => []CharsAsTyped
<1>1. KbdInv => CharsAsTyped
  BY Zenon DEF KbdInv, DataInv, ModInv
<1> QED
  BY <1>1, KbdInvariant, PTL

\* The handler never spins on a lock that the code it interrupted holds: when the
\* reader is in cond_wait, thread_create has created its last thread, and the only
\* thread that runs cpu_show_cmd is the reader itself.
THEOREM NoSelfDeadlockHolds == KbdSpec => []NoSelfDeadlock
<1>1. ASSUME KbdInv PROVE NoSelfDeadlock
  <2>1. /\ WaitInv /\ BootInv /\ SmpInv /\ Reader \in All
        /\ Shows \subseteq {Reader}
    BY <1>1, KbdAssumption, ReaderAssumption, Zenon DEF KbdInv, ProcInv, All
  <2>2. PICK t \in All : t = cur_thread[KbdCpu]
    BY <2>1, KbdAssumption, CurFacts, Zenon
  <2>3. ASSUME pc[t] \in KbdIrq, ret[t] = "unlock_id",
               pc[Reader] \in {"outer", "wait_cpu", "wait_yield", "wait_unlock"}
        PROVE  FALSE
    <3>1. At(t, "unlock_id")
      BY <2>3, Zenon DEF At
    <3>2. pc[Reader] # "absent" /\ pc[Reader] # "thread_start" /\ t # Reader
      BY <2>3 DEF KbdIrq
    <3>3. call[t] = "thread_create" \/ call[t] = "cpu_show_cmd"
      BY <2>1, <3>1, Zenon DEF BootInv
    <3>4. call[t] # "thread_create"
      BY <2>1, <3>1, <3>2, Zenon DEF BootInv
    <3>5. call[t] # "cpu_show_cmd"
      BY <2>1, <3>2, Zenon DEF BootInv
    <3> QED
      BY <3>3, <3>4, <3>5, Zenon
  <2>4. pc[t] = "kbd_cpu" => pc[Reader] \in {"outer", "wait_yield", "wait_unlock"}
    BY <2>1, <2>2, Zenon DEF WaitInv, Handler
  <2>5. "kbd_cpu" \in KbdIrq /\ "kbd_lock" \in KbdIrq
    BY Zenon DEF KbdIrq
  <2>6. pc[t] = "kbd_cpu" => ret[t] # "unlock_id"
    BY <2>3, <2>4, <2>5, Zenon
  <2>7. pc[t] = "kbd_lock" /\ pc[Reader] = "wait_cpu" => ret[t] # "unlock_id"
    BY <2>3, <2>5, Zenon
  <2> QED
    BY <2>2, <2>6, <2>7, Zenon DEF NoSelfDeadlock
<1> QED
  BY <1>1, KbdInvariant, PTL
=============================================================================
