---------------------------- MODULE KeyboardSteps ----------------------------
(***************************************************************************)
(* What the steps of the keyboard do to its invariants, on any number of   *)
(* CPUs, with any number of threads and keys and a buffer of any size:     *)
(* first to the threads, the locks and the list, then to the keys.         *)
(***************************************************************************)
EXTENDS Keyboard, SmpProofs

\* Where the thread stands that the keyboard's interrupt would find.
Handler == pc[cur_thread[KbdCpu]]

\* The locks that cond_signal holds inside the handler.
HandlerHeld == IF Handler = "kbd_unlock" THEN {cpu_id[Reader]} ELSE {}

ProcInv ==
  /\ SmpInv
  /\ RunInv
  /\ HeldOnce(HandlerHeld)
  /\ \A u \in All : pc[u] \in KbdIrq => u = cur_thread[KbdCpu]

\* The reader has put itself on the list and not been woken since.
Waits ==
  \/ pc[Reader] = "wait_yield"
  \/ pc[Reader] = "wait_unlock" /\ state[Reader] = SLEEPING

WaitInv ==
  /\ klock \in {0, 1}
  /\ kwait \in {<<>>, <<Reader>>}
  /\ Waits <=> kwait = <<Reader>> \/ Handler = "kbd_cpu"
  /\ kwait = <<Reader>> => Handler # "kbd_cpu" /\ read_pos >= write_pos
  /\ Handler \in {"kbd_cpu", "kbd_unlock"} =>
        kwake = Reader /\ pc[Reader] \in {"outer", "wait_yield", "wait_unlock"}
  /\ klock = 1 <=> pc[Reader] = "wait_cpu" \/ Handler \in {"kbd_cpu", "kbd_unlock"}
  /\ pc[Reader] = "wait_cpu" => read_pos >= write_pos

\* Only the reader is in kbd_read, and it has codes left when it is out of the
\* lock.
ReadInv ==
  /\ \A u \in All : pc[u] \in SemaPoints =>
        /\ u = Reader /\ call[u] = "kbd_read"
        /\ pc[u] \in {"outer", "wait_cpu", "wait_yield", "wait_unlock"}
  /\ \A u \in All : call[u] = "kbd_read" => u = Reader /\ Reading(u)
  /\ codes # <<>> <=> call[Reader] = "kbd_read" /\ pc[Reader] \notin SemaPoints

KeyPress == [key : 0 .. 127, shift : BOOLEAN, caps : BOOLEAN]
Character == [key : 0 .. 127, shifted : BOOLEAN]

DataTypeOK ==
  /\ buf \in [0 .. KBD_BUFSIZE - 1 -> 0 .. 127]
  /\ read_pos \in Nat
  /\ write_pos \in Nat
  /\ shift \in BOOLEAN
  /\ caps \in BOOLEAN
  /\ code \in 0 .. 127
  /\ codes \in Seq(0 .. 127)
  /\ out_buf \in Seq(Character)
  /\ typed \in Seq(KeyPress)

\* The ring holds the last keys pressed.
RingInv ==
  /\ read_pos <= write_pos
  /\ write_pos - read_pos <= KBD_BUFSIZE
  /\ IF Handler = "kbd_lock"
     THEN /\ Len(typed) = write_pos + 1
          /\ typed[write_pos + 1].key = code
          /\ write_pos - read_pos < KBD_BUFSIZE
     ELSE Len(typed) = write_pos
  /\ \A i \in read_pos + 1 .. write_pos : buf[(i - 1) % KBD_BUFSIZE] = typed[i].key

\* What kbd_read has taken out of the ring are the keys before them.
OutInv ==
  /\ Len(out_buf) + Len(codes) = read_pos
  /\ \A j \in 1 .. Len(codes) : codes[j] = typed[Len(out_buf) + j].key
  /\ \A i \in 1 .. Len(out_buf) : out_buf[i].key = typed[i].key

\* A key that waits to be decoded was pressed with the modifiers as they are,
\* unless they overtook it.
ModInv ==
  /\ \A i \in Len(out_buf) + 1 .. Len(typed) :
       i \notin overtaken => typed[i].shift = shift /\ typed[i].caps = caps
  /\ CharsAsTyped

DataInv == DataTypeOK /\ RingInv /\ OutInv /\ ModInv
------------------------------------------------------------------------------
\* A step of a thread on CPU c outside the handler leaves the handler where it is.
HandlerKept ==
  /\ \A p \in KbdIrq : Handler' = p <=> Handler = p
  /\ \A u \in All : pc'[u] \in KbdIrq => u = cur_thread'[KbdCpu]

LEMMA HandlerSame ==
  ASSUME ProcInv, NEW c \in Cpu, pc[cur_thread[c]] \notin KbdIrq, SmpInv',
         \A d \in Cpu : d # c => cur_thread'[d] = cur_thread[d],
         \A u \in All : pc[u] \in KbdIrq \/ pc'[u] \in KbdIrq => pc'[u] = pc[u]
  PROVE  HandlerKept
<1>1. /\ cur_thread \in [Cpu -> All] /\ cur_thread' \in [Cpu -> All]
      /\ \A u \in All : pc[u] \in KbdIrq => u = cur_thread[KbdCpu]
      /\ KbdCpu \in Cpu
  BY KbdAssumption, Zenon DEF ProcInv, SmpInv, TypeOK
<1>2. cur_thread[KbdCpu] \in All /\ cur_thread'[KbdCpu] \in All
  BY <1>1
<1>3. CASE c # KbdCpu
  <2>1. cur_thread'[KbdCpu] = cur_thread[KbdCpu]
    BY <1>1, <1>3, Zenon
  <2> QED
    BY <1>1, <1>2, <2>1, Zenon DEF HandlerKept, Handler
<1>4. CASE c = KbdCpu
  <2>1. \A u \in All : pc[u] \notin KbdIrq
    BY <1>1, <1>4, Zenon
  <2>2. \A u \in All : pc'[u] \notin KbdIrq
    BY <2>1, Zenon
  <2> QED
    BY <1>2, <2>1, <2>2, Zenon DEF HandlerKept, Handler
<1> QED
  BY <1>3, <1>4

\* ... and so the locks that it holds.
LEMMA ProcKept ==
  ASSUME ProcInv, SmpInv', RunInv', HoldersMove,
         Handler' = "kbd_unlock" <=> Handler = "kbd_unlock",
         Handler = "kbd_unlock" => cpu_id'[Reader] = cpu_id[Reader],
         \A u \in All : pc'[u] \in KbdIrq => u = cur_thread'[KbdCpu]
  PROVE  ProcInv'
<1>1. PICK S : S = HandlerHeld /\ S = HandlerHeld'
  BY Zenon DEF HandlerHeld
<1>2. HeldOnce(S) /\ lock \in [Cpu -> {0, 1}]
  BY <1>1, Zenon DEF ProcInv, SmpInv, TypeOK
<1>3. HeldOnce(S)'
  BY <1>2, HeldKept
<1>4. HeldOnce(HandlerHeld)'
  BY <1>1, <1>3, Zenon DEF HeldOnce
<1> QED
  BY <1>4, Zenon DEF ProcInv

LEMMA WaitSame ==
  ASSUME WaitInv, UNCHANGED <<klock, kwait, kwake>>,
         \A p \in {"kbd_cpu", "kbd_unlock"} : Handler' = p <=> Handler = p,
         Waits' <=> Waits,
         pc'[Reader] = "wait_cpu" <=> pc[Reader] = "wait_cpu",
         klock = 1 /\ pc[Reader] \in {"outer", "wait_yield", "wait_unlock"} =>
            pc'[Reader] \in {"outer", "wait_yield", "wait_unlock"},
         Waits \/ klock = 1 => UNCHANGED <<read_pos, write_pos>>
  PROVE  WaitInv'
<1>1. Handler \in {"kbd_cpu", "kbd_unlock"} => klock = 1
  BY Zenon DEF WaitInv
<1>2. kwait = <<Reader>> => Waits
  BY Zenon DEF WaitInv
<1>3. pc[Reader] = "wait_cpu" => klock = 1
  BY Zenon DEF WaitInv
<1>4. /\ kwait = <<Reader>> => UNCHANGED <<read_pos, write_pos>>
      /\ pc[Reader] = "wait_cpu" => UNCHANGED <<read_pos, write_pos>>
  BY <1>2, <1>3, Zenon
<1>5. /\ kwait' = <<Reader>> => Handler' # "kbd_cpu" /\ read_pos' >= write_pos'
      /\ pc'[Reader] = "wait_cpu" => read_pos' >= write_pos'
  BY <1>4 DEF WaitInv
<1>6. Handler' \in {"kbd_cpu", "kbd_unlock"} <=> Handler \in {"kbd_cpu", "kbd_unlock"}
  BY Zenon
<1>7. Handler' \in {"kbd_cpu", "kbd_unlock"} =>
        kwake' = Reader /\ pc'[Reader] \in {"outer", "wait_yield", "wait_unlock"}
  BY <1>1, <1>6, Zenon DEF WaitInv
<1>8. /\ klock' \in {0, 1} /\ kwait' \in {<<>>, <<Reader>>}
      /\ Waits' <=> kwait' = <<Reader>> \/ Handler' = "kbd_cpu"
      /\ klock' = 1 <=> pc'[Reader] = "wait_cpu" \/ Handler' \in {"kbd_cpu", "kbd_unlock"}
  BY <1>6, Zenon DEF WaitInv
<1> QED
  BY <1>5, <1>7, <1>8, Zenon DEF WaitInv

LEMMA ReadSame ==
  ASSUME ReadInv, NEW t \in All,
         \A u \in All : u # t => pc'[u] = pc[u] /\ ret'[u] = ret[u] /\ call'[u] = call[u],
         pc'[t] \in SemaPoints =>
            /\ t = Reader /\ call'[t] = "kbd_read"
            /\ pc'[t] \in {"outer", "wait_cpu", "wait_yield", "wait_unlock"},
         call'[t] = "kbd_read" => t = Reader /\ Reading(t)',
         codes' # <<>> <=> call'[Reader] = "kbd_read" /\ pc'[Reader] \notin SemaPoints
  PROVE  ReadInv'
<1>1. \A u \in All : u # t /\ Reading(u) => Reading(u)'
  BY Zenon DEF Reading
<1> QED
  BY <1>1, Zenon DEF ReadInv

------------------------------------------------------------------------------
\* A step of Smp on CPU c is none of the handler, and concerns no other CPU's
\* current thread.
LEMMA SmpElsewhere ==
  ASSUME SmpInv, NEW c \in Cpu, SmpNext(c)
  PROVE  /\ pc[cur_thread[c]] \notin KbdIrq
         /\ \A d \in Cpu : d # c => cur_thread'[d] = cur_thread[d]
<1>1. cur_thread \in [Cpu -> All] /\ (intr[c] <=> pc[cur_thread[c]] \in Open)
  BY Zenon DEF SmpInv, TypeOK
<1>2. ASSUME cur_thread' = cur_thread \/ \E n : cur_thread' = [cur_thread EXCEPT ![c] = n]
      PROVE  \A d \in Cpu : d # c => cur_thread'[d] = cur_thread[d]
  BY <1>1, <1>2, Zenon
<1>3. \A p \in {"tick", "tick_unlock", "run", "lock_own", "lock_id", "unlock_splx",
                 "unlock_id", "thread_start"} : p \notin KbdIrq
  BY DEF KbdIrq
<1>4. CASE timer_irq(c)
  <2>1. cur_thread' = cur_thread /\ pc[cur_thread[c]] \in Open
    BY <1>1, <1>4, Zenon DEF timer_irq, runvars
  <2> QED
    BY <1>2, <1>3, <2>1, Zenon DEF Open
<1>5. CASE timer_irq_handler(c)
  <2>1. /\ pc[cur_thread[c]] = "tick"
        /\ cur_thread' = cur_thread \/ \E n : cur_thread' = [cur_thread EXCEPT ![c] = n]
    BY <1>5, ZenonT(60) DEF timer_irq_handler, Goto, SwitchFrom
  <2> QED
    BY <1>2, <1>3, <2>1, Zenon
<1>6. CASE timer_irq_return(c) \/ thread_start(c) \/ cpu_unlock_smp(c)
  <2>1. /\ pc[cur_thread[c]] \in {"tick_unlock", "thread_start", "unlock_splx", "unlock_id"}
        /\ cur_thread' = cur_thread
    BY <1>6, Zenon DEF timer_irq_return, thread_start, cpu_unlock_smp, Goto, runvars
  <2> QED
    BY <1>2, <1>3, <2>1, Zenon
<1>7. CASE thread_create(c) \/ sched_sleep(c) \/ cpu_show_cmd(c)
  <2>1. pc[cur_thread[c]] = "run" /\ \E fn, d : cpu_lock_smp(c, fn, d)
    BY <1>7, Zenon DEF thread_create, sched_sleep, cpu_show_cmd, Free
  <2>2. cur_thread' = cur_thread
    BY <2>1, Zenon DEF cpu_lock_smp, runvars
  <2> QED
    BY <1>2, <1>3, <2>1, <2>2, Zenon
<1>8. CASE thread_create_push(c) \/ cpu_show_ring(c)
  <2>1. pc[cur_thread[c]] \in {"lock_own", "lock_id"} /\ cur_thread' = cur_thread
    BY <1>8, Zenon DEF thread_create_push, cpu_show_ring, Locked, runvars
  <2> QED
    BY <1>2, <1>3, <2>1, Zenon
<1>9. ASSUME NEW ms \in 1..MaxSleep, sched_sleep_next(c, ms)
      PROVE  /\ pc[cur_thread[c]] \in {"lock_own", "lock_id"}
             /\ cur_thread' = cur_thread \/ \E n : cur_thread' = [cur_thread EXCEPT ![c] = n]
  BY <1>9, Zenon DEF sched_sleep_next, Locked, SwitchFrom
<1>10. CASE \E ms \in 1..MaxSleep : sched_sleep_next(c, ms)
  BY <1>2, <1>3, <1>9, <1>10, Zenon
<1> QED
  BY <1>4, <1>5, <1>6, <1>7, <1>8, <1>10, Zenon DEF SmpNext, InTimer, InCall

\* The steps of the other components leave the reader and the handler alone.
LEMMA SmpKbd ==
  ASSUME ProcInv, WaitInv, ReadInv, NEW c \in Cpu, SmpNext(c), UNCHANGED kbdvars
  PROVE  ProcInv' /\ WaitInv' /\ ReadInv' /\ HandlerKept
<1>1. SmpInv /\ RunInv /\ Reader \in All
  BY KbdAssumption, Zenon DEF ProcInv, All
<1>2. SmpInv' /\ HoldersMove /\ RunInv'
  BY <1>1, SmpNextStep, RunStep, Zenon
<1>3. \A u \in All : Aside(u) /\ KbdAside(u)
  BY <1>1, SmpAside
<1>4. HandlerKept
  <2>1. /\ pc[cur_thread[c]] \notin KbdIrq
        /\ \A d \in Cpu : d # c => cur_thread'[d] = cur_thread[d]
    BY <1>1, SmpElsewhere, Zenon
  <2>2. \A u \in All : pc[u] \in KbdIrq \/ pc'[u] \in KbdIrq => pc'[u] = pc[u]
    BY <1>3, Zenon DEF KbdAside
  <2> QED
    BY <1>2, <2>1, <2>2, HandlerSame, Zenon
<1>5. /\ \A p \in KbdIrq : Handler' = p <=> Handler = p
      /\ "kbd_unlock" \in KbdIrq /\ "kbd_cpu" \in KbdIrq
      /\ \A u \in All : pc'[u] \in KbdIrq => u = cur_thread'[KbdCpu]
  BY <1>4, Zenon DEF HandlerKept, KbdIrq
<1>6. /\ \A p \in SemaPoints : pc'[Reader] = p <=> pc[Reader] = p
      /\ pc[Reader] \in SemaPoints => state'[Reader] = state[Reader]
                                      /\ cpu_id'[Reader] = cpu_id[Reader]
  <2>1. Aside(Reader) /\ "absent" \notin SemaPoints
    BY <1>1, <1>3 DEF SemaPoints
  <2> QED
    BY <2>1, Zenon DEF Aside
<1>7. /\ "outer" \in SemaPoints /\ "wait_cpu" \in SemaPoints
      /\ "wait_yield" \in SemaPoints /\ "wait_unlock" \in SemaPoints
  BY Zenon DEF SemaPoints
<1>8. ProcInv'
  <2>1. Handler = "kbd_unlock" => pc[Reader] \in SemaPoints
    BY <1>7, Zenon DEF WaitInv
  <2> QED
    BY <1>2, <1>5, <1>6, <2>1, ProcKept, Zenon
<1>9. UNCHANGED <<klock, kwait, kwake, read_pos, write_pos, codes>>
  BY DEF kbdvars
<1>10. Waits' <=> Waits
  BY <1>6, <1>7, Zenon DEF Waits
<1>11. WaitInv'
  BY <1>5, <1>6, <1>7, <1>9, <1>10, WaitSame, Zenon
<1>12. ReadInv'
  <2>1. ASSUME NEW u \in All, pc'[u] \in SemaPoints
        PROVE  /\ u = Reader /\ call'[u] = "kbd_read"
               /\ pc'[u] \in {"outer", "wait_cpu", "wait_yield", "wait_unlock"}
    <3>1. pc'[u] = pc[u]
      BY <1>3, <2>1, Zenon DEF Aside
    <3>2. /\ u = Reader /\ call[u] = "kbd_read" /\ Reading(u)
          /\ pc[u] \in {"outer", "wait_cpu", "wait_yield", "wait_unlock"}
      BY <2>1, <3>1, Zenon DEF ReadInv
    <3>3. Reading(u)'
      BY <1>3, <3>2, Zenon DEF KbdAside
    <3> QED
      BY <3>1, <3>2, <3>3, Zenon DEF Reading
  <2>2. ASSUME NEW u \in All, call'[u] = "kbd_read" PROVE u = Reader /\ Reading(u)'
    BY <1>3, <2>2, Zenon DEF KbdAside, ReadInv
  <2>3. call'[Reader] = "kbd_read" <=> call[Reader] = "kbd_read"
    <3>1. call[Reader] = "kbd_read" => Reading(Reader)
      BY <1>1, Zenon DEF ReadInv
    <3>2. Reading(Reader)' => call'[Reader] = "kbd_read"
      BY Zenon DEF Reading
    <3> QED
      BY <1>1, <1>3, <3>1, <3>2, Zenon DEF KbdAside
  <2>4. pc'[Reader] \in SemaPoints <=> pc[Reader] \in SemaPoints
    BY <1>6, Zenon
  <2>5. codes' # <<>> <=> call'[Reader] = "kbd_read" /\ pc'[Reader] \notin SemaPoints
    BY <1>9, <2>3, <2>4, Zenon DEF ReadInv
  <2> QED
    BY <2>1, <2>2, <2>5, Zenon DEF ReadInv
<1> QED
  BY <1>4, <1>8, <1>11, <1>12, Zenon
------------------------------------------------------------------------------
\* The thread that has the keyboard's CPU.
LEMMA KbdCur ==
  ASSUME ProcInv
  PROVE  \E t \in All : /\ t = cur_thread[KbdCpu] /\ Handler = pc[t]
                        /\ LocalInv(t) /\ (intr[KbdCpu] <=> pc[t] \in Open)
                        /\ \A u \in All : u # t => pc[u] \notin KbdIrq
<1>1. SmpInv /\ KbdCpu \in Cpu
  BY KbdAssumption, Zenon DEF ProcInv
<1>2. cur_thread[KbdCpu] \in All /\ LocalInv(cur_thread[KbdCpu])
  BY <1>1, CurFacts, Zenon
<1>3. intr[KbdCpu] <=> pc[cur_thread[KbdCpu]] \in Open
  BY <1>1, Zenon DEF SmpInv
<1> QED
  BY <1>2, <1>3, Zenon DEF ProcInv, Handler

\* The interrupt finds a thread with interrupts enabled, so none that waits.
LEMMA IrqControl ==
  ASSUME ProcInv, WaitInv, ReadInv, NEW k \in Code, kbd_irq(k)
  PROVE  /\ ProcInv' /\ WaitInv' /\ ReadInv'
         /\ Handler \notin KbdIrq /\ Handler' = "kbd_lock"
<1>1. PICK t \in All : /\ t = cur_thread[KbdCpu] /\ Handler = pc[t]
                       /\ LocalInv(t) /\ (intr[KbdCpu] <=> pc[t] \in Open)
                       /\ \A u \in All : u # t => pc[u] \notin KbdIrq
  BY KbdCur
<1>2. SmpInv /\ RunInv /\ Reader \in All /\ KbdCpu \in Cpu
  BY KbdAssumption, Zenon DEF ProcInv, All
<1>3. /\ intr[KbdCpu] /\ intr' = [intr EXCEPT ![KbdCpu] = FALSE]
      /\ pc' = [pc EXCEPT ![t] = "kbd_lock"] /\ ret' = [ret EXCEPT ![t] = pc[t]]
      /\ UNCHANGED <<lock, cpu_spl, runvars, target, arg, call, spl>>
      /\ UNCHANGED <<klock, kwait, kwake, read_pos, write_pos, codes>>
  BY <1>1, Zenon DEF kbd_irq
<1>4. /\ UNCHANGED <<cur_thread, state, timer, cpu_id, call>>
      /\ pc \in [All -> Points] /\ ret \in [All -> {"absent"} \cup Open]
  BY <1>2, <1>3, Zenon DEF runvars, SmpInv, TypeOK
<1>5. /\ pc'[t] = "kbd_lock" /\ ret'[t] = pc[t]
      /\ \A u \in All : u # t => pc'[u] = pc[u] /\ ret'[u] = ret[u]
  BY <1>3, <1>4, Zenon
<1>6. SmpInv' /\ HoldersMove
  <2>1. /\ pc' = [pc EXCEPT ![cur_thread[KbdCpu]] = "kbd_lock"]
        /\ ret' = [ret EXCEPT ![cur_thread[KbdCpu]] = pc[cur_thread[KbdCpu]]]
    BY <1>1, <1>3, Zenon
  <2> QED
    BY <1>2, <1>3, <2>1, InterruptStep, Zenon
<1>7. RunInv'
  BY <1>1, <1>2, <1>4, <1>5, RunKept, Zenon
<1>8. Handler \notin KbdIrq /\ Handler' = "kbd_lock" /\ "kbd_lock" \in KbdIrq
  <2>1. Handler' = pc'[t]
    BY <1>1, <1>4, Zenon DEF Handler
  <2>2. pc[t] \in Open
    BY <1>1, <1>3, Zenon
  <2> QED
    BY <1>1, <1>5, <2>1, <2>2 DEF Open, KbdIrq
<1>9. ProcInv'
  <2>1. Handler # "kbd_unlock" /\ Handler' # "kbd_unlock"
    BY <1>8, Zenon DEF KbdIrq
  <2>2. \A u \in All : pc'[u] \in KbdIrq => u = cur_thread'[KbdCpu]
    BY <1>1, <1>4, <1>5, Zenon
  <2> QED
    BY <1>6, <1>7, <2>1, <2>2, ProcKept, Zenon
<1>10. pc[t] \in Open /\ pc[t] \notin SemaPoints /\ pc'[t] \notin SemaPoints
  BY <1>1, <1>3, <1>5 DEF Open, SemaPoints
<1>11. \A p \in SemaPoints : pc'[Reader] = p <=> pc[Reader] = p
  BY <1>2, <1>5, <1>10, Zenon
<1>12. WaitInv'
  <2>1. \A p \in {"kbd_cpu", "kbd_unlock"} : Handler' = p <=> Handler = p
    BY <1>8, Zenon DEF KbdIrq
  <2>2. /\ \A p \in {"outer", "wait_cpu", "wait_yield", "wait_unlock"} :
              pc'[Reader] = p <=> pc[Reader] = p
        /\ Waits' <=> Waits
    BY <1>4, <1>11, Zenon DEF Waits, SemaPoints
  <2> QED
    BY <1>3, <2>1, <2>2, WaitSame, Zenon
<1>13. ReadInv'
  <2>1. ASSUME call[t] = "kbd_read" PROVE t = Reader /\ Reading(t)'
    <3>1. t = Reader /\ Reading(t) /\ ret[t] = "absent"
      BY <1>1, <1>10, <2>1, Zenon DEF ReadInv, LocalInv, Open
    <3>2. pc[t] = "run"
      BY <1>10, <3>1, Zenon DEF Reading
    <3> QED
      BY <1>4, <1>5, <2>1, <3>1, <3>2, Zenon DEF Reading
  <2>2. pc'[Reader] \in SemaPoints <=> pc[Reader] \in SemaPoints
    BY <1>11, Zenon
  <2>3. codes' # <<>> <=> call'[Reader] = "kbd_read" /\ pc'[Reader] \notin SemaPoints
    BY <1>3, <1>4, <2>2, Zenon DEF ReadInv
  <2> QED
    BY <1>4, <1>5, <1>10, <2>1, <2>3, ReadSame, Zenon
<1> QED
  BY <1>8, <1>9, <1>12, <1>13, Zenon
\* _isr_ret: whatever it did to the locks, the handler is gone.
LEMMA IretqControl ==
  ASSUME ProcInv, ReadInv, NEW t \in All, t = cur_thread[KbdCpu], pc[t] \in KbdIrq,
         iretq(t), lock' \in [Cpu -> {0, 1}], codes' = codes,
         UNCHANGED <<cpu_spl, runvars, target, arg, call, spl>>
  PROVE  /\ SmpInv' /\ RunInv' /\ ReadInv'
         /\ \A u \in All, d \in Cpu : Holds(u, d)' <=> Holds(u, d)
         /\ \A u \in All : pc'[u] \notin KbdIrq
         /\ Handler' \notin KbdIrq
         /\ \A p \in SemaPoints : pc'[Reader] = p <=> pc[Reader] = p
         /\ state' = state /\ cpu_id' = cpu_id
<1>1. /\ LocalInv(t) /\ SmpInv /\ RunInv /\ Reader \in All /\ KbdCpu \in Cpu
      /\ \A u \in All : u # t => pc[u] \notin KbdIrq
  BY KbdAssumption, KbdCur, Zenon DEF ProcInv, All
<1>2. /\ pc' = [pc EXCEPT ![t] = ret[t]] /\ ret' = [ret EXCEPT ![t] = "absent"]
      /\ intr' = [intr EXCEPT ![KbdCpu] = TRUE]
  BY Zenon DEF iretq
<1>3. /\ UNCHANGED <<cur_thread, state, timer, cpu_id, call>>
      /\ pc \in [All -> Points] /\ ret \in [All -> {"absent"} \cup Open]
  BY <1>1, Zenon DEF runvars, SmpInv, TypeOK
<1>4. /\ pc'[t] = ret[t] /\ ret'[t] = "absent"
      /\ \A u \in All : u # t => pc'[u] = pc[u] /\ ret'[u] = ret[u]
  BY <1>2, <1>3, Zenon
<1>5. SmpInv' /\ \A u \in All, d \in Cpu : Holds(u, d)' <=> Holds(u, d)
  BY <1>1, <1>2, KbdReturnStep, Zenon
<1>6. RunInv'
  BY <1>1, <1>3, <1>4, RunKept, Zenon
<1>7. ret[t] \in Open
  BY <1>1, <1>3 DEF LocalInv, KbdIrq
<1>8. /\ ret[t] \notin KbdIrq /\ ret[t] \notin SemaPoints /\ pc[t] \notin SemaPoints
  BY <1>7 DEF Open, KbdIrq, SemaPoints
<1>9. \A u \in All : pc'[u] \notin KbdIrq
  BY <1>1, <1>4, <1>8, Zenon
<1>10. Handler' \notin KbdIrq
  BY <1>3, <1>9, Zenon DEF Handler
<1>11. \A p \in SemaPoints : pc'[Reader] = p <=> pc[Reader] = p
  BY <1>1, <1>4, <1>8, Zenon
<1>12. ReadInv'
  <2>1. ASSUME call[t] = "kbd_read" PROVE t = Reader /\ Reading(t)'
    <3>1. t = Reader /\ Reading(t) /\ pc[t] # "run"
      BY <2>1, Zenon DEF ReadInv, KbdIrq
    <3>2. ret[t] = "run"
      BY <1>8, <3>1, Zenon DEF Reading
    <3> QED
      BY <1>3, <1>4, <2>1, <3>1, <3>2, Zenon DEF Reading
  <2>2. pc'[Reader] \in SemaPoints <=> pc[Reader] \in SemaPoints
    BY <1>11, Zenon
  <2>3. codes' # <<>> <=> call'[Reader] = "kbd_read" /\ pc'[Reader] \notin SemaPoints
    BY <1>3, <2>2, Zenon DEF ReadInv
  <2>4. pc'[t] \notin SemaPoints /\ (call'[t] = "kbd_read" => t = Reader /\ Reading(t)')
    BY <1>3, <1>4, <1>8, <2>1, Zenon
  <2> QED
    BY <1>3, <1>4, <2>3, <2>4, ReadSame, Zenon
<1> QED
  BY <1>3, <1>5, <1>6, <1>9, <1>10, <1>11, <1>12, Zenon

\* A step of the handler from one of its points to another.
LEMMA HandlerControl ==
  ASSUME ProcInv, ReadInv, NEW t \in All, t = cur_thread[KbdCpu], pc[t] \in KbdIrq,
         NEW p \in KbdIrq, pc' = [pc EXCEPT ![t] = p], lock' \in [Cpu -> {0, 1}],
         state' \in [All -> {RUNNING, SLEEPING}], codes' = codes,
         UNCHANGED <<cpu_spl, intr, threads, cur_thread, cpu_id, cnt, sleep_time, timer,
                     ret, target, arg, call, spl>>
  PROVE  /\ SmpInv' /\ ReadInv'
         /\ \A u \in All, d \in Cpu : Holds(u, d)' <=> Holds(u, d)
         /\ \A u \in All : pc'[u] \in KbdIrq => u = cur_thread'[KbdCpu]
         /\ Handler' = p
         /\ \A u \in All : u # t => pc'[u] = pc[u]
<1>1. /\ LocalInv(t) /\ SmpInv /\ Reader \in All /\ KbdCpu \in Cpu
      /\ \A u \in All : u # t => pc[u] \notin KbdIrq
  BY KbdAssumption, KbdCur, Zenon DEF ProcInv, All
<1>2. pc'[t] = p /\ \A u \in All : u # t => pc'[u] = pc[u]
  <2>1. pc \in [All -> Points]
    BY <1>1, Zenon DEF SmpInv, TypeOK
  <2> QED
    BY <2>1, Zenon
<1>3. SmpInv' /\ \A u \in All, d \in Cpu : Holds(u, d)' <=> Holds(u, d)
  BY <1>1, KbdIrqStep, Zenon
<1>4. Handler' = p /\ \A u \in All : pc'[u] \in KbdIrq => u = cur_thread'[KbdCpu]
  BY <1>1, <1>2, Zenon DEF Handler
<1>5. pc[t] \notin SemaPoints \cup {"run"} /\ p \notin SemaPoints
  BY DEF KbdIrq, SemaPoints
<1>6. ReadInv'
  <2>1. Reading(t) => Reading(t)'
    BY <1>2, <1>5, Zenon DEF Reading
  <2>2. call'[t] = "kbd_read" => t = Reader /\ Reading(t)'
    BY <2>1, Zenon DEF ReadInv
  <2>3. pc'[Reader] \in SemaPoints <=> pc[Reader] \in SemaPoints
    BY <1>1, <1>2, <1>5, Zenon
  <2>4. codes' # <<>> <=> call'[Reader] = "kbd_read" /\ pc'[Reader] \notin SemaPoints
    BY <2>3, Zenon DEF ReadInv
  <2>5. \A u \in All : u # t => pc'[u] = pc[u] /\ ret'[u] = ret[u] /\ call'[u] = call[u]
    BY <1>2, Zenon
  <2> QED
    BY <1>2, <1>5, <2>2, <2>4, <2>5, ReadSame, Zenon
<1> QED
  BY <1>2, <1>3, <1>4, <1>6, Zenon
\* The handler puts its code in the ring while nobody has kbd.lock; if the reader
\* waits, it is the one that cond_signal takes off the list.
LEMMA PutControl ==
  ASSUME ProcInv, WaitInv, ReadInv, irq_handler_put
  PROVE  /\ ProcInv' /\ WaitInv' /\ ReadInv'
         /\ Handler = "kbd_lock" /\ Handler' # "kbd_lock"
<1>1. PICK t \in All : /\ t = cur_thread[KbdCpu] /\ Handler = pc[t]
                       /\ LocalInv(t) /\ (intr[KbdCpu] <=> pc[t] \in Open)
                       /\ \A u \in All : u # t => pc[u] \notin KbdIrq
  BY KbdCur
<1>2. /\ SmpInv /\ RunInv /\ Reader \in All
      /\ lock \in [Cpu -> {0, 1}] /\ state \in [All -> {RUNNING, SLEEPING}]
  BY KbdAssumption, Zenon DEF ProcInv, All, SmpInv, TypeOK
<1>3. /\ pc[t] = "kbd_lock" /\ klock = 0
      /\ UNCHANGED <<lock, cpu_spl, runvars, target, arg, call, spl, read_pos, codes>>
  BY <1>1, Zenon DEF irq_handler_put
<1>4. pc[t] \in KbdIrq /\ {"kbd_cpu", "kbd_unlock"} \subseteq KbdIrq /\ "kbd_cpu" \in KbdIrq
  BY <1>3 DEF KbdIrq
<1>5. /\ UNCHANGED <<lock, cpu_spl, threads, cur_thread, cpu_id, state, cnt, sleep_time,
                     timer, target, arg, call, spl, codes>>
  BY <1>3, Zenon DEF runvars
<1>6. Handler = "kbd_lock" /\ Handler \notin {"kbd_cpu", "kbd_unlock"}
  BY <1>1, <1>3, Zenon
<1>7. CASE kwait = <<>> /\ iretq(t) /\ UNCHANGED <<klock, kwait, kwake>>
  <2>1. /\ SmpInv' /\ RunInv' /\ ReadInv'
        /\ \A u \in All, d \in Cpu : Holds(u, d)' <=> Holds(u, d)
        /\ \A u \in All : pc'[u] \notin KbdIrq
        /\ Handler' \notin KbdIrq
        /\ \A p \in SemaPoints : pc'[Reader] = p <=> pc[Reader] = p
        /\ state' = state /\ cpu_id' = cpu_id
    BY <1>1, <1>2, <1>3, <1>4, <1>7, IretqControl, Zenon
  <2>2. HoldersMove
    BY <1>5, <2>1, Zenon DEF HoldersMove, HoldersSame
  <2>3. Handler' # "kbd_unlock" /\ Handler' # "kbd_cpu" /\ Handler' # "kbd_lock"
    BY <2>1, Zenon DEF KbdIrq
  <2>4. ProcInv'
    BY <1>6, <2>1, <2>2, <2>3, ProcKept, Zenon
  <2>5. /\ \A p \in {"outer", "wait_cpu", "wait_yield", "wait_unlock"} :
              pc'[Reader] = p <=> pc[Reader] = p
        /\ Waits' <=> Waits
    BY <2>1, Zenon DEF Waits, SemaPoints
  <2>6. ~Waits /\ klock # 1
    <3>1. <<>> # <<Reader>>
      OBVIOUS
    <3> QED
      BY <1>3, <1>6, <1>7, <3>1 DEF WaitInv
  <2>7. WaitInv'
    BY <1>6, <1>7, <2>3, <2>5, <2>6, WaitSame, Zenon
  <2> QED
    BY <1>6, <2>1, <2>3, <2>4, <2>7, Zenon
<1>8. CASE /\ kwait # <<>> /\ kwake' = Head(kwait) /\ kwait' = thread_list_pop(kwait)
           /\ klock' = 1 /\ pc' = [pc EXCEPT ![t] = "kbd_cpu"] /\ UNCHANGED <<intr, ret>>
  <2>1. /\ SmpInv' /\ ReadInv'
        /\ \A u \in All, d \in Cpu : Holds(u, d)' <=> Holds(u, d)
        /\ \A u \in All : pc'[u] \in KbdIrq => u = cur_thread'[KbdCpu]
        /\ Handler' = "kbd_cpu"
        /\ \A u \in All : u # t => pc'[u] = pc[u]
    <3>1. /\ lock' \in [Cpu -> {0, 1}] /\ state' \in [All -> {RUNNING, SLEEPING}]
          /\ UNCHANGED <<cpu_spl, intr, threads, cur_thread, cpu_id, cnt, sleep_time,
                         timer, ret, target, arg, call, spl>>
          /\ codes' = codes
      BY <1>2, <1>5, <1>8, Zenon
    <3> QED
      BY <1>1, <1>4, <1>8, <3>1, HandlerControl, Zenon
  <2>2. HoldersMove
    BY <1>5, <2>1, Zenon DEF HoldersMove, HoldersSame
  <2>3. RunInv'
    <3>1. KbdCpu \in Cpu /\ UNCHANGED <<cur_thread, state, timer>>
      BY <1>5, KbdAssumption, Zenon
    <3>2. \A u \in All : u # cur_thread[KbdCpu] => pc'[u] = pc[u] /\ call'[u] = call[u]
      BY <1>1, <1>5, <2>1, Zenon
    <3> QED
      BY <1>2, <3>1, <3>2, RunKept, Zenon
  <2>4. ProcInv'
    BY <1>6, <2>1, <2>2, <2>3, ProcKept, Zenon
  <2>5. /\ kwait = <<Reader>> /\ kwait' = <<>> /\ kwake' = Reader /\ kwait' # <<Reader>>
    <3>1. kwait = <<Reader>>
      BY <1>8, Zenon DEF WaitInv
    <3>2. Head(<<Reader>>) = Reader /\ Tail(<<Reader>>) = <<>> /\ <<>> # <<Reader>>
      OBVIOUS
    <3> QED
      BY <1>8, <3>1, <3>2, Zenon DEF thread_list_pop
  <2>6. Waits /\ Reader # t
    BY <1>3, <2>5, Zenon DEF WaitInv, Waits
  <2>7. Waits' /\ pc'[Reader] \in {"wait_yield", "wait_unlock"}
    BY <1>2, <1>5, <2>1, <2>6, Zenon DEF Waits
  <2>8. WaitInv'
    BY <1>8, <2>1, <2>5, <2>7, Zenon DEF WaitInv
  <2> QED
    BY <1>6, <2>1, <2>4, <2>8, Zenon
<1> QED
  BY <1>1, <1>7, <1>8, Zenon DEF irq_handler_put

\* The reader that waits with its CPU's lock free has given the CPU away.
LEMMA WaiterAsleep ==
  ASSUME ProcInv, WaitInv, Handler = "kbd_cpu", lock[cpu_id[Reader]] = 0
  PROVE  pc[Reader] = "wait_unlock"
<1>1. Reader \in All /\ SmpInv /\ Waits /\ HeldOnce({})
  BY KbdAssumption, Zenon DEF ProcInv, WaitInv, All, HandlerHeld
<1>2. ASSUME pc[Reader] = "wait_yield" PROVE FALSE
  <2>1. cpu_id[Reader] \in Cpu
    BY <1>1, Zenon DEF SmpInv, TypeOK
  <2>2. cur_thread[cpu_id[Reader]] = Reader
    BY <1>1, <1>2, <2>1 DEF SmpInv, SwitchedOutParked, Parked
  <2>3. Holds(Reader, cpu_id[Reader])
    BY <1>2, <2>2, Zenon DEF Holds, OwnHeld
  <2>4. lock[cpu_id[Reader]] = 1
    BY <1>1, <2>1, <2>3, Zenon DEF HeldOnce
  <2> QED
    BY <2>4
<1> QED
  BY <1>1, <1>2, Zenon DEF Waits
\* cond_signal makes the reader RUNNING with the lock of the reader's CPU.
LEMMA WakeControl ==
  ASSUME ProcInv, WaitInv, ReadInv, cond_signal_wake
  PROVE  /\ ProcInv' /\ WaitInv' /\ ReadInv'
         /\ Handler = "kbd_cpu" /\ Handler' = "kbd_unlock"
<1>1. PICK t \in All : /\ t = cur_thread[KbdCpu] /\ Handler = pc[t]
                       /\ LocalInv(t) /\ (intr[KbdCpu] <=> pc[t] \in Open)
                       /\ \A u \in All : u # t => pc[u] \notin KbdIrq
  BY KbdCur
<1>2. /\ SmpInv /\ RunInv /\ Reader \in All /\ cpu_id[Reader] \in Cpu
      /\ lock \in [Cpu -> {0, 1}] /\ state \in [All -> {RUNNING, SLEEPING}]
      /\ cpu_id \in [All -> Cpu]
  BY KbdAssumption, Zenon DEF ProcInv, All, SmpInv, TypeOK
<1>3. /\ pc[t] = "kbd_cpu" /\ pc' = [pc EXCEPT ![t] = "kbd_unlock"]
      /\ Acquire(cpu_id[kwake]) /\ state' = [state EXCEPT ![kwake] = RUNNING]
      /\ UNCHANGED <<cpu_spl, intr, threads, cur_thread, cpu_id, cnt, sleep_time, timer,
                     ret, target, arg, call, spl>>
      /\ UNCHANGED <<klock, kwait, kwake, read_pos, write_pos, codes>>
  BY <1>1, Zenon DEF cond_signal_wake, Goto, kbdvars
<1>4. Handler = "kbd_cpu" /\ kwake = Reader /\ Waits /\ kwait # <<Reader>> /\ klock = 1
  BY <1>1, <1>3, Zenon DEF WaitInv
<1>5. PICK e \in Cpu : e = cpu_id[Reader] /\ lock[e] = 0 /\ lock' = [lock EXCEPT ![e] = 1]
  BY <1>2, <1>3, <1>4, Zenon DEF Acquire
<1>6. pc[Reader] = "wait_unlock"
  BY <1>4, <1>5, WaiterAsleep, Zenon
<1>7. /\ lock' \in [Cpu -> {0, 1}] /\ state' \in [All -> {RUNNING, SLEEPING}]
      /\ lock'[e] = 1 /\ \A d \in Cpu : d # e => lock'[d] = lock[d]
  BY <1>2, <1>3, <1>5, Zenon
<1>8. state'[Reader] = RUNNING /\ \A u \in All : u # Reader => state'[u] = state[u]
  BY <1>2, <1>3, <1>4, Zenon
<1>9. pc[t] \in KbdIrq /\ "kbd_unlock" \in KbdIrq
  BY <1>3 DEF KbdIrq
<1>10. /\ SmpInv' /\ ReadInv'
       /\ \A u \in All, d \in Cpu : Holds(u, d)' <=> Holds(u, d)
       /\ \A u \in All : pc'[u] \in KbdIrq => u = cur_thread'[KbdCpu]
       /\ Handler' = "kbd_unlock"
       /\ \A u \in All : u # t => pc'[u] = pc[u]
  BY <1>1, <1>3, <1>7, <1>9, HandlerControl, Zenon
<1>11. HeldOnce(HandlerHeld)'
  <2>1. HandlerHeld = {} /\ HandlerHeld' = {e}
    BY <1>3, <1>4, <1>5, <1>10, Zenon DEF HandlerHeld
  <2>2. HeldOnce({})
    BY <2>1, Zenon DEF ProcInv
  <2>3. \A u \in All : ~Holds(u, e)
    <3>1. lock[e] # 1
      BY <1>5
    <3> QED
      BY <2>2, <3>1, Zenon DEF HeldOnce
  <2>4. ASSUME NEW d \in Cpu
        PROVE  /\ lock'[d] = 1 <=> d \in {e} \/ \E u \in All : Holds(u, d)'
               /\ \A u, v \in All : Holds(u, d)' /\ Holds(v, d)' => u = v
               /\ d \in {e} => \A u \in All : ~Holds(u, d)'
    <3>1. CASE d = e
      BY <1>7, <1>10, <2>3, <3>1, Zenon
    <3>2. CASE d # e
      <4>1. /\ lock[d] = 1 <=> \E u \in All : Holds(u, d)
            /\ \A u, v \in All : Holds(u, d) /\ Holds(v, d) => u = v
        BY <2>2, Zenon DEF HeldOnce
      <4>2. d \notin {e} /\ lock'[d] = lock[d]
        BY <1>7, <3>2, Zenon
      <4>3. \A u \in All : Holds(u, d)' <=> Holds(u, d)
        BY <1>10, Zenon
      <4> QED
        BY <4>1, <4>2, <4>3, Zenon
    <3> QED
      BY <3>1, <3>2, Zenon
  <2> QED
    BY <2>1, <2>4, Zenon DEF HeldOnce
<1>12. RunInv'
  <2>1. ~timer[Reader]
    BY <1>2, <1>6, Zenon DEF RunInv
  <2>2. \A u \in All : timer[u] => u # Reader /\ u # t
    BY <1>2, <1>3, <2>1, Zenon DEF RunInv
  <2>3. \A d \in Cpu : Idle[d] \in All /\ cur_thread[d] \in All
    BY <1>2, SmpAssumption, Zenon DEF SmpInv, TypeOK
  <2>4. \A d \in Cpu : state'[Idle[d]] = RUNNING /\ state'[cur_thread[d]] = RUNNING
    BY <1>2, <1>8, <2>3, Zenon DEF RunInv
  <2>5. ASSUME NEW u \in All, timer[u]
        PROVE  state'[u] = SLEEPING /\ call'[u] = "sched_sleep" /\ pc'[u] = "unlock_splx"
    BY <1>2, <1>3, <1>8, <1>10, <2>2, <2>5, ZenonT(60) DEF RunInv
  <2> QED
    BY <1>3, <2>4, <2>5, Zenon DEF RunInv
<1>13. Reader # t
  BY <1>3, <1>6
<1>14. pc'[Reader] = "wait_unlock" /\ ~Waits'
  <2>1. pc'[Reader] = "wait_unlock"
    BY <1>2, <1>6, <1>10, <1>13, Zenon
  <2>2. RUNNING # SLEEPING
    BY DEF RUNNING, SLEEPING
  <2> QED
    BY <1>8, <2>1, <2>2, Zenon DEF Waits
<1>15. WaitInv'
  BY <1>3, <1>4, <1>10, <1>14, Zenon DEF WaitInv
<1> QED
  BY <1>4, <1>10, <1>11, <1>12, <1>15, Zenon DEF ProcInv

\* The handler gives both locks back and returns.
LEMMA ReturnControl ==
  ASSUME ProcInv, WaitInv, ReadInv, irq_handler_return
  PROVE  /\ ProcInv' /\ WaitInv' /\ ReadInv'
         /\ Handler = "kbd_unlock" /\ Handler' \notin KbdIrq
<1>1. PICK t \in All : /\ t = cur_thread[KbdCpu] /\ Handler = pc[t]
                       /\ LocalInv(t) /\ (intr[KbdCpu] <=> pc[t] \in Open)
                       /\ \A u \in All : u # t => pc[u] \notin KbdIrq
  BY KbdCur
<1>2. /\ Reader \in All /\ cpu_id[Reader] \in Cpu /\ lock \in [Cpu -> {0, 1}]
  BY KbdAssumption, Zenon DEF ProcInv, All, SmpInv, TypeOK
<1>3. /\ pc[t] = "kbd_unlock" /\ Release(cpu_id[kwake]) /\ klock' = 0 /\ iretq(t)
      /\ UNCHANGED <<cpu_spl, runvars, target, arg, call, spl>>
      /\ UNCHANGED <<kwait, kwake, read_pos, write_pos, codes>>
  BY <1>1, Zenon DEF irq_handler_return
<1>4. /\ Handler = "kbd_unlock" /\ kwake = Reader
      /\ pc[Reader] \in {"outer", "wait_yield", "wait_unlock"} /\ klock = 1
      /\ Waits <=> kwait = <<Reader>>
  BY <1>1, <1>3, Zenon DEF WaitInv
<1>5. PICK e \in Cpu : e = cpu_id[Reader] /\ lock' = [lock EXCEPT ![e] = 0]
  BY <1>2, <1>3, <1>4, Zenon DEF Release
<1>6. /\ lock' \in [Cpu -> {0, 1}]
      /\ lock'[e] # 1 /\ \A d \in Cpu : d # e => lock'[d] = lock[d]
  BY <1>2, <1>5
<1>7. /\ SmpInv' /\ RunInv' /\ ReadInv'
      /\ \A u \in All, d \in Cpu : Holds(u, d)' <=> Holds(u, d)
      /\ \A u \in All : pc'[u] \notin KbdIrq
      /\ Handler' \notin KbdIrq
      /\ \A p \in SemaPoints : pc'[Reader] = p <=> pc[Reader] = p
      /\ state' = state /\ cpu_id' = cpu_id
  <2>1. pc[t] \in KbdIrq
    BY <1>3 DEF KbdIrq
  <2> QED
    BY <1>1, <1>3, <1>6, <2>1, IretqControl, Zenon
<1>8. Handler' # "kbd_unlock" /\ Handler' # "kbd_cpu"
  BY <1>7, Zenon DEF KbdIrq
<1>9. HeldOnce(HandlerHeld)'
  <2>1. HandlerHeld = {e} /\ HandlerHeld' = {}
    BY <1>4, <1>5, <1>8, Zenon DEF HandlerHeld
  <2>2. HeldOnce({e})
    BY <2>1, Zenon DEF ProcInv
  <2>3. ASSUME NEW d \in Cpu
        PROVE  /\ lock'[d] = 1 <=> d \in {} \/ \E u \in All : Holds(u, d)'
               /\ \A u, v \in All : Holds(u, d)' /\ Holds(v, d)' => u = v
               /\ d \in {} => \A u \in All : ~Holds(u, d)'
    <3>1. CASE d = e
      BY <1>6, <1>7, <2>2, <3>1, Zenon DEF HeldOnce
    <3>2. CASE d # e
      <4>1. /\ lock[d] = 1 <=> \E u \in All : Holds(u, d)
            /\ \A u, v \in All : Holds(u, d) /\ Holds(v, d) => u = v
        BY <2>2, <3>2, Zenon DEF HeldOnce
      <4>2. lock'[d] = lock[d]
        BY <1>6, <3>2, Zenon
      <4>3. \A u \in All : Holds(u, d)' <=> Holds(u, d)
        BY <1>7, Zenon
      <4> QED
        BY <4>1, <4>2, <4>3, Zenon
    <3> QED
      BY <3>1, <3>2, Zenon
  <2> QED
    BY <2>1, <2>3, Zenon DEF HeldOnce
<1>10. WaitInv'
  <2>1. /\ \A p \in {"outer", "wait_cpu", "wait_yield", "wait_unlock"} :
              pc'[Reader] = p <=> pc[Reader] = p
        /\ Waits' <=> Waits
    BY <1>7, Zenon DEF Waits, SemaPoints
  <2>2. pc'[Reader] # "wait_cpu"
    BY <1>4, <2>1, Zenon
  <2>3. klock' # 1 /\ klock' \in {0, 1}
    BY <1>3
  <2>4. kwait' = <<Reader>> => read_pos' >= write_pos'
    BY <1>3, Zenon DEF WaitInv
  <2> QED
    BY <1>3, <1>4, <1>8, <2>1, <2>2, <2>3, <2>4, Zenon DEF WaitInv
<1> QED
  BY <1>4, <1>7, <1>9, <1>10, Zenon DEF ProcInv
------------------------------------------------------------------------------
\* A step of the reader in kbd_read, which has CPU c, other than giving it away.
LEMMA ReaderProc ==
  ASSUME ProcInv, NEW c \in Cpu, Reader = cur_thread[c],
         NEW p \in SemaPoints \cup {"run"}, pc' = [pc EXCEPT ![Reader] = p],
         pc[Reader] \in SemaPoints \cup {"run"}, LockMove(c, Reader, p),
         intr' \in [Cpu -> BOOLEAN], call' \in [All -> Calls], spl' \in [All -> BOOLEAN],
         UNCHANGED <<cpu_spl, runvars, ret, target, arg>>,
         \A u \in All : u # Reader => call'[u] = call[u] /\ spl'[u] = spl[u],
         \A d \in Cpu : d # c => (intr'[d] <=> intr[d]), intr'[c] <=> p = "run",
         call'[Reader] \in {"kbd_read", "none"}, p \in SemaPoints => spl'[Reader] = TRUE
  PROVE  /\ ProcInv' /\ HandlerKept
         /\ pc'[Reader] = p /\ \A u \in All : u # Reader => pc'[u] = pc[u]
<1>1. /\ SmpInv /\ RunInv /\ Reader \in All
      /\ pc \in [All -> Points] /\ target \in [All -> Cpu] /\ arg \in [All -> All]
      /\ state \in [All -> {RUNNING, SLEEPING}]
  BY KbdAssumption, Zenon DEF ProcInv, All, SmpInv, TypeOK
<1>2. pc'[Reader] = p /\ \A u \in All : u # Reader => pc'[u] = pc[u]
  BY <1>1, Zenon
<1>3. UNCHANGED <<cpu_spl, threads, cur_thread, cpu_id, state, cnt, sleep_time, timer,
                  ret, target, arg>>
  BY Zenon DEF runvars
<1>4. SmpInv' /\ HoldersMove
  <2>1. /\ target' \in [All -> Cpu] /\ arg' \in [All -> All]
        /\ state' \in [All -> {RUNNING, SLEEPING}]
        /\ UNCHANGED <<cpu_spl, threads, cur_thread, cpu_id, cnt, sleep_time, timer, ret>>
        /\ \A u \in All : u # Reader => /\ target'[u] = target[u] /\ arg'[u] = arg[u]
                                        /\ call'[u] = call[u] /\ spl'[u] = spl[u]
    BY <1>1, <1>3, Zenon
  <2>2. call'[Reader] # "sched_sleep" /\ (p = "run" => call'[Reader] # "cpu_show_cmd")
    BY Zenon
  <2> QED
    BY <1>1, <2>1, <2>2, SemaControl, ZenonT(60)
<1>5. RunInv'
  <2>1. /\ UNCHANGED <<cur_thread, state, timer>>
        /\ \A u \in All : u # cur_thread[c] => pc'[u] = pc[u] /\ call'[u] = call[u]
    BY <1>2, <1>3, Zenon
  <2> QED
    BY <1>1, <2>1, RunKept, Zenon
<1>6. HandlerKept
  <2>1. pc[Reader] \notin KbdIrq /\ p \notin KbdIrq
    BY DEF SemaPoints, KbdIrq
  <2>2. ASSUME NEW u \in All, pc[u] \in KbdIrq \/ pc'[u] \in KbdIrq PROVE pc'[u] = pc[u]
    <3>1. u # Reader
      BY <1>2, <2>1, <2>2
    <3> QED
      BY <1>2, <3>1, Zenon
  <2> QED
    BY <1>3, <1>4, <2>1, <2>2, HandlerSame, Zenon
<1>7. Handler' = "kbd_unlock" <=> Handler = "kbd_unlock"
  BY <1>6, Zenon DEF HandlerKept, KbdIrq
<1>8. ProcInv'
  BY <1>3, <1>4, <1>5, <1>6, <1>7, ProcKept, Zenon DEF HandlerKept
<1> QED
  BY <1>2, <1>6, <1>8, Zenon

\* The reader as the thread on CPU c.
LEMMA ReaderCur ==
  ASSUME ProcInv, NEW c \in Cpu, Reader = cur_thread[c]
  PROVE  /\ Reader \in All /\ LocalInv(Reader) /\ state[Reader] = RUNNING
         /\ intr[c] <=> pc[Reader] \in Open
         /\ intr \in [Cpu -> BOOLEAN] /\ call \in [All -> Calls]
         /\ spl \in [All -> BOOLEAN] /\ pc \in [All -> Points]
<1>1. SmpInv /\ RunInv
  BY Zenon DEF ProcInv
<1>2. Reader \in All /\ LocalInv(Reader)
  BY <1>1, CurFacts, Zenon
<1> QED
  BY <1>1, <1>2, Zenon DEF SmpInv, TypeOK, RunInv

\* Inside the locked part of kbd_read, interrupts stay disabled.
LEMMA ReaderInside ==
  ASSUME ProcInv, NEW c \in Cpu, Reader = cur_thread[c],
         NEW p \in SemaPoints, pc' = [pc EXCEPT ![Reader] = p],
         pc[Reader] \in SemaPoints, LockMove(c, Reader, p), call[Reader] = "kbd_read",
         UNCHANGED <<intr, cpu_spl, runvars, ret, target, arg, call, spl>>
  PROVE  /\ ProcInv' /\ HandlerKept
         /\ pc'[Reader] = p /\ \A u \in All : u # Reader => pc'[u] = pc[u]
<1>1. /\ Reader \in All /\ LocalInv(Reader) /\ (intr[c] <=> pc[Reader] \in Open)
      /\ intr \in [Cpu -> BOOLEAN] /\ call \in [All -> Calls] /\ spl \in [All -> BOOLEAN]
  BY ReaderCur, Zenon
<1>2. /\ p # "run" /\ pc[Reader] \notin Open
  BY DEF SemaPoints, Open
<1>3. spl[Reader] = TRUE
  BY <1>1 DEF LocalInv
<1>4. /\ intr' \in [Cpu -> BOOLEAN] /\ call' \in [All -> Calls] /\ spl' \in [All -> BOOLEAN]
      /\ \A d \in Cpu : d # c => (intr'[d] <=> intr[d])
      /\ intr'[c] <=> p = "run"
      /\ \A u \in All : u # Reader => call'[u] = call[u] /\ spl'[u] = spl[u]
      /\ call'[Reader] \in {"kbd_read", "none"} /\ spl'[Reader] = TRUE
      /\ p \in SemaPoints \cup {"run"} /\ pc[Reader] \in SemaPoints \cup {"run"}
      /\ UNCHANGED <<cpu_spl, runvars, ret, target, arg>>
  BY <1>1, <1>2, <1>3, Zenon
<1> QED
  BY <1>4, ReaderProc, Zenon
\* spinlock_lock_splhi at the start of kbd_read.
LEMMA ReadControl ==
  ASSUME ProcInv, WaitInv, ReadInv, NEW c \in Cpu, kbd_read(c)
  PROVE  ProcInv' /\ WaitInv' /\ ReadInv' /\ HandlerKept
<1>1. /\ Reader = cur_thread[c] /\ pc[Reader] = "run" /\ call[Reader] = "none"
      /\ spl' = [spl EXCEPT ![Reader] = intr[c]] /\ intr' = [intr EXCEPT ![c] = FALSE]
      /\ pc' = [pc EXCEPT ![Reader] = "outer"]
      /\ call' = [call EXCEPT ![Reader] = "kbd_read"]
      /\ UNCHANGED <<cpu_spl, runvars, ret, target, arg>> /\ lock' = lock
      /\ UNCHANGED <<klock, kwait, kwake, read_pos, write_pos, codes>>
  BY Zenon DEF kbd_read, Free, cpu_splhi, kbdvars
<1>2. /\ Reader \in All /\ LocalInv(Reader) /\ (intr[c] <=> pc[Reader] \in Open)
      /\ intr \in [Cpu -> BOOLEAN] /\ call \in [All -> Calls] /\ spl \in [All -> BOOLEAN]
  BY <1>1, ReaderCur, Zenon
<1>3. /\ intr[c] = TRUE /\ "kbd_read" \in Calls
      /\ "outer" \in SemaPoints /\ "run" \notin SemaPoints /\ "outer" # "run"
  BY <1>1, <1>2 DEF Open, Calls, SemaPoints
<1>4. /\ spl' \in [All -> BOOLEAN] /\ spl'[Reader] = TRUE
      /\ \A u \in All : u # Reader => spl'[u] = spl[u]
  BY <1>1, <1>2, <1>3
<1>5. /\ call' \in [All -> Calls] /\ call'[Reader] = "kbd_read"
      /\ \A u \in All : u # Reader => call'[u] = call[u]
  BY <1>1, <1>2, <1>3
<1>6. /\ intr' \in [Cpu -> BOOLEAN] /\ (intr'[c] <=> "outer" = "run")
      /\ \A d \in Cpu : d # c => (intr'[d] <=> intr[d])
  BY <1>1, <1>2
<1>7. LockMove(c, Reader, "outer")
  BY <1>1, Zenon DEF LockMove, OwnHeld, IdHeld
<1>8. /\ ProcInv' /\ HandlerKept
      /\ pc'[Reader] = "outer" /\ \A u \in All : u # Reader => pc'[u] = pc[u]
  <2>1. PICK p \in SemaPoints \cup {"run"} : p = "outer"
    BY <1>3, Zenon
  <2>2. /\ pc' = [pc EXCEPT ![Reader] = p] /\ pc[Reader] \in SemaPoints \cup {"run"}
        /\ LockMove(c, Reader, p) /\ (intr'[c] <=> p = "run")
        /\ \A u \in All : u # Reader => call'[u] = call[u] /\ spl'[u] = spl[u]
        /\ call'[Reader] \in {"kbd_read", "none"}
    BY <1>1, <1>4, <1>5, <1>6, <1>7, <2>1, Zenon
  <2> QED
    BY <1>1, <1>4, <1>5, <1>6, <2>1, <2>2, ReaderProc, Zenon
<1>9. WaitInv'
  <2>1. \A p \in {"kbd_cpu", "kbd_unlock"} : Handler' = p <=> Handler = p
    BY <1>8, Zenon DEF HandlerKept, KbdIrq
  <2>2. Waits' <=> Waits
    BY <1>1, <1>8, Zenon DEF Waits
  <2> QED
    BY <1>1, <1>8, <2>1, <2>2, WaitSame, Zenon
<1>10. ReadInv'
  <2>1. codes = <<>>
    BY <1>1, Zenon DEF ReadInv
  <2>2. Reading(Reader)'
    BY <1>3, <1>5, <1>8, Zenon DEF Reading
  <2>3. codes' # <<>> <=> call'[Reader] = "kbd_read" /\ pc'[Reader] \notin SemaPoints
    BY <1>1, <1>3, <1>8, <2>1, Zenon
  <2>4. \A u \in All : u # Reader => pc'[u] = pc[u] /\ ret'[u] = ret[u] /\ call'[u] = call[u]
    BY <1>1, <1>5, <1>8, Zenon
  <2> QED
    BY <1>2, <1>5, <1>8, <2>2, <2>3, <2>4, ReadSame, Zenon
<1> QED
  BY <1>8, <1>9, <1>10, Zenon
\* kbd_read empties the ring under kbd.lock, and enables interrupts.
LEMMA CopyControl ==
  ASSUME ProcInv, WaitInv, ReadInv, DataTypeOK, NEW c \in Cpu, kbd_read_copy(c)
  PROVE  ProcInv' /\ WaitInv' /\ ReadInv' /\ HandlerKept /\ Reader = cur_thread[c]
<1>1. cur_thread[c] \in All /\ SmpInv
  BY CurFacts, Zenon DEF ProcInv
<1>2. Reader = cur_thread[c] /\ call[Reader] = "kbd_read"
  BY <1>1, Zenon DEF ReadInv, kbd_read_copy, Goto, SemaPoints
<1>3. /\ pc[Reader] = "outer" /\ pc' = [pc EXCEPT ![Reader] = "run"] /\ klock = 0
      /\ codes' = Unread /\ read_pos < write_pos
      /\ intr' = [intr EXCEPT ![c] = @ \/ spl[Reader]]
      /\ UNCHANGED <<cpu_spl, runvars, ret, target, arg, call, spl>> /\ lock' = lock
      /\ UNCHANGED <<klock, kwait, kwake, write_pos>>
  BY <1>2, Zenon DEF kbd_read_copy, Goto, cpu_splx
<1>4. /\ Reader \in All /\ LocalInv(Reader)
      /\ intr \in [Cpu -> BOOLEAN] /\ call \in [All -> Calls] /\ spl \in [All -> BOOLEAN]
  BY <1>2, ReaderCur, Zenon
<1>5. spl[Reader] = TRUE /\ "run" \notin SemaPoints /\ "outer" \in SemaPoints
  BY <1>3, <1>4 DEF LocalInv, SemaPoints
<1>6. /\ intr' \in [Cpu -> BOOLEAN] /\ intr'[c] = TRUE
      /\ \A d \in Cpu : d # c => (intr'[d] <=> intr[d])
  BY <1>3, <1>4, <1>5
<1>7. LockMove(c, Reader, "run")
  BY <1>3, Zenon DEF LockMove, OwnHeld, IdHeld
<1>8. /\ ProcInv' /\ HandlerKept
      /\ pc'[Reader] = "run" /\ \A u \in All : u # Reader => pc'[u] = pc[u]
  <2>1. PICK p \in SemaPoints \cup {"run"} : p = "run"
    BY Zenon
  <2>2. /\ pc' = [pc EXCEPT ![Reader] = p] /\ pc[Reader] \in SemaPoints \cup {"run"}
        /\ LockMove(c, Reader, p) /\ (intr'[c] <=> p = "run")
        /\ call' \in [All -> Calls] /\ spl' \in [All -> BOOLEAN]
        /\ \A u \in All : u # Reader => call'[u] = call[u] /\ spl'[u] = spl[u]
        /\ call'[Reader] \in {"kbd_read", "none"} /\ spl'[Reader] = TRUE
    BY <1>2, <1>3, <1>4, <1>5, <1>6, <1>7, <2>1, Zenon
  <2> QED
    BY <1>2, <1>3, <1>6, <2>1, <2>2, ReaderProc, Zenon
<1>9. WaitInv'
  <2>1. \A p \in {"kbd_cpu", "kbd_unlock"} : Handler' = p <=> Handler = p
    BY <1>8, Zenon DEF HandlerKept, KbdIrq
  <2>2. ~Waits /\ ~Waits' /\ klock # 1
    BY <1>3, <1>8 DEF Waits
  <2> QED
    BY <1>3, <1>8, <2>1, <2>2, WaitSame, Zenon
<1>10. ReadInv'
  <2>1. codes' # <<>>
    <3>1. 1 \in 1 .. write_pos - read_pos
      BY <1>3 DEF DataTypeOK
    <3> QED
      BY <1>3, <3>1 DEF Unread
  <2>2. Reading(Reader)'
    BY <1>2, <1>3, <1>8, Zenon DEF Reading
  <2>3. codes' # <<>> <=> call'[Reader] = "kbd_read" /\ pc'[Reader] \notin SemaPoints
    BY <1>2, <1>3, <1>5, <1>8, <2>1, Zenon
  <2>4. \A u \in All : u # Reader => pc'[u] = pc[u] /\ ret'[u] = ret[u] /\ call'[u] = call[u]
    BY <1>3, <1>8, Zenon
  <2>5. pc'[Reader] \notin SemaPoints
    BY <1>5, <1>8, Zenon
  <2> QED
    BY <1>4, <2>2, <2>3, <2>4, <2>5, ReadSame, Zenon
<1> QED
  BY <1>2, <1>8, <1>9, <1>10, Zenon

\* The loop at the end of kbd_read, one code at a time.
LEMMA DecodeControl ==
  ASSUME ProcInv, WaitInv, ReadInv, NEW c \in Cpu, kbd_read_decode(c)
  PROVE  /\ ProcInv' /\ WaitInv' /\ ReadInv' /\ HandlerKept
         /\ Reader = cur_thread[c] /\ codes # <<>>
<1>1. cur_thread[c] \in All /\ SmpInv
  BY CurFacts, Zenon DEF ProcInv
<1>2. Reader = cur_thread[c]
  BY <1>1, Zenon DEF ReadInv, kbd_read_decode
<1>3. /\ pc[Reader] = "run" /\ call[Reader] = "kbd_read"
      /\ codes' = Tail(codes) /\ lock' = lock
      /\ call' = [call EXCEPT ![Reader] = IF Tail(codes) = <<>> THEN "none" ELSE @]
      /\ UNCHANGED <<intr, cpu_spl, runvars, pc, ret, target, arg, spl>>
      /\ UNCHANGED <<klock, kwait, kwake, read_pos, write_pos>>
  BY <1>2, Zenon DEF kbd_read_decode, cpuvars
<1>4. /\ Reader \in All /\ (intr[c] <=> pc[Reader] \in Open) /\ pc \in [All -> Points]
      /\ intr \in [Cpu -> BOOLEAN] /\ call \in [All -> Calls] /\ spl \in [All -> BOOLEAN]
  BY <1>2, ReaderCur, Zenon
<1>5. /\ "run" \notin SemaPoints /\ "run" \in Open /\ "none" \in Calls
      /\ "none" # "kbd_read"
  BY DEF SemaPoints, Open, Calls
<1>6. /\ call' \in [All -> Calls] /\ \A u \in All : u # Reader => call'[u] = call[u]
      /\ call'[Reader] = IF codes' = <<>> THEN "none" ELSE "kbd_read"
  BY <1>3, <1>4, <1>5
<1>7. pc' = [pc EXCEPT ![Reader] = "run"]
  BY <1>3, <1>4
<1>8. ProcInv' /\ HandlerKept
  <2>1. PICK p \in SemaPoints \cup {"run"} : p = "run"
    BY Zenon
  <2>2. LockMove(c, Reader, p)
    BY <1>3, <2>1, Zenon DEF LockMove, OwnHeld, IdHeld
  <2>3. /\ pc' = [pc EXCEPT ![Reader] = p] /\ pc[Reader] \in SemaPoints \cup {"run"}
        /\ intr' \in [Cpu -> BOOLEAN] /\ (intr'[c] <=> p = "run")
        /\ \A d \in Cpu : d # c => (intr'[d] <=> intr[d])
        /\ spl' \in [All -> BOOLEAN]
        /\ \A u \in All : u # Reader => call'[u] = call[u] /\ spl'[u] = spl[u]
        /\ call'[Reader] \in {"kbd_read", "none"} /\ p \notin SemaPoints
    BY <1>3, <1>4, <1>5, <1>6, <1>7, <2>1, Zenon
  <2>4. UNCHANGED <<cpu_spl, runvars, ret, target, arg>>
    BY <1>3, Zenon
  <2> QED
    BY <1>2, <1>6, <2>1, <2>2, <2>3, <2>4, ReaderProc, Zenon
<1>9. WaitInv'
  <2>1. \A p \in {"kbd_cpu", "kbd_unlock"} : Handler' = p <=> Handler = p
    BY <1>8, Zenon DEF HandlerKept, KbdIrq
  <2>2. ~Waits /\ ~Waits'
    BY <1>3 DEF Waits
  <2> QED
    BY <1>3, <2>1, <2>2, WaitSame, Zenon
<1>10. ReadInv'
  <2>1. call'[Reader] = "kbd_read" <=> codes' # <<>>
    BY <1>5, <1>6, Zenon
  <2>2. call'[Reader] = "kbd_read" => Reading(Reader)'
    BY <1>3, Zenon DEF Reading
  <2>3. /\ codes' # <<>> <=> call'[Reader] = "kbd_read" /\ pc'[Reader] \notin SemaPoints
        /\ pc'[Reader] \notin SemaPoints
    BY <1>3, <1>5, <2>1, Zenon
  <2>4. \A u \in All : u # Reader => pc'[u] = pc[u] /\ ret'[u] = ret[u] /\ call'[u] = call[u]
    BY <1>3, <1>6, Zenon
  <2> QED
    BY <1>4, <2>2, <2>3, <2>4, ReadSame, Zenon
<1>11. codes # <<>>
  BY <1>3, <1>5, Zenon DEF ReadInv
<1> QED
  BY <1>2, <1>8, <1>9, <1>10, <1>11, Zenon
\* A step of the reader between points of the locked part keeps ReadInv.
LEMMA InsideRead ==
  ASSUME ReadInv, Reader \in All,
         pc[Reader] \in SemaPoints, call[Reader] = "kbd_read",
         pc'[Reader] \in {"outer", "wait_cpu", "wait_yield", "wait_unlock"},
         \A u \in All : u # Reader => pc'[u] = pc[u],
         UNCHANGED <<ret, call, codes>>
  PROVE  ReadInv'
<1>1. pc'[Reader] \in SemaPoints
  BY Zenon DEF SemaPoints
<1>2. Reading(Reader)'
  BY <1>1, Zenon DEF Reading
<1>3. codes' # <<>> <=> call'[Reader] = "kbd_read" /\ pc'[Reader] \notin SemaPoints
  BY <1>1, Zenon DEF ReadInv
<1>4. \A u \in All : u # Reader => pc'[u] = pc[u] /\ ret'[u] = ret[u] /\ call'[u] = call[u]
  BY Zenon
<1>5. call'[Reader] = "kbd_read"
  BY Zenon
<1> QED
  BY <1>2, <1>3, <1>4, <1>5, ReadSame, Zenon

\* kbd_read finds the ring empty and keeps kbd.lock into cond_wait.
LEMMA WaitControl ==
  ASSUME ProcInv, WaitInv, ReadInv, NEW c \in Cpu, kbd_read_wait(c)
  PROVE  ProcInv' /\ WaitInv' /\ ReadInv' /\ HandlerKept
<1>1. cur_thread[c] \in All /\ SmpInv
  BY CurFacts, Zenon DEF ProcInv
<1>2. Reader = cur_thread[c] /\ call[Reader] = "kbd_read"
  BY <1>1, Zenon DEF ReadInv, kbd_read_wait, Goto, SemaPoints
<1>3. /\ pc[Reader] = "outer" /\ pc' = [pc EXCEPT ![Reader] = "wait_cpu"]
      /\ klock = 0 /\ klock' = 1 /\ read_pos >= write_pos /\ lock' = lock
      /\ UNCHANGED <<intr, cpu_spl, runvars, ret, target, arg, call, spl>>
      /\ UNCHANGED <<kwait, kwake, read_pos, write_pos, codes>>
  BY <1>2, Zenon DEF kbd_read_wait, Goto, cpuvars
<1>4. /\ pc[Reader] \in SemaPoints /\ "wait_cpu" \in SemaPoints
      /\ LockMove(c, Reader, "wait_cpu")
  BY <1>3, Zenon DEF SemaPoints, LockMove, OwnHeld, IdHeld
<1>5. /\ ProcInv' /\ HandlerKept
      /\ pc'[Reader] = "wait_cpu" /\ \A u \in All : u # Reader => pc'[u] = pc[u]
  BY <1>2, <1>3, <1>4, ReaderInside, Zenon
<1>6. \A p \in {"kbd_cpu", "kbd_unlock"} : Handler' = p <=> Handler = p
  BY <1>5, Zenon DEF HandlerKept, KbdIrq
<1>7. ~Waits /\ ~Waits' /\ klock # 1
  BY <1>3, <1>5 DEF Waits
<1>8. Handler # "kbd_cpu" /\ Handler # "kbd_unlock" /\ kwait # <<Reader>>
  BY <1>7, Zenon DEF WaitInv
<1>9. WaitInv'
  BY <1>3, <1>5, <1>6, <1>7, <1>8, Zenon DEF WaitInv
<1>10. ReadInv'
  BY <1>1, <1>2, <1>3, <1>4, <1>5, InsideRead, Zenon
<1> QED
  BY <1>5, <1>9, <1>10, Zenon

\* cond_wait puts the reader on the list with the lock of its CPU, before it
\* frees kbd.lock.
LEMMA PushControl ==
  ASSUME ProcInv, WaitInv, ReadInv, NEW c \in Cpu, cond_wait_push(c)
  PROVE  ProcInv' /\ WaitInv' /\ ReadInv' /\ HandlerKept
<1>1. cur_thread[c] \in All /\ SmpInv
  BY CurFacts, Zenon DEF ProcInv
<1>2. Reader = cur_thread[c] /\ call[Reader] = "kbd_read"
  BY <1>1, Zenon DEF ReadInv, cond_wait_push, Goto, SemaPoints
<1>3. /\ pc[Reader] = "wait_cpu" /\ pc' = [pc EXCEPT ![Reader] = "wait_yield"]
      /\ lock[c] = 0 /\ lock' = [lock EXCEPT ![c] = 1]
      /\ kwait' = Append(kwait, Reader) /\ klock' = 0
      /\ UNCHANGED <<intr, cpu_spl, runvars, ret, target, arg, call, spl>>
      /\ UNCHANGED <<kwake, read_pos, write_pos, codes>>
  BY <1>2, Zenon DEF cond_wait_push, Goto, Acquire, thread_list_push
<1>4. /\ pc[Reader] \in SemaPoints /\ "wait_yield" \in SemaPoints
      /\ LockMove(c, Reader, "wait_yield")
  BY <1>3, Zenon DEF SemaPoints, LockMove
<1>5. /\ ProcInv' /\ HandlerKept
      /\ pc'[Reader] = "wait_yield" /\ \A u \in All : u # Reader => pc'[u] = pc[u]
  BY <1>2, <1>3, <1>4, ReaderInside, Zenon
<1>6. \A p \in {"kbd_cpu", "kbd_unlock"} : Handler' = p <=> Handler = p
  BY <1>5, Zenon DEF HandlerKept, KbdIrq
<1>7. ~Waits /\ Waits' /\ klock' # 1 /\ klock' \in {0, 1}
  BY <1>3, <1>5 DEF Waits
<1>8. /\ Handler # "kbd_cpu" /\ Handler # "kbd_unlock" /\ kwait = <<>>
      /\ read_pos >= write_pos
  BY <1>3, <1>7, Zenon DEF WaitInv
<1>9. kwait' = <<Reader>>
  <2>1. Append(<<>>, Reader) = <<Reader>>
    OBVIOUS
  <2> QED
    BY <1>3, <1>8, <2>1, Zenon
<1>10. /\ kwait' \in {<<>>, <<Reader>>} /\ read_pos' >= write_pos'
       /\ pc'[Reader] # "wait_cpu" /\ Handler' # "kbd_cpu" /\ Handler' # "kbd_unlock"
  BY <1>3, <1>5, <1>6, <1>8, <1>9, Zenon
<1>11. WaitInv'
  BY <1>7, <1>9, <1>10, Zenon DEF WaitInv
<1>12. ReadInv'
  BY <1>1, <1>2, <1>3, <1>4, <1>5, InsideRead, Zenon
<1> QED
  BY <1>5, <1>11, <1>12, Zenon

\* The reader has been woken, and spins for kbd.lock again.
LEMMA WokenControl ==
  ASSUME ProcInv, WaitInv, ReadInv, NEW c \in Cpu, cond_wait_return(c)
  PROVE  ProcInv' /\ WaitInv' /\ ReadInv' /\ HandlerKept
<1>1. cur_thread[c] \in All /\ SmpInv
  BY CurFacts, Zenon DEF ProcInv
<1>2. Reader = cur_thread[c] /\ call[Reader] = "kbd_read"
  BY <1>1, Zenon DEF ReadInv, cond_wait_return, Goto, SemaPoints
<1>3. /\ pc[Reader] = "wait_unlock" /\ pc' = [pc EXCEPT ![Reader] = "outer"]
      /\ lock' = [lock EXCEPT ![c] = 0]
      /\ UNCHANGED <<intr, cpu_spl, runvars, ret, target, arg, call, spl>>
      /\ UNCHANGED <<klock, kwait, kwake, read_pos, write_pos, codes>>
  BY <1>2, Zenon DEF cond_wait_return, Goto, Release, kbdvars
<1>4. /\ pc[Reader] \in SemaPoints /\ "outer" \in SemaPoints
      /\ LockMove(c, Reader, "outer")
  BY <1>3, Zenon DEF SemaPoints, LockMove
<1>5. /\ ProcInv' /\ HandlerKept
      /\ pc'[Reader] = "outer" /\ \A u \in All : u # Reader => pc'[u] = pc[u]
  BY <1>2, <1>3, <1>4, ReaderInside, Zenon
<1>6. \A p \in {"kbd_cpu", "kbd_unlock"} : Handler' = p <=> Handler = p
  BY <1>5, Zenon DEF HandlerKept, KbdIrq
<1>7. ~Waits /\ ~Waits'
  <2>1. state[Reader] = RUNNING
    BY <1>2, ReaderCur, Zenon
  <2> QED
    BY <1>3, <1>5, <2>1 DEF Waits, RUNNING, SLEEPING
<1>8. WaitInv'
  BY <1>3, <1>5, <1>6, <1>7, WaitSame, Zenon
<1>9. ReadInv'
  BY <1>1, <1>2, <1>3, <1>4, <1>5, InsideRead, Zenon
<1> QED
  BY <1>5, <1>8, <1>9, Zenon

\* sched_yield_locked gives the CPU away with its lock held.
LEMMA YieldControl ==
  ASSUME ProcInv, WaitInv, ReadInv, NEW c \in Cpu, cond_wait_yield(c)
  PROVE  ProcInv' /\ WaitInv' /\ ReadInv' /\ HandlerKept
<1>1. cur_thread[c] \in All /\ SmpInv /\ RunInv /\ cur_thread \in [Cpu -> All]
  BY CurFacts, Zenon DEF ProcInv, SmpInv, TypeOK
<1>2. Reader = cur_thread[c] /\ call[Reader] = "kbd_read"
  BY <1>1, Zenon DEF ReadInv, cond_wait_yield, Goto, SemaPoints
<1>3. /\ pc[Reader] = "wait_yield" /\ pc' = [pc EXCEPT ![Reader] = "wait_unlock"]
      /\ SwitchFrom(c, [state EXCEPT ![Reader] = SLEEPING], cnt)
      /\ UNCHANGED <<lock, intr, cpu_spl, threads, cpu_id, sleep_time, timer, ret,
                     target, arg, call, spl>>
      /\ UNCHANGED <<klock, kwait, kwake, read_pos, write_pos, codes>>
  BY <1>2, Zenon DEF cond_wait_yield, Goto, cpuvars, kbdvars
<1>4. Reader \in All /\ Reader # Idle[c] /\ pc \in [All -> Points]
  <2>1. Reader \in Thread /\ Thread \cap Range(Idle) = {} /\ Idle \in [Cpu -> All]
    BY KbdAssumption, SmpAssumption, Zenon
  <2>2. Reader # Idle[c]
    BY <2>1 DEF Range
  <2>3. pc \in [All -> Points]
    BY <1>1, Zenon DEF SmpInv, TypeOK
  <2> QED
    BY <1>1, <1>2, <2>2, <2>3, Zenon
<1>5. SmpInv' /\ HoldersMove /\ RunInv'
  BY <1>1, <1>2, <1>3, <1>4, YieldStep, Zenon
<1>6. /\ pc'[Reader] = "wait_unlock" /\ \A u \in All : u # Reader => pc'[u] = pc[u]
      /\ \A d \in Cpu : d # c => cur_thread'[d] = cur_thread[d]
      /\ state'[Reader] = SLEEPING
  BY <1>1, <1>3, <1>4, Zenon DEF SwitchFrom, SmpInv, TypeOK
<1>7. HandlerKept
  <2>1. pc[Reader] \notin KbdIrq /\ "wait_unlock" \notin KbdIrq
    BY <1>3 DEF KbdIrq
  <2>2. \A u \in All : pc[u] \in KbdIrq \/ pc'[u] \in KbdIrq => pc'[u] = pc[u]
    BY <1>6, <2>1, Zenon
  <2> QED
    BY <1>2, <1>5, <1>6, <2>1, <2>2, HandlerSame, Zenon
<1>8. \A p \in {"kbd_cpu", "kbd_unlock"} : Handler' = p <=> Handler = p
  BY <1>7, Zenon DEF HandlerKept, KbdIrq
<1>9. ProcInv'
  BY <1>3, <1>5, <1>7, <1>8, ProcKept, Zenon DEF HandlerKept
<1>10. Waits /\ Waits'
  BY <1>3, <1>6, Zenon DEF Waits
<1>11. WaitInv'
  BY <1>3, <1>6, <1>8, <1>10, WaitSame, Zenon
<1>12. ReadInv'
  <2>1. pc[Reader] \in SemaPoints
    BY <1>3, Zenon DEF SemaPoints
  <2> QED
    BY <1>2, <1>3, <1>4, <1>6, <2>1, InsideRead, Zenon
<1> QED
  BY <1>7, <1>9, <1>11, <1>12, Zenon
------------------------------------------------------------------------------
\* A step that touches neither the ring nor the codes, and neither enters nor
\* leaves the handler's wait for kbd.lock.
LEMMA DataSame ==
  ASSUME DataInv, Handler' = "kbd_lock" <=> Handler = "kbd_lock",
         UNCHANGED <<buf, read_pos, write_pos, shift, caps, overtaken, code, codes,
                     out_buf, typed>>
  PROVE  DataInv'
<1>1. DataTypeOK' /\ OutInv' /\ ModInv'
  BY ZenonT(60) DEF DataInv, DataTypeOK, OutInv, ModInv, CharsAsTyped
<1>2. RingInv'
  BY Zenon DEF DataInv, RingInv
<1> QED
  BY <1>1, <1>2, Zenon DEF DataInv

\* A change of the modifiers overtakes the keys that are not decoded yet.
LEMMA SpecialData ==
  ASSUME DataInv, kbd_check_special
  PROVE  DataInv'
<1>1. /\ UNCHANGED <<buf, read_pos, write_pos, code, codes, out_buf, typed>>
      /\ UNCHANGED <<cur_thread, pc>>
      /\ overtaken' = overtaken \cup (Len(out_buf) + 1 .. Len(typed))
      /\ shift' \in {shift, ~shift} /\ caps' \in {caps, ~caps}
  BY DEF kbd_check_special, vars, runvars, ctlvars
<1>2. shift' \in BOOLEAN /\ caps' \in BOOLEAN
  BY <1>1, Zenon DEF DataInv, DataTypeOK
<1>3. DataTypeOK' /\ OutInv'
  BY <1>1, <1>2, Zenon DEF DataInv, DataTypeOK, OutInv
<1>4. RingInv'
  <2>1. Handler' = Handler
    BY <1>1, Zenon DEF Handler
  <2> QED
    BY <1>1, <2>1, Zenon DEF DataInv, RingInv
<1>5. ModInv'
  <2>1. CharsAsTyped'
    BY <1>1, Zenon DEF DataInv, ModInv, CharsAsTyped
  <2> QED
    BY <1>1, <2>1, Zenon DEF ModInv
<1> QED
  BY <1>3, <1>4, <1>5, Zenon DEF DataInv

\* Lengths and types, from which the others follow by arithmetic.
LEMMA DataFacts ==
  ASSUME DataInv
  PROVE  /\ read_pos \in Nat /\ write_pos \in Nat /\ read_pos <= write_pos
         /\ KBD_BUFSIZE \in Nat \ {0}
         /\ Len(typed) \in Nat /\ Len(out_buf) \in Nat /\ Len(codes) \in Nat
         /\ DOMAIN out_buf = 1 .. Len(out_buf)
         /\ Len(out_buf) + Len(codes) = read_pos
         /\ write_pos <= Len(typed) /\ Len(typed) <= write_pos + 1
         /\ \A i \in 1 .. Len(typed) : typed[i] \in KeyPress
         /\ \A i \in 1 .. Len(out_buf) : i \in 1 .. Len(typed)
<1>1. /\ read_pos \in Nat /\ write_pos \in Nat
      /\ codes \in Seq(0 .. 127)
      /\ out_buf \in Seq(Character)
      /\ typed \in Seq(KeyPress)
  BY Zenon DEF DataInv, DataTypeOK
<1>2. /\ Len(typed) \in Nat /\ Len(out_buf) \in Nat /\ Len(codes) \in Nat
      /\ DOMAIN out_buf = 1 .. Len(out_buf)
      /\ \A i \in 1 .. Len(typed) : typed[i] \in KeyPress
  BY <1>1, SeqFacts, ZenonT(60)
<1>3. read_pos <= write_pos /\ (Len(typed) = write_pos + 1 \/ Len(typed) = write_pos)
  BY Zenon DEF DataInv, RingInv
<1>4. Len(out_buf) + Len(codes) = read_pos
  BY Zenon DEF DataInv, OutInv
<1>5. write_pos <= Len(typed) /\ Len(typed) <= write_pos + 1
  BY <1>1, <1>2, <1>3
<1>6. \A i \in 1 .. Len(out_buf) : i \in 1 .. Len(typed)
  BY <1>1, <1>2, <1>3, <1>4, <1>5
<1> QED
  BY <1>1, <1>2, <1>3, <1>4, <1>5, <1>6, KbdAssumption, Zenon

\* Pressing a key: it is typed, and not in the ring yet.
LEMMA IrqData ==
  ASSUME DataInv, NEW k \in Code, kbd_irq(k),
         Handler # "kbd_lock", Handler' = "kbd_lock"
  PROVE  DataInv'
<1>0. k \in 0 .. 127 /\ shift \in BOOLEAN /\ caps \in BOOLEAN /\ typed \in Seq(KeyPress)
  BY KbdAssumption DEF DataInv, DataTypeOK
<1>3. PICK r \in KeyPress : /\ r = [key |-> k, shift |-> shift, caps |-> caps]
                           /\ r.key = k /\ r.shift = shift /\ r.caps = caps
  <2> DEFINE q == [key |-> k, shift |-> shift, caps |-> caps]
  <2>1. q \in KeyPress
    BY <1>0 DEF KeyPress
  <2>2. q.key = k /\ q.shift = shift /\ q.caps = caps
    OBVIOUS
  <2> QED
    BY <2>1, <2>2, Zenon
<1>1. /\ typed' = Append(typed, r) /\ code' = k
      /\ write_pos - read_pos < KBD_BUFSIZE
      /\ UNCHANGED <<buf, read_pos, write_pos, shift, caps, overtaken, codes, out_buf>>
  BY <1>3, Zenon DEF kbd_irq, modvars
<1>2. typed \in Seq(KeyPress) /\ k \in 0 .. 127 /\ r \in KeyPress
  BY <1>0, <1>3, Zenon
<1>4. /\ typed' \in Seq(KeyPress) /\ Len(typed') = Len(typed) + 1
      /\ \A i \in 1 .. Len(typed) : typed'[i] = typed[i]
      /\ typed'[Len(typed) + 1] = r
  <2>1. /\ Append(typed, r) \in Seq(KeyPress) \ {<<>>}
        /\ Len(Append(typed, r)) = Len(typed) + 1
        /\ \A i \in 1 .. Len(typed) : Append(typed, r)[i] = typed[i]
        /\ Append(typed, r)[Len(typed) + 1] = r
    BY <1>2, SeqAppend
  <2> QED
    BY <1>1, <2>1, Zenon
<1>5. /\ read_pos \in Nat /\ write_pos \in Nat /\ read_pos <= write_pos
      /\ Len(typed) \in Nat /\ Len(out_buf) \in Nat /\ Len(codes) \in Nat
      /\ DOMAIN out_buf = 1 .. Len(out_buf)
      /\ Len(out_buf) + Len(codes) = read_pos
      /\ \A i \in 1 .. Len(out_buf) : i \in 1 .. Len(typed)
  BY DataFacts, Zenon
<1>6. Len(typed) = write_pos
  BY Zenon DEF DataInv, RingInv
<1>7. DataTypeOK'
  BY <1>1, <1>2, <1>4, Zenon DEF DataInv, DataTypeOK
<1>8. RingInv'
  <2>1. \A i \in read_pos + 1 .. write_pos : i \in 1 .. Len(typed)
    BY <1>5, <1>6
  <2>2. \A i \in read_pos + 1 .. write_pos : buf[(i - 1) % KBD_BUFSIZE] = typed'[i].key
    BY <1>4, <2>1, Zenon DEF DataInv, RingInv
  <2>3. Len(typed') = write_pos + 1 /\ typed'[write_pos + 1].key = code'
    BY <1>1, <1>3, <1>4, <1>6, Zenon
  <2>4. read_pos <= write_pos /\ write_pos - read_pos <= KBD_BUFSIZE
    BY Zenon DEF DataInv, RingInv
  <2> QED
    BY <1>1, <2>2, <2>3, <2>4, Zenon DEF RingInv
<1>9. OutInv'
  <2>1. \A j \in 1 .. Len(codes) : Len(out_buf) + j \in 1 .. Len(typed)
    BY <1>5, <1>6
  <2>2. \A j \in 1 .. Len(codes) : codes[j] = typed'[Len(out_buf) + j].key
    BY <1>4, <2>1, Zenon DEF DataInv, OutInv
  <2>3. \A i \in 1 .. Len(out_buf) : out_buf[i].key = typed'[i].key
    BY <1>4, <1>5, Zenon DEF DataInv, OutInv
  <2> QED
    BY <1>1, <1>5, <2>2, <2>3, Zenon DEF OutInv
<1>10. ModInv'
  <2>1. CharsAsTyped'
    <3>1. \A i \in DOMAIN out_buf : typed'[i] = typed[i]
      BY <1>4, <1>5, Zenon
    <3>2. CharsAsTyped
      BY Zenon DEF DataInv, ModInv
    <3>3. DOMAIN out_buf' \ overtaken' = DOMAIN out_buf \ overtaken /\ out_buf' = out_buf
      BY <1>1, Zenon
    <3> QED
      BY <3>1, <3>2, <3>3, ZenonT(60) DEF CharsAsTyped
  <2>2. ASSUME NEW i \in Len(out_buf) + 1 .. Len(typed'), i \notin overtaken
        PROVE  typed'[i].shift = shift /\ typed'[i].caps = caps
    <3>1. i = Len(typed) + 1 \/ i \in Len(out_buf) + 1 .. Len(typed)
      BY <1>4, <1>5
    <3>2. i \in Len(out_buf) + 1 .. Len(typed) => i \in 1 .. Len(typed)
      BY <1>5
    <3> QED
      BY <1>3, <1>4, <2>2, <3>1, <3>2, Zenon DEF DataInv, ModInv
  <2> QED
    BY <1>1, <2>1, <2>2, Zenon DEF ModInv
<1> QED
  BY <1>7, <1>8, <1>9, <1>10, Zenon DEF DataInv
\* Less than a ring apart, two keys are in different places of it.
LEMMA Places ==
  ASSUME NEW q \in Nat, q > 0, NEW a \in Nat, NEW b \in Nat, a < b, b - a < q
  PROVE  a % q # b % q
<1>1. a - q * (a \div q) = a % q /\ a \div q \in Int
  OBVIOUS
<1>2. b - q * (b \div q) = b % q /\ b \div q \in Int
  OBVIOUS
<1>3. ASSUME NEW d \in Int, NEW e \in Int, b - a = q * e - q * d PROVE FALSE
  <2>1. q * e - q * d = q * (e - d) /\ e - d \in Int
    OBVIOUS
  <2>2. ASSUME NEW f \in Int, f <= 0 PROVE q * f <= 0
    BY <2>2
  <2>3. ASSUME NEW f \in Int, f >= 1 PROVE q * f >= q
    BY <2>3
  <2>4. CASE e - d <= 0
    <3>1. q * (e - d) <= 0
      BY <2>1, <2>2, <2>4
    <3> QED BY <3>1, <2>1, <1>3
  <2>5. CASE e - d >= 1
    <3>1. q * (e - d) >= q
      BY <2>1, <2>3, <2>5
    <3> QED BY <3>1, <2>1, <1>3
  <2> QED BY <2>1, <2>4, <2>5
<1>4. SUFFICES ASSUME a % q = b % q PROVE FALSE
  OBVIOUS
<1>5. b - a = q * (b \div q) - q * (a \div q)
  BY <1>1, <1>2, <1>4
<1> QED BY <1>1, <1>2, <1>3, <1>5, Zenon

\* The handler puts the key into a place of the ring that is free.
LEMMA PutData ==
  ASSUME DataInv, irq_handler_put, Handler = "kbd_lock", Handler' # "kbd_lock"
  PROVE  DataInv'
<1>1. /\ buf' = [buf EXCEPT ![write_pos % KBD_BUFSIZE] = code]
      /\ write_pos' = write_pos + 1
      /\ UNCHANGED <<read_pos, shift, caps, overtaken, code, codes, out_buf, typed>>
  BY Zenon DEF irq_handler_put, modvars
<1>2. /\ buf \in [0 .. KBD_BUFSIZE - 1 -> 0 .. 127] /\ code \in 0 .. 127
      /\ read_pos \in Nat /\ write_pos \in Nat /\ read_pos <= write_pos
      /\ KBD_BUFSIZE \in Nat \ {0}
      /\ Len(typed) = write_pos + 1 /\ typed[write_pos + 1].key = code
      /\ write_pos - read_pos < KBD_BUFSIZE
  BY KbdAssumption, Zenon DEF DataInv, DataTypeOK, RingInv
<1>3. write_pos % KBD_BUFSIZE \in 0 .. KBD_BUFSIZE - 1
  BY <1>2
<1>4. /\ buf' \in [0 .. KBD_BUFSIZE - 1 -> 0 .. 127]
      /\ buf'[write_pos % KBD_BUFSIZE] = code
      /\ \A p \in 0 .. KBD_BUFSIZE - 1 : p # write_pos % KBD_BUFSIZE => buf'[p] = buf[p]
  BY <1>1, <1>2, <1>3, Zenon
<1>5. write_pos' \in Nat /\ write_pos' - read_pos <= KBD_BUFSIZE /\ read_pos <= write_pos'
  BY <1>1, <1>2
<1>6. DataTypeOK'
  BY <1>1, <1>4, <1>5, Zenon DEF DataInv, DataTypeOK
<1>7. OutInv' /\ ModInv'
  BY <1>1, Zenon DEF DataInv, OutInv, ModInv, CharsAsTyped
<1>8. ASSUME NEW i \in read_pos + 1 .. write_pos + 1
      PROVE  buf'[(i - 1) % KBD_BUFSIZE] = typed[i].key
  <2>1. CASE i = write_pos + 1
    <3>1. i - 1 = write_pos
      BY <1>2, <2>1
    <3> QED
      BY <1>2, <1>4, <2>1, <3>1, Zenon
  <2>2. CASE i # write_pos + 1
    <3>1. /\ i \in read_pos + 1 .. write_pos
          /\ i - 1 \in Nat /\ i - 1 < write_pos /\ write_pos - (i - 1) < KBD_BUFSIZE
          /\ KBD_BUFSIZE \in Nat /\ KBD_BUFSIZE > 0
      BY <1>2, <1>8, <2>2
    <3>2. (i - 1) % KBD_BUFSIZE # write_pos % KBD_BUFSIZE
      BY <1>2, <3>1, Places, Zenon
    <3>3. (i - 1) % KBD_BUFSIZE \in 0 .. KBD_BUFSIZE - 1
      BY <3>1
    <3> QED
      BY <1>4, <3>1, <3>2, <3>3, Zenon DEF DataInv, RingInv
  <2> QED
    BY <2>1, <2>2
<1>9. RingInv'
  BY <1>1, <1>2, <1>5, <1>8, Zenon DEF RingInv
<1> QED
  BY <1>6, <1>7, <1>9, Zenon DEF DataInv

\* A function on the first n numbers is a sequence.
LEMMA FunctionSeq ==
  ASSUME NEW S, NEW n \in Nat, NEW f \in [1 .. n -> S]
  PROVE  f \in Seq(S) /\ Len(f) = n
OBVIOUS

\* kbd_read takes all the keys out of the ring when it has none left to decode.
LEMMA CopyData ==
  ASSUME DataInv, codes = <<>>, NEW c \in Cpu, kbd_read_copy(c),
         Handler' = "kbd_lock" <=> Handler = "kbd_lock"
  PROVE  DataInv'
<1>1. /\ codes' = Unread /\ read_pos' = write_pos
      /\ UNCHANGED <<buf, write_pos, shift, caps, overtaken, code, out_buf, typed>>
  BY Zenon DEF kbd_read_copy, modvars
<1>2. /\ read_pos \in Nat /\ write_pos \in Nat /\ read_pos <= write_pos
      /\ KBD_BUFSIZE \in Nat \ {0}
      /\ buf \in [0 .. KBD_BUFSIZE - 1 -> 0 .. 127]
      /\ Len(out_buf) \in Nat /\ Len(out_buf) + Len(codes) = read_pos
  BY DataFacts, Zenon DEF DataInv, DataTypeOK
<1>3. Len(out_buf) = read_pos
  BY <1>2
<1>4. \A j \in 1 .. write_pos - read_pos :
        (read_pos + j - 1) % KBD_BUFSIZE \in 0 .. KBD_BUFSIZE - 1
  BY <1>2
<1>5. Unread \in Seq(0 .. 127) /\ Len(Unread) = write_pos - read_pos
  <2>1. Unread \in [1 .. write_pos - read_pos -> 0 .. 127]
    BY <1>2, <1>4, Zenon DEF Unread
  <2>2. write_pos - read_pos \in Nat
    BY <1>2
  <2> QED
    BY <2>1, <2>2, FunctionSeq, Zenon
<1>6. ASSUME NEW j \in 1 .. write_pos - read_pos
      PROVE  Unread[j] = typed[read_pos + j].key
  <2>1. PICK i \in read_pos + 1 .. write_pos :
          i = read_pos + j /\ i - 1 = read_pos + j - 1
    BY <1>2
  <2>2. Unread[j] = buf[(read_pos + j - 1) % KBD_BUFSIZE]
    BY Zenon DEF Unread
  <2>3. buf[(i - 1) % KBD_BUFSIZE] = typed[i].key
    BY <2>1, Zenon DEF DataInv, RingInv
  <2> QED
    BY <2>1, <2>2, <2>3, Zenon
<1>7. DataTypeOK'
  BY <1>1, <1>2, <1>5, Zenon DEF DataInv, DataTypeOK
<1>8. OutInv'
  <2>1. Len(out_buf) + Len(Unread) = write_pos
    BY <1>2, <1>3, <1>5
  <2> QED
    BY <1>1, <1>3, <1>5, <1>6, <2>1, Zenon DEF DataInv, OutInv
<1>9. ModInv'
  BY <1>1, Zenon DEF DataInv, ModInv, CharsAsTyped
<1>10. RingInv'
  <2>1. /\ write_pos <= write_pos /\ write_pos - write_pos <= KBD_BUFSIZE
        /\ write_pos - write_pos < KBD_BUFSIZE
        /\ \A i \in write_pos + 1 .. write_pos : FALSE
    BY <1>2
  <2> QED
    BY <1>1, <2>1, Zenon DEF DataInv, RingInv
<1> QED
  BY <1>7, <1>8, <1>9, <1>10, Zenon DEF DataInv
\* The character of a key that waits to be decoded, with the modifiers as they are.
LEMMA DecodeRight ==
  ASSUME NEW k \in 0 .. 127, NEW key, key = k, shift \in BOOLEAN, caps \in BOOLEAN
  PROVE  kbd_decode(k).shifted <=> key # 72 /\ shift # (caps /\ key \in Letters)
<1>1. kbd_decode(k).shifted = (k # 72 /\ (IF caps /\ k \in Letters THEN ~shift ELSE shift))
  BY DEF kbd_decode
<1> QED
  BY <1>1, Zenon

\* kbd_read decodes the next key it has taken out of the ring.
LEMMA DecodeData ==
  ASSUME DataInv, codes # <<>>, NEW c \in Cpu, kbd_read_decode(c),
         Handler' = "kbd_lock" <=> Handler = "kbd_lock"
  PROVE  DataInv'
<1>1. codes \in Seq(0 .. 127) /\ out_buf \in Seq(Character)
      /\ shift \in BOOLEAN /\ caps \in BOOLEAN
  BY Zenon DEF DataInv, DataTypeOK
<1>2. /\ Head(codes) \in 0 .. 127 /\ Head(codes) = codes[1]
      /\ Tail(codes) \in Seq(0 .. 127) /\ Len(Tail(codes)) = Len(codes) - 1
      /\ \A j \in 1 .. Len(Tail(codes)) : Tail(codes)[j] = codes[j + 1]
      /\ Len(codes) \in Nat \ {0}
  BY <1>1, SeqTail, SeqFacts
<1>3. PICK k \in 0 .. 127 : k = Head(codes)
  BY <1>2, Zenon
<1>4. PICK ch \in Character : ch = kbd_decode(k) /\ ch.key = k
  <2>1. kbd_decode(k) \in Character
    BY <1>1 DEF kbd_decode, Character
  <2>2. kbd_decode(k).key = k
    BY DEF kbd_decode
  <2> QED
    BY <2>1, <2>2, Zenon
<1>5. /\ out_buf' = Append(out_buf, ch) /\ codes' = Tail(codes)
      /\ UNCHANGED <<buf, read_pos, write_pos, shift, caps, overtaken, code, typed>>
  BY <1>3, <1>4, Zenon DEF kbd_read_decode, modvars
<1>6. /\ out_buf' \in Seq(Character) /\ Len(out_buf') = Len(out_buf) + 1
      /\ \A i \in 1 .. Len(out_buf) : out_buf'[i] = out_buf[i]
      /\ out_buf'[Len(out_buf) + 1] = ch
  <2>1. /\ Append(out_buf, ch) \in Seq(Character) \ {<<>>}
        /\ Len(Append(out_buf, ch)) = Len(out_buf) + 1
        /\ \A i \in 1 .. Len(out_buf) : Append(out_buf, ch)[i] = out_buf[i]
        /\ Append(out_buf, ch)[Len(out_buf) + 1] = ch
    BY <1>1, <1>4, SeqAppend
  <2> QED
    BY <1>5, <2>1, Zenon
<1>7. /\ read_pos \in Nat /\ write_pos \in Nat /\ read_pos <= write_pos
      /\ Len(typed) \in Nat /\ Len(out_buf) \in Nat
      /\ write_pos <= Len(typed)
      /\ DOMAIN out_buf = 1 .. Len(out_buf)
      /\ Len(out_buf) + Len(codes) = read_pos
      /\ \A i \in 1 .. Len(out_buf) : i \in 1 .. Len(typed)
  BY DataFacts, Zenon
<1>8. PICK n \in 1 .. Len(typed) : n = Len(out_buf) + 1 /\ n \in Len(out_buf) + 1 .. Len(typed)
  BY <1>2, <1>7
<1>9. typed[n].key = k
  <2>1. 1 \in 1 .. Len(codes)
    BY <1>2
  <2>2. codes[1] = typed[Len(out_buf) + 1].key
    BY <2>1, Zenon DEF DataInv, OutInv
  <2> QED
    BY <1>2, <1>3, <1>8, <2>2, Zenon
<1>10. DataTypeOK'
  BY <1>2, <1>5, <1>6, Zenon DEF DataInv, DataTypeOK
<1>11. RingInv'
  BY <1>5, Zenon DEF DataInv, RingInv
<1>12. OutInv'
  <2>1. Len(out_buf') + Len(codes') = read_pos
    <3>1. Len(codes') = Len(codes) - 1
      BY <1>2, <1>5, Zenon
    <3>2. Len(out_buf) + 1 + (Len(codes) - 1) = read_pos
      BY <1>2, <1>7
    <3> QED
      BY <1>6, <3>1, <3>2, Zenon
  <2>2. ASSUME NEW j \in 1 .. Len(codes')
        PROVE  codes'[j] = typed[Len(out_buf') + j].key
    <3>1. PICK m \in 1 .. Len(codes) : m = j + 1 /\ Len(out_buf) + m = Len(out_buf') + j
      BY <1>2, <1>5, <1>6, <1>7
    <3>2. codes[m] = typed[Len(out_buf) + m].key
      BY <3>1, Zenon DEF DataInv, OutInv
    <3> QED
      BY <1>2, <1>5, <3>1, <3>2, Zenon
  <2>3. ASSUME NEW i \in 1 .. Len(out_buf')
        PROVE  out_buf'[i].key = typed[i].key
    <3>1. i = n \/ i \in 1 .. Len(out_buf)
      BY <1>6, <1>7, <1>8
    <3>2. i \in 1 .. Len(out_buf) => out_buf[i].key = typed[i].key
      BY Zenon DEF DataInv, OutInv
    <3> QED
      BY <1>4, <1>6, <1>8, <1>9, <3>1, <3>2, Zenon
  <2> QED
    BY <1>5, <2>1, <2>2, <2>3, Zenon DEF OutInv
<1>13. ModInv'
  <2>1. ASSUME NEW i \in Len(out_buf') + 1 .. Len(typed)
        PROVE  i \in Len(out_buf) + 1 .. Len(typed)
    BY <1>6, <1>7
  <2>2. CharsAsTyped'
    <3>1. DOMAIN out_buf' = 1 .. Len(out_buf')
      BY <1>6, SeqFacts, Zenon
    <3>2. ASSUME NEW i \in DOMAIN out_buf', i \notin overtaken
          PROVE  out_buf'[i].shifted <=> /\ typed[i].key # 72
                                         /\ typed[i].shift # (typed[i].caps /\ typed[i].key \in Letters)
      <4>1. CASE i = n
        <5>1. typed[n].shift = shift /\ typed[n].caps = caps
          BY <1>8, <3>2, <4>1, Zenon DEF DataInv, ModInv
        <5>2. ch.shifted <=> typed[n].key # 72 /\ shift # (caps /\ typed[n].key \in Letters)
          BY <1>1, <1>4, <1>9, DecodeRight, Zenon
        <5> QED
          BY <1>6, <1>8, <4>1, <5>1, <5>2, Zenon
      <4>2. CASE i # n
        <5>1. i \in 1 .. Len(out_buf)
          BY <1>6, <1>7, <1>8, <3>1, <4>2
        <5>2. out_buf'[i] = out_buf[i] /\ i \in DOMAIN out_buf \ overtaken
          BY <1>6, <1>7, <3>2, <5>1, Zenon
        <5>3. CharsAsTyped
          BY Zenon DEF DataInv, ModInv
        <5> QED
          BY <5>2, <5>3, Zenon DEF CharsAsTyped
      <4> QED
        BY <4>1, <4>2, Zenon
    <3> QED
      BY <1>5, <3>2, Zenon DEF CharsAsTyped
  <2> QED
    BY <1>5, <2>1, <2>2, Zenon DEF DataInv, ModInv
<1> QED
  BY <1>10, <1>11, <1>12, <1>13, Zenon DEF DataInv
LEMMA SeqConcat ==
  ASSUME NEW S, NEW s \in Seq(S), NEW t \in Seq(S)
  PROVE  /\ s \o t \in Seq(S) /\ Len(s \o t) = Len(s) + Len(t)
         /\ \A i \in 1 .. Len(s) : (s \o t)[i] = s[i]
         /\ \A i \in Len(s) + 1 .. Len(s) + Len(t) : (s \o t)[i] = t[i - Len(s)]
OBVIOUS

\* s is the part of f after m up to n.
Part(s, f, m, n) ==
  /\ s \in Seq(0 .. 127)
  /\ Len(s) = n - m
  /\ \A i \in m + 1 .. n : s[i - m] = f[i]

LEMMA Joined ==
  ASSUME NEW s, NEW t, NEW f, NEW l \in Nat, NEW m \in Nat, NEW n \in Nat,
         l <= m, m <= n, Part(s, f, l, m), Part(t, f, m, n)
  PROVE  Part(s \o t, f, l, n)
<1>1. /\ s \in Seq(0 .. 127) /\ t \in Seq(0 .. 127)
      /\ Len(s) = m - l /\ Len(t) = n - m
      /\ \A i \in l + 1 .. m : s[i - l] = f[i]
      /\ \A i \in m + 1 .. n : t[i - m] = f[i]
  BY Zenon DEF Part
<1>2. /\ s \o t \in Seq(0 .. 127) /\ Len(s \o t) = Len(s) + Len(t)
      /\ \A i \in 1 .. Len(s) : (s \o t)[i] = s[i]
      /\ \A i \in Len(s) + 1 .. Len(s) + Len(t) : (s \o t)[i] = t[i - Len(s)]
  <2>1. s \in Seq(0 .. 127) /\ t \in Seq(0 .. 127)
    BY <1>1, Zenon
  <2> QED
    BY <2>1, SeqConcat, Zenon
<1>3. Len(s \o t) = n - l
  <2>1. (m - l) + (n - m) = n - l
    OBVIOUS
  <2> QED
    BY <1>1, <1>2, <2>1, Zenon
<1>4. ASSUME NEW i \in l + 1 .. n PROVE (s \o t)[i - l] = f[i]
  <2>1. CASE i <= m
    <3>1. i - l \in 1 .. m - l /\ i \in l + 1 .. m
      BY <2>1
    <3> QED
      BY <1>1, <1>2, <3>1, Zenon
  <2>2. CASE ~ (i <= m)
    <3>1. /\ i - l \in (m - l) + 1 .. (m - l) + (n - m) /\ i \in m + 1 .. n
          /\ (i - l) - (m - l) = i - m
      BY <2>2
    <3> QED
      BY <1>1, <1>2, <3>1, ZenonT(60)
  <2> QED
    BY <2>1, <2>2, Zenon
<1> QED
  BY <1>2, <1>3, <1>4, Zenon DEF Part

LEMMA SeqSame ==
  ASSUME NEW S, NEW s \in Seq(S), NEW t \in Seq(S), Len(s) = Len(t),
         \A i \in 1 .. Len(s) : s[i] = t[i]
  PROVE  s = t
OBVIOUS

\* f determines its parts.
LEMMA PartSame ==
  ASSUME NEW s, NEW t, NEW f, NEW n \in Nat, Part(s, f, 0, n), Part(t, f, 0, n)
  PROVE  s = t
<1>1. /\ s \in Seq(0 .. 127) /\ t \in Seq(0 .. 127)
      /\ Len(s) = n - 0 /\ Len(t) = n - 0
      /\ \A i \in 0 + 1 .. n : s[i - 0] = f[i]
      /\ \A i \in 0 + 1 .. n : t[i - 0] = f[i]
  BY Zenon DEF Part
<1>2. n - 0 = n /\ \A i \in 1 .. n : i \in 0 + 1 .. n /\ i - 0 = i
  OBVIOUS
<1>3. Len(s) = Len(t) /\ \A i \in 1 .. Len(s) : s[i] = t[i]
  BY <1>1, <1>2, Zenon
<1> QED
  BY <1>1, <1>3, SeqSame, Zenon

\* The data invariant accounts for every key that was pressed.
LEMMA InOrder ==
  ASSUME DataInv
  PROVE  KeysInOrder
<1> DEFINE read == [i \in DOMAIN out_buf |-> out_buf[i].key]
           Key == 0 .. 127
<1>1. /\ read_pos \in Nat /\ write_pos \in Nat /\ read_pos <= write_pos
      /\ KBD_BUFSIZE \in Nat \ {0}
      /\ buf \in [0 .. KBD_BUFSIZE - 1 -> Key]
      /\ Len(typed) \in Nat /\ Len(out_buf) \in Nat /\ Len(codes) \in Nat
      /\ DOMAIN out_buf = 1 .. Len(out_buf)
      /\ Len(out_buf) + Len(codes) = read_pos
      /\ write_pos <= Len(typed)
      /\ \A i \in 1 .. Len(typed) : typed[i] \in KeyPress
      /\ \A i \in 1 .. Len(out_buf) : i \in 1 .. Len(typed)
      /\ codes \in Seq(Key)
  BY DataFacts, Zenon DEF DataInv, DataTypeOK
<1>2. \A i \in 1 .. Len(typed) : typed[i].key \in Key
  <2>1. \A r \in KeyPress : r.key \in Key
    BY DEF KeyPress
  <2> QED
    BY <1>1, <2>1, Zenon
<1> HIDE DEF Key
<1>3. read \in Seq(Key) /\ Len(read) = Len(out_buf)
      /\ \A i \in 1 .. Len(out_buf) : read[i] = typed[i].key
  <2>1. \A i \in 1 .. Len(out_buf) : out_buf[i].key = typed[i].key
    BY Zenon DEF DataInv, OutInv
  <2>2. \A i \in 1 .. Len(out_buf) : read[i] = typed[i].key
    BY <1>1, <2>1, Zenon
  <2>3. \A i \in 1 .. Len(out_buf) : out_buf[i].key \in Key
    BY <1>1, <1>2, <2>1, Zenon
  <2>4. read \in [1 .. Len(out_buf) -> Key]
    BY <1>1, <2>3, Zenon
  <2> HIDE DEF read
  <2> QED
    BY <1>1, <2>2, <2>4, FunctionSeq, Zenon
<1>4. Unread \in Seq(Key) /\ Len(Unread) = write_pos - read_pos
      /\ \A i \in read_pos + 1 .. write_pos : Unread[i - read_pos] = typed[i].key
  <2>1. \A j \in 1 .. write_pos - read_pos :
          (read_pos + j - 1) % KBD_BUFSIZE \in 0 .. KBD_BUFSIZE - 1
    BY <1>1
  <2>2. Unread \in [1 .. write_pos - read_pos -> Key]
    BY <1>1, <2>1, Zenon DEF Unread
  <2>3. write_pos - read_pos \in Nat
    BY <1>1
  <2>4. ASSUME NEW i \in read_pos + 1 .. write_pos
        PROVE  Unread[i - read_pos] = typed[i].key
    <3>1. i - read_pos \in 1 .. write_pos - read_pos /\ read_pos + (i - read_pos) - 1 = i - 1
      BY <1>1
    <3>2. Unread[i - read_pos] = buf[(i - 1) % KBD_BUFSIZE]
      BY <3>1, Zenon DEF Unread
    <3> QED
      BY <3>2, Zenon DEF DataInv, RingInv
  <2> QED
    BY <2>2, <2>3, <2>4, FunctionSeq, Zenon
<1>5. Stored \in Seq(Key) /\ Len(Stored) = write_pos
      /\ \A i \in 1 .. write_pos : Stored[i] = typed[i].key
  <2>1. Stored = [i \in 1 .. write_pos |-> typed[i].key]
    <3>1. Len(typed) - (IF Handler = "kbd_lock" THEN 1 ELSE 0) = write_pos
      <4>1. IF Handler = "kbd_lock" THEN Len(typed) = write_pos + 1 ELSE Len(typed) = write_pos
        BY Zenon DEF DataInv, RingInv
      <4> QED
        BY <1>1, <4>1
    <3> QED
      BY <3>1, Zenon DEF Stored, Handler
  <2>2. \A i \in 1 .. write_pos : i \in 1 .. Len(typed)
    BY <1>1
  <2>3. Stored \in [1 .. write_pos -> Key]
    BY <1>2, <2>1, <2>2, Zenon
  <2>4. \A i \in 1 .. write_pos : Stored[i] = typed[i].key
    BY <2>1, Zenon
  <2> QED
    BY <1>1, <2>3, <2>4, FunctionSeq, Zenon
<1> HIDE DEF read
<1>6. PICK keys : \A i \in 1 .. Len(typed) : keys[i] = typed[i].key
  <2>1. \A i \in 1 .. Len(typed) : [j \in 1 .. Len(typed) |-> typed[j].key][i] = typed[i].key
    BY Zenon
  <2> QED
    BY <2>1, Zenon
<1>7. \A n \in Nat : n - 0 = n /\ (\A i \in 0 + 1 .. n : i \in 1 .. n /\ i - 0 = i)
  OBVIOUS
<1>8. Part(read, keys, 0, Len(out_buf))
  BY <1>1, <1>3, <1>6, <1>7, Zenon DEF Part, Key
<1>9. Part(codes, keys, Len(out_buf), read_pos)
  <2>1. Len(codes) = read_pos - Len(out_buf)
    BY <1>1
  <2>2. ASSUME NEW i \in Len(out_buf) + 1 .. read_pos
        PROVE  codes[i - Len(out_buf)] = keys[i]
    <3>1. i - Len(out_buf) \in 1 .. Len(codes) /\ Len(out_buf) + (i - Len(out_buf)) = i
      BY <1>1, <2>2
    <3>2. PICK j \in 1 .. Len(codes) : j = i - Len(out_buf) /\ Len(out_buf) + j = i
      BY <3>1, Zenon
    <3>3. i \in 1 .. Len(typed)
      BY <1>1
    <3>4. codes[j] = typed[Len(out_buf) + j].key
      BY Zenon DEF DataInv, OutInv
    <3> QED
      BY <1>6, <3>2, <3>3, <3>4, Zenon
  <2> QED
    BY <1>1, <2>1, <2>2, Zenon DEF Part, Key
<1>10. Part(Unread, keys, read_pos, write_pos)
  <2>1. \A i \in read_pos + 1 .. write_pos : i \in 1 .. Len(typed)
    BY <1>1
  <2> QED
    BY <1>4, <1>6, <2>1, Zenon DEF Part, Key
<1>11. Part(Stored, keys, 0, write_pos)
  <2>1. \A i \in 1 .. write_pos : i \in 1 .. Len(typed)
    BY <1>1
  <2> QED
    BY <1>1, <1>5, <1>6, <1>7, <2>1, Zenon DEF Part, Key
<1>12. 0 \in Nat /\ 0 <= Len(out_buf) /\ Len(out_buf) <= read_pos /\ 0 <= read_pos
  BY <1>1
<1>13. Part(read \o codes, keys, 0, read_pos)
  BY <1>1, <1>8, <1>9, <1>12, Joined, Zenon
<1>14. Part(read \o codes \o Unread, keys, 0, write_pos)
  BY <1>1, <1>10, <1>12, <1>13, Joined, Zenon
<1>15. read \o codes \o Unread = Stored
  BY <1>1, <1>11, <1>14, PartSame, Zenon
<1> QED
  BY <1>15, Zenon DEF KeysInOrder, read
==============================================================================
