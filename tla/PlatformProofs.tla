---------------------------- MODULE PlatformProofs ----------------------------
(* What is proved of the parts that stand alone: the start of the CPUs for any *)
(* number of them and any order in the MADT, the text screen for every size    *)
(* and every text, and the scan of the PCI bus for every machine.              *)
EXTENDS SmpBoot, FbCons, Pci, TLAPS

-------------------------------------------------------------------------------
(* The start of the CPUs.                                                      *)
\* A stack that was given out lies before the next one.
StackInv ==
    /\ stack_top \in Nat
    /\ sp \in [Cpus -> Int]
    /\ \A c \in Cpus : sp[c] < stack_top
    /\ StacksDistinct

LEMMA StackInit == BootInit => StackInv
BY MadtAssumption DEF BootInit, StackInv, StacksDistinct

\* Only lock xadd of boot.S takes a stack; all other steps leave the stacks alone.
LEMMA StackNext == StackInv /\ [BootNext]_bootvars => StackInv'
<1> SUFFICES ASSUME StackInv, [BootNext]_bootvars PROVE StackInv'
    OBVIOUS
<1>1. ASSUME UNCHANGED <<stack_top, sp>> PROVE StackInv'
  BY <1>1 DEF StackInv, StacksDistinct
<1>2. ASSUME NEW c \in Cpus, long_mode_ap(c) PROVE StackInv'
  <2>1. stack_top' = stack_top + 1 /\ sp' = [sp EXCEPT ![c] = stack_top]
    BY <1>2 DEF long_mode_ap
  <2>2. \A d \in Cpus : sp'[d] = IF d = c THEN stack_top ELSE sp[d]
    BY <2>1 DEF StackInv
  <2>3. stack_top' \in Nat /\ sp' \in [Cpus -> Int]
    BY <2>1 DEF StackInv
  <2>4. \A d \in Cpus : sp'[d] < stack_top'
    BY <2>1, <2>2 DEF StackInv
  <2>5. StacksDistinct'
    BY <2>2 DEF StackInv, StacksDistinct
  <2> QED BY <2>3, <2>4, <2>5 DEF StackInv
<1>3. CASE BspStep
  BY <1>1, <1>3, Zenon DEF BspStep, boot, cpu_init, sched_init_cpu_read, sched_init_cpu,
     cpu_init_timer, cpu_wait, cpu_smp_init, local_apic_ipi_init, local_apic_ipi_start,
     SendIpi, IpiSent, SkipBsp, LoopDone, Poll, enable_timer, thread_create_read,
     thread_create
<1>4. CASE Deliver
  BY <1>1, <1>4 DEF Deliver, boot
<1>5. ASSUME NEW c \in Cpus \ {Bsp}, ApStep(c) PROVE StackInv'
  BY <1>1, <1>2, <1>5 DEF ApStep, boot, long_mode, cpu_init_ap, cpu_init_ap_desc,
     sched_init_cpu_read, sched_init_cpu, idle_loop
<1>6. ASSUME NEW c \in Cpus, timer_irq(c) PROVE StackInv'
  BY <1>1, <1>6 DEF timer_irq, boot
<1>7. CASE UNCHANGED bootvars
  BY <1>1, <1>7 DEF bootvars, boot
<1> QED BY <1>3, <1>4, <1>5, <1>6, <1>7 DEF BootNext

\* boot.S gives every CPU a stack of its own, whatever the order in which they start.
THEOREM StacksDistinctHolds == BootSpec => []StacksDistinct
<1>1. StackInv => StacksDistinct
  BY DEF StackInv
<1> QED BY <1>1, StackInit, StackNext, PTL DEF BootSpec
-----------------------------------------------------------------------------
HasThread(c) == cur_thread[c] # NULL /\ threads[c] # <<>>
Tid == {"idle", "test"}
\* Where the BSP is before it has a thread.
Early == {"cpu_init", "bsp_desc", "sched_init_cpu"}

\* The list of a CPU is not empty once it runs a thread, interrupts are on only where
\* this is so, and no interprocessor interrupt takes the BSP back to the start.
TickInv ==
    /\ pc = [c \in Cpus |-> pc[c]] /\ IF_ \in [Cpus -> BOOLEAN]
    /\ threads \in [Cpus \cup {Target} -> Seq(Tid)]
    /\ cur_thread \in [Cpus -> {NULL, "idle"}]
    /\ icr # <<>> => icr[2] # Bsp
    /\ \A c \in Cpus : IF_[c] \/ pc[c] = "cpu_enable_interrupts" => HasThread(c)
    /\ pc[Bsp] \notin Early => HasThread(Bsp)

LEMMA TickInit == BootInit => TickInv
<1> SUFFICES ASSUME BootInit PROVE TickInv
    OBVIOUS
<1>1. pc = [c \in Cpus |-> pc[c]] /\ IF_ \in [Cpus -> BOOLEAN] /\ cur_thread \in [Cpus -> {NULL, "idle"}]
  BY DEF BootInit
<1>2. threads \in [Cpus \cup {Target} -> Seq(Tid)]
  BY DEF BootInit
<1>3. icr # <<>> => icr[2] # Bsp
  BY DEF BootInit
<1>4. \A c \in Cpus : ~IF_[c] /\ pc[c] # "cpu_enable_interrupts"
  BY DEF BootInit
<1>5. pc[Bsp] \in Early
  BY MadtAssumption DEF BootInit, Early
<1> QED BY <1>1, <1>2, <1>3, <1>4, <1>5 DEF TickInv

\* The push of a thread leaves no list empty.
LEMMA PushKeeps ==
    ASSUME TickInv, NEW c \in Cpus, NEW list \in Cpus \cup {Target}, NEW t \in Tid,
           PushWrite(c, list, t)
    PROVE  /\ threads' \in [Cpus \cup {Target} -> Seq(Tid)]
           /\ threads'[list] # <<>>
           /\ \A d \in Cpus : threads[d] # <<>> => threads'[d] # <<>>
<1> DEFINE new == IF seen[c] = <<>> THEN <<t>> ELSE Append(threads[list], t)
<1>1. threads[list] \in Seq(Tid)
  BY DEF TickInv
<1>2. new \in Seq(Tid) /\ new # <<>>
  BY <1>1
<1>3. threads' = [threads EXCEPT ![list] = new]
  BY DEF PushWrite
<1> HIDE DEF new
<1> QED BY <1>2, <1>3 DEF TickInv

\* A step of CPU c that gives nobody a thread: interrupts may come on, and the BSP leave the
\* first part of its boot, only where there is a thread.
LEMMA TickMove ==
    ASSUME TickInv, UNCHANGED <<threads, cur_thread>>, NEW c \in Cpus, NEW to,
           pc' = [pc EXCEPT ![c] = to], to # "cpu_enable_interrupts",
           IF_' = IF_ \/ \E b \in BOOLEAN : (b => HasThread(c)) /\ IF_' = [IF_ EXCEPT ![c] = b],
           icr' = icr \/ icr' = <<>> \/ icr'[2] # Bsp,
           c = Bsp /\ to \notin Early => pc[Bsp] \notin Early
    PROVE  TickInv'
<1>1. pc' = [d \in Cpus |-> pc'[d]] /\ IF_' \in [Cpus -> BOOLEAN]
  BY Zenon DEF TickInv
<1>2. \A d \in Cpus : HasThread(d)' <=> HasThread(d)
  BY DEF HasThread
<1>3. \A d \in Cpus : IF_'[d] => HasThread(d)
  BY Zenon DEF TickInv
<1>4. \A d \in Cpus : pc'[d] = IF d = c THEN to ELSE pc[d]
  BY DEF TickInv
<1>5. pc'[Bsp] \notin Early => HasThread(Bsp)
  BY <1>4, MadtAssumption DEF TickInv
<1>6. icr' # <<>> => icr'[2] # Bsp
  BY DEF TickInv
<1>7. \A d \in Cpus : pc'[d] = "cpu_enable_interrupts" => HasThread(d)
  BY <1>4 DEF TickInv
<1>8. threads' = threads /\ cur_thread' = cur_thread
  OBVIOUS
<1> QED BY <1>1, <1>2, <1>3, <1>5, <1>6, <1>7, <1>8, MadtAssumption DEF TickInv

LEMMA TickStill ==
    ASSUME TickInv, UNCHANGED <<pc, IF_, threads, cur_thread>>, icr' = icr \/ icr' = <<>>
    PROVE  TickInv'
BY DEF TickInv, HasThread

LEMMA TickSame ==
    ASSUME TickInv, UNCHANGED <<pc, IF_, threads, cur_thread, icr>>
    PROVE  TickInv'
BY TickStill

LEMMA BspHas == TickInv /\ pc[Bsp] \notin Early => HasThread(Bsp)
BY DEF TickInv

LEMMA ApHas == ASSUME TickInv, NEW c \in Cpus, pc[c] = "cpu_enable_interrupts" PROVE HasThread(c)
BY DEF TickInv

\* sched_init_cpu gives its CPU a thread.
LEMMA TickSchedInit ==
    ASSUME TickInv, NEW c \in Cpus, sched_init_cpu(c)
    PROVE  TickInv'
<1>1. /\ threads' \in [Cpus \cup {Target} -> Seq(Tid)] /\ threads'[c] # <<>>
      /\ \A d \in Cpus : threads[d] # <<>> => threads'[d] # <<>>
  BY PushKeeps, Zenon DEF sched_init_cpu, Tid
<1>2. cur_thread' \in [Cpus -> {NULL, "idle"}] /\ cur_thread'[c] = "idle"
      /\ \A d \in Cpus : d # c => cur_thread'[d] = cur_thread[d]
  BY DEF TickInv, sched_init_cpu
<1>3. /\ pc' = [d \in Cpus |-> pc'[d]] /\ IF_' = IF_ /\ icr' = icr
      /\ pc[c] = "sched_init_cpu" /\ \A d \in Cpus : d # c => pc'[d] = pc[d]
  BY Zenon DEF TickInv, sched_init_cpu, Goto, apic
<1>4. \A d \in Cpus : HasThread(d) => HasThread(d)'
  BY <1>1, <1>2 DEF HasThread, NULL
<1>5. HasThread(c)'
  BY <1>1, <1>2 DEF HasThread, NULL
<1>6. \A d \in Cpus : (IF_[d] \/ pc[d] = "cpu_enable_interrupts" => HasThread(d))'
  BY <1>3, <1>4, <1>5 DEF TickInv
<1>7. (pc[Bsp] \notin Early => HasThread(Bsp))'
  BY <1>3, <1>4, <1>5, MadtAssumption, Zenon DEF TickInv
<1> QED BY <1>1, <1>2, <1>3, <1>6, <1>7 DEF TickInv

LEMMA TickCreate == TickInv /\ thread_create => TickInv'
<1> SUFFICES ASSUME TickInv, thread_create PROVE TickInv'
    OBVIOUS
<1>1. /\ threads' \in [Cpus \cup {Target} -> Seq(Tid)]
      /\ \A d \in Cpus : threads[d] # <<>> => threads'[d] # <<>>
  BY PushKeeps, MadtAssumption, Zenon DEF thread_create, Tid
<1>2. /\ pc' = [d \in Cpus |-> pc'[d]] /\ IF_' = IF_ /\ icr' = icr /\ cur_thread' = cur_thread
      /\ pc[Bsp] = "thread_push" /\ pc' = [pc EXCEPT ![Bsp] = "done"]
  BY DEF TickInv, thread_create, Goto, apic
<1>3. \A d \in Cpus : HasThread(d) => HasThread(d)'
  BY <1>1, <1>2 DEF HasThread
<1>4. HasThread(Bsp)
  BY <1>2, BspHas DEF Early
<1>5. \A d \in Cpus : (IF_[d] \/ pc[d] = "cpu_enable_interrupts" => HasThread(d))'
  BY <1>2, <1>3 DEF TickInv
<1>6. (icr # <<>> => icr[2] # Bsp)' /\ HasThread(Bsp)'
  BY <1>2, <1>3, <1>4, MadtAssumption DEF TickInv
<1>7. (IF_ \in [Cpus -> BOOLEAN] /\ cur_thread \in [Cpus -> {NULL, "idle"}])'
  BY <1>2 DEF TickInv
<1> QED BY <1>1, <1>2, <1>5, <1>6, <1>7 DEF TickInv

\* The BSP.
LEMMA TickBsp == TickInv /\ BspStep => TickInv'
<1> SUFFICES ASSUME TickInv, BspStep PROVE TickInv'
    OBVIOUS
<1> USE MadtAssumption
<1>1. CASE cpu_init
  BY <1>1, TickMove, BspHas, Zenon DEF cpu_init, Goto, Early
<1>2. CASE sched_init_cpu_read(Bsp, "bsp_desc")
  BY <1>2, TickMove, BspHas, Zenon DEF sched_init_cpu_read, Goto, Early, apic
<1>3. CASE sched_init_cpu(Bsp)
  BY <1>3, TickSchedInit
<1>4. CASE cpu_init_timer
  BY <1>4, TickMove, BspHas, Zenon DEF cpu_init_timer, Goto, Early, desc
<1>5. CASE cpu_wait
  <2>1. pc[Bsp] \in {"wait_64", "wait_10", "wait_200", "wait_1", "wait_10b"}
        /\ AfterWait[pc[Bsp]] \in {"cpu_smp_init", "start", "poll", "thread_create"}
    BY <1>5 DEF cpu_wait, AfterWait
  <2>2. pc' = [pc EXCEPT ![Bsp] = AfterWait[pc[Bsp]]] /\ UNCHANGED <<IF_, icr, threads, cur_thread>>
    BY <1>5 DEF cpu_wait, apic, desc, TickInv
  <2> QED BY <2>1, <2>2, TickMove, BspHas, Zenon DEF Early
<1>6. CASE cpu_smp_init
  BY <1>6, TickMove, BspHas, Zenon DEF cpu_smp_init, Goto, Early, apic, desc
<1>7. ASSUME NEW kind, NEW loop \in {"init", "start"}, NEW sent \in {"init_sent", "start_sent"},
             SendIpi(kind, loop, sent) \/ IpiSent(loop, sent)
      PROVE  TickInv'
  <2>1. CASE SendIpi(kind, loop, sent)
    BY <1>7, <2>1, TickMove, BspHas, Zenon DEF SendIpi, Goto, Early, desc
  <2>2. CASE IpiSent(loop, sent)
    BY <1>7, <2>2, TickMove, BspHas, Zenon DEF IpiSent, Goto, Early, desc, apic
  <2> QED BY <1>7, <2>1, <2>2
<1>8. CASE local_apic_ipi_init \/ local_apic_ipi_start
  BY <1>7, <1>8 DEF local_apic_ipi_init, local_apic_ipi_start
<1>9. ASSUME NEW loop, SkipBsp(loop) PROVE TickInv'
  BY <1>9, TickSame DEF SkipBsp, apic, desc
<1>10. ASSUME NEW loop \in {"init", "start"}, NEW wait \in {"wait_10", "wait_200"}, LoopDone(loop, wait)
       PROVE  TickInv'
  BY <1>10, TickMove, BspHas, Zenon DEF LoopDone, Goto, Early, apic, desc
<1>11. CASE Poll
  BY <1>11, TickMove, BspHas, Zenon DEF Poll, Early, apic, desc
<1>12. CASE enable_timer
  BY <1>12, TickMove, BspHas, Zenon DEF enable_timer, Goto, Early, desc
<1>13. CASE thread_create_read
  BY <1>13, TickMove, BspHas, Zenon DEF thread_create_read, Goto, Early, apic
<1>14. CASE thread_create
  BY <1>14, TickCreate
<1> QED BY <1>1, <1>2, <1>3, <1>4, <1>5, <1>6, <1>8, <1>9, <1>10, <1>11, <1>12, <1>13, <1>14 DEF BspStep

\* The other CPUs.
LEMMA TickAp == ASSUME TickInv, NEW c \in Cpus \ {Bsp}, ApStep(c) PROVE TickInv'
<1> USE MadtAssumption
<1>1. CASE long_mode(c)
  BY <1>1, TickMove, BspHas, Zenon DEF long_mode, Goto, Early, apic, desc
<1>2. CASE long_mode_ap(c)
  BY <1>2, TickMove, BspHas, Zenon DEF long_mode_ap, Goto, Early, apic, desc
<1>3. CASE cpu_init_ap(c)
  BY <1>3, TickMove, BspHas, Zenon DEF cpu_init_ap, Goto, Early, apic, desc
<1>4. CASE cpu_init_ap_desc(c)
  BY <1>4, TickMove, BspHas, Zenon DEF cpu_init_ap_desc, Goto, Early
<1>5. CASE sched_init_cpu_read(c, "ap_sched")
  BY <1>5, TickMove, BspHas, Zenon DEF sched_init_cpu_read, Goto, Early, apic
<1>6. CASE sched_init_cpu(c)
  BY <1>6, TickSchedInit
<1>7. CASE idle_loop(c)
  BY <1>7, TickMove, ApHas, Zenon DEF idle_loop, Goto, Early, apic, desc
<1> QED BY <1>1, <1>2, <1>3, <1>4, <1>5, <1>6, <1>7 DEF ApStep

LEMMA TickNext == TickInv /\ [BootNext]_bootvars => TickInv'
<1> SUFFICES ASSUME TickInv, [BootNext]_bootvars PROVE TickInv'
    OBVIOUS
<1>1. CASE Deliver
  <2> DEFINE c == icr[2]
  <2>1. c # Bsp /\ icr' = <<>> /\ UNCHANGED <<IF_, threads, cur_thread>>
    BY <1>1 DEF Deliver, TickInv, desc
  <2>2. CASE pc' = pc
    BY <2>1, <2>2, TickStill
  <2>3. CASE c \in Cpus /\ \E to \in {"wait_for_startup", "boot_ap"} : pc' = [pc EXCEPT ![c] = to]
    BY <2>1, <2>3, TickMove, Zenon
  <2>4. pc' = pc \/ (c \in Cpus /\ \E to \in {"wait_for_startup", "boot_ap"} : pc' = [pc EXCEPT ![c] = to])
    BY <1>1, Zenon DEF Deliver, TickInv
  <2> QED BY <2>2, <2>3, <2>4
<1>2. ASSUME NEW c \in Cpus, timer_irq(c) PROVE TickInv'
  BY <1>2, TickSame DEF timer_irq, apic, desc
<1>3. CASE UNCHANGED bootvars
  BY <1>3, TickSame DEF bootvars, apic, desc
<1> QED BY <1>1, <1>2, <1>3, TickBsp, TickAp DEF BootNext

\* No CPU takes a timer interrupt before sched_init_cpu has given it a thread and a list,
\* however slow it is and whenever the BSP enables the timer for it.
THEOREM TickNeedsThreadHolds == BootSpec => []TickNeedsThread
<1>1. TickInv => TickNeedsThread
  BY DEF TickInv, TickNeedsThread, HasThread, Interruptible
<1> QED BY <1>1, TickInit, TickNext, PTL DEF BootSpec
-------------------------------------------------------------------------------
(* The text screen.                                                            *)
RowType == [0..width-1 -> Chars \cup {Blank}]
FirstLine(y, ls) == Len(ls) - (IF y < height THEN y ELSE height)

\* Screen f, with the cursor on row y, shows text ls. The line the cursor is on exists; below the
\* bottom there is a line for every row and the one of the cursor is still empty.
Shows(f, y, ls) ==
    /\ f \in [0..height-1 -> RowType] /\ y \in Nat /\ ls \in Seq(RowType)
    /\ y < height => y < Len(ls)
    /\ y >= height => height < Len(ls) /\ ls[Len(ls)] = BlankRow
    /\ \A k \in 0..height-1 :
           f[k] = IF FirstLine(y, ls) + k <= Len(ls) THEN ls[FirstLine(y, ls) + k] ELSE BlankRow

IndInv == Shows(fb, y_pos, lines) /\ x_pos \in Nat /\ gap \in BOOLEAN /\ CursorOnScreen

LEMMA BlankType == BlankRow \in RowType
BY FbConsAssumption DEF BlankRow, RowType, Chars

\* To begin a line moves the cursor down and shifts nothing; below the bottom it adds no line.
LEMMA NewLineShows ==
    ASSUME NEW f, NEW y, NEW ls, Shows(f, y, ls)
    PROVE  Shows(f, y + 1, IF y < height THEN Append(ls, BlankRow) ELSE ls)
<1>1. CASE y < height
  <2> DEFINE new == Append(ls, BlankRow)
  <2>1. new \in Seq(RowType) /\ Len(new) = Len(ls) + 1 /\ new[Len(ls) + 1] = BlankRow
    BY BlankType DEF Shows
  <2>2. \A k \in 1..Len(ls) : new[k] = ls[k]
    BY DEF Shows
  <2>3. FirstLine(y + 1, new) = FirstLine(y, ls) /\ FirstLine(y, ls) \in 1..Len(ls)
    BY <1>1, <2>1, FbConsAssumption DEF Shows, FirstLine
  <2>4. \A k \in 0..height-1 :
           f[k] = IF FirstLine(y + 1, new) + k <= Len(new) THEN new[FirstLine(y + 1, new) + k] ELSE BlankRow
    <3> TAKE k \in 0..height-1
    <3> HIDE DEF new
    <3>1. f[k] = IF FirstLine(y, ls) + k <= Len(ls) THEN ls[FirstLine(y, ls) + k] ELSE BlankRow
      BY DEF Shows
    <3>2. Len(ls) \in Nat /\ k \in Nat
      BY FbConsAssumption DEF Shows
    <3> QED BY <2>1, <2>2, <2>3, <3>1, <3>2
  <2>5. /\ y + 1 < height => y + 1 < Len(new)
        /\ y + 1 >= height => height < Len(new) /\ new[Len(new)] = BlankRow
    BY <1>1, <2>1, FbConsAssumption DEF Shows
  <2>6. f \in [0..height-1 -> RowType] /\ y + 1 \in Nat
    BY DEF Shows
  <2> HIDE DEF new
  <2>7. Shows(f, y + 1, new)
    BY <2>1, <2>4, <2>5, <2>6 DEF Shows
  <2> QED BY <1>1, <2>7 DEF new
<1>2. CASE ~(y < height)
  <2>1. y \in Nat /\ height \in Nat /\ y + 1 \in Nat /\ ~(y + 1 < height)
    BY <1>2, FbConsAssumption DEF Shows
  <2>2. FirstLine(y + 1, ls) = FirstLine(y, ls)
    BY <1>2, <2>1 DEF FirstLine
  <2>3. Shows(f, y + 1, ls)
    BY <1>2, <2>1, <2>2 DEF Shows
  <2> QED BY <1>2, <2>3
<1> QED BY <1>1, <1>2

\* To change the row of the cursor and the last line in the same way keeps them together.
LEMMA EditShows ==
    ASSUME NEW f, NEW y, NEW ls, NEW row \in RowType, Shows(f, y, ls), y < height
    PROVE  Shows([f EXCEPT ![y] = row], y, OnLast(ls, row)) /\ f[y] = LastOf(ls)
<1> DEFINE new == OnLast(ls, row)
<1> DEFINE g == [f EXCEPT ![y] = row]
<1>0. Len(ls) \in Nat /\ y \in 0..height-1 /\ y < Len(ls) /\ height \in Nat
  BY FbConsAssumption DEF Shows
<1>1. new \in Seq(RowType) /\ Len(new) = Len(ls) /\ new[Len(ls)] = row
  BY <1>0 DEF Shows, OnLast
<1>2. \A k \in 1..Len(ls)-1 : new[k] = ls[k]
  BY <1>0 DEF Shows, OnLast
<1>3. g \in [0..height-1 -> RowType] /\ g[y] = row /\ \A k \in 0..height-1 : k # y => g[k] = f[k]
  BY <1>0 DEF Shows
<1>4. FirstLine(y, new) = FirstLine(y, ls) /\ FirstLine(y, ls) = Len(ls) - y
  BY <1>1 DEF FirstLine
<1>5. f[y] = LastOf(ls)
  BY <1>0, <1>4 DEF Shows, LastOf
<1> HIDE DEF new, g
<1>6. \A k \in 0..height-1 :
         g[k] = IF FirstLine(y, new) + k <= Len(new) THEN new[FirstLine(y, new) + k] ELSE BlankRow
  <2> TAKE k \in 0..height-1
  <2>1. f[k] = IF Len(ls) - y + k <= Len(ls) THEN ls[Len(ls) - y + k] ELSE BlankRow
    BY <1>4 DEF Shows
  <2>2. CASE k = y
    BY <2>2, <1>0, <1>1, <1>3, <1>4
  <2>3. CASE k < y
    <3>1. Len(ls) - y + k \in 1..Len(ls)-1
      BY <2>3, <1>0
    <3>2. g[k] = f[k] /\ new[Len(ls) - y + k] = ls[Len(ls) - y + k]
      BY <1>0, <1>2, <1>3, <2>3, <3>1
    <3>3. Len(ls) - y + k <= Len(ls)
      BY <1>0, <3>1
    <3> QED BY <1>1, <1>4, <2>1, <3>2, <3>3, Zenon
  <2>4. CASE k > y
    BY <2>1, <2>4, <1>0, <1>1, <1>3, <1>4
  <2> QED BY <2>2, <2>3, <2>4, <1>0
<1>7. Shows(g, y, new)
  BY <1>0, <1>1, <1>3, <1>6 DEF Shows
<1> QED BY <1>5, <1>7 DEF new, g

\* A scroll by one row brings a cursor from below the bottom to the last row, which is empty like
\* the line it is on.
LEMMA ScrollShows ==
    ASSUME NEW f, NEW y, NEW ls, Shows(f, y, ls), ~(y < height)
    PROVE  Shows([k \in 0..height-1 |-> IF k + 1 < height THEN f[k+1] ELSE BlankRow], height - 1, ls)
<1> DEFINE g == [k \in 0..height-1 |-> IF k + 1 < height THEN f[k+1] ELSE BlankRow]
<1>0. Len(ls) \in Nat /\ height \in Nat /\ height > 0 /\ y >= height /\ height < Len(ls) /\ ls[Len(ls)] = BlankRow
  BY FbConsAssumption DEF Shows
<1>1. g \in [0..height-1 -> RowType]
  BY <1>0, BlankType DEF Shows
<1>2. FirstLine(height - 1, ls) = Len(ls) - height + 1 /\ FirstLine(y, ls) = Len(ls) - height
  BY <1>0 DEF FirstLine
<1>3. ASSUME NEW k \in 0..height-1
      PROVE g[k] = IF FirstLine(height - 1, ls) + k <= Len(ls) THEN ls[FirstLine(height - 1, ls) + k] ELSE BlankRow
  <2>1. CASE k + 1 < height
    <3>1. k + 1 \in 0..height-1
      BY <1>0, <2>1
    <3>2. f[k+1] = IF Len(ls) - height + (k + 1) <= Len(ls) THEN ls[Len(ls) - height + (k + 1)] ELSE BlankRow
      BY <1>2, <3>1 DEF Shows
    <3>3. Len(ls) - height + (k + 1) = Len(ls) - height + 1 + k
      BY <1>0
    <3> QED BY <2>1, <1>2, <3>2, <3>3
  <2>2. CASE ~(k + 1 < height)
    <3>1. Len(ls) - height + 1 + k = Len(ls)
      BY <1>0, <2>2
    <3>2. g[k] = BlankRow
      BY <2>2
    <3>3. FirstLine(height - 1, ls) + k = Len(ls) /\ Len(ls) <= Len(ls)
      BY <1>0, <1>2, <3>1
    <3> QED BY <1>0, <3>2, <3>3, Zenon
  <2> QED BY <2>1, <2>2
<1> HIDE DEF g
<1>4. Shows(g, height - 1, ls)
  BY <1>0, <1>1, <1>3 DEF Shows
<1> QED BY <1>4 DEF g

\* A full row is left before a character is written.
LEMMA WrapShows ==
    ASSUME IndInv
    PROVE  Shows(fb, Y, Lines) /\ X \in 0..width-1 /\ (Y >= height /\ X > 0 => gap)
<1>0. width \in Nat \ {0} /\ height \in Nat \ {0} /\ x_pos \in Nat /\ y_pos \in Nat
  BY FbConsAssumption DEF IndInv, Shows
<1>1. CASE Wrapped
  <2>1. X = 0 /\ Y = y_pos + 1 /\ Lines = IF y_pos < height THEN Append(lines, BlankRow) ELSE lines
    BY <1>1 DEF X, Y, Lines
  <2>2. Shows(fb, y_pos + 1, IF y_pos < height THEN Append(lines, BlankRow) ELSE lines)
    BY NewLineShows DEF IndInv
  <2> QED BY <1>0, <2>1, <2>2
<1>2. CASE ~Wrapped
  <2>1. X = x_pos /\ Y = y_pos /\ Lines = lines /\ x_pos < width
    BY <1>0, <1>2 DEF X, Y, Lines, Wrapped
  <2> QED BY <1>0, <2>1 DEF IndInv, CursorOnScreen
<1> QED BY <1>1, <1>2

LEMMA InitInv == Init => IndInv
<1> SUFFICES ASSUME Init PROVE IndInv
  OBVIOUS
<1>0. width \in Nat \ {0} /\ height \in Nat \ {0} /\ TabStop \in Nat \ {0}
  BY FbConsAssumption
<1>1. lines \in Seq(RowType) /\ Len(lines) = 1 /\ lines[1] = BlankRow
  BY BlankType DEF Init
<1>2. fb \in [0..height-1 -> RowType] /\ \A k \in 0..height-1 : fb[k] = BlankRow
  BY BlankType DEF Init
<1>3. y_pos = 0 /\ FirstLine(y_pos, lines) = 1
  BY <1>0, <1>1 DEF Init, FirstLine
<1>4. \A k \in 0..height-1 : 1 + k <= Len(lines) => k = 0
  BY <1>0, <1>1
<1>5. Shows(fb, y_pos, lines)
  BY <1>0, <1>1, <1>2, <1>3, <1>4 DEF Shows
<1>6. x_pos \in 0..width+TabStop-1 /\ x_pos \in Nat /\ ~(x_pos > 0) /\ y_pos \in Nat
  BY <1>0 DEF Init
<1>7. gap \in BOOLEAN
  BY Zenon DEF Init
<1> QED BY <1>5, <1>6, <1>7 DEF IndInv, CursorOnScreen

LEMMA ErasedType ==
    ASSUME NEW row \in RowType, NEW from, NEW num
    PROVE  Erased(row, from, num) \in RowType
BY DEF Erased, RowType

\* Nothing is left to erase in an empty row.
LEMMA ErasedBlank ==
    ASSUME NEW from, NEW num
    PROVE  Erased(BlankRow, from, num) = BlankRow
BY DEF Erased, BlankRow

LEMMA LastType ==
    ASSUME NEW f, NEW y, NEW ls, Shows(f, y, ls)
    PROVE  LastOf(ls) \in RowType /\ OnLast(ls, LastOf(ls)) = ls
<1>1. Len(ls) \in 1..Len(ls)
  BY FbConsAssumption DEF Shows
<1> QED BY <1>1 DEF Shows, LastOf, OnLast

LEMMA TabInv == ASSUME IndInv, Tab PROVE IndInv'
<1>1. Shows(fb, Y, Lines) /\ X \in 0..width-1 /\ Y \in Nat
  BY WrapShows DEF Shows
<1>2. Shows(fb, y_pos, lines)'
  BY <1>1 DEF Tab
<1> QED BY <1>1, <1>2, FbConsAssumption DEF Tab, IndInv, CursorOnScreen

LEMMA BackspaceInv == ASSUME IndInv, fb_cons_clear_char(1) PROVE IndInv'
<1> DEFINE to == IF 1 > X THEN 0 ELSE X - 1
<1>1. Shows(fb, Y, Lines) /\ X \in 0..width-1 /\ (Y >= height /\ X > 0 => gap)
  BY WrapShows
<1>2. Y \in Nat /\ gap \in BOOLEAN /\ width \in Nat \ {0} /\ height \in Nat \ {0} /\ TabStop \in Nat \ {0}
  BY <1>1, FbConsAssumption DEF Shows, IndInv
<1>3. /\ x_pos' = to /\ y_pos' = Y /\ gap' = gap
      /\ fb' = IF Y < height THEN [fb EXCEPT ![Y] = Erased(fb[Y], to, X - to)] ELSE fb
      /\ lines' = OnLast(Lines, Erased(LastOf(Lines), to, X - to))
  BY DEF fb_cons_clear_char
<1>4. to \in 0..X /\ (to > 0 => X > 0)
  BY <1>1, <1>2
<1> HIDE DEF to
<1>5. LastOf(Lines) \in RowType /\ OnLast(Lines, LastOf(Lines)) = Lines
  BY <1>1, LastType
<1>6. ASSUME Y < height PROVE Shows(fb', y_pos', lines')
  <2> DEFINE row == Erased(LastOf(Lines), to, X - to)
  <2>1. row \in RowType
    BY <1>5, ErasedType
  <2> HIDE DEF row
  <2>2. Shows([fb EXCEPT ![Y] = row], Y, OnLast(Lines, row)) /\ fb[Y] = LastOf(Lines)
    BY <1>1, <1>6, <2>1, EditShows
  <2> QED BY <1>3, <1>6, <2>2 DEF row
<1>7. ASSUME ~(Y < height) PROVE Shows(fb', y_pos', lines')
  <2>1. LastOf(Lines) = BlankRow
    BY <1>1, <1>2, <1>7 DEF Shows, LastOf
  <2>2. lines' = Lines
    BY <1>3, <1>5, <2>1, ErasedBlank
  <2> QED BY <1>1, <1>3, <1>7, <2>2
<1>8. Shows(fb', y_pos', lines')
  BY <1>6, <1>7
<1>9. CursorOnScreen' /\ x_pos' \in Nat /\ gap' \in BOOLEAN
  BY <1>1, <1>2, <1>3, <1>4 DEF CursorOnScreen
<1> QED BY <1>8, <1>9 DEF IndInv

LEMMA NewlineInv == ASSUME IndInv, Newline PROVE IndInv'
<1>1. Shows(fb, Y, Lines) /\ Y \in Nat
  BY WrapShows DEF Shows
<1>2. Shows(fb, Y + 1, IF Y < height THEN Append(Lines, BlankRow) ELSE Lines)
  BY <1>1, NewLineShows
<1>3. Shows(fb', y_pos', lines')
  BY <1>2 DEF Newline
<1>4. x_pos' = 0 /\ y_pos' \in Nat
  BY <1>1 DEF Newline
<1>5. gap' \in BOOLEAN
  BY Zenon DEF Newline
<1>6. CursorOnScreen' /\ x_pos' \in Nat
  BY <1>4, FbConsAssumption DEF CursorOnScreen
<1> QED BY <1>3, <1>5, <1>6 DEF IndInv

\* The screen after the scroll, if any, has the cursor on one of its rows.
LEMMA ScreenShows ==
    ASSUME IndInv
    PROVE  Shows(IF Y >= height THEN Scrolled ELSE fb, Row, Lines) /\ Row \in 0..height-1
<1>0. height \in Nat \ {0} /\ Y \in Nat /\ Shows(fb, Y, Lines)
  BY WrapShows, FbConsAssumption DEF Shows
<1>1. CASE Y >= height
  <2>1. Shows(Scrolled, height - 1, Lines)
    BY <1>0, <1>1, ScrollShows DEF Scrolled
  <2> QED BY <1>0, <1>1, <2>1 DEF Row
<1>2. CASE ~(Y >= height)
  BY <1>0, <1>2 DEF Row
<1> QED BY <1>1, <1>2

LEMMA DrawInv == ASSUME IndInv, NEW ch \in Chars, fb_draw_char(ch) PROVE IndInv'
<1> DEFINE screen == IF Y >= height THEN Scrolled ELSE fb
<1>1. Shows(screen, Row, Lines) /\ Row \in 0..height-1
  BY ScreenShows
<1>2. X \in 0..width-1
  BY WrapShows
<1>3. width \in Nat \ {0} /\ height \in Nat \ {0} /\ TabStop \in Nat \ {0} /\ gap \in BOOLEAN
  BY FbConsAssumption DEF IndInv
<1>4. /\ y_pos' = Row
      /\ ch = "ESC" => x_pos' = X /\ fb' = screen /\ lines' = Lines /\ gap' = gap
      /\ ch # "ESC" => /\ x_pos' = X + 1 /\ gap' = FALSE
                       /\ fb' = [screen EXCEPT ![Row] = [screen[Row] EXCEPT ![X] = ch]]
                       /\ lines' = OnLast(Lines, [LastOf(Lines) EXCEPT ![X] = ch])
  BY DEF fb_draw_char
<1> HIDE DEF screen
<1>5. ASSUME ch = "ESC" PROVE Shows(fb', y_pos', lines')
  BY <1>1, <1>4, <1>5
<1>6. ASSUME ch # "ESC" PROVE Shows(fb', y_pos', lines')
  <2> DEFINE row == [LastOf(Lines) EXCEPT ![X] = ch]
  <2>1. LastOf(Lines) \in RowType
    BY <1>1, LastType
  <2>2. row \in RowType
    BY <1>2, <2>1 DEF RowType
  <2> HIDE DEF row
  <2>3. Row < height
    BY <1>1, <1>3
  <2>4. Shows([screen EXCEPT ![Row] = row], Row, OnLast(Lines, row)) /\ screen[Row] = LastOf(Lines)
    BY <1>1, <2>2, <2>3, EditShows
  <2> QED BY <1>4, <1>6, <2>4, Zenon DEF row
<1>7. Shows(fb', y_pos', lines')
  BY <1>5, <1>6
<1>8. gap' \in BOOLEAN
  BY <1>3, <1>4, Zenon
<1>9. x_pos' \in 0..width /\ y_pos' \in 0..height-1
  BY <1>1, <1>2, <1>3, <1>4
<1>10. CursorOnScreen' /\ x_pos' \in Nat
  BY <1>3, <1>9 DEF CursorOnScreen
<1> QED BY <1>7, <1>8, <1>10 DEF IndInv

LEMMA NextInv == IndInv /\ [Next]_vars => IndInv'
<1> SUFFICES ASSUME IndInv, [Next]_vars PROVE IndInv'
  OBVIOUS
<1>1. CASE UNCHANGED vars
  BY <1>1 DEF vars, IndInv, Shows, FirstLine, CursorOnScreen
<1>2. CASE Next
  <2>1. PICK ch \in Chars : fb_cons_putchar(ch)
    BY <1>2 DEF Next
  <2>2. CASE ch = "TAB"
    BY <2>1, <2>2, TabInv DEF fb_cons_putchar
  <2>3. CASE ch = "BS"
    BY <2>1, <2>3, BackspaceInv DEF fb_cons_putchar
  <2>4. CASE ch \in {"NL", "CR"}
    BY <2>1, <2>4, NewlineInv DEF fb_cons_putchar
  <2>5. CASE ch \notin {"TAB", "BS", "NL", "CR"}
    BY <2>1, <2>5, DrawInv DEF fb_cons_putchar
  <2> QED BY <2>2, <2>3, <2>4, <2>5
<1> QED BY <1>1, <1>2

\* fb_cons_putchar keeps the cursor on the screen for every size of it and every text, except for
\* the start of a line below the last row and for the tabs written there.
THEOREM CursorStays == Spec => []CursorOnScreen
<1>1. IndInv => CursorOnScreen
  BY DEF IndInv
<1> QED BY <1>1, InitInv, NextInv, PTL DEF Spec

\* What fb_cons_putchar, its scroll and its backspace leave on the screen is the text that was
\* written, for every size of the screen and every text.
THEOREM ScreenRight == Spec => []ScreenShowsText
<1>1. IndInv => ScreenShowsText
  BY DEF IndInv, Shows, FirstLine, ScreenShowsText
<1> QED BY <1>1, InitInv, NextInv, PTL DEF Spec

-------------------------------------------------------------------------------
(* The scan of the PCI bus.                                                    *)

\* The entry of pci_devices for a function, and the functions the scan is past.
DeviceAt(s) == [at |-> s, vendor |-> machine[s].vendor, type |-> machine[<<s[1], 0>>].type]
Past(s) ==
    \/ scan = "done"
    \/ s[1] < dev
    \/ s[1] = dev /\ scan = "func" /\ s[2] < func
    \/ s[1] = dev /\ scan = "bars" /\ s[2] <= func
Found == {pci_devices[k].at : k \in 1..Len(pci_devices)}

ScanInv ==
    /\ IsMachine(machine)
    /\ scan \in {"dev", "func", "bars", "done"} /\ dev \in 0..PCI_MAX_DEV
    /\ scan = "done" => dev = PCI_MAX_DEV
    /\ scan \in {"func", "bars"} => dev < PCI_MAX_DEV /\ n_func = NumFunc /\ func \in 0..n_func
    /\ scan = "bars" => func < n_func
    /\ pci_devices \in Seq({DeviceAt(s) : s \in Slots})
    /\ \A k, l \in 1..Len(pci_devices) : k < l => Before(pci_devices[k].at, pci_devices[l].at)
    /\ \A s \in Slots : s \in Found <=> s \in Reachable /\ Past(s)

LEMMA ScanInit == PciInit => ScanInv
<1> SUFFICES ASSUME PciInit PROVE ScanInv
    OBVIOUS
<1>1. /\ pci_devices = <<>> /\ scan = "dev" /\ dev = 0 /\ IsMachine(machine)
  BY DEF PciInit
<1>2. /\ pci_devices \in Seq({DeviceAt(s) : s \in Slots}) /\ Len(pci_devices) = 0
  BY <1>1
<1>3. Found = {}
  BY <1>2 DEF Found
<1>4. \A s \in Slots : ~Past(s)
  BY <1>1, PciAssumption DEF Past, Slots
<1> QED BY <1>1, <1>2, <1>3, <1>4, PciAssumption DEF ScanInv

\* A step that finds nothing and passes only functions that are not there.
LEMMA ScanPass ==
    ASSUME ScanInv, UNCHANGED <<machine, pci_devices>>,
           scan' \in {"dev", "func", "bars", "done"}, dev' \in 0..PCI_MAX_DEV,
           scan' = "done" => dev' = PCI_MAX_DEV,
           scan' \in {"func", "bars"} =>
               dev' < PCI_MAX_DEV /\ n_func' = NumFunc' /\ func' \in 0..n_func',
           scan' = "bars" => func' < n_func',
           \A s \in Reachable : Past(s)' <=> Past(s)
    PROVE  ScanInv'
<1>1. IsMachine(machine') /\ Reachable' = Reachable /\ Found' = Found
  BY DEF ScanInv, IsMachine, Reachable, Found
<1>2. pci_devices' \in Seq({DeviceAt(s) : s \in Slots})'
  BY DEF ScanInv, DeviceAt
<1>3. \A s \in Slots : s \in Found' <=> s \in Reachable' /\ Past(s)'
  BY <1>1 DEF ScanInv
<1> QED BY <1>1, <1>2, <1>3 DEF ScanInv

\* Where the functions of a device are: those below the number of its functions.
LEMMA FuncOfDev ==
    ASSUME ScanInv, NEW s \in Slots
    PROVE  /\ s[1] \in 0..PCI_MAX_DEV-1 /\ s[2] \in 0..PCI_MAX_FUNC-1 /\ s = <<s[1], s[2]>>
           /\ s[1] = dev /\ s \in Reachable => s[2] < NumFunc
<1>1. s[1] \in 0..PCI_MAX_DEV-1 /\ s[2] \in 0..PCI_MAX_FUNC-1 /\ s = <<s[1], s[2]>>
  BY DEF Slots
<1>2. <<s[1], 0>> \in Slots
  BY <1>1, PciAssumption DEF Slots
<1> QED BY <1>1, <1>2, PciAssumption DEF Reachable, NumFunc, multifunc

LEMMA DeviceSlot == \A d \in {DeviceAt(s) : s \in Slots} : d.at \in Slots
<1> TAKE d \in {DeviceAt(s) : s \in Slots}
<1>1. PICK s \in Slots : d = DeviceAt(s)
  OBVIOUS
<1>2. DeviceAt(s).at = s
  BY DEF DeviceAt
<1> QED BY <1>1, <1>2

\* pci_read_config_space answered: the function is the next entry of the table.
LEMMA ScanFound ==
    ASSUME ScanInv, ScanFunc, vendor_id # ONES
    PROVE  ScanInv'
<1> DEFINE here == <<dev, func>>
           d == DeviceAt(here)
           n == Len(pci_devices)
<1>1. /\ scan = "func" /\ func < n_func /\ scan' = "bars"
      /\ pci_devices' = Append(pci_devices, d)
      /\ UNCHANGED <<machine, dev, n_func, func>>
  BY Zenon DEF ScanFunc, DeviceAt, vendor_id, header_type
<1>2. /\ dev \in 0..PCI_MAX_DEV-1 /\ func \in 0..n_func-1 /\ n_func = NumFunc
      /\ NumFunc \in 1..PCI_MAX_FUNC
  BY <1>1, PciAssumption DEF ScanInv, NumFunc
<1>3. here \in Slots /\ here[1] = dev /\ here[2] = func /\ d.at = here
  BY <1>2, PciAssumption DEF Slots, DeviceAt
<1>4. here \in Reachable /\ ~Past(here)
  <2>1. machine[here] # Absent
    BY DEF vendor_id, Absent
  <2>2. func = 0 \/ machine[<<dev, 0>>].multi
    BY <1>2 DEF NumFunc, multifunc
  <2>3. ~Past(here)
    BY <1>1, <1>2, <1>3 DEF Past
  <2> QED BY <1>3, <2>1, <2>2, <2>3, Zenon DEF Reachable
<1>5. /\ pci_devices \in Seq({DeviceAt(s) : s \in Slots}) /\ n \in Nat
      /\ d \in {DeviceAt(s) : s \in Slots}
  BY <1>3 DEF ScanInv
<1>6. /\ pci_devices' \in Seq({DeviceAt(s) : s \in Slots}) /\ Len(pci_devices') = n + 1
      /\ pci_devices'[n + 1] = d
      /\ \A k \in 1..n : pci_devices'[k] = pci_devices[k]
  <2> HIDE DEF d
  <2> QED BY <1>1, <1>5
<1> HIDE DEF d, here, n
<1>7. \A s : s \in Found' <=> s \in Found \/ s = here
  BY <1>3, <1>5, <1>6 DEF Found, n
<1>8. \A k \in 1..n : pci_devices[k].at \in Slots /\ Before(pci_devices[k].at, here)
  <2> TAKE k \in 1..n
  <2>1. pci_devices[k].at \in Found
    BY DEF Found, n
  <2>2. pci_devices[k] \in {DeviceAt(s) : s \in Slots}
    BY <1>5 DEF n
  <2>3. pci_devices[k].at \in Slots
    BY <2>2, DeviceSlot
  <2>4. Past(pci_devices[k].at)
    BY <2>1, <2>3 DEF ScanInv
  <2> QED BY <1>1, <1>3, <2>3, <2>4 DEF Past, Before
<1>9. \A k, l \in 1..Len(pci_devices') : k < l => Before(pci_devices'[k].at, pci_devices'[l].at)
  <2> SUFFICES ASSUME NEW k \in 1..n + 1, NEW l \in 1..n + 1, k < l
               PROVE  Before(pci_devices'[k].at, pci_devices'[l].at)
    BY <1>6
  <2>1. k \in 1..n /\ (l \in 1..n \/ l = n + 1)
    BY <1>5
  <2>2. CASE l = n + 1
    BY <1>3, <1>6, <1>8, <2>1, <2>2
  <2>3. CASE l \in 1..n
    <3>1. Before(pci_devices[k].at, pci_devices[l].at)
      BY <2>1, <2>3 DEF ScanInv, n
    <3> QED BY <1>6, <2>1, <2>3, <3>1
  <2> QED BY <2>1, <2>2, <2>3
<1>10. \A s \in Slots : s \in Found' <=> s \in Reachable /\ Past(s)'
  <2> TAKE s \in Slots
  <2>1. s[1] \in Int /\ s[2] \in Int /\ s = <<s[1], s[2]>>
    BY FuncOfDev
  <2>2. Past(s)' <=> Past(s) \/ s = here
    BY <1>1, <1>2, <2>1, SMTT(30) DEF Past, here
  <2> QED BY <1>4, <1>7, <2>2 DEF ScanInv
<1>11. /\ IsMachine(machine') /\ Reachable' = Reachable /\ NumFunc' = NumFunc
       /\ {DeviceAt(s) : s \in Slots}' = {DeviceAt(s) : s \in Slots}
  BY <1>1 DEF ScanInv, IsMachine, Reachable, NumFunc, multifunc, DeviceAt
<1>12. /\ dev' \in 0..PCI_MAX_DEV /\ dev' < PCI_MAX_DEV /\ func' \in 0..n_func' /\ func' < n_func'
       /\ n_func' = NumFunc'
  BY <1>1, <1>2, <1>11, PciAssumption
<1> QED BY <1>1, <1>6, <1>9, <1>10, <1>11, <1>12, Zenon DEF ScanInv

LEMMA ScanNext == ScanInv /\ [pci_init]_pcivars => ScanInv'
<1> SUFFICES ASSUME ScanInv, [pci_init]_pcivars PROVE ScanInv'
    OBVIOUS
<1>1. /\ scan \in {"dev", "func", "bars", "done"} /\ dev \in 0..PCI_MAX_DEV
      /\ scan = "done" => dev = PCI_MAX_DEV
      /\ scan \in {"func", "bars"} => dev < PCI_MAX_DEV /\ n_func = NumFunc /\ func \in 0..n_func
      /\ scan = "bars" => func < n_func
  BY DEF ScanInv
<1>2. NumFunc \in 1..PCI_MAX_FUNC
  BY PciAssumption DEF NumFunc
<1>3. \A s \in Reachable : /\ s[1] \in 0..PCI_MAX_DEV-1 /\ s[2] \in Nat /\ s \in Slots
                           /\ s = <<s[1], s[2]>>
                           /\ s[1] = dev => s[2] < NumFunc
  BY FuncOfDev DEF Reachable
<1>4. CASE ScanDev
  <2>1. UNCHANGED <<machine, pci_devices, dev>> /\ scan = "dev"
    BY <1>4 DEF ScanDev
  <2>2. NumFunc' = NumFunc
    BY <2>1 DEF NumFunc, multifunc
  <2>3. CASE dev = PCI_MAX_DEV
    <3>1. scan' = "done"
      BY <1>4, <2>3 DEF ScanDev
    <3>2. \A s \in Reachable : Past(s)' <=> Past(s)
      BY <1>3, <2>3, <3>1, PciAssumption DEF Past
    <3> QED BY <1>1, <2>1, <2>3, <3>1, <3>2, ScanPass
  <2>4. CASE dev # PCI_MAX_DEV
    <3>1. scan' = "func" /\ func' = 0 /\ n_func' = NumFunc
      BY <1>4, <2>4 DEF ScanDev
    <3>2. \A s \in Reachable : Past(s)' <=> Past(s)
      BY <1>3, <2>1, <3>1 DEF Past
    <3>3. dev < PCI_MAX_DEV /\ func' \in 0..n_func'
      BY <1>1, <1>2, <2>4, <3>1, PciAssumption
    <3> QED BY <1>1, <2>1, <2>2, <3>1, <3>2, <3>3, ScanPass
  <2> QED BY <2>3, <2>4
<1>5. CASE ScanFunc /\ vendor_id = ONES
  <2>1. /\ scan = "func" /\ func < n_func /\ func' = func + 1
        /\ UNCHANGED <<machine, pci_devices, dev, n_func, scan>>
    BY <1>5 DEF ScanFunc
  <2>2. NumFunc' = NumFunc
    BY <2>1 DEF NumFunc, multifunc
  <2>3. <<dev, func>> \notin Reachable
    <3>1. \A s \in Reachable : machine[s].vendor # ONES
      BY DEF Reachable, ScanInv, IsMachine
    <3> QED BY <1>5, <3>1 DEF vendor_id
  <2>4. \A s \in Reachable : Past(s)' <=> Past(s)
    BY <1>1, <1>3, <2>1, <2>3 DEF Past
  <2>5. func' \in 0..n_func'
    BY <1>1, <1>2, <2>1
  <2> QED BY <1>1, <2>1, <2>2, <2>4, <2>5, ScanPass
<1>6. CASE NextDev
  <2>1. /\ scan = "func" /\ func = n_func /\ scan' = "dev" /\ dev' = dev + 1
        /\ UNCHANGED <<machine, pci_devices>>
    BY <1>6 DEF NextDev
  <2>2. \A s \in Reachable : Past(s)' <=> Past(s)
    BY <1>1, <1>3, <2>1 DEF Past
  <2>3. dev' \in 0..PCI_MAX_DEV
    BY <1>1, <2>1, PciAssumption
  <2> QED BY <2>1, <2>2, <2>3, ScanPass
<1>7. CASE ReadBar
  <2>1. UNCHANGED <<machine, pci_devices, dev, func, n_func, scan>>
    BY <1>7 DEF ReadBar
  <2>2. NumFunc' = NumFunc /\ \A s \in Reachable : Past(s)' <=> Past(s)
    BY <2>1 DEF NumFunc, multifunc, Past
  <2> QED BY <1>1, <2>1, <2>2, ScanPass
<1>8. CASE BarsDone
  <2>1. /\ scan = "bars" /\ scan' = "func" /\ func' = func + 1
        /\ UNCHANGED <<machine, pci_devices, dev, n_func>>
    BY <1>8 DEF BarsDone
  <2>2. NumFunc' = NumFunc
    BY <2>1 DEF NumFunc, multifunc
  <2>3. \A s \in Reachable : Past(s)' <=> Past(s)
    BY <1>1, <1>2, <1>3, <2>1 DEF Past
  <2>4. func' \in 0..n_func'
    BY <1>1, <1>2, <2>1
  <2> QED BY <1>1, <2>1, <2>2, <2>3, <2>4, ScanPass
<1>9. CASE UNCHANGED pcivars
  <2>1. UNCHANGED <<machine, pci_devices, dev, func, n_func, scan>>
    BY <1>9 DEF pcivars
  <2>2. NumFunc' = NumFunc /\ \A s \in Reachable : Past(s)' <=> Past(s)
    BY <2>1 DEF NumFunc, multifunc, Past
  <2> QED BY <1>1, <2>1, <2>2, ScanPass
<1> QED BY <1>4, <1>5, <1>6, <1>7, <1>8, <1>9, ScanFound DEF pci_init

\* For every machine, pci_init finds every function that can be there, each once and in
\* the order of the addresses, whatever the number of devices and functions.
THEOREM ScanFindsAllHolds == PciSpec => []ScanFindsAll
<1>1. ScanInv => ScanFindsAll
  <2> SUFFICES ASSUME ScanInv PROVE ScanFindsAll
    OBVIOUS
  <2>1. Found \subseteq Slots
    <3>1. \A k \in 1..Len(pci_devices) : pci_devices[k] \in {DeviceAt(s) : s \in Slots}
      BY DEF ScanInv
    <3> QED BY <3>1, DeviceSlot DEF Found
  <2>2. Reachable \subseteq Slots
    BY DEF Reachable
  <2>3. scan = "done" => \A s \in Slots : Past(s)
    BY DEF Past
  <2>4. Found \subseteq Reachable /\ (scan = "done" => Found = Reachable)
    BY <2>1, <2>2, <2>3, Zenon DEF ScanInv
  <2> QED BY <2>4 DEF ScanInv, ScanFindsAll, Found
<1> QED BY <1>1, ScanInit, ScanNext, PTL DEF PciSpec
===============================================================================
