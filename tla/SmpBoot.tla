------------------------------- MODULE SmpBoot -------------------------------
(* The start of the other CPUs: cpu_init and cpu_smp_init on the boot CPU (BSP),  *)
(* the start code of boot.S and cpu_init_ap on the others (APs), the interprocessor *)
(* interrupts between them, and thread_create(test_thread, 0x1000, 1) after it.     *)
(* Time is ticks of the BSP's timer: an AP may be slower than any cpu_wait.         *)
EXTENDS Integers, Sequences, FiniteSets

CONSTANTS
    Cpus,   \* APIC ids of the CPUs
    Bsp,
    Madt,   \* the processor entries of the MADT, in order
    WAIT    \* ticks of a cpu_wait; the code waits 1, 10, 64 or 200

ASSUME MadtAssumption ==
    /\ Cpus \subseteq 0..15 /\ Bsp \in Cpus /\ Madt \in Seq(0..15) /\ WAIT \in Nat \ {0}
    /\ \A c \in Cpus : \E i \in 1..Len(Madt) : Madt[i] = c

Target == 1 \* the CPU of test_thread
NULL == "null"

VARIABLES
    num_cpus,   \* CPUs that came up
    boot_ap,    \* boot_info->boot_ap
    stack_top,  \* boot stacks given out; each is 0x4000 below the one before
    sp,         \* CPU -> its stack, from stack_top
    pc,         \* CPU -> where it is
    IF_,        \* CPU -> RFLAGS_IF
    ldr,        \* CPU -> bits of its logical APIC id
    icr,        \* what local_apic_ipi_init or local_apic_ipi_start has sent, until delivered
    i,          \* the loop variable of cpu_smp_init
    cpu_mask,   \* its uint8_t, as a set of bits
    irq_mask,   \* destination of IRQ_TIMER in the I/O APIC
    left,       \* ticks that cpu_wait waits for
    flags,      \* CPU -> cpus[].flags
    threads,    \* CPU -> cpus[].threads
    cur_thread, \* CPU -> cpus[].cur_thread
    seen,       \* CPU -> what it read of a thread list that it is about to change
    ticked      \* history: CPUs whose timer_irq_handler has run

boot == <<num_cpus, boot_ap, stack_top, sp>>
apic == <<ldr, icr, irq_mask>>
bsp == <<i, cpu_mask, left>>
desc == <<flags, threads, cur_thread, seen>>
bootvars == <<boot, pc, IF_, apic, bsp, desc, ticked>>

local_apic_num_cpus == Len(Madt)

\* (1 << apic_id) & 0xff, and the same as a uint8_t.
LogicalId(c) == {c} \cap 0..7

BootInit ==
    /\ num_cpus = 0 /\ boot_ap = FALSE
    /\ sp = [c \in Cpus |-> IF c = Bsp THEN 0 ELSE -1] /\ stack_top = 1
    /\ pc = [c \in Cpus |-> IF c = Bsp THEN "cpu_init" ELSE "reset"]
    /\ IF_ = [c \in Cpus |-> FALSE]
    /\ ldr = [c \in Cpus |-> {}] /\ icr = <<>> /\ irq_mask = {}
    /\ i = 1 /\ cpu_mask = {} /\ left = 0
    /\ flags = [c \in Cpus |-> {}]
    /\ threads = [c \in Cpus \cup {Target} |-> <<>>]
    /\ cur_thread = [c \in Cpus |-> NULL]
    /\ seen = [c \in Cpus |-> <<>>]
    /\ ticked = {}

Goto(c, from, to) == pc[c] = from /\ pc' = [pc EXCEPT ![c] = to]
-------------------------------------------------------------------------------
\* What the BSP and the APs have in common.

\* local_apic_init, cpu_init_desc and cpu->flags.
InitDesc(c, fl) ==
    /\ ldr' = [ldr EXCEPT ![c] = LogicalId(c)]
    /\ flags' = [flags EXCEPT ![c] = fl]

\* queue_push_back without a lock: reads of the list, then its writes.
PushRead(c, list) == seen' = [seen EXCEPT ![c] = threads[list]]
PushWrite(c, list, t) ==
    threads' = [threads EXCEPT ![list] = IF seen[c] = <<>> THEN <<t>> ELSE Append(@, t)]

sched_init_cpu_read(c, from) ==
    /\ Goto(c, from, "sched_init_cpu")
    /\ PushRead(c, c)
    /\ UNCHANGED <<boot, IF_, apic, bsp, flags, threads, cur_thread, ticked>>

sched_init_cpu(c) ==
    /\ Goto(c, "sched_init_cpu", IF c = Bsp THEN "timer" ELSE "cpu_enable_interrupts")
    /\ PushWrite(c, c, "idle")
    /\ cur_thread' = [cur_thread EXCEPT ![c] = "idle"]
    /\ UNCHANGED <<boot, IF_, apic, bsp, flags, seen, ticked>>

\* timer_irq_handler: interrupts are on and this CPU is a destination.
Interruptible(c) == IF_[c] /\ ldr[c] \cap irq_mask # {}

timer_irq(c) ==
    /\ Interruptible(c)
    /\ ticked' = ticked \cup {c}
    /\ left' = IF c = Bsp /\ left > 0 THEN left - 1 ELSE left
    /\ UNCHANGED <<boot, pc, IF_, apic, i, cpu_mask, desc>>
-------------------------------------------------------------------------------
\* The BSP.

cpu_init ==
    /\ Goto(Bsp, "cpu_init", "bsp_desc")
    /\ InitDesc(Bsp, {"ACTIVE", "BSP"})
    /\ UNCHANGED <<boot, IF_, icr, irq_mask, bsp, threads, cur_thread, seen, ticked>>

\* Registers the timer's handler, enables it for the BSP, and local_apic_timer_init.
cpu_init_timer ==
    /\ Goto(Bsp, "timer", "wait_64")
    /\ irq_mask' = LogicalId(Bsp)
    /\ IF_' = [IF_ EXCEPT ![Bsp] = TRUE]
    /\ left' = WAIT
    /\ UNCHANGED <<boot, ldr, icr, i, cpu_mask, desc, ticked>>

\* cpu_wait returns; what comes next.
AfterWait == [wait_64 |-> "cpu_smp_init", wait_10 |-> "start", wait_200 |-> "poll",
              wait_1 |-> "poll", wait_10b |-> "thread_create"]
cpu_wait ==
    /\ pc[Bsp] \in DOMAIN AfterWait /\ left = 0
    /\ pc' = [pc EXCEPT ![Bsp] = AfterWait[@]]
    /\ i' = 1
    /\ UNCHANGED <<boot, IF_, apic, cpu_mask, left, desc, ticked>>

cpu_smp_init ==
    /\ Goto(Bsp, "cpu_smp_init", "init")
    /\ num_cpus' = 1
    /\ boot_ap' = TRUE
    /\ cpu_mask' = LogicalId(Bsp)
    /\ UNCHANGED <<stack_top, sp, IF_, apic, i, left, desc, ticked>>

\* One turn of a loop over local_apic.cpus: an IPI with interrupts off, and the wait
\* until it is delivered; the BSP is skipped.
SendIpi(kind, loop, sent) ==
    /\ Goto(Bsp, loop, sent)
    /\ i <= local_apic_num_cpus /\ Madt[i] # Bsp
    /\ icr' = <<kind, Madt[i]>>
    /\ IF_' = [IF_ EXCEPT ![Bsp] = FALSE]
    /\ cpu_mask' = IF kind = "INIT" THEN cpu_mask \cup LogicalId(Madt[i]) ELSE cpu_mask
    /\ UNCHANGED <<boot, ldr, irq_mask, i, left, desc, ticked>>
IpiSent(loop, sent) ==
    /\ Goto(Bsp, sent, loop)
    /\ icr = <<>>
    /\ IF_' = [IF_ EXCEPT ![Bsp] = TRUE]
    /\ i' = i + 1
    /\ UNCHANGED <<boot, apic, cpu_mask, left, desc, ticked>>
SkipBsp(loop) ==
    /\ pc[Bsp] = loop
    /\ i <= local_apic_num_cpus /\ Madt[i] = Bsp
    /\ i' = i + 1
    /\ UNCHANGED <<boot, pc, IF_, apic, cpu_mask, left, desc, ticked>>
LoopDone(loop, wait) ==
    /\ Goto(Bsp, loop, wait)
    /\ i > local_apic_num_cpus
    /\ left' = WAIT
    /\ UNCHANGED <<boot, IF_, apic, i, cpu_mask, desc, ticked>>

local_apic_ipi_init == SendIpi("INIT", "init", "init_sent") \/ IpiSent("init", "init_sent")
local_apic_ipi_start == SendIpi("STARTUP", "start", "start_sent") \/ IpiSent("start", "start_sent")

\* while (num_cpus != local_apic.num_cpus) cpu_wait(1);
Poll ==
    /\ pc[Bsp] = "poll" /\ num_cpus # local_apic_num_cpus
    /\ pc' = [pc EXCEPT ![Bsp] = "wait_1"]
    /\ left' = WAIT
    /\ UNCHANGED <<boot, IF_, apic, i, cpu_mask, desc, ticked>>

Online == num_cpus = local_apic_num_cpus

enable_timerBadBsp ==
    /\ Goto(Bsp, "poll", "wait_10b")
    /\ Online
    /\ irq_mask' = LogicalId(Bsp)
    /\ left' = WAIT
    /\ UNCHANGED <<boot, IF_, ldr, icr, i, cpu_mask, desc, ticked>>

enable_timer ==
    /\ Goto(Bsp, "poll", "wait_10b")
    /\ Online
    /\ irq_mask' = cpu_mask
    /\ left' = WAIT
    /\ UNCHANGED <<boot, IF_, ldr, icr, i, cpu_mask, desc, ticked>>

\* kernel_main: thread_create takes the lock of the CPU, which sched_init_cpu does not.
thread_create_read ==
    /\ Goto(Bsp, "thread_create", "thread_push")
    /\ PushRead(Bsp, Target)
    /\ UNCHANGED <<boot, IF_, apic, bsp, flags, threads, cur_thread, ticked>>
thread_create ==
    /\ Goto(Bsp, "thread_push", "done")
    /\ PushWrite(Bsp, Target, "test")
    /\ UNCHANGED <<boot, IF_, apic, bsp, flags, cur_thread, seen, ticked>>
-------------------------------------------------------------------------------
\* The local APICs: an IPI arrives. A CPU that waits takes a STARTUP; others ignore it.
Deliver ==
    /\ icr # <<>>
    /\ LET c == icr[2]
       IN pc' = [x \in Cpus |->
                    IF x = c /\ icr[1] = "INIT" THEN "wait_for_startup"
                    ELSE IF x = c /\ pc[c] = "wait_for_startup" THEN "boot_ap" ELSE pc[x]]
    /\ icr' = <<>>
    /\ UNCHANGED <<boot, IF_, ldr, irq_mask, bsp, desc, ticked>>

\* boot.S: to long mode, where boot_ap tells an AP from the BSP.
long_mode(c) ==
    /\ Goto(c, "boot_ap", IF boot_ap THEN "long_mode_ap" ELSE "kernel_main")
    /\ UNCHANGED <<boot, IF_, apic, bsp, desc, ticked>>

long_mode_apBadMov(c) ==
    /\ Goto(c, "long_mode_ap", "cpu_init_ap")
    /\ sp' = [sp EXCEPT ![c] = stack_top]
    /\ UNCHANGED <<num_cpus, boot_ap, stack_top, IF_, apic, bsp, desc, ticked>>

\* lock xadd %rsp, stack_top
long_mode_ap(c) ==
    /\ Goto(c, "long_mode_ap", "cpu_init_ap")
    /\ sp' = [sp EXCEPT ![c] = stack_top]
    /\ stack_top' = stack_top + 1
    /\ UNCHANGED <<num_cpus, boot_ap, IF_, apic, bsp, desc, ticked>>

\* The AP counts itself before it has set up anything.
cpu_init_ap(c) ==
    /\ Goto(c, "cpu_init_ap", "ap_desc")
    /\ num_cpus' = num_cpus + 1
    /\ UNCHANGED <<boot_ap, stack_top, sp, IF_, apic, bsp, desc, ticked>>

cpu_init_ap_descBadEarly(c) ==
    /\ Goto(c, "ap_desc", "ap_sched")
    /\ InitDesc(c, {"ACTIVE"})
    /\ IF_' = [IF_ EXCEPT ![c] = TRUE]
    /\ UNCHANGED <<boot, icr, irq_mask, bsp, threads, cur_thread, seen, ticked>>

cpu_init_ap_desc(c) ==
    /\ Goto(c, "ap_desc", "ap_sched")
    /\ InitDesc(c, {"ACTIVE"})
    /\ UNCHANGED <<boot, IF_, icr, irq_mask, bsp, threads, cur_thread, seen, ticked>>

\* Interrupts on, int $3, and idle_loop.
idle_loop(c) ==
    /\ Goto(c, "cpu_enable_interrupts", "idle_loop")
    /\ IF_' = [IF_ EXCEPT ![c] = TRUE]
    /\ UNCHANGED <<boot, apic, bsp, desc, ticked>>

BspStep ==
    \/ cpu_init \/ sched_init_cpu_read(Bsp, "bsp_desc") \/ sched_init_cpu(Bsp)
    \/ cpu_init_timer \/ cpu_wait \/ cpu_smp_init
    \/ local_apic_ipi_init \/ SkipBsp("init") \/ LoopDone("init", "wait_10")
    \/ local_apic_ipi_start \/ SkipBsp("start") \/ LoopDone("start", "wait_200")
    \/ Poll \/ enable_timer \/ thread_create_read \/ thread_create
ApStep(c) ==
    \/ long_mode(c) \/ long_mode_ap(c) \/ cpu_init_ap(c) \/ cpu_init_ap_desc(c)
    \/ sched_init_cpu_read(c, "ap_sched") \/ sched_init_cpu(c) \/ idle_loop(c)

BootNext ==
    \/ BspStep \/ Deliver
    \/ \E c \in Cpus \ {Bsp} : ApStep(c)
    \/ \E c \in Cpus : timer_irq(c)

\* Every CPU goes on, interrupts that are sent arrive, and the timer runs for ever.
BootSpec ==
    /\ BootInit /\ [][BootNext]_bootvars
    /\ WF_bootvars(BspStep) /\ WF_bootvars(Deliver)
    /\ \A c \in Cpus \ {Bsp} : WF_bootvars(ApStep(c))
    /\ \A c \in Cpus : WF_bootvars(timer_irq(c))
-------------------------------------------------------------------------------
\* boot.S gives every CPU a stack of its own.
StacksDistinct == \A c, d \in Cpus : c # d /\ sp[c] = sp[d] => sp[c] = -1

\* The timer never interrupts a CPU that has no current thread and no thread list, as
\* sched_tick would go through NULL: interrupts are enabled after sched_init_cpu, and
\* the I/O APIC is told of the APs after they are counted.
TickNeedsThread == \A c \in Cpus : Interruptible(c) => cur_thread[c] # NULL /\ threads[c] # <<>>

\* The boot comes to its end, and every CPU ends in its idle loop with a timer: no
\* AP takes the way of the BSP into kernel_main, no IPI is missed, and cpu_smp_init
\* does not wait for a CPU that waits for it.
BootFinishes == <>(pc[Bsp] = "done") /\ \A c \in Cpus : <>(c \in ticked)
===============================================================================
