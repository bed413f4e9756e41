# A TLA+ verification of the smor kernel

The repository is a small x86_64 kernel for several processors: a scheduler with
one run queue per CPU, spinlocks, semaphores, condition variables, a keyboard
driver and a terminal, and a memory manager in the making. This directory models
its concurrent parts, its allocators and its drivers and parsers, checks them with
TLC on small instances, and proves the main results with TLAPS for every number of
CPUs and threads, every size of the screen, of the keyboard's buffer and of the
console's queue, and every PCI bus.

## The system

Each CPU has a `cpu_desc_t` with a lock, a ring of threads that begins with the
CPU's idle thread, and a current thread. Threads never migrate. The ring and the
fields of its threads belong to the CPU's lock.

* **A timer interrupt** on every CPU takes the CPU's lock and calls `sched_tick`,
  which counts down timed sleeps, charges the current thread one tick, and calls
  `sched_next` when its count is used up.
* **`sched_next`** chooses the RUNNING thread with the largest count, giving new
  counts first if nobody has any left, and switches to it. The CPU's lock stays
  taken across `context_switch`: the thread that is switched *to* releases it,
  at the place where it had once been switched out, or in `thread_start`.
* **Blocking calls** (`sched_sleep`, `sched_yield`, `sema_wait`, `cond_wait`)
  mark the caller SLEEPING under the CPU's lock and call `sched_next`.
* **Other CPUs' rings** are changed under `cpu_lock_id`, by `thread_create`,
  `thread_wakeup`, `sema_signal` and `cond_signal`, and walked by `cpu_show_cmd`.
  The calls that find the ring to be their own disable interrupts
  (`cpu_lock_splhi`); those on another CPU's ring leave them as they are.
* **The keyboard** interrupts the CPU that booted. Its handler puts scan codes
  into a ring buffer and signals a condition on which `kbd_read` waits, in the
  terminal's thread on CPU 1.
* **The boot** runs on one CPU: `kernel_main` reads the boot tags, sets up the
  framebuffer and the page database, reads the ACPI tables, makes the slab
  allocator, and then starts the other CPUs with interprocessor interrupts. They
  all run the same start code, which gives each a stack from a shared counter.
* **Memory** is a database of 2M pages, out of which what the boot has mapped is
  reserved, and slabs that hand out chunks of slabs.
* **Output** goes through `vsprintf`, the console's lock and the framebuffer; a
  second path through a queue of messages is compiled but not called.

### Inventory

| Part | Sources | State here |
| --- | --- | --- |
| Scheduler | `sched.c`, `list.h` | `RunQueue`, `Sched`, `SchedScan`, `Dispatch`; proved |
| Threads, locks, interrupts, context switch | `thread.c`, `thread.h`, `cpu.h`, `spinlock.h`, `x86.h`, `isr.S`, `cpu.c` | `Smp`, `SmpSched`; proved |
| Semaphores | `semaphore.c` | `Semaphore`, `CountingSema`; proved |
| Condition variables, keyboard | `cond.c`, `kbd_8042.c` | `Keyboard`; proved |
| Start of the other CPUs | `cpu.c`, `local_apic.c`, `boot.S` | `SmpBoot`; proved |
| Page database | `vm_page.c` | `PageDbOps`, `PageSet` |
| Boot page tables, slack memory | `vm_boot.c`, `kernel.c`, `main.c`, mappings of `acpi.c`, `io_apic.c`, `local_apic.c` | `BootMem` |
| Slabs | `slab.c`, `kmalloc.c` | `Slab` |
| Console and its queue | `console.c` | `Console`; proved |
| Framebuffer console | `fb_cons.c` | `FbCons`; proved |
| Terminal | `kterm.c` | `Kterm`, `Terminal` |
| Formatted output | `vsprintf.c` | `Vsprintf` |
| Boot tags, ACPI and MP tables | `multiboot.c`, `acpi.c`, `imps.c` | `FwTables`, `Discovery` |
| PCI scan | `pci.c` | `Pci`; proved, `Discovery` |
| Everything else | `io_apic.c`, `interrupt.c`, `vm_cache.c`, `ata.c`, `pic.c`, ... | see *Not modelled* |

## The modules

```
RunQueue ── Sched ── SchedScan ── MCSched          Dispatch (abstract; Sched implements it)
    ├── RunQueueProofs
    └── Smp ── SmpSched ── MCSmp                   Sched (Smp implements it on each CPU)
          │      └── SmpSchedProofs (on SmpProofs)
          ├── SmpProofs (on RunQueueProofs)
          ├── Semaphore ── MCSemaphore             CountingSema (abstract; Semaphore implements it)
          │      └── SemaphoreProofs (on SmpProofs)
          └── Keyboard ── MCKeyboard
                 └── KeyboardSteps ── KeyboardProofs (on SmpProofs)

PageDbOps ── BootMem                               PageSet (abstract; BootMem implements it)
FwTables, Pci ── Discovery ── MCDiscovery
FbCons, Kterm ── Terminal ── MCTerminal
SmpBoot, Console, Slab, Vsprintf: each with its MC module
Sched, Console ── KernelProofs (on RunQueueProofs)
SmpBoot, FbCons, Pci ── PlatformProofs
```

**`RunQueue`** has what `sched.c` computes and no state: a ring is a sequence with
`cpu->threads` first, and the fields of `thread_t` are functions on threads.
`sched_find` is defined by what it finds; `SchedScan` has the loop as the code
runs it, and TLC compares the two in every reachable state.

**`Sched`** is one CPU. Each action is a whole section under the CPU's lock, from
its acquisition to the release by whichever thread comes out: `timer_irq_handler`
(with all of `sched_tick`), `sched_yield`, `block` (the waits of `semaphore.c` and
`cond.c`), `sched_sleep`, `wakeup`, `thread_create`. `ctx` remembers which call a
thread's saved context is in. `wakeup` is enabled for threads that yielded or are
on a wait list: this is where the code's three wakeups are called from.

**`Smp`** takes those sections apart. A step is the progress of one CPU from one
lock operation to the next; `pc[t]` is the point where thread `t` is, live or in
its saved context, and `ret[t]` is the point an interrupt handler on its stack
returns to. The timer may interrupt wherever interrupts are enabled, which
includes sections on *another* CPU's ring. A spin is a guard. `SwitchFrom` is
`sched_next`: it changes who has the CPU and leaves the lock alone, and the next
step of the CPU is that of the new thread at its own point. `thread_create` is
called by `kernel_main`, which runs on CPU 0's idle thread, in the order `Boot`.

**`Semaphore`** and **`Keyboard`** extend `Smp` with `semaphore.c` and with `cond.c`
and `kbd_8042.c`; all of `Smp` goes on around them. `Keyboard` keeps, besides the
fields of `keyboard_t`, a history of the keys pressed.

**`Dispatch`** and **`CountingSema`** say what is promised, without rings, counts,
locks or CPUs. `SmpSched` maps each CPU of `Smp` to the state of `Sched`.

**`SmpBoot`** has the boot CPU in `cpu_init`, `cpu_smp_init` and the `thread_create` that
follows, the other CPUs from the startup interrupt through `boot.S` and
`cpu_init_ap` to the idle loop, and the interrupts on their way between them. Time
is the boot CPU's ticks, so a CPU may be slower than any `cpu_wait`.

**`PageDbOps`** has the functions of `vm_page.c` as operators on a database.
**`BootMem`** puts the boot page tables, the slack area after the kernel's image and
the page database together in the order of `kernel_main`, and lets pages be allocated
and returned once the kernel runs; it implements **`PageSet`**, a set of pages.
`acpi_init` maps and unmaps the root table wherever it lies and notes the addresses of
the APICs, whose pages `cpu_init` maps after `vm_boot_sync` has made the database. `asked`,
`areas` and `cut` are histories: what was mapped for somebody, the slack areas handed
out, and what `acpi_init` took out of the tables again.

**`Slab`** has several CPUs in `slab_list_alloc`, `slab_list_free` and
`kmalloc_get_slab`, from one lock operation to the next, the call on the owner's
list included. **`Console`** has threads and interrupt handlers on several CPUs; a
handler runs on top of what it interrupted.

**`Vsprintf`** scans a format string character by character and describes a field as
the runs of characters that are written. **`Kterm`** gets keys in batches of any
split, **`FbCons`** has a screen of characters, and next to it the text as it was
written, and **`Terminal`** draws on the one what the other prints.

**`FwTables`** walks tables as items at byte offsets with the step the code takes;
checksums may be wrong and tables too long for the kernel's arrays. **`Pci`** models
which port a read goes to. **`Discovery`** has both in the order of `kernel_main`.

Definitions with a suffix `Bad...` are faulty variants of the definition that
follows them. Each belongs to a property in `PROJECT.json` that it violates.

## The runs

| Run | Checks | Distinct states |
| --- | --- | --- |
| `sched` | `Sched`, safety and liveness, two threads, priority 3, sleeps of up to 3 ticks | 1 746 |
| `sched_yield` | the notes' `yield()` against `sched_yield`: violated | 471 |
| `smp` | `Smp`, safety and liveness, two CPUs, a thread on CPU 0 and two on CPU 1 | 5 178 |
| `sema` | `Semaphore`, safety and liveness, a waiter and two sleepers on CPU 1, priority 2, signals from CPU 0 | 40 603 |
| `kbd` | `Keyboard`, two CPUs, two kinds of keys, three keys, one change of a modifier | 729 808 |
| `smpboot` | `SmpBoot`, safety and liveness, three CPUs | 1 267 |
| `memory` | `BootMem`, eleven pages; images, framebuffers, tables and APICs of several sizes and places | 115 346 |
| `slab` | `Slab`, two CPUs, two lists and the root | 37 992 |
| `console` | `Console`, two CPUs with an interrupt level each, three calls | 136 989 |
| `discovery` | `Discovery`, short lists of every kind of item, two devices of up to three functions | 225 440 |
| `vsprintf` | `Vsprintf`, every format of three characters and 2430 full directives | 30 847 |
| `terminal` | `Terminal`, five keys in batches of up to three, a screen of nine by two characters | 901 818 |

*Scheduling.* The CPU always runs a runnable thread of its ring, although
`sched_find` would fall back to a sleeping one (`CurRunnable`), the loop of
`sched_find` finds what its definition says (`FindIsScan`), timer flags are set on
exactly the timed sleepers (`SleepTimerExact`), no tick ends a wait
(`OnlyWakeupsEndWaits`), the whole is the abstract dispatcher
(`ImplementsDispatch`), and a thread that stays runnable runs (`NoStarvation`). On
several CPUs, each lock has one holder through every hand-over (`OneHolder`),
everyone switched out is at a point that will release the lock
(`SwitchedOutParked`), interrupts are off while a CPU holds its own lock and on again
afterwards (`IntrDiscipline`), no thread is on two rings (`RingsDisjoint`), each CPU
behaves as `Sched` says (`ImplementsSched`), and locks are released
(`LocksReleased`). Semaphores and the keyboard's condition lose no wakeup
(`NoLostWakeup`, `ReaderNotAsleepOnKeys`); a semaphore counts, first in first out
(`ImplementsCountingSema`), and a granted wait returns unless threads of its CPU never
stop sleeping (`GrantedReturns`). Keys arrive
once and in order (`KeysInOrder`), as the characters typed unless a modifier changed
before they were read (`CharsAsTyped`); the keyboard handler never waits for the code
it interrupted (`NoSelfDeadlock`), which is so because `kernel_main` creates the
terminal last.

*Boot.* Every CPU gets its own stack (`StacksDistinct`), none takes a timer interrupt
before it has a thread (`TickNeedsThread`), and all come up (`BootFinishes`). The
walks over the firmware's tables stay in step with their layout (`InStep`) and take
exactly what is listed, panicking only when an array is full (`KnowsTables`). The
PCI scan finds every function once (`ScanFindsAll`). Nothing is claimed of the base
address registers: `pci_read_32` reads other ports for them, and `pci_bar_size` writes
back what was read there.

*Memory.* The tables map what was asked for and not unmapped since (`TablesExact`),
slack areas are disjoint and mapped (`SlackUsable`), no mapped page is left to the
allocator and its list holds each free page once although reservations leave stale links
behind (`MappedReserved`), and pages are handed out and taken back without loss
(`ImplementsPageSet`). Free chains, counts and lists of slabs agree with what is in
use, and empty slabs go back (`SlabsExact`); no two objects overlap
(`ObjectsDisjoint`). Two exceptions are stated in the properties, because the code has
them. `acpi_init` unmaps every 2M page the root table lies in: if the framebuffer or an
earlier slack area has a part of that page, it is gone (the kernel would fault there at
its next access; the model goes on). And the pages of the APICs are mapped
after the database is made and reserved nowhere; on a PC they lie above the top of memory,
where the database has no pages, and the instance has them on both sides of it.

*Output and input.* No holder of a console lock is interrupted (`HoldersRun`), and the
queue draws each message once, whole and in order, and leaves none behind
(`DrawnInOrder`, `NothingLeft`). `vsprintf` makes the conversion that is written and
writes the field it asks for (`ParsesAsWritten`, `FieldRight`), sign extension included,
and its scan stops at the terminating zero also inside a directive (`ScanEnds`). The line a terminal
runs is the line typed, however the keys are split (`LineAsTyped`); the screen shows
it after the prompt, except when a backspace shares a batch with an earlier key
(`EchoShowsLine`), and every row shows what belongs there (`ScreenShowsText`).

*The bounds.* Two threads and the idle thread give a ring on which a scan, a tie and a
replenishment can each fall on either side of a sleeping thread; priority 3 is the
smallest for which halving a count rounds. More threads are left to the
proofs. Two CPUs are the smallest number with a remote ring, and the code names no more than two at a time. `SleepMod` stands for 2^32: sleeps are
shorter than it, as they are in the code. A buffer of two codes and three keys
make the positions go round the buffer. `MaxCount` only limits how often a
semaphore is signalled ahead of the waits. Two sleepers and priority 2 are the smallest
instance in which a woken waiter can be kept off its CPU for ever, so that the exception in
`GrantedReturns` is met; with a second waiter liveness is out of TLC's reach there, and the
order of several waiters is left to the proof of `ImplementsCountingSema`. Eleven pages, the
first of them the kernel's, let a reservation fall on the head, the middle and the end of a
free list of which parts are gone, and meet the stale link of a page reserved before. A slab
of the small instance has two or three usable chunks, and the root area as
many as run out within a run. A message buffer of three characters with two slots
wraps within two messages. A row of the screen holds the prompt and the longest line,
which is followed by more rows than the screen has; the proofs have rows of every width.
Words of 5 and 8 bits have the sign extension of 32 and 64.

*Fairness.* Timers fire for ever: the PIT is programmed to, and an interrupt stays
pending while interrupts are disabled, hence strong fairness of `timer_irq`. A
thread that has its CPU goes on, and a spinning CPU that finds its lock free again
and again takes it at last (strong fairness of `InTimer`, `InCall`, `InSema`).
Calls themselves are not fair. In `Semaphore` the firing of a timer and its handling are
one fairness condition, which is the same: on one CPU they alternate.
Two limits showed up. `NoStarvation` and `GrantedReturns` except threads that
sleep again and again, since `sched_check_sleeping` gives a full count to each
thread it wakes: two that take turns keep a third one, with a smaller count, off the CPU.
And `LocksReleased` is stated for behaviours in which `kernel_main`
comes to run again and again: it is an idle thread, which gets no new counts, so a
runnable thread on CPU 0 could keep it from ever releasing CPU 1's lock. The kernel's
own boot sequence has no thread on CPU 0.

In `SmpBoot` a CPU that has something to do goes on (weak fairness), interrupts that were
sent arrive, and a timer interrupt that stays possible comes. In `Vsprintf` a call that has
begun goes on. The other modules claim
no liveness; their runs check for deadlock, except `terminal`, which stops when the
keys are used up.

*The disagreements.* `docs/misc.md` describes `yield()` as a reschedule of a thread
that stays runnable. `sched_yield` makes the caller SLEEPING, and only
`thread_wakeup`, which nothing calls, would make it run again (`sched_yield`).

Five more are in the code as the modules describe it, or in functions without a caller,
and no run is about them:

* `docs/misc.md` has the idle thread always first on its list; `cpu_init_ap` counts its
  CPU before it pushes the idle thread (`cpu.c:225`), and only a wait with the comment
  "no reason whatsoever" keeps another thread from being first.
* "enable timer on all cpus" is done with a mask of 8 bits (`cpu.c:265`) for up to 16
  CPUs.
* The width `*` in a format, "it's the next argument", is taken but not stepped over
  (`vsprintf.c:142`). `ParsesAsWritten` leaves out directives with a `*`.
* `page_db_free_addr` converts an address with the function that a comment describes
  as "given page index, get page physical address" (`vm_page.c:160`).
* `page_hash_insert` drops the chain of the bucket it inserts into (`vm_cache.c:43`).

## The proofs

All theorems are for any number of threads and CPUs, any priority and any bound on
sleeps, from the assumptions named in the modules: the priority and the width of
`sleep_time` are positive, sleeps are shorter than the width, idle threads are
distinct from each other and from created threads (`SmpAssumption`), the threads that
wait on the semaphore are created threads, since an idle thread must not sleep, and its
first count is a number (`SemaAssumption`), the keyboard's buffer is not empty and scan codes
have 7 bits (`KbdAssumption`), the terminal is created last and is the only one to run
`cpu_show_cmd` (`ReaderAssumption`),
the screen and the tab stop are
not empty, the MADT lists every CPU, by an identifier of 0 to 15 (`MadtAssumption`),
a device has at least one function and a port that is not the configuration port
returns something (`PciAssumption`), a message is shorter than the buffer, and fewer
messages are printed than the positions of the queue count (`ConsoleAssumption`).

* `RunQueueProofs` proves what `sched_find` and `sched_next` return
  (`SchedFindCorrect`, `SchedNextCorrect`). The `CHOOSE` in `sched_find` needs a
  witness, the first of the threads with the largest count; it comes from the least
  element of a nonempty set of numbers, twice. `NextReadsRing` adds that they read
  and write nothing but the threads of the ring.
* `KernelProofs` has two parts. For `Sched` it proves each safety property of run
  `sched` except `FindIsScan`, and that the idle thread is first on the ring
  (`IdleFirst`) and counts stay below twice the priority (`CntBound`). The invariant `SchedInv` joins the properties with what they need from one another:
  a tick wakes only threads whose flag is set, so exact flags give
  `OnlyWakeupsEndWaits`; idle stays runnable because it is first on the ring, so
  `sched_next` always has a RUNNING thread to choose. `SchedImplementsDispatch` is the
  refinement, one case for each action.

  For `Console` it proves all of run `console`. `LockInv` says of the spinning contexts
  too that they have interrupts off and nothing above them, or one could be interrupted
  between the spin and the lock. `QueueInv` ties `run_lock` to the one context that
  draws, gives every message in the queue someone who will draw it or look again,
  and counts the callers that have yet to push, so that positions do not wrap. `BufInv`
  keeps the last `MAX_MSG_QUEUE` messages in their slots, which differ by `SlotsApart`, and
  those since the last wrap below `pos`, where no new message is written. `DrawnInv`
  counts what is drawn by `read_pos`.
* `SmpProofs` proves each invariant of run `smp` and type correctness: first the
  invariant and the steps of one thread, then the steps that release a lock or
  work on a ring, last the push of a new thread and the theorems. `OneHolder` is not
  inductive alone: a switch hands the lock to the chosen thread only if that thread
  is stopped at a point that holds it. `SmpInv` adds to the properties the facts
  about each thread (`LocalInv`: where interrupts are enabled, what is on the stack
  under a handler, whose turn `cpu->spl` is), that a thread being created is on no ring yet
  (`CreateInv`), and the bound on counts (`CntInv`). `HoldersMove` says what a step may do
  to the locks: leave lock and holders alone, take a lock that is free, release one
  that is held, or hand it over; each action's lemma shows which, and `HeldOnce`, of which
  `OneHolder` is a case, follows for a set of locks that an interrupt handler holds
  besides. On top of `SmpInv`, `RunInvariant` proves
  that whoever has a CPU is RUNNING and that timer flags are set only on threads asleep
  in `sched_sleep`. The last part is for the modules that extend `Smp`: `SmpAside` says
  what a step of `Smp` leaves alone in a thread that is in the semaphore or the keyboard.
* `SmpSchedProofs` proves `ImplementsSched`: whatever the CPUs do at once, the ring,
  counts and states of each go through steps of `Sched`. It needs that threads stay on
  the CPU they were made for (`HomeInv`), so that the tables of two schedulers are
  disjoint (`OnFacts`). Then `sched_next` on the tables of all threads and on those of one
  CPU choose the same thread (`NextHere`, by `NextReadsRing`), a tick or a sleep on CPU
  `c` is the tick or sleep of `c`'s `Sched` (`SchedTick`, `SchedSleep`) and a stutter of
  the others (`TickElsewhere`, `SwitchElsewhere`), a push is the `thread_create` of the
  CPU it pushes to (`SchedPush`), and all other steps are stutters (`QuietSteps`).
* `SemaphoreProofs` proves the safety of run `sema`: `NoLostWakeup`, and that
  `Semaphore` implements `CountingSema`. All steps of `Smp` go on around the semaphore,
  so its invariant `SemaInv` contains `SmpInv` and `RunInv`, and the first part shows
  that the semaphore's own steps keep those: a waiter goes to sleep holding its CPU's
  lock, and a signaller takes another CPU's lock inside the semaphore's. `NoLostWakeup`
  is not inductive. What it needs is who is without a token (`Due`: on the list, or taken
  off it by a signal that has not woken it yet): a waiter past `wait_cpu` is asleep
  exactly when it is `Due` (`SemaLocal`), which survives the gap between
  the push and `sched_yield_locked` only because the waiter's CPU lock is held there, so
  that the signal that took it off the list cannot write its state (`WakeAsleep`). Also: the
  semaphore's lock has one holder (`SlockInv`), the list has no thread twice (`ListInv`),
  and nobody pushes onto it while there is a count. The refinement then takes each step
  to a step of `CountingSema` or a stutter: `sema_wait_push` is `Enqueue`, the removal
  from the list is `HandOver`, and the return of a waiter is `Return`, which needs that
  whoever comes out of `sched_yield_locked` is no longer `Due`.
* `KeyboardSteps` and `KeyboardProofs` prove all of run `kbd` that is safety. The
  invariant `KbdInv` has five parts. `ProcInv` is `SmpInv` and `RunInv` with the lock that
  `cond_signal` holds inside the handler counted (`HeldOnce`): the interrupted
  thread may itself be the holder of another CPU's lock. `WaitInv` gives
  `ReaderNotAsleepOnKeys`: the reader waits exactly when it is on the condition's list
  or the handler has taken it off and is about to wake it, and it is on the list only if
  the buffer is empty, which stays so because `kbd_read` tests for keys and pushes itself
  under the one lock. `ReadInv` says that nobody else is in `kbd_read`. `DataInv` ties the
  history of keys to the ring: the codes between `read_pos` and `write_pos`, those that
  `kbd_read` has copied, and those decoded are the keys typed, in three adjacent parts
  (`RingInv`, `OutInv`), which gives `KeysInOrder`, and a key whose turn is still to come
  has the modifiers as they are now unless they changed meanwhile (`ModInv`), which gives
  `CharsAsTyped`. `BootInv` is for `NoSelfDeadlock`: the handler waits for the lock of the
  reader's CPU, and it could have interrupted a holder of that lock only in a section
  on another CPU's ring. That is `cpu_show_cmd`, which the reader itself runs, or
  `thread_create`, and while `kernel_main` is in that, the reader does not exist yet or is
  at its start: it is the last thread created. The proof rests on
  `ReaderAssumption`: `kernel_main` calls `kterm_start` last (`main.c`), and
  `cpu_show_cmd` is a command of the terminal (`kterm.c`).
* `PlatformProofs` has three parts. For `FbCons` it proves `ScreenShowsText`, and that the
  cursor leaves the screen only
  before a scroll (`CursorOnScreen`). `ScreenShowsText` is not inductive: when the cursor is below the bottom, the scroll clears the last row, which
  is right only if the line of the cursor is still empty, and there must be as many
  lines as rows. `Shows` adds both. One lemma each says what a new line, a change of the
  cursor's row and a scroll do to `Shows`, and each case of `fb_cons_putchar` combines
  them.

  For `SmpBoot` it proves `StacksDistinct` and `TickNeedsThread`. The first needs that
  every stack given out is below the counter (`StackInv`). The second needs that
  interrupts are on only where a CPU has its thread, that the boot CPU sets up its own
  before it sends anything, and that no interprocessor interrupt is addressed to it,
  which would send it back to the start code (`TickInv`).

  For `Pci` it proves `ScanFindsAll`, for every machine. `ScanInv` says in
  the middle of the scan what was found: exactly the functions that the loops reach and
  have passed (`Past`), in the order of their numbers, so none twice.

Only model-checked:

* liveness (`NoStarvation`, `LocksReleased`, `GrantedReturns`, `BootFinishes`, `ScanEnds`),
  which is beyond the prover;
* what is about a recursive definition, and so needs an induction over data that the
  prover cannot do: `FindIsScan` (the loop of `sched_find`), `TablesExact`,
  `SlackUsable`, `MappedReserved` and `ImplementsPageSet` (the page tables and the free
  list), `SlabsExact` (the chains of chunks), `InStep` and `KnowsTables` (the walks over
  the tables), `LineAsTyped` and `EchoShowsLine` (the line as a fold over the keys),
  `ParsesAsWritten` and `FieldRight`;
* `ObjectsDisjoint`: no proof has been attempted.

## Abstractions

* The `ticks` statistics, thread identifiers, printing and the contents of a stack
  frame are left out. A saved context is the point it resumes at.
* Memory is sequentially consistent: the locked instructions of `spinlock.h` order
  the sections they surround.
* `sched_sleep` is called with 1 to `MaxSleep` ticks. Zero would count down from the
  largest `uint32_t`; no caller passes it.
* A key is pressed only while the keyboard's buffer has room. The code has no test for
  a full buffer, and `kbd_read` would run off its local array.
* In `Smp`, `Semaphore` and `Keyboard` the other CPUs are up from the start; `SmpBoot`
  has their start.
* Buffers that the code does not check are not overrun: the terminal's line, its
  arguments, `printf`'s 1024 bytes, the table of PCI devices. What the code does beyond
  them is undefined.
* The page database is used by one CPU at a time, as it takes no lock. Pages are reserved
  in the order in which `vm_boot_sync` walks the tables.
* `BootMem` has no holes in the memory map, and scales the sizes of pages, tables and
  the boot's mapped area down together. All tables of the firmware can be read.
* The checksum of the root table is checked, that of the APIC table it points to is not,
  by the code (`acpi_parse_sdt`) as by `FwTables`.
* The PCI configuration space, the firmware's tables and the interprocessor interrupts are modelled from how the code uses them.
* Words are 5 and 8 bits wide in `Vsprintf` where the code has 32 and 64, positions of the
  console's queue stay below their width, and screens are counted in characters: 1024
  by 768 pixels is a whole number of 8 by 16 glyphs.

## Not modelled

* `vga_cons.c`, `ata.c`, `fb_cons_clear_line`, `console_clear_line`, `page_db_init_4k`,
  `page_db_free_addr`, `page_db_reserve_region`, and `vm_cache.c` beyond `vm_hash_init`:
  nothing calls them.
* The registers of `io_apic.c` and `interrupt.c`: the redirection table and the tables of
  handlers are filled at boot, by one CPU, before their interrupts are enabled.
* `pic.c`, `pit.c`: fixed sequences of port writes that leave no state the kernel reads.
  The PIT's ticks are the timer of `Sched`, `Smp` and `SmpBoot`.
* `cpu_exception.c`, the `dump` and `show` functions, `trace`: they print.
* The GDT, the TSS, the mode switches of `boot.S`, the local vector table of the local
  APIC: constants written once.
* `string.c`, `io.h`, the copying and clearing of pages: assignments.
* The drawing of a glyph and `fb_font.c`: pixels.
* `vm_alloc.c`, `vm_hat.c`, `vm_mmap.c`: empty files.
