------------------------------- MODULE Console -------------------------------
(* The console, console.c: the functions that draw under its lock with interrupts *)
(* off, and the queue of cons_putstr, where a caller leaves its message to the     *)
(* caller that is drawing. A context is a thread (level 0) or an interrupt handler *)
(* on top of the lower levels of its CPU; only the highest one of a CPU runs.      *)
EXTENDS Integers, Sequences, FiniteSets

CONSTANTS
    Processors,
    MaxNest,            \* levels of interrupts on a CPU
    MAX_CONSOLE_BUF, MAX_MSG_QUEUE, \* 65536 and 32
    POS_RANGE,          \* 2^32, the range of write_pos and read_pos
    Sizes,              \* lengths of messages
    Calls,              \* the functions that are called
    MaxCalls            \* bound on calls

ASSUME ConsoleAssumption ==
    /\ MaxNest \in Nat /\ MaxCalls \in Nat /\ POS_RANGE \in Nat /\ MAX_CONSOLE_BUF \in Nat
    /\ MAX_MSG_QUEUE \in 1..POS_RANGE /\ MaxCalls < POS_RANGE
    /\ Sizes \subseteq 1..MAX_CONSOLE_BUF-1
    /\ Calls \subseteq {"console_putstr", "cons_putstr"}

VARIABLES
    point,      \* context -> where it is
    intr,       \* CPU -> RFLAGS_IF
    spl,        \* context -> its spl
    s_drain,    \* context -> the s of the loop that draws
    lock,       \* the context that has the console's lock, or None
    qlock,      \* the same for cons_msg_queue.lock
    run_lock, write_pos, read_pos,
    msg,        \* slot -> [pos, size, and (history) the message's number]
    pos,        \* cons_buf.pos
    buf,        \* cons_buf.buf: offset -> number of the message it has a byte of
    popped,     \* context -> number of the message it popped
    wraps,      \* history: n + 1 -> how often cons_buf had wrapped before message n
    drawn,      \* history: what was drawn
    calls       \* history: calls that were made

queue == <<qlock, run_lock, write_pos, read_pos, msg, pos, buf, wraps>>
consvars == <<point, intr, spl, s_drain, lock, queue, popped, drawn, calls>>

None == <<>>
Ctx == Processors \X (0..MaxNest)
CpuOf(x) == x[1]
Runs(x) == \A k \in x[2]+1..MaxNest : point[<<x[1], k>>] = "idle"
At(x, label) == Runs(x) /\ point[x] = label
GoesTo(x, label) == point' = [point EXCEPT ![x] = label]

ConsInit ==
    /\ point = [x \in Ctx |-> "idle"]
    /\ intr = [c \in Processors |-> TRUE]
    /\ spl = [x \in Ctx |-> FALSE] /\ s_drain = [x \in Ctx |-> FALSE]
    /\ lock = None
    /\ qlock = None /\ run_lock = 0 /\ write_pos = 0 /\ read_pos = 0
    /\ msg = [k \in 0..MAX_MSG_QUEUE-1 |-> <<0, 0, -1>>]
    /\ pos = 0 /\ buf = [k \in 0..MAX_CONSOLE_BUF-1 |-> -1]
    /\ popped = [x \in Ctx |-> 0]
    /\ wraps = <<0>> /\ drawn = <<>> /\ calls = 0

\* A thread calls with interrupts on or off; a handler is entered with interrupts off.
Call(x, fn) ==
    /\ At(x, "idle") /\ calls < MaxCalls
    /\ x[2] = 0 \/ intr[CpuOf(x)]
    /\ \E on \in BOOLEAN : (x[2] > 0 => ~on) /\ intr' = [intr EXCEPT ![CpuOf(x)] = on]
    /\ GoesTo(x, fn)
    /\ calls' = calls + 1
    /\ UNCHANGED <<spl, s_drain, lock, queue, popped, drawn>>

\* cpu_splhi: the old flag, and interrupts off; cpu_splx.
cpu_splhi(x, from, to) ==
    /\ At(x, from) /\ GoesTo(x, to)
    /\ intr' = [intr EXCEPT ![CpuOf(x)] = FALSE]
SplxValue(x, old) == IF old THEN TRUE ELSE intr[CpuOf(x)]
cpu_splx(x, old) == intr' = [intr EXCEPT ![CpuOf(x)] = SplxValue(x, old)]

\* The function returns; a handler's iretq turns interrupts on.
Return(x) ==
    /\ At(x, "return") /\ GoesTo(x, "idle")
    /\ intr' = [intr EXCEPT ![CpuOf(x)] = @ \/ x[2] > 0]
    /\ UNCHANGED <<spl, s_drain, lock, queue, popped, drawn, calls>>
-------------------------------------------------------------------------------
\* console_putstr; console_putchar, console_clear_char and console_clear_line are the
\* same with one call of the driver instead of several.
console_splhiBadOn(x) ==
    /\ At(x, "console_putstr") /\ GoesTo(x, "console_lock")
    /\ spl' = [spl EXCEPT ![x] = intr[CpuOf(x)]]
    /\ UNCHANGED <<intr, s_drain, lock, queue, popped, drawn, calls>>

console_splhi(x) ==
    /\ cpu_splhi(x, "console_putstr", "console_lock")
    /\ spl' = [spl EXCEPT ![x] = intr[CpuOf(x)]]
    /\ UNCHANGED <<s_drain, lock, queue, popped, drawn, calls>>

console_lock(x) ==
    /\ At(x, "console_lock") /\ GoesTo(x, "first")
    /\ lock = None /\ lock' = x
    /\ UNCHANGED <<intr, spl, s_drain, queue, popped, drawn, calls>>

console_draw(x) ==
    /\ \/ At(x, "first") /\ GoesTo(x, "last")
       \/ At(x, "last") /\ GoesTo(x, "console_unlock")
    /\ UNCHANGED <<intr, spl, s_drain, lock, queue, popped, drawn, calls>>

console_unlock(x) ==
    /\ At(x, "console_unlock") /\ GoesTo(x, "return")
    /\ lock' = None
    /\ cpu_splx(x, spl[x])
    /\ UNCHANGED <<spl, s_drain, queue, popped, drawn, calls>>
-------------------------------------------------------------------------------
\* cons_putstr
cons_splhi(x) ==
    /\ cpu_splhi(x, "cons_putstr", "cons_lock")
    /\ spl' = [spl EXCEPT ![x] = intr[CpuOf(x)]]
    /\ UNCHANGED <<s_drain, lock, queue, popped, drawn, calls>>

Acquire(x, from, to) ==
    /\ At(x, from) /\ GoesTo(x, to)
    /\ qlock = None /\ qlock' = x
    /\ UNCHANGED <<intr, spl, s_drain, lock, run_lock, write_pos, read_pos, msg, pos, buf,
                   wraps, popped, drawn, calls>>

\* The position, and cons_buf.pos after it: at a wrap the size is not added.
cons_buffer_alloc(size) ==
    IF pos + size <= MAX_CONSOLE_BUF THEN <<pos, pos + size>> ELSE <<0, 0>>

cons_msg_push(p, size) ==
    /\ write_pos' = (write_pos + 1) % POS_RANGE
    /\ msg' = [msg EXCEPT ![write_pos % MAX_MSG_QUEUE] = <<p, size, write_pos>>]

\* cons_msg_putstr, the unlock and cpu_splx.
cons_msg_putstr(x, size) ==
    /\ At(x, "push") /\ GoesTo(x, "run_lock")
    /\ LET p == cons_buffer_alloc(size)[1]
       IN /\ pos' = cons_buffer_alloc(size)[2]
          /\ buf' = [k \in DOMAIN buf |-> IF k \in p..p+size-1 THEN write_pos ELSE buf[k]]
          /\ cons_msg_push(p, size)
          /\ wraps' = Append(wraps, wraps[Len(wraps)] + IF pos + size <= MAX_CONSOLE_BUF THEN 0 ELSE 1)
    /\ qlock' = None
    /\ cpu_splx(x, spl[x])
    /\ UNCHANGED <<spl, s_drain, lock, run_lock, read_pos, popped, drawn, calls>>

\* The compare-and-swap: somebody draws already, or this context does from here on,
\* with interrupts on.
cons_runBadBoth(x) ==
    /\ At(x, "run_lock") /\ GoesTo(x, "drain")
    /\ run_lock' = 1
    /\ intr' = [intr EXCEPT ![CpuOf(x)] = @ \/ ~spl[x]]
    /\ UNCHANGED <<spl, s_drain, lock, qlock, write_pos, read_pos, msg, pos, buf, wraps,
                   popped, drawn, calls>>

cons_run(x) ==
    /\ At(x, "run_lock")
    /\ \/ /\ run_lock # 0
          /\ GoesTo(x, "return")
          /\ UNCHANGED <<intr, run_lock>>
       \/ /\ run_lock = 0 /\ run_lock' = 1
          /\ GoesTo(x, "drain")
          /\ intr' = [intr EXCEPT ![CpuOf(x)] = @ \/ ~spl[x]]
    /\ UNCHANGED <<spl, s_drain, lock, qlock, write_pos, read_pos, msg, pos, buf, wraps,
                   popped, drawn, calls>>

cons_drain(x) ==
    /\ cpu_splhi(x, "drain", "drain_lock")
    /\ s_drain' = [s_drain EXCEPT ![x] = intr[CpuOf(x)]]
    /\ UNCHANGED <<spl, lock, queue, popped, drawn, calls>>

cons_msg_pop(x) ==
    /\ At(x, "pop") /\ GoesTo(x, "draw")
    /\ read_pos < write_pos
    /\ read_pos' = (read_pos + 1) % POS_RANGE
    /\ popped' = [popped EXCEPT ![x] = read_pos]
    /\ qlock' = None
    /\ cpu_splx(x, s_drain[x])
    /\ UNCHANGED <<spl, s_drain, lock, run_lock, write_pos, msg, pos, buf, wraps, drawn, calls>>

ReturnSpl(x) == spl[x]

cons_doneBadOrder(x) ==
    \/ /\ At(x, "pop") /\ GoesTo(x, "release")
       /\ ~(read_pos < write_pos)
       /\ qlock' = None
       /\ UNCHANGED <<intr, run_lock, spl, s_drain, lock, write_pos, read_pos, msg, pos, buf, wraps,
                      popped, drawn, calls>>
    \/ /\ At(x, "release") /\ GoesTo(x, "return")
       /\ run_lock' = 0
       /\ cpu_splx(x, ReturnSpl(x))
       /\ UNCHANGED <<qlock, spl, s_drain, lock, write_pos, read_pos, msg, pos, buf, wraps,
                      popped, drawn, calls>>

\* No message: run_lock is released before the queue's lock is.
cons_done(x) ==
    /\ At(x, "pop") /\ GoesTo(x, "return")
    /\ ~(read_pos < write_pos)
    /\ run_lock' = 0
    /\ qlock' = None
    /\ cpu_splx(x, ReturnSpl(x))
    /\ UNCHANGED <<spl, s_drain, lock, write_pos, read_pos, msg, pos, buf, wraps,
                   popped, drawn, calls>>

\* The message is read from its slot and the buffer after the unlock.
Draw(x) ==
    /\ At(x, "draw") /\ GoesTo(x, "drain")
    /\ LET n == popped[x]
           m == msg[n % MAX_MSG_QUEUE]
       IN drawn' = Append(drawn,
            [number |-> n,
             whole |-> m[3] = n /\ \A k \in m[1]..m[1]+m[2]-1 : buf[k] = n,
             safe |-> write_pos - n <= MAX_MSG_QUEUE /\ wraps[n+1] = wraps[Len(wraps)]])
    /\ UNCHANGED <<intr, spl, s_drain, lock, queue, popped, calls>>

Step(x) ==
    \/ console_splhi(x) \/ console_lock(x) \/ console_draw(x) \/ console_unlock(x)
    \/ cons_splhi(x) \/ Acquire(x, "cons_lock", "push") \/ (\E n \in Sizes : cons_msg_putstr(x, n))
    \/ cons_run(x) \/ cons_drain(x) \/ Acquire(x, "drain_lock", "pop")
    \/ cons_msg_pop(x) \/ cons_done(x) \/ Draw(x) \/ Return(x)

Done == calls = MaxCalls /\ (\A x \in Ctx : point[x] = "idle") /\ UNCHANGED consvars
ConsNext == (\E x \in Ctx, fn \in Calls : Call(x, fn)) \/ (\E x \in Ctx : Step(x)) \/ Done
ConsSpec == ConsInit /\ [][ConsNext]_consvars
-------------------------------------------------------------------------------
\* A context that has a lock is not interrupted: a handler that prints would spin for
\* the lock for ever, below the holder that it keeps from running.
HoldersRun == \A x \in {lock, qlock} \ {None} : ~intr[CpuOf(x)] /\ Runs(x)

\* The drawing context draws every message once, in the order of cons_msg_push, and
\* as it was written, unless more than MAX_MSG_QUEUE messages came after it, or the
\* buffer wrapped for it or for one after it: the message that wraps gets no space
\* of its own.
DrawnInOrder ==
    \A j \in 1..Len(drawn) : drawn[j].number = j - 1 /\ (drawn[j].safe => drawn[j].whole)

\* No message stays in the queue when nobody is in cons_putstr: a caller that leaves
\* its message to another has not been missed by that one's last look at the queue.
NothingLeft == (\A x \in Ctx : point[x] = "idle") => read_pos = write_pos
===============================================================================
