--------------------------------- MODULE Slab ---------------------------------
(* The slab allocator, slab.c, and the lists that kmalloc.c makes of it: sl_root *)
(* hands out the chunks of one 2M area; each list of sl_table cuts such a chunk  *)
(* into smaller ones and gives it back when it is empty. A slab is a record at   *)
(* its address; the linked lists of slabs are sequences of addresses. Operations *)
(* run on several CPUs, from one lock operation to the next.                     *)
EXTENDS Integers, Sequences, FiniteSets
LOCAL INSTANCE SequencesExt

CONSTANTS
    Cpus,
    MIN_SL_SHIFT, MAX_SL_SHIFT, \* 4 and 9
    KMALLOC_SHIFT,              \* KMALLOC_CHUNK_SIZE is 2^14
    ROOT_SHIFT,                 \* PAGE_2M_SIZE is 2^21
    HEADER,                     \* sizeof(struct slab_t), with one entry per chunk after it
    Elems,                      \* sizes passed to kmalloc_get_slab
    MaxObjs                     \* bound on objects that are in use

ASSUME ShiftAssumption ==
    /\ MIN_SL_SHIFT \in Nat \ {0} /\ MAX_SL_SHIFT \in MIN_SL_SHIFT..KMALLOC_SHIFT
    /\ KMALLOC_SHIFT < ROOT_SHIFT /\ 1 \notin Elems

NULL == 0
RootAddr == 2^ROOT_SHIFT    \* where kernel_slack_alloc puts the area
Root == 0                   \* sl_root
Shifts == MIN_SL_SHIFT..MAX_SL_SHIFT
Lists == Shifts \cup {Root} \* a list of sl_table by its chunk_shift
NoCpu == "none"

SizeShift(l) == IF l = Root THEN ROOT_SHIFT ELSE KMALLOC_SHIFT
ChunkShift(l) == IF l = Root THEN KMALLOC_SHIFT ELSE l

VARIABLES
    slab,       \* address -> struct slab_t
    free_slabs, \* list -> sequence of slabs with a free chunk
    used_slabs, \* list -> sequence of full slabs
    ready,      \* the lists that slab_list_init has initialised
    lock,       \* list -> the CPU that has its lock, or NoCpu
    sl_lock,    \* the same for the lock of kmalloc_get_slab
    pc,         \* CPU -> where it is
    objs        \* history: <<list, address>> in use

vars == <<slab, free_slabs, used_slabs, ready, lock, sl_lock, pc, objs>>

\* The number of bits of x - 1; not defined by the code for x = 1.
ceil_pow2(x) == CHOOSE n \in 0..32 : 2^n > x - 1 /\ (n = 0 \/ 2^(n-1) <= x - 1)

slab_initBadReserved(l) ==
    LET num_chunks == 2^(SizeShift(l) - ChunkShift(l))
    IN [num_chunks |-> num_chunks, num_free |-> num_chunks - 1, num_reserved |-> 1,
        flags |-> {}, free_list |-> 1,
        chunk_list |-> [i \in 0..num_chunks-1 |-> IF i < 1 THEN 0 ELSE (i + 1) % num_chunks]]

slab_init(l) ==
    LET num_chunks == 2^(SizeShift(l) - ChunkShift(l))
        num_reserved == (HEADER + num_chunks + 2^ChunkShift(l) - 1) \div 2^ChunkShift(l)
    IN [num_chunks |-> num_chunks, num_free |-> num_chunks - num_reserved,
        num_reserved |-> num_reserved, flags |-> {}, free_list |-> num_reserved,
        chunk_list |-> [i \in 0..num_chunks-1 |->
            IF i < num_reserved THEN 0 ELSE (i + 1) % num_chunks]]

\* slab_alloc when free_list is not 0; it returns chunk s.free_list.
slab_alloc(s) == [s EXCEPT !.free_list = s.chunk_list[@], !.num_free = @ - 1]

slab_free(s, index) ==
    [s EXCEPT !.chunk_list[index] = s.free_list, !.free_list = index, !.num_free = @ + 1]

slab_is_empty(s) == s.num_free = s.num_chunks - s.num_reserved
slab_is_full(s) == s.num_free = 0
slab_is_reserved(s) == "SLAB_RESERVED" \in s.flags

slab_list_insert(list, a) == <<a>> \o list
slab_list_remove(list, a) == SelectSeq(list, LAMBDA b : b # a)

Heap == [slab |-> slab, free_slabs |-> free_slabs, used_slabs |-> used_slabs]
SetHeap(h) == slab' = h.slab /\ free_slabs' = h.free_slabs /\ used_slabs' = h.used_slabs

HeadAddr(h, l) ==
    LET a == h.free_slabs[l][1]
    IN IF h.slab[a].free_list = 0 THEN NULL ELSE a + h.slab[a].free_list * 2^ChunkShift(l)

\* The first branch of slab_list_alloc: a chunk of the first slab, and the slab
\* moved when that was the last one.
AllocHead(h, l) ==
    LET a == h.free_slabs[l][1]
        s == IF h.slab[a].free_list = 0 THEN h.slab[a] ELSE slab_alloc(h.slab[a])
        h1 == [h EXCEPT !.slab[a] = s]
    IN IF slab_is_full(s)
       THEN [h1 EXCEPT !.free_slabs[l] = slab_list_remove(@, a),
                       !.used_slabs[l] = slab_list_insert(@, a)]
       ELSE h1

\* The second: a new slab at p, which is not tested for being full.
AllocNew(h, l, p) ==
    [h EXCEPT !.slab = [b \in DOMAIN @ \cup {p} |-> IF b = p THEN slab_alloc(slab_init(l)) ELSE @[b]],
              !.free_slabs[l] = slab_list_insert(@, p)]

SlabOf(l, addr) == addr - (addr % 2^SizeShift(l))

FreeInSlabBadMove(h, l, addr) ==
    LET a == SlabOf(l, addr)
    IN [h EXCEPT !.slab[a] = slab_free(@, (addr - a) \div 2^ChunkShift(l))]

\* slab_list_free up to the test for an empty slab.
FreeInSlab(h, l, addr) ==
    LET a == SlabOf(l, addr)
        h1 == [h EXCEPT !.slab[a] = slab_free(@, (addr - a) \div 2^ChunkShift(l))]
    IN IF slab_is_full(h.slab[a])
       THEN [h1 EXCEPT !.used_slabs[l] = slab_list_remove(@, a),
                       !.free_slabs[l] = slab_list_insert(@, a)]
       ELSE h1

\* The slab is now empty, was not full, and may go.
ReleasesSlab(h, l, addr) ==
    LET a == SlabOf(l, addr)
    IN /\ ~slab_is_full(h.slab[a])
       /\ slab_is_empty(FreeInSlab(h, l, addr).slab[a])
       /\ ~slab_is_reserved(h.slab[a])

DropSlab(h, l, a) ==
    [h EXCEPT !.slab = [b \in DOMAIN @ \ {a} |-> @[b]],
              !.free_slabs[l] = slab_list_remove(@, a)]

\* kmalloc_init: sl_root and its only slab, reserved on slack memory.
Init ==
    /\ slab = [a \in {RootAddr} |-> [slab_init(Root) EXCEPT !.flags = {"SLAB_RESERVED"}]]
    /\ free_slabs = [l \in Lists |-> IF l = Root THEN <<RootAddr>> ELSE <<>>]
    /\ used_slabs = [l \in Lists |-> <<>>]
    /\ ready = {Root}
    /\ lock = [l \in Lists |-> NoCpu]
    /\ sl_lock = NoCpu
    /\ pc = [c \in Cpus |-> <<"idle">>]
    /\ objs = {}

Free(l) == lock[l] = NoCpu
Return(l, addr) == objs' = objs \cup ({<<l, addr>>} \ {<<l, NULL>>})

\* kmalloc_get_slab up to the test of sl_owner, under sl_lock.
kmalloc_get_slab(c, elem_size) ==
    /\ pc[c] = <<"idle">>
    /\ ceil_pow2(elem_size) \in Shifts \ ready
    /\ sl_lock = NoCpu
    /\ sl_lock' = c
    /\ pc' = [pc EXCEPT ![c] = <<"slab_list_init", ceil_pow2(elem_size)>>]
    /\ UNCHANGED <<slab, free_slabs, used_slabs, ready, lock, objs>>

slab_list_init(c) ==
    /\ pc[c][1] = "slab_list_init"
    /\ LET l == pc[c][2]
       IN /\ ready' = ready \cup {l}
          /\ free_slabs' = [free_slabs EXCEPT ![l] = <<>>]
          /\ used_slabs' = [used_slabs EXCEPT ![l] = <<>>]
          /\ lock' = [lock EXCEPT ![l] = NoCpu]
    /\ sl_lock' = NoCpu
    /\ pc' = [pc EXCEPT ![c] = <<"idle">>]
    /\ UNCHANGED <<slab, objs>>

\* slab_list_alloc of a list with a free slab, or of sl_root, for which
\* sys_alloc_page has no memory.
slab_list_alloc(c, l) ==
    /\ pc[c] = <<"idle">> /\ Free(l)
    /\ \/ /\ free_slabs[l] # <<>>
          /\ SetHeap(AllocHead(Heap, l))
          /\ Return(l, HeadAddr(Heap, l))
       \/ /\ free_slabs[l] = <<>> /\ l = Root
          /\ Return(l, NULL)
          /\ UNCHANGED <<slab, free_slabs, used_slabs>>
    /\ UNCHANGED <<ready, lock, sl_lock, pc>>

\* slab_list_alloc of a list without a free slab keeps the list's lock.
slab_list_alloc_more(c, l) ==
    /\ pc[c] = <<"idle">> /\ Free(l) /\ l # Root
    /\ free_slabs[l] = <<>>
    /\ lock' = [lock EXCEPT ![l] = c]
    /\ pc' = [pc EXCEPT ![c] = <<"owner", l>>]
    /\ UNCHANGED <<slab, free_slabs, used_slabs, ready, sl_lock, objs>>

\* It gets a chunk from sl_root, under sl_root's lock as well.
slab_list_alloc_new(c) ==
    /\ pc[c][1] = "owner" /\ Free(Root)
    /\ LET l == pc[c][2]
       IN /\ IF free_slabs[Root] = <<>>
             THEN Return(l, NULL) /\ UNCHANGED <<slab, free_slabs, used_slabs>>
             ELSE LET p == HeadAddr(Heap, Root)
                  IN /\ SetHeap(AllocNew(AllocHead(Heap, Root), l, p))
                     /\ Return(l, p + slab_init(l).free_list * 2^ChunkShift(l))
          /\ lock' = [lock EXCEPT ![l] = NoCpu]
    /\ pc' = [pc EXCEPT ![c] = <<"idle">>]
    /\ UNCHANGED <<ready, sl_lock>>

slab_list_free(c, l, addr) ==
    /\ pc[c] = <<"idle">> /\ Free(l)
    /\ <<l, addr>> \in objs
    /\ objs' = objs \ {<<l, addr>>}
    /\ IF ReleasesSlab(Heap, l, addr)
       THEN /\ SetHeap(DropSlab(FreeInSlab(Heap, l, addr), l, SlabOf(l, addr)))
            /\ lock' = [lock EXCEPT ![l] = c]
            /\ pc' = [pc EXCEPT ![c] = <<"give", l, SlabOf(l, addr)>>]
       ELSE /\ SetHeap(FreeInSlab(Heap, l, addr))
            /\ UNCHANGED <<lock, pc>>
    /\ UNCHANGED <<ready, sl_lock>>

\* The empty slab goes back to sl_root.
slab_list_free_owner(c) ==
    /\ pc[c][1] = "give" /\ Free(Root)
    /\ SetHeap(FreeInSlab(Heap, Root, pc[c][3]))
    /\ lock' = [lock EXCEPT ![pc[c][2]] = NoCpu]
    /\ pc' = [pc EXCEPT ![c] = <<"idle">>]
    /\ UNCHANGED <<ready, sl_lock, objs>>

\* The bound, which does not keep a call from failing.
MayCall(l) ==
    \/ Cardinality(objs) < MaxObjs
    \/ free_slabs[l] = <<>> /\ free_slabs[Root] = <<>>

Call(c) ==
    \/ \E n \in Elems : kmalloc_get_slab(c, n)
    \/ \E l \in ready : MayCall(l) /\ (slab_list_alloc(c, l) \/ slab_list_alloc_more(c, l))
    \/ \E o \in objs : slab_list_free(c, o[1], o[2])
Finish(c) == slab_list_init(c) \/ slab_list_alloc_new(c) \/ slab_list_free_owner(c)

Next == \E c \in Cpus : Call(c) \/ Finish(c)
Spec == Init /\ [][Next]_vars
-------------------------------------------------------------------------------
Chain(s) ==
    LET walk[n \in 0..s.num_chunks] ==
            IF n = 0 THEN <<s.free_list>>
            ELSE IF Last(walk[n-1]) = 0 THEN walk[n-1]
            ELSE Append(walk[n-1], s.chunk_list[Last(walk[n-1])])
    IN walk[s.num_chunks]

ListOf(a) ==
    CHOOSE l \in Lists : a \in ToSet(free_slabs[l]) \cup ToSet(used_slabs[l])

\* What has been taken from sl_root and not been returned: objects, slabs of the
\* other lists, and a slab on its way back.
TakenFrom(l) ==
    {o[2] : o \in {x \in objs : x[1] = l}} \cup
    (IF l = Root THEN (DOMAIN slab \ {RootAddr}) \cup
                      {pc[c][3] : c \in {d \in Cpus : pc[d][1] = "give"}} ELSE {})

\* The free chain of each slab has each chunk that nobody has taken, once, and
\* num_free counts them; a slab is on free_slabs if it has such a chunk and on
\* used_slabs if it has none. A slab in which nobody has a chunk is not kept, and
\* its chunk goes back to sl_root.
SlabsExact ==
    \A a \in DOMAIN slab :
        LET s == slab[a]
            l == ListOf(a)
            chain == SelectSeq(Chain(s), LAMBDA i : i # 0)
            taken == {(x - a) \div 2^ChunkShift(l) : x \in {y \in TakenFrom(l) : SlabOf(l, y) = a}}
        IN /\ ToSet(chain) = (s.num_reserved..s.num_chunks-1) \ taken
           /\ Len(chain) = s.num_free /\ Last(Chain(s)) = 0
           /\ (s.num_free > 0) <=> (a \in ToSet(free_slabs[l]))
           /\ (s.num_free = 0) <=> (a \in ToSet(used_slabs[l]))
           /\ slab_is_empty(s) => slab_is_reserved(s)

Bytes(l, a) == a..(a + 2^ChunkShift(l) - 1)
HeaderBytes(a) == a..(a + HEADER + slab[a].num_chunks - 1)

\* Objects in use never overlap each other or the header of a slab: no chunk is
\* handed out twice, by one list or by a list and the slab inside one of its chunks.
ObjectsDisjoint ==
    /\ \A o, p \in objs : o = p \/ Bytes(o[1], o[2]) \cap Bytes(p[1], p[2]) = {}
    /\ \A o \in objs, a \in DOMAIN slab : Bytes(o[1], o[2]) \cap HeaderBytes(a) = {}
===============================================================================
