------------------------------- MODULE BootMem -------------------------------
(* Memory while the kernel boots: the boot page tables of vm_boot.c, the slack *)
(* memory after the kernel's image (kernel.c), and the page database that is   *)
(* made from them, in the order of kernel_main. Addresses are in units of      *)
(* which PAGE_2M_SIZE make a page; a virtual page number is the three table    *)
(* indices in base PDIR_NUM_ENTRIES.                                           *)
EXTENDS PageDbOps, FiniteSets

CONSTANTS
    PDIR_NUM_ENTRIES,   \* 512
    BOOT_PAGES_TOP,     \* table pages, numbered from BOOT_PML4 on
    KernelEnds,         \* possible ends of the image
    MmapTop,            \* end of available memory
    Sizes,              \* possible sizes of the page database and the page hash
    FbPages,            \* 2M pages at which the framebuffer may begin
    LocalApics,         \* addresses the MADT may give for the local APIC
    IoApics,            \* and for the I/O APIC
    RsdtAddrs,          \* addresses of the ACPI root table
    OwnedMax            \* bound on pages that somebody has

E == PDIR_NUM_ENTRIES
NONE == -1
BOOT_PML4 == 0
BOOT_PD == 1
BOOT_PDP_HI == 2
BOOT_PDP_LO == 3
BOOT_PAGE_NEXT == 4

PML_INDEX(v) == v \div (E * E)
PDP_INDEX(v) == (v \div E) % E
PAGE_2M_INDEX(v) == v % E

\* The page of KERNEL_VADDR(x): the top 2G of the address space.
KERNEL_PAGE == ((E - 1) * E + (E - 2)) * E
Kernel(p) == KERNEL_PAGE + p

VARIABLES
    pt,             \* the boot page tables: tab, entries or NONE, and boot_page
    kernel_top,     \* boot_info
    kernel_slack,
    page_db,        \* the database, or NONE before vm_page_init
    apic,           \* local_apic_addr and io_apic_addr, 0 until registered
    at,             \* the next call of kernel_main
    panic,          \* a check has failed
    owned,          \* addresses of pages handed out and not returned
    asked,          \* history: <<virtual, physical>> pages mapped and not unmapped
    areas,          \* history: slack areas handed out, <<first, end>>
    cut             \* history: mapped pages that acpi_init unmapped, <<virtual, physical>>

vars == <<pt, kernel_top, kernel_slack, page_db, apic, at, panic, owned, asked, areas, cut>>

\* bootstrap: the kernel's pages in one directory, for the low and the high half.
BootTables(n) ==
    [t \in 0..BOOT_PAGES_TOP-1 |-> [i \in 0..E-1 |->
        CASE t = BOOT_PML4 /\ i = 0 -> BOOT_PDP_LO
          [] t = BOOT_PML4 /\ i = E - 1 -> BOOT_PDP_HI
          [] t = BOOT_PDP_LO /\ i = 0 -> BOOT_PD
          [] t = BOOT_PDP_HI /\ i = E - 2 -> BOOT_PD
          [] t = BOOT_PD /\ i < n -> i
          [] OTHER -> NONE]]

kernel_init(kernel_end) ==
    /\ kernel_top = PAGE_2M_ROUND(kernel_end)
    /\ kernel_slack = kernel_end
    /\ pt = [tab |-> BootTables(PAGE_2M_NUM(kernel_end)), boot_page |-> BOOT_PAGE_NEXT]
    /\ asked = {<<Kernel(p), p>> : p \in 0..PAGE_2M_NUM(kernel_end)-1}

Init ==
    /\ \E kernel_end \in KernelEnds : kernel_init(kernel_end)
    /\ page_db = NONE
    /\ apic = [local |-> 0, io |-> 0]
    /\ at = "console_init"
    /\ panic = FALSE
    /\ owned = {}
    /\ areas = {}
    /\ cut = {}

EnsureBadShared(m, t, i) ==
    IF m.tab[t][i] # NONE THEN m ELSE [m EXCEPT !.tab[t][i] = m.boot_page]

\* Entry i of table t, with a new table from boot_page_alloc if it is not present.
Ensure(m, t, i) ==
    IF m.tab[t][i] # NONE THEN m
    ELSE [m EXCEPT !.tab = [@ EXCEPT ![t][i] = m.boot_page,
                                     ![m.boot_page] = [k \in 0..E-1 |-> NONE]],
                   !.boot_page = @ + 1]

vm_boot_map_page(m, v, p) ==
    LET m1 == Ensure(m, BOOT_PML4, PML_INDEX(v))
        pdp == m1.tab[BOOT_PML4][PML_INDEX(v)]
        m2 == Ensure(m1, pdp, PDP_INDEX(v))
        pd == m2.tab[pdp][PDP_INDEX(v)]
    IN [m2 EXCEPT !.tab[pd][PAGE_2M_INDEX(v)] = p]

\* The page tables' entry for virtual page v, NONE if a table is missing.
Lookup(m, v) ==
    LET pdp == m.tab[BOOT_PML4][PML_INDEX(v)]
        pd == IF pdp = NONE THEN NONE ELSE m.tab[pdp][PDP_INDEX(v)]
    IN IF pd = NONE THEN NONE ELSE m.tab[pd][PAGE_2M_INDEX(v)]

vm_boot_unmap_page(m, v) ==
    IF Lookup(m, v) = NONE THEN m
    ELSE LET pd == m.tab[m.tab[BOOT_PML4][PML_INDEX(v)]][PDP_INDEX(v)]
         IN [m EXCEPT !.tab[pd][PAGE_2M_INDEX(v)] = NONE]

\* The number of pages that a range of bytes touches.
RangePages(addr, size) == PAGE_2M_NUM(size + (addr % PAGE_2M_SIZE))

MapPages(m, v, p, n) ==
    LET f[k \in 0..n] == IF k = 0 THEN m ELSE vm_boot_map_page(f[k-1], v + k - 1, p + k - 1)
    IN f[n]

\* Identity mapping, as all callers but kernel_slack_alloc use it.
vm_boot_map_range(m, addr, size) ==
    LET p == addr \div PAGE_2M_SIZE IN MapPages(m, p, p, RangePages(addr, size))

vm_boot_unmap_range(m, addr, size) ==
    LET p == addr \div PAGE_2M_SIZE
        f[k \in 0..RangePages(addr, size)] ==
            IF k = 0 THEN m ELSE vm_boot_unmap_page(f[k-1], p + k - 1)
    IN f[RangePages(addr, size)]

\* The pages an identity mapping of [addr, addr + size) is asked for.
Identity(addr, size) ==
    {<<p, p>> : p \in (addr \div PAGE_2M_SIZE)..((addr + size - 1) \div PAGE_2M_SIZE)}

\* The low and the high half share the directory BOOT_PD.
Alias(a) ==
    IF a[1] < E THEN {a, <<Kernel(a[1]), a[2]>>}
    ELSE IF a[1] \div E = KERNEL_PAGE \div E THEN {a, <<a[1] - KERNEL_PAGE, a[2]>>}
    ELSE {a}
Aliases(S) == UNION {Alias(a) : a \in S}

\* Pages are mapped for somebody.
Asks(S) == asked' = asked \cup S /\ cut' = cut \ Aliases(S)

Align(x, align) == ((x + align - 1) \div align) * align

kernel_slack_allocBadRound(size, align) ==
    LET slack == Align(kernel_slack, align)
        top == slack + size
        more == top - kernel_top - ((top - kernel_top) % PAGE_2M_SIZE)
    IN /\ IF top > kernel_top
          THEN /\ kernel_top' = kernel_top + more
               /\ LET p == kernel_top \div PAGE_2M_SIZE
                  IN /\ pt' = MapPages(pt, Kernel(p), p, more \div PAGE_2M_SIZE)
                     /\ Asks({<<Kernel(q), q>> : q \in p..(p + more \div PAGE_2M_SIZE - 1)})
          ELSE UNCHANGED <<kernel_top, pt, asked, cut>>
       /\ kernel_slack' = top
       /\ areas' = areas \cup {<<slack, top>>}

kernel_slack_alloc(size, align) ==
    LET slack == Align(kernel_slack, align)
        top == slack + size
        more == PAGE_2M_ROUND(top - kernel_top)
    IN /\ IF top > kernel_top
          THEN /\ kernel_top' = kernel_top + more
               /\ LET p == kernel_top \div PAGE_2M_SIZE
                  IN /\ pt' = MapPages(pt, Kernel(p), p, more \div PAGE_2M_SIZE)
                     /\ Asks({<<Kernel(q), q>> : q \in p..(p + more \div PAGE_2M_SIZE - 1)})
          ELSE UNCHANGED <<kernel_top, pt, asked, cut>>
       /\ kernel_slack' = top
       /\ areas' = areas \cup {<<slack, top>>}

\* The k-th smallest of a set of numbers.
Nth(S, k) == CHOOSE x \in S : Cardinality({y \in S : y <= x}) = k

Call(now, next) == at = now /\ ~panic /\ at' = next

fb_cons_init ==
    /\ Call("console_init", "vm_page_init")
    /\ \E p \in FbPages, size \in {PAGE_2M_SIZE, 2 * PAGE_2M_SIZE} :
        /\ pt' = vm_boot_map_range(pt, p * PAGE_2M_SIZE, size)
        /\ Asks(Identity(p * PAGE_2M_SIZE, size))
    /\ UNCHANGED <<kernel_top, kernel_slack, page_db, apic, panic, owned, areas>>

vm_page_init ==
    /\ Call("vm_page_init", "vm_hash_init")
    /\ \E db_size \in Sizes : kernel_slack_alloc(db_size, 1)
    /\ page_db' = page_db_init(MmapTop, kernel_top')
    /\ UNCHANGED <<apic, panic, owned>>

vm_hash_init ==
    /\ Call("vm_hash_init", "acpi_init")
    /\ \E size \in Sizes : kernel_slack_alloc(size, 1)
    /\ UNCHANGED <<page_db, apic, panic, owned>>

\* The root table is mapped, first its header and then all of it, and unmapped again with
\* its pages, whoever else has mapped them. With a good checksum it is parsed, and if it
\* leads to a MADT that registers the APICs' addresses.
acpi_init_tables(addr, length) ==
    LET m == vm_boot_map_range(vm_boot_map_range(pt, addr, 1), addr, length)
        gone == Aliases(Identity(addr, length))
    IN /\ pt' = vm_boot_unmap_range(m, addr, length)
       /\ asked' = {a \in asked : Alias(a) \cap gone = {}}
       /\ cut' = cut \cup (Aliases(asked) \cap gone)
       /\ \/ UNCHANGED apic
          \/ \E l \in LocalApics : apic' = [apic EXCEPT !.local = l]
          \/ \E l \in LocalApics, io \in IoApics : apic' = [local |-> l, io |-> io]

acpi_init ==
    /\ Call("acpi_init", "kmalloc_init")
    /\ \/ \E addr \in RsdtAddrs, length \in 1..PAGE_2M_SIZE : acpi_init_tables(addr, length)
       \/ UNCHANGED <<pt, asked, cut, apic>>       \* no RSDP, or a bad checksum
    /\ UNCHANGED <<kernel_top, kernel_slack, page_db, panic, owned, areas>>

kmalloc_init ==
    /\ Call("kmalloc_init", "vm_boot_sync")
    /\ kernel_slack_alloc(PAGE_2M_SIZE, PAGE_2M_SIZE)
    /\ UNCHANGED <<page_db, apic, panic, owned>>

MappedPages(m) == {v \in 0..(E * E * E - 1) : Lookup(m, v) # NONE}

\* The database after the tables have been walked in ascending order.
SyncDb(m, db) ==
    LET mapped == MappedPages(m)
        f[k \in 0..Cardinality(mapped)] ==
            IF k = 0 THEN db ELSE page_db_reserve_page(f[k-1], Lookup(m, Nth(mapped, k)))
    IN f[Cardinality(mapped)]

\* The walk makes no page used, so the checks are those on the database it begins with.
SyncCheck(m, db) == \A v \in MappedPages(m) : ReserveCheck(db, Lookup(m, v))

vm_boot_sync ==
    /\ Call("vm_boot_sync", "io_apic_init")
    /\ panic' = ~SyncCheck(pt, page_db)
    /\ page_db' = SyncDb(pt, page_db)
    /\ UNCHANGED <<pt, kernel_top, kernel_slack, apic, owned, asked, areas, cut>>

\* cpu_init: an APIC's page is mapped when the database has been made. An address that
\* was not registered is 0.
MapApic(addr) ==
    /\ pt' = vm_boot_map_range(pt, addr, 1)
    /\ Asks(Identity(addr, 1))
    /\ UNCHANGED <<kernel_top, kernel_slack, page_db, apic, panic, owned, areas>>
io_apic_init == Call("io_apic_init", "local_apic_init") /\ MapApic(apic.io)
local_apic_init == Call("local_apic_init", "run") /\ MapApic(apic.local)

\* Whoever needs a page once the kernel runs, and gives it back by the index that
\* page_db_addr2index finds for its address.
alloc_addr ==
    /\ at = "run" /\ ~panic
    /\ Cardinality(owned) < OwnedMax
    /\ panic' = ~AllocCheck(page_db)
    /\ page_db' = IF panic' THEN page_db ELSE page_db_alloc(page_db)
    /\ owned' = owned \cup ({page_db_alloc_addr(page_db)} \ {0})
    /\ UNCHANGED <<pt, kernel_top, kernel_slack, apic, at, asked, areas, cut>>

free(addr) ==
    LET i == page_db_addr2index(addr)
    IN /\ at = "run" /\ ~panic
       /\ panic' = ~FreeCheck(page_db, i)
       /\ page_db' = IF panic' THEN page_db ELSE page_db_free(page_db, i)
       /\ owned' = owned \ {addr}
       /\ UNCHANGED <<pt, kernel_top, kernel_slack, apic, at, asked, areas, cut>>

Booted == at = "run" /\ UNCHANGED vars

Next ==
    \/ fb_cons_init \/ vm_page_init \/ vm_hash_init \/ acpi_init
    \/ kmalloc_init \/ vm_boot_sync \/ io_apic_init \/ local_apic_init
    \/ alloc_addr \/ Booted
    \/ \E addr \in owned : free(addr)
Spec == Init /\ [][Next]_vars
-----------------------------------------------------------------------------
\* What pml4_dump prints: the mapped pages.
pml4_dump(m) == {<<v, Lookup(m, v)>> : v \in MappedPages(m)}

\* The tables map what was asked for and not unmapped again, and nothing else,
\* except that each of the first E pages appears in both halves: vm_boot_map_page
\* gives no table page to two directories, and no mapping or unmapping reaches
\* another page, in the order in which kernel_main has them made.
TablesExact == pml4_dump(pt) = Aliases(asked)

\* Areas from kernel_slack_alloc do not overlap, and each lies in memory that is
\* mapped in the kernel's half, the area that kmalloc_init gets over pages that
\* acpi_init has unmapped included. The exception is what acpi_init has cut out of an
\* earlier area, because the root table lay in a 2M page with it.
SlackUsable ==
    /\ \A a, b \in areas : a = b \/ a[2] <= b[1] \/ b[2] <= a[1]
    /\ \A a \in areas : \A p \in (a[1] \div PAGE_2M_SIZE)..((a[2] - 1) \div PAGE_2M_SIZE) :
        Lookup(pt, Kernel(p)) = p \/ <<Kernel(p), p>> \in cut

\* The page of an APIC.
ApicPage(a) == a \div PAGE_2M_SIZE

\* vm_boot_sync marks all pages mapped so far as reserved, as its comment says: once
\* the kernel runs the only pages that are mapped and may be handed out are those of the
\* APICs, which cpu_init maps afterwards. page_db_reserve_page finds the page before the
\* one it unlinks although links of pages reserved earlier are stale, and the list stays
\* exact through every allocation and return; no check() fails.
MappedReserved ==
    /\ at = "run" =>
        /\ \A a \in pml4_dump(pt) : a[2] < page_db.num_pages =>
                a[2] \in ReservedPages(page_db) \cup {ApicPage(apic.io), ApicPage(apic.local)}
        /\ OnList(page_db) = FreePages(page_db)
    /\ ~panic

\* Before vm_page_init all memory is available.
NoDb == at \in {"console_init", "vm_page_init"}
PS == INSTANCE PageSet WITH
        avail <- IF NoDb THEN 0..(MmapTop \div PAGE_2M_SIZE - 1) ELSE FreePages(page_db),
        used <- {page_db_addr2index(addr) : addr \in owned}

\* The boot only withdraws pages; after it, every step hands out a page that was free
\* and belongs to nobody, or takes back the one whose address is returned
\* (page_db_alloc_addr, page_db_addr2index, page_db_free): none is lost.
ImplementsPageSet == PS!Spec
==============================================================================
