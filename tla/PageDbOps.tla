----------------------------- MODULE PageDbOps -----------------------------
(* vm_page.c and vm_page.h as operators on the database of 2M pages, a record *)
(* with the fields of struct page_db_t; flags and next are those of pages[].  *)
EXTENDS Integers

CONSTANT PAGE_2M_SIZE   \* 2^21 in the code

ASSUME PageAssumption == PAGE_2M_SIZE \in Nat \ {0}

PGF_FREE == 0
PGF_USED == 1
PGF_RESERVED == 2

PAGE_2M_NUM(x) == (x + PAGE_2M_SIZE - 1) \div PAGE_2M_SIZE
PAGE_2M_ROUND(x) == PAGE_2M_NUM(x) * PAGE_2M_SIZE

\* Reserved pages first, the others free and chained in ascending order.
page_db_init_pages(num_pages, num_reserved) ==
    [flags |-> [i \in 0..num_pages-1 |-> IF i < num_reserved THEN PGF_RESERVED ELSE PGF_FREE],
     next |-> [i \in 0..num_pages-1 |-> IF i < num_reserved THEN 0 ELSE (i + 1) % num_pages]]

page_db_init(memory_size, reserved_size) ==
    LET num_pages == memory_size \div PAGE_2M_SIZE
        num_reserved == PAGE_2M_NUM(reserved_size)
        p == page_db_init_pages(num_pages, num_reserved)
    IN [num_pages |-> num_pages, num_free |-> num_pages - num_reserved,
        num_reserved |-> num_reserved, free_list |-> num_reserved,
        flags |-> p.flags, next |-> p.next]

FreePages(db) == {i \in DOMAIN db.flags : db.flags[i] = PGF_FREE}
ReservedPages(db) == {i \in DOMAIN db.flags : db.flags[i] = PGF_RESERVED}

\* The checks of page_db_alloc and page_db_free, which panic when they fail.
AllocCheck(db) == db.free_list > 0 => db.flags[db.free_list] = PGF_FREE
FreeCheck(db, i) ==
    /\ i >= db.num_reserved /\ i < db.num_pages
    /\ db.flags[i] # PGF_FREE

\* The index page_db_alloc returns is db.free_list, 0 for failure.
page_db_alloc(db) ==
    IF db.free_list = 0 THEN db
    ELSE [db EXCEPT !.free_list = db.next[db.free_list],
                    !.flags[db.free_list] = PGF_USED, !.num_free = @ - 1]

page_db_free(db, i) ==
    [db EXCEPT !.flags[i] = PGF_FREE, !.next[i] = db.free_list,
               !.free_list = i, !.num_free = @ + 1]

page_db_index2addr(index) == index * PAGE_2M_SIZE
page_db_addr2index(addr) == addr \div PAGE_2M_SIZE

page_db_alloc_addrBadNext(db) ==
    IF db.free_list > 0 THEN page_db_index2addr(db.next[db.free_list]) ELSE 0

\* page_db_alloc_addr: 0 for failure.
page_db_alloc_addr(db) == IF db.free_list > 0 THEN page_db_index2addr(db.free_list) ELSE 0

\* The first page of the scan that links to page i.
Predecessors(db, i) == {k \in db.num_reserved..db.num_pages-1 : db.next[k] = i}
FirstPredecessorBadLast(db, i) ==
    CHOOSE k \in Predecessors(db, i) : \A j \in Predecessors(db, i) : j <= k

FirstPredecessor(db, i) ==
    CHOOSE k \in Predecessors(db, i) : \A j \in Predecessors(db, i) : k <= j

ReserveCheck(db, i) ==
    i < db.num_pages /\ db.flags[i] # PGF_RESERVED => db.flags[i] = PGF_FREE

\* The first free page moves the boundary num_reserved; another is unlinked. The
\* link of an unlinked page stays, and num_free is not changed by either.
page_db_reserve_page(db, i) ==
    IF i >= db.num_pages \/ db.flags[i] = PGF_RESERVED THEN db
    ELSE IF i = db.num_reserved
         THEN [db EXCEPT !.flags[i] = PGF_RESERVED, !.next[i] = 0,
                         !.num_reserved = @ + 1, !.free_list = db.num_reserved + 1]
    ELSE IF Predecessors(db, i) = {} THEN db
         ELSE LET k == FirstPredecessor(db, i)
              IN [db EXCEPT !.next[k] = db.next[i], !.flags[i] = PGF_RESERVED]

\* page_db_dump_free_list: the pages met by following next from free_list.
ListStep(db, s) == s \cup {db.next[i] : i \in s \ {0}}
OnList(db) ==
    LET walk[n \in 0..db.num_pages] ==
            IF n = 0 THEN {db.free_list} ELSE ListStep(db, walk[n - 1])
    IN walk[db.num_pages] \ {0}
=============================================================================
