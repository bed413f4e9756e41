------------------------------ MODULE FwTables ------------------------------
(* The tables the firmware and the boot loader leave for the kernel and the   *)
(* three loops that walk them: multiboot_init over the boot tags, acpi_init   *)
(* over the system description tables and the APIC table, and imps_init over  *)
(* the MP configuration table. A table lies in memory as items one after the  *)
(* other; a walker has an offset into it and goes on by what it believes the  *)
(* item's size is. The fault model is the firmware's: checksums may be wrong, *)
(* and there may be more entries than the kernel has room for.                *)
EXTENDS Integers, Sequences, FiniteSets, SequencesExt

CONSTANTS MAX_CPUS, MAX_IO_APIC_IOVR, BOOT_INFO_MMAP_MAX

ASSUME FwTablesAssumption == MAX_CPUS > 0 /\ BOOT_INFO_MMAP_MAX > 0

VARIABLES
    fw,             \* the tables of this machine
    pc,
    off,            \* the walker: tag, ptr or addr, from the first item of its table
    left,           \* entry_count
    sdt,            \* the i of acpi_parse_rsdt and acpi_parse_xsdt
    boot_info,      \* what multiboot_init fills in
    cpus, lapic,    \* local_apic.cpus and local_apic_addr (0 before it is known)
    ioapic,         \* io_apic.io_apic_addr
    iovr,           \* io_apic_iovr
    shown           \* history: the entries of the MP table imps_init has printed

vars == <<fw, pc, off, left, sdt, boot_info, cpus, lapic, ioapic, iovr, shown>>
apics == <<cpus, lapic, ioapic, iovr>>

\* Tags are padded to 8 bytes, the other tables are packed. An MP processor entry has 20 bytes.
Round8(n) == ((n + 7) \div 8) * 8
TagSpan(tag) == Round8(tag.size)
EntrySpan(e) == IF e.type = "processor" THEN 20 ELSE 8
Spans(items, Span(_)) ==
    LET upto[i \in 0..Len(items)] == IF i = 0 THEN 0 ELSE upto[i-1] + Span(items[i]) IN upto
\* The items that begin at offset o, and the size of the whole table.
AtOffset(items, Span(_), o) == {i \in 1..Len(items) : Spans(items, Span)[i-1] = o}
TableSize(items, Span(_)) == Spans(items, Span)[Len(items)]
Here(items, Span(_)) == items[CHOOSE i \in AtOffset(items, Span, off) : TRUE]
Length(e) == e.length

Madt == fw.sdts[sdt].entries

Init ==
    /\ pc = "multiboot" /\ off = 0 /\ left = 0 /\ sdt = 0
    /\ boot_info = [mmap |-> <<>>, mmap_top |-> 0, memory_size |-> 0, fb |-> 0, cmd_line |-> 0]
    /\ cpus = <<>> /\ lapic = 0 /\ ioapic = 0 /\ iovr = <<>> /\ shown = <<>>

\* multiboot_mmap: the entries in order; a check fails on one too many.
multiboot_mmap(mmap) ==
    LET ends == {mmap[i].addr + mmap[i].len : i \in {j \in 1..Len(mmap) : mmap[j].type = 1}}
    IN  [boot_info EXCEPT !.mmap = [i \in 1..Len(mmap) |-> [mmap[i] EXCEPT !.type = IF @ = 1 THEN 1 ELSE 0]],
                          !.mmap_top = CHOOSE t \in {0} \cup ends : \A e \in ends : e <= t]

\* One round of the loop of multiboot_init.
MultibootNextBadRound(tag) == off + tag.size
MultibootNext(tag) == off + Round8(tag.size)
MultibootTag ==
    /\ pc = "multiboot"
    /\ LET tag == Here(fw.tags, TagSpan) IN
       IF tag.type = "end" THEN pc' = "acpi" /\ off' = 0 /\ UNCHANGED boot_info
       ELSE IF tag.type = "mmap" /\ Len(tag.val) > BOOT_INFO_MMAP_MAX
       THEN pc' = "panic" /\ UNCHANGED <<off, boot_info>>
       ELSE /\ off' = MultibootNext(tag) /\ UNCHANGED pc
            /\ boot_info' = CASE tag.type = "cmdline" -> [boot_info EXCEPT !.cmd_line = tag.val]
                              [] tag.type = "meminfo" -> [boot_info EXCEPT !.memory_size = tag.val]
                              [] tag.type = "fb" -> [boot_info EXCEPT !.fb = tag.val]
                              [] tag.type = "mmap" -> multiboot_mmap(tag.val)
                              [] OTHER -> boot_info
    /\ UNCHANGED <<fw, left, sdt, apics, shown>>

\* The slots of 16 bytes with the signature; the search ends at the first, whatever its checksum.
acpi_find_rsdp ==
    LET found == {i \in 1..Len(fw.rsdp) : fw.rsdp[i].sign}
    IN  {i \in found : (\A j \in found : i <= j) /\ fw.rsdp[i].sum = 0}
acpi_sdt_checkBadSkip(t) == TRUE
acpi_sdt_check(t) == t.sum = 0
\* acpi_init up to the first description table.
RootTable(i) == CASE fw.rsdp[i].revision = 0 -> acpi_sdt_check(fw.rsdt)
                  [] fw.rsdp[i].revision = 2 -> fw.rsdp[i].ext_sum = 0 /\ acpi_sdt_check(fw.rsdt)
                  [] OTHER -> FALSE
acpi_init ==
    /\ pc = "acpi"
    /\ IF \E i \in acpi_find_rsdp : RootTable(i) THEN pc' = "sdt" /\ sdt' = 1
                                                 ELSE pc' = "up" /\ UNCHANGED sdt
    /\ UNCHANGED <<fw, off, left, boot_info, apics, shown>>

\* The next entry of the root table: an APIC table is walked, any other is passed over.
acpi_parse_sdt ==
    /\ pc = "sdt"
    /\ IF sdt > Len(fw.sdts) THEN pc' = "up" /\ UNCHANGED <<sdt, off, lapic>>
       ELSE IF fw.sdts[sdt].sig = "APIC"
       THEN pc' = "madt" /\ off' = 0 /\ lapic' = fw.sdts[sdt].local_ctrl_addr /\ UNCHANGED sdt
       ELSE sdt' = sdt + 1 /\ UNCHANGED <<pc, off, lapic>>
    /\ UNCHANGED <<fw, left, boot_info, cpus, ioapic, iovr, shown>>

\* One round of the loop of acpi_parse_madt.
MadtNext(e) == off + e.length
local_apic_add_cpu(id) ==
    IF Len(cpus) < MAX_CPUS THEN cpus' = Append(cpus, id) /\ UNCHANGED pc
                            ELSE pc' = "panic" /\ UNCHANGED cpus
io_apic_add_iovr(e) ==
    IF Len(iovr) < MAX_IO_APIC_IOVR THEN iovr' = Append(iovr, e.val) /\ UNCHANGED pc
                                    ELSE pc' = "panic" /\ UNCHANGED iovr
MadtEntry ==
    /\ pc = "madt" /\ off < TableSize(Madt, Length)
    /\ LET e == Here(Madt, Length) IN
       /\ off' = MadtNext(e)
       /\ CASE e.type = "local_apic" -> local_apic_add_cpu(e.val) /\ UNCHANGED <<ioapic, iovr>>
            [] e.type = "io_apic" -> ioapic' = e.val /\ UNCHANGED <<pc, cpus, iovr>>
            [] e.type = "override" -> io_apic_add_iovr(e) /\ UNCHANGED <<cpus, ioapic>>
            [] OTHER -> UNCHANGED <<pc, cpus, ioapic, iovr>>
    /\ UNCHANGED <<fw, left, sdt, boot_info, lapic, shown>>
MadtEnd ==
    /\ pc = "madt" /\ off >= TableSize(Madt, Length)
    /\ pc' = "sdt" /\ sdt' = sdt + 1 /\ off' = 0
    /\ UNCHANGED <<fw, left, boot_info, apics, shown>>

\* imps_find: the first valid structure of the three areas, which fw.fps lists one after the other.
imps_check_fps(f) == f.sign /\ f.length = 1 /\ f.spec_rev \in {1, 4} /\ f.sum = 0
imps_find == {i \in 1..Len(fw.fps) : imps_check_fps(fw.fps[i]) /\ \A j \in 1..i-1 : ~imps_check_fps(fw.fps[j])}
entry_count == Len(fw.entries)
imps_init ==
    /\ pc = "up" /\ shown = <<>>
    /\ \E i \in imps_find : fw.fps[i].config_table_addr # 0
    /\ pc' = "imps" /\ off' = 0 /\ left' = entry_count
    /\ UNCHANGED <<fw, sdt, boot_info, apics, shown>>

\* One round of the loop of imps_read_config_table.
ImpsNext(e) == off + (IF e.type = "processor" THEN 12 ELSE 0) + 8
ImpsEntry ==
    /\ pc = "imps" /\ left > 0 /\ left' = left - 1
    /\ LET e == Here(fw.entries, EntrySpan) IN off' = ImpsNext(e) /\ shown' = Append(shown, e)
    /\ UNCHANGED <<fw, pc, sdt, boot_info, apics>>
ImpsEnd == /\ pc = "imps" /\ left = 0 /\ pc' = "up" /\ off' = 0
           /\ UNCHANGED <<fw, left, sdt, boot_info, apics, shown>>

Step == MultibootTag \/ acpi_init \/ acpi_parse_sdt \/ MadtEntry \/ MadtEnd \/ ImpsEntry \/ ImpsEnd

\* A walker reads an item only at the byte where one begins, and stops at the end of its table:
\* the rounding of multiboot tags, the lengths of APIC entries and the two sizes of MP entries
\* match the layout of the tables.
InStep ==
    /\ pc = "multiboot" => AtOffset(fw.tags, TagSpan, off) # {}
    /\ pc = "madt" => off = TableSize(Madt, Length) \/ AtOffset(Madt, Length, off) # {}
    /\ pc = "imps" => IF left = 0 THEN off = TableSize(fw.entries, EntrySpan)
                                  ELSE AtOffset(fw.entries, EntrySpan, off) # {}

\* The boot information is what the last tag of each kind says, and mmap_top is the end of the
\* highest available memory.
Said(kind, none) == LET of == SelectSeq(fw.tags, LAMBDA t : t.type = kind)
                    IN  IF of = <<>> THEN none ELSE Last(of).val
BootInfoExact ==
    pc \notin {"multiboot", "panic"} =>
        LET avail == {i \in 1..Len(boot_info.mmap) : boot_info.mmap[i].type = 1}
            top(i) == boot_info.mmap[i].addr + boot_info.mmap[i].len
        IN  /\ boot_info.cmd_line = Said("cmdline", 0) /\ boot_info.fb = Said("fb", 0)
            /\ boot_info.memory_size = Said("meminfo", 0)
            /\ Len(boot_info.mmap) = Len(Said("mmap", <<>>))
            /\ \A i \in avail : top(i) <= boot_info.mmap_top
            /\ boot_info.mmap_top # 0 => \E i \in avail : boot_info.mmap_top = top(i)

\* The processors, the overrides and the APICs are those of every APIC table, in order, if the root
\* pointer and the root table are valid.
Valid == \E i \in 1..Len(fw.rsdp) :
             /\ fw.rsdp[i].sign /\ fw.rsdp[i].sum = 0 /\ \A j \in 1..i-1 : ~fw.rsdp[j].sign
             /\ fw.rsdt.sum = 0
             /\ fw.rsdp[i].revision = 0 \/ (fw.rsdp[i].revision = 2 /\ fw.rsdp[i].ext_sum = 0)
Listed(kind) ==
    LET table(s) == IF s.sig = "APIC" THEN SelectSeq(s.entries, LAMBDA e : e.type = kind) ELSE <<>>
        all == FlattenSeq([k \in 1..Len(fw.sdts) |-> table(fw.sdts[k])])
    IN  IF Valid THEN [k \in 1..Len(all) |-> all[k].val] ELSE <<>>
ApicsExact ==
    pc \in {"up", "imps"} =>
        /\ cpus = Listed("local_apic") /\ iovr = Listed("override")
        /\ ioapic = IF Listed("io_apic") = <<>> THEN 0 ELSE Last(Listed("io_apic"))
        /\ lapic # 0 <=> Valid /\ \E k \in 1..Len(fw.sdts) : fw.sdts[k].sig = "APIC"

Full ==
    \/ Len(Listed("local_apic")) > MAX_CPUS \/ Len(Listed("override")) > MAX_IO_APIC_IOVR
    \/ \E i \in 1..Len(fw.tags) : fw.tags[i].type = "mmap" /\ Len(fw.tags[i].val) > BOOT_INFO_MMAP_MAX

\* What the kernel knows is what the tables say: multiboot_init leaves in boot_info what the last
\* tag of each kind holds, and a mmap_top above which there is no available memory; acpi_init
\* takes the processors and overrides of every APIC table, each once, and nothing from behind a
\* wrong checksum; imps_init shows every MP entry. The kernel gives up only for a machine that
\* has more than it has room for.
KnowsTables ==
    /\ BootInfoExact /\ ApicsExact
    /\ pc = "up" /\ shown # <<>> => shown = fw.entries
    /\ pc = "panic" => Full
=============================================================================
