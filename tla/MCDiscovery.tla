----------------------------- MODULE MCDiscovery -----------------------------
\* Machines that differ from a good one in their boot tags, in their ACPI root, in their APIC
\* tables or in their MP tables.
EXTENDS Discovery
Area(a, l, t) == [addr |-> a, len |-> l, type |-> t]
Tag(t, s, v) == [type |-> t, size |-> s, val |-> v]
End == Tag("end", 8, 0)
Mmap(m) == Tag("mmap", 16 + 24 * Len(m), m)
Tags == {Tag("cmdline", 11, 5), Tag("meminfo", 16, 7), Tag("fb", 31, 3), Tag("other", 9, 0),
         Mmap(<<Area(0, 4, 1), Area(8, 8, 1), Area(16, 4, 2)>>), Mmap(<<Area(4, 4, 1), Area(0, 2, 3)>>),
         Mmap(<<Area(0, 1, 2), Area(1, 1, 1), Area(2, 1, 1), Area(3, 1, 1)>>)}
Rsdp(g, s, r, x) == [sign |-> g, sum |-> s, revision |-> r, ext_sum |-> x]
RsdpSlots == {Rsdp(FALSE, 0, 0, 0), Rsdp(TRUE, 1, 0, 0), Rsdp(TRUE, 0, 0, 0), Rsdp(TRUE, 0, 1, 0),
          Rsdp(TRUE, 0, 2, 0), Rsdp(TRUE, 0, 2, 3)}
Entry(t, l, v) == [type |-> t, length |-> l, val |-> v]
Entries == {Entry("local_apic", 8, 1), Entry("local_apic", 8, 2), Entry("io_apic", 12, 9),
            Entry("override", 10, 4), Entry("nmi", 6, 0)}
Other == [sig |-> "FACP", entries |-> <<>>, local_ctrl_addr |-> 0]
Apic(e) == [sig |-> "APIC", entries |-> e, local_ctrl_addr |-> 6]
Mp == {[type |-> "processor", id |-> 1], [type |-> "bus", id |-> 2], [type |-> "io_apic", id |-> 3]}
Fps(g, l, r, s, a) == [sign |-> g, length |-> l, spec_rev |-> r, sum |-> s, config_table_addr |-> a]
FpsSlots == {Fps(FALSE, 1, 4, 0, 8), Fps(TRUE, 1, 4, 1, 8), Fps(TRUE, 1, 4, 0, 8), Fps(TRUE, 1, 4, 0, 0)}
Good == [tags |-> <<Tag("fb", 31, 3), End>>, rsdp |-> <<Rsdp(FALSE, 0, 0, 0), Rsdp(TRUE, 0, 0, 0)>>,
         rsdt |-> [sum |-> 0], sdts |-> <<Other, Apic(<<Entry("local_apic", 8, 1)>>)>>,
         fps |-> <<Fps(TRUE, 1, 4, 0, 8)>>, entries |-> <<[type |-> "processor", id |-> 1]>>]
MCFirmware ==
    {[Good EXCEPT !.tags = t \o <<End>>] : t \in SeqOf(Tags, 3)}
    \cup {[Good EXCEPT !.rsdp = r, !.rsdt.sum = s] : r \in SeqOf(RsdpSlots, 2), s \in {0, 1}}
    \cup {[Good EXCEPT !.sdts = <<Apic(e)>>] : e \in SeqOf(Entries, 4)}
    \cup {[Good EXCEPT !.sdts = <<Apic(e), Other, Apic(f)>>] : e, f \in SeqOf(Entries, 1)}
    \cup {[Good EXCEPT !.fps = f, !.entries = m] : f \in SeqOf(FpsSlots, 2), m \in SeqOf(Mp, 2)}

\* Two devices of three functions, each absent, a single function, or part of several.
Fn(m, t) == [vendor |-> "intel", multi |-> m, type |-> t]
Kinds == {Fn(FALSE, "generic"), Fn(TRUE, "generic"), Fn(FALSE, "bridge")}
Kinds1 == Fn(FALSE, "generic")
Fns == {f \in [0..2 -> Kinds \cup {Absent}] :
            /\ f[1] \in {Kinds1, Absent} /\ f[2] \in {Kinds1, Absent}
            /\ f[0] = Absent => f[1] = Absent /\ f[2] = Absent}
MCMachines == {[s \in (0..1) \X (0..2) |-> IF s[1] = 0 THEN f[s[2]] ELSE g[s[2]]] : f, g \in Fns}

\* Every firmware with one machine, and every machine behind one firmware.
OneMachine == [s \in Slots |-> IF s = <<0, 0>> THEN Fn(FALSE, "bridge") ELSE Absent]
MCPlatforms == (MCFirmware \X {OneMachine}) \cup ({Good} \X MCMachines)
=============================================================================
