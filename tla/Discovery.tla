----------------------------- MODULE Discovery ------------------------------
(* What kernel_main finds out about the machine, in its order: the boot tags, *)
(* the description tables, the PCI bus, and, where the call of imps_init is   *)
(* commented out, the MP table. A panic ends it.                              *)
EXTENDS FwTables, Pci

CONSTANT Platforms  \* pairs of a firmware and the functions of its PCI bus

DiscoveryInit == \E p \in Platforms : fw = p[1] /\ machine = p[2] /\ Init /\ PciInit

Tables == (Step \/ (scan = "done" /\ imps_init)) /\ UNCHANGED pcivars
Bus == pc = "up" /\ pci_init /\ UNCHANGED vars
\* A panic, or all is found: kernel_main goes on.
Finished == (pc = "panic" \/ (pc = "up" /\ scan = "done")) /\ UNCHANGED <<vars, pcivars>>
DiscoveryNext == Tables \/ Bus \/ Finished
DiscoverySpec == DiscoveryInit /\ [][DiscoveryNext]_<<vars, pcivars>>
=============================================================================
