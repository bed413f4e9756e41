--------------------------------- MODULE Pci ---------------------------------
(* pci_init(): the scan of the PCI bus through the configuration ports. A     *)
(* register is its offset; a base address register has one of a few values,   *)
(* told apart by their low bits. pci_read_8 and pci_read_16 read at the data  *)
(* port plus the low bits of the offset, pci_read_32 at the data port plus    *)
(* the whole offset: for a base address register that is the port of no PCI   *)
(* register, and what it reads is any of OtherPort.                           *)
EXTENDS Integers, Sequences, FiniteSets

CONSTANTS
    OtherPort,          \* values of a port behind the configuration ports
    PCI_MAX_DEV,        \* devices, of all buses in the order of the scan
    PCI_MAX_FUNC, PCI_MAX_BARS,
    PCI_MAX_DEVICES     \* entries of pci_devices

ASSUME PciAssumption ==
    /\ PCI_MAX_DEV \in Nat /\ PCI_MAX_FUNC \in Nat \ {0} /\ PCI_MAX_BARS \in Nat
    /\ PCI_MAX_DEVICES \in Nat /\ OtherPort # {}

VARIABLES
    machine,        \* <<dev, func>> -> [vendor, multi, type]; all ones where nothing answers
    config,         \* the base address registers <<dev, func, bar>> that are as the firmware set them
    scan,           \* where pci_init is
    dev, func, n_func,
    bar_i,          \* the i of pci_read_bars
    pci_devices     \* the devices that were found

pcivars == <<machine, config, scan, dev, func, n_func, bar_i, pci_devices>>

ONES == "ones"      \* an I/O base address to the code: bit 0 is set
Slots == (0..PCI_MAX_DEV-1) \X (0..PCI_MAX_FUNC-1)

\* The registers the code reads right. Where nothing answers they are all ones, the bit for
\* several functions included.
Absent == [vendor |-> ONES, multi |-> TRUE, type |-> "none"]
vendor_id == machine[<<dev, func>>].vendor
multifunc == machine[<<dev, 0>>].multi
header_type == machine[<<dev, 0>>].type
\* pci_read_32 of a base address register: not the register of the device.
pci_read_32(b) == OtherPort

\* Any machine: a function that answers has a vendor.
IsMachine(m) ==
    /\ DOMAIN m = Slots
    /\ \A s \in Slots : m[s].multi \in BOOLEAN /\ (m[s] # Absent => m[s].vendor # ONES)

PciInit ==
    /\ IsMachine(machine)
    /\ config = {<<s[1], s[2], b>> : s \in Slots, b \in 0..PCI_MAX_BARS-1}
    /\ scan = "dev" /\ dev = 0 /\ func = 0 /\ n_func = 0 /\ bar_i = 0
    /\ pci_devices = <<>>

NumFunc == IF multifunc THEN PCI_MAX_FUNC ELSE 1
ScanDev ==
    /\ scan = "dev"
    /\ IF dev = PCI_MAX_DEV THEN scan' = "done" /\ UNCHANGED <<func, n_func>>
                            ELSE scan' = "func" /\ func' = 0 /\ n_func' = NumFunc
    /\ UNCHANGED <<machine, config, dev, bar_i, pci_devices>>
\* The table has no check: pci_devices[32] would be written behind its end.
ScanFuncBadStop ==
    /\ scan = "func" /\ func < n_func /\ Len(pci_devices) < PCI_MAX_DEVICES
    /\ IF vendor_id = ONES
       THEN scan' = "dev" /\ dev' = dev + 1 /\ UNCHANGED <<bar_i, func, pci_devices>>
       ELSE /\ scan' = "bars" /\ bar_i' = 0 /\ UNCHANGED <<dev, func>>
            /\ pci_devices' = Append(pci_devices,
                   [at |-> <<dev, func>>, vendor |-> vendor_id, type |-> header_type])
    /\ UNCHANGED <<machine, config, n_func>>
ScanFunc ==
    /\ scan = "func" /\ func < n_func /\ Len(pci_devices) < PCI_MAX_DEVICES
    /\ IF vendor_id = ONES THEN func' = func + 1 /\ UNCHANGED <<scan, bar_i, pci_devices>>
       ELSE /\ scan' = "bars" /\ bar_i' = 0 /\ UNCHANGED func
            /\ pci_devices' = Append(pci_devices,
                   [at |-> <<dev, func>>, vendor |-> vendor_id, type |-> header_type])
    /\ UNCHANGED <<machine, config, dev, n_func>>
NextDev == /\ scan = "func" /\ func = n_func /\ scan' = "dev" /\ dev' = dev + 1
           /\ UNCHANGED <<machine, config, func, n_func, bar_i, pci_devices>>

\* pci_bar_size: the register gets all ones and then what pci_read_32 read, which is not its value.
pci_bar_size(b) == config' = config \ {<<dev, func, b>>}
\* One round of the loop of pci_read_bars: the low bits of what was read decide. All ones is an
\* I/O address. (What is noted of a register in pci_devices is used nowhere, and left out.)
ReadBar ==
    /\ scan = "bars" /\ bar_i < PCI_MAX_BARS /\ header_type = "generic"
    /\ \E bar \in pci_read_32(bar_i) :
         \/ bar \in {"zero", "io", ONES} /\ bar_i' = bar_i + 1 /\ UNCHANGED config
         \/ bar = "mem32" /\ bar_i' = bar_i + 1 /\ pci_bar_size(bar_i)
         \/ bar = "mem64" /\ bar_i' = bar_i + 2 /\ pci_bar_size(bar_i)
    /\ UNCHANGED <<machine, scan, dev, func, n_func, pci_devices>>
BarsDone ==
    /\ scan = "bars" /\ (bar_i >= PCI_MAX_BARS \/ header_type # "generic")
    /\ scan' = "func" /\ func' = func + 1
    /\ UNCHANGED <<machine, config, dev, n_func, bar_i, pci_devices>>

pci_init == ScanDev \/ ScanFunc \/ NextDev \/ ReadBar \/ BarsDone

PciSpec == PciInit /\ [][pci_init]_pcivars

\* The scan is done when it has found every function of every device that has its function 0 there,
\* in the order of their addresses and each once; the other functions are looked at only for a
\* device whose function 0 says it has more than one.
Reachable == {s \in Slots : machine[s] # Absent /\ (s[2] = 0 \/ machine[<<s[1], 0>>].multi)}
Before(s, t) == s[1] < t[1] \/ (s[1] = t[1] /\ s[2] < t[2])
ScanFindsAll ==
    /\ \A k, l \in 1..Len(pci_devices) : k < l => Before(pci_devices[k].at, pci_devices[l].at)
    /\ {pci_devices[k].at : k \in 1..Len(pci_devices)} \subseteq Reachable
    /\ scan = "done" => {pci_devices[k].at : k \in 1..Len(pci_devices)} = Reachable
==============================================================================
