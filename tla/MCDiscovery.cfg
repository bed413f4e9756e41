SPECIFICATION DiscoverySpec
CONSTANTS
    MAX_CPUS = 2
    MAX_IO_APIC_IOVR = 2
    BOOT_INFO_MMAP_MAX = 3
    OtherPort = {"zero", "ones", "mem32", "mem64"}
    PCI_MAX_DEV = 2
    PCI_MAX_FUNC = 3
    PCI_MAX_BARS = 2
    PCI_MAX_DEVICES = 6
    Platforms <- MCPlatforms
INVARIANTS InStep KnowsTables ScanFindsAll
