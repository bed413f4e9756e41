CONSTANTS
    PAGE_2M_SIZE = 4
    PDIR_NUM_ENTRIES = 7
    BOOT_PAGES_TOP = 10
    KernelEnds = {4, 5}
    MmapTop = 44
    Sizes = {1, 4, 6}
    FbPages = {6, 13, 14}
    LocalApics = {36, 206}
    IoApics = {32, 202}
    RsdtAddrs = {15, 23, 30, 42}
    OwnedMax = 3
SPECIFICATION Spec
INVARIANTS TablesExact SlackUsable MappedReserved
PROPERTIES ImplementsPageSet
