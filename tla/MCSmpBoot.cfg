CONSTANTS
    Cpus = {0, 1, 2}
    Bsp = 0
    WAIT = 1
    Madt <- Madt3
SPECIFICATION BootSpec
INVARIANTS StacksDistinct TickNeedsThread
PROPERTIES BootFinishes
