CONSTANTS
    Cpus = {c1, c2}
    MIN_SL_SHIFT = 1
    MAX_SL_SHIFT = 2
    KMALLOC_SHIFT = 4
    ROOT_SHIFT = 6
    HEADER = 2
    Elems = {2, 3, 4, 5}
    MaxObjs = 3
SPECIFICATION Spec
SYMMETRY CpuSymmetry
INVARIANTS SlabsExact ObjectsDisjoint
