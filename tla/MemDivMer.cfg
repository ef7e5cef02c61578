SPECIFICATION Spec
CONSTANTS
    KRNL = 7
    PROC = 1
    LMAX = 5
    PHYMSA_MAX = 4
    Wants = {1, 2, 3, 4}
    Busy <- SomeBusy
INVARIANTS Partition CountersExact Coalesced
PROPERTY ImplementsPageAlloc
CHECK_DEADLOCK FALSE
