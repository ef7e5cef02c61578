SPECIFICATION Spec
CONSTANTS
    Threads = {t1, t2}
    Nodes = {n1, n2, n3, n4}
    TD_HAND_MAX = 2
    COUNTMAX = 5
    NULL = NULL
SYMMETRY Symmetry
CHECK_DEADLOCK FALSE
INVARIANTS NodesExact CountExact OnlyMissingFileDies
PROPERTY ImplementsHandles
