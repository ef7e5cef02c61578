SPECIFICATION Spec
CONSTANTS
    Procs = {p1}
    Hands = {h1, h2}
    Names = {a, b}
    Vals = {0, 1}
    BlockCount = 5
    SLOTS = 3
    CAP = 2
    NONE = NONE
SYMMETRY Symmetry
INVARIANTS  NewFileOpens
PROPERTY ImplementsFileStore
