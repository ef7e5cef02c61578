SPECIFICATION Spec
CONSTANTS
    Procs = {p1, p2}
    Hands = {h1}
    Names = {a, b}
    Vals = {0}
    BlockCount = 5
    SLOTS = 3
    CAP = 2
    NONE = NONE
SYMMETRY Symmetry
INVARIANT NewFileOpens
