SPECIFICATION Spec
CONSTANTS
    Mms = {m1}
    DSCMAX = 5
    Boxes = {b1, b2}
    Frames = {f1, f2}
    APPRUN = 4
    HEAP = 6
    STACK = 12
    END = 13
    CACHEMAX = 1
    Wants = {1, 2}
    WIDTH = 1
    NULL = NULL
SYMMETRY Symmetry
CHECK_DEADLOCK FALSE
INVARIANTS RangesOK  
 
