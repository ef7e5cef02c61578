SPECIFICATION Spec
CONSTANTS
    NULL = NULL
    PAGESIZE = 16
    OBJSTEP = 4
    KOBLST_MAX = 2
    OBJALIGN = 2
    OBJSORPAGE = 8
    MALCSZ_MAX = 64
    SOHDR = 5
    EXTHDR = 3
    FREHDR = 4
    TWOPG = 4
    FOURPG = 8
    MSCLST_MAX = 5
    Pages <- FivePages
    PHYMSA_MAX = 4
    Sizes = {0, 3, 4, 8, 20, 40, 65}
    HOLDMAX = 4
    THREADS = 2
INVARIANTS
    ObjectsApart
    SlabsExact
    PagesExact
PROPERTY
    ImplementsHeap
