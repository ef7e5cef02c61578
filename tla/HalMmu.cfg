SPECIFICATION Spec
CONSTANTS
    Mmus = {m1, m2}
    Idx = {0, 1}
    Vadrs <- SomeVadrs
    Frames = {f1, f2, f3, f4, f5, f6}
    Pages = {p1, p2}
    NULL = NULL
SYMMETRY Symmetry
INVARIANTS TablesPrivate ListsExact TlbCoherent
PROPERTY ImplementsPageMap
