------------------------------ MODULE PageMap ------------------------------
(***************************************************************************)
(* What the paging layer promises its callers: every address space is a map *)
(* from virtual to physical pages, and an operation changes one entry of    *)
(* one map or, when it fails, nothing.                                      *)
(***************************************************************************)
CONSTANTS
    Mmus,            \* address spaces
    Vadrs,           \* virtual pages of the user half
    Pages,           \* physical pages
    NULL             \* none

VARIABLE map         \* [Mmus -> [Vadrs -> Pages or NULL]]

Empty == [v \in Vadrs |-> NULL]

Init == map = [m \in Mmus |-> Empty]

\* One page is mapped or unmapped.
Entry(was, is) ==
    \E v \in Vadrs :
        /\ is[v] \in Pages \cup {NULL}
        /\ \A w \in Vadrs \ {v} : is[w] = was[w]

\* An address space is given up as a whole, and is empty when it is used again.
Drop(is) == is = Empty

Next ==
    LET was == map
        is == map'
    IN  \E m \in Mmus :
            /\ \A k \in Mmus \ {m} : is[k] = was[k]
            /\ Entry(was[m], is[m]) \/ Drop(is[m])

Spec == Init /\ [][Next]_map
=============================================================================
