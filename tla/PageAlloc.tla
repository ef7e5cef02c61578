----------------------------- MODULE PageAlloc -----------------------------
(***************************************************************************)
(* What mm_division_pages, mm_divpages_procmarea and mm_merge_pages promise *)
(* their callers, free of lists, orders and flags.                          *)
(***************************************************************************)
EXTENDS Integers

CONSTANT Pages       \* a set of page numbers

VARIABLES
    free,            \* the pages nobody has
    out              \* the runs of pages that were given out

Init == free \subseteq Pages /\ out = {}

\* A run of free pages is given out.
Give ==
    LET new == free \ free'
    IN  /\ \E p, q \in new : new = p .. q
        /\ free' = free \ new
        /\ out' = out \cup {new}

\* A run that was given out comes back.
TakeBack ==
    \E E \in out :
        /\ free' = free \cup E
        /\ out' = out \ {E}

Next == Give \/ TakeBack

Spec == Init /\ [][Next]_<<free, out>>
=============================================================================
