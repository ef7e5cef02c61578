---------------------------- MODULE AddressSpace ----------------------------
(***************************************************************************)
(* What the virtual memory of a process promises: addresses it was given    *)
(* and has not given back, in pieces that never overlap, and private pages  *)
(* behind the ones it has touched.                                          *)
(***************************************************************************)
CONSTANTS
    Mms,             \* processes
    Addrs,           \* user addresses
    Frames,          \* physical pages
    Page(_),         \* the virtual page of an address
    NULL

VARIABLES
    alloc,           \* [Mms -> SUBSET Addrs]
    map              \* [Mms -> [virtual page -> Frames or NULL]]

vars == <<alloc, map>>

Mapped == {map[m][v] : m \in Mms, v \in {Page(a) : a \in Addrs}} \ {NULL}

Init == alloc = [m \in Mms |-> {}] /\ map = [m \in Mms |-> [v \in {Page(a) : a \in Addrs} |-> NULL]]

\* Addresses nobody in the process has are given out. Their pages are untouched.
Give ==
    \E m \in Mms :
        LET new == alloc'[m] \ alloc[m]
        IN  /\ new # {}
            /\ alloc' = [alloc EXCEPT ![m] = @ \cup new]
            /\ \A a \in new : map[m][Page(a)] = NULL
            /\ UNCHANGED map

\* Addresses come back, and the pages behind them and no others are let go.
TakeBack ==
    \E m \in Mms :
        LET old == alloc[m] \ alloc'[m]
        IN  /\ old # {}
            /\ alloc' = [alloc EXCEPT ![m] = @ \ old]
            /\ map' = [map EXCEPT ![m] =
                          [v \in DOMAIN @ |-> IF v \in {Page(a) : a \in old} THEN NULL ELSE @[v]]]

\* A page behind an address of the process is supplied: one that nobody has.
Supply ==
    \E m \in Mms, f \in Frames \ Mapped : \E a \in alloc[m] :
        /\ map' = [map EXCEPT ![m][Page(a)] = f]
        /\ UNCHANGED alloc

Next == Give \/ TakeBack \/ Supply

Spec == Init /\ [][Next]_vars
=============================================================================
