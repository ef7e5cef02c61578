---------------------------- MODULE HandleTable ----------------------------
(***************************************************************************)
(* What the open and close services promise: each thread has a table of     *)
(* handles, filled from below, and a device that counts its users knows     *)
(* their number. A thread that exits leaves its counts behind.              *)
(***************************************************************************)
EXTENDS Integers

CONSTANTS Threads, Hands, Devices, NULL

VARIABLES
    open,            \* open[<<t, h>>]: the device behind handle h of thread t
    users            \* users[d]: how often d was opened and not closed

Counted == DOMAIN users

Init ==
    /\ open = [s \in Threads \X Hands |-> NULL]
    /\ \A d \in Counted : users[d] = 0

Count(d, k) == users' = [c \in Counted |-> IF c = d THEN users[c] + k ELSE users[c]]

Open(t, h, d) ==
    /\ \A g \in Hands : g < h => open[<<t, g>>] # NULL
    /\ open[<<t, h>>] = NULL
    /\ open' = [open EXCEPT ![<<t, h>>] = d]
    /\ Count(d, 1)

Close(t, h) ==
    /\ open[<<t, h>>] # NULL
    /\ open' = [open EXCEPT ![<<t, h>>] = NULL]
    /\ Count(open[<<t, h>>], -1)

Exit(t) ==
    /\ open' = [s \in Threads \X Hands |-> IF s[1] = t THEN NULL ELSE open[s]]
    /\ UNCHANGED users

Next ==
    \E t \in Threads :
        \/ \E h \in Hands : Close(t, h) \/ \E d \in Devices : Open(t, h, d)
        \/ Exit(t)

Spec == Init /\ [][Next]_<<open, users>>
=============================================================================
