----------------------------- MODULE ByteStream -----------------------------
(***************************************************************************)
(* What a TCP connection promises its two applications: what one side       *)
(* writes reaches the other side in order, without gaps and once, and the   *)
(* end of a stream is reported after the whole of it, if the writer has     *)
(* shut it. A connection that breaks just stops delivering.                 *)
(***************************************************************************)
EXTENDS Integers, Sequences

CONSTANTS Hosts, Peer(_)

VARIABLES
    wrote,           \* wrote[h]: how many bytes h has written
    shut,            \* shut[h]: h writes no more
    got,             \* got[h]: what h has received
    eof              \* eof[h]: h was told that there is no more

vars == <<wrote, shut, got, eof>>

Stream(n) == [i \in 1 .. n |-> i]

Init ==
    /\ wrote = [h \in Hosts |-> 0] /\ shut = [h \in Hosts |-> FALSE]
    /\ got = [h \in Hosts |-> <<>>] /\ eof = [h \in Hosts |-> FALSE]

Write(h) ==
    /\ ~shut[h]
    /\ wrote'[h] > wrote[h] /\ wrote' = [wrote EXCEPT ![h] = wrote'[h]]
    /\ UNCHANGED <<shut, got, eof>>

Shut(h) ==
    /\ shut' = [shut EXCEPT ![h] = TRUE]
    /\ UNCHANGED <<wrote, got, eof>>

Receive(h) ==
    /\ ~eof[h]
    /\ \E n \in Len(got[h]) .. wrote[Peer(h)] :
          /\ got' = [got EXCEPT ![h] = Stream(n)]
          /\ \/ UNCHANGED eof
             \/ /\ shut[Peer(h)] /\ n = wrote[Peer(h)]
                /\ eof' = [eof EXCEPT ![h] = TRUE]
    /\ UNCHANGED <<wrote, shut>>

Next == \E h \in Hosts : Write(h) \/ Shut(h) \/ Receive(h)

Spec == Init /\ [][Next]_vars
=============================================================================
