----------------------------- MODULE FileStore -----------------------------
(***************************************************************************)
(* What the memory file system promises a user who closes a file before    *)
(* deleting it: named files, and handles that work on a copy which goes    *)
(* back whole on every write and on close.                                 *)
(***************************************************************************)
EXTENDS Sequences

CONSTANTS Names, Hands, Vals, NONE

VARIABLES
    files,       \* the text of each file, or NONE
    open         \* what each handle has open: a name and a text, or NONE

vars == <<files, open>>

Init == files = [n \in Names |-> NONE] /\ open = [h \in Hands |-> NONE]

Create(n) ==
    /\ files[n] = NONE
    /\ files' = [files EXCEPT ![n] = << >>]
    /\ UNCHANGED open

Delete(n) ==
    /\ files[n] # NONE
    /\ \A h \in Hands : open[h] # NONE => open[h].name # n
    /\ files' = [files EXCEPT ![n] = NONE]
    /\ UNCHANGED open

Open(h, n) ==
    /\ open[h] = NONE
    /\ files[n] # NONE
    /\ open' = [open EXCEPT ![h] = [name |-> n, text |-> files[n]]]
    /\ UNCHANGED files

Write(h, v) ==
    /\ open[h] # NONE
    /\ open' = [open EXCEPT ![h].text = Append(@, v)]
    /\ files' = [files EXCEPT ![open[h].name] = open'[h].text]

Close(h) ==
    /\ open[h] # NONE
    /\ files' = [files EXCEPT ![open[h].name] = open[h].text]
    /\ open' = [open EXCEPT ![h] = NONE]

Next ==
    \/ \E n \in Names : Create(n) \/ Delete(n)
    \/ \E h \in Hands, n \in Names : Open(h, n)
    \/ \E h \in Hands, v \in Vals : Write(h, v)
    \/ \E h \in Hands : Close(h)

Spec == Init /\ [][Next]_vars
=============================================================================
