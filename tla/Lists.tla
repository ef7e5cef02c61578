------------------------------- MODULE Lists -------------------------------
(***************************************************************************)
(* The kernel's list_h_t lists (include/bastypeinc/list.h) as sequences,    *)
(* first entry first, and the end of a sequence that serves as a stack.     *)
(* An entry is linked once, so a list holds nothing twice.                  *)
(***************************************************************************)
EXTENDS Integers, Sequences, Functions

\* list_add links the entry behind the head of the list.
list_add(x, l) == <<x>> \o l

\* The list without its i-th entry.
RemoveAt(l, i) ==
    [j \in 1 .. Len(l) - 1 |-> IF j < i THEN l[j] ELSE l[j + 1]]

\* list_del unlinks the entry from the list that holds it.
list_del(l, x) ==
    IF x \in Range(l) THEN RemoveAt(l, CHOOSE i \in DOMAIN l : l[i] = x) ELSE l

Front(s) == [i \in 1 .. Len(s) - 1 |-> s[i]]

Last(s) == s[Len(s)]
=============================================================================
