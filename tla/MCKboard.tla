------------------------------ MODULE MCKboard ------------------------------
(* Small keyboards for module Kboard. *)
EXTENDS Kboard, TLC

\* Scan codes of a, b, Enter and Backspace with their codes.
Map == (30 :> 97) @@ (48 :> 98) @@ (28 :> ENTER) @@ (14 :> BACKSPACE)

MCCode == [k \in Keys |-> Map[k]]

\* The shell reads eight bytes, getchar two.
MCReadLen == [r \in Readers |-> IF r = Shell THEN 8 ELSE 2]
=============================================================================
