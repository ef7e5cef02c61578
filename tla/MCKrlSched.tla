----------------------------- MODULE MCKrlSched -----------------------------
(* KrlSched for TLC: the threads the kernel really creates all have        *)
(* priority PRITY_MIN.                                                     *)
EXTENDS KrlSched, TLC

CONSTANTS t1, t2

SamePriority == [t \in Threads |-> 0]

Symmetry == Permutations(Threads)
=============================================================================
