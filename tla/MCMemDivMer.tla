---------------------------- MODULE MCMemDivMer ----------------------------
(* Constants for the runs of MemDivMer. *)
EXTENDS MemDivMer

\* The kernel image occupies no page of the area, or one in the middle.
SomeBusy == {{}, {3}}
=============================================================================
