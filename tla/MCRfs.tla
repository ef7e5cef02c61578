------------------------------- MODULE MCRfs -------------------------------
(* Symmetry for the runs of Rfs. *)
EXTENDS Rfs, TLC

Symmetry == Permutations(Procs) \cup Permutations(Hands) \cup Permutations(Names)
=============================================================================
