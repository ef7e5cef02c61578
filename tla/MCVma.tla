------------------------------- MODULE MCVma -------------------------------
EXTENDS Vma, TLC

Symmetry == Permutations(Mms) \cup Permutations(Boxes) \cup Permutations(Frames)
=============================================================================
