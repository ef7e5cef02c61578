------------------------------ MODULE MCDevice ------------------------------
EXTENDS Device, TLC

Symmetry == Permutations(Threads) \cup Permutations(Nodes)
=============================================================================
