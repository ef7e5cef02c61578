------------------------------ MODULE MCHalMmu ------------------------------
EXTENDS HalMmu, TLC

\* Pages that part at every level below the top one.
SomeVadrs == {<<0, 0, 0, 0>>, <<0, 0, 0, 1>>, <<0, 0, 1, 0>>, <<0, 1, 0, 0>>}

\* CHOOSE is applied to the pages of tables only, so pages of the user area
\* and descriptors can be permuted.
Symmetry == Permutations(Mmus) \cup Permutations(Pages)
=============================================================================
