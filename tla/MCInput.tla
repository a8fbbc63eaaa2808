------------------------------ MODULE MCInput ------------------------------
EXTENDS Input, TLC
Symmetry == Permutations(Prompt)
=============================================================================
