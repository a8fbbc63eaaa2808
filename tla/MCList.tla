------------------------------- MODULE MCList -------------------------------
EXTENDS List, TLC

\* Sequences of up to two elements.
ShortLists == UNION {[1..n -> Value] : n \in 0..2}

Symmetry == Permutations(Value)
=============================================================================
