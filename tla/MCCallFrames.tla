----------------------------- MODULE MCCallFrames -----------------------------
EXTENDS CallFrames, TLC
CONSTANTS f1, f2, f3, f4, f5
MCFrames4 == {f1, f2, f3, f4}
MCFrames5 == {f1, f2, f3, f4, f5}
Symm4 == Permutations(MCFrames4)
=============================================================================
