------------------------------ MODULE MCPromise ------------------------------
EXTENDS Promise, TLC
CONSTANTS p1, p2, p3, p4, t1, v1
MCPromises3 == {p1, p2, p3}
MCPromises4 == {p1, p2, p3, p4}
MCTasks1 == {t1}
MCValues1 == {v1}
Symm4 == Permutations(MCPromises4)
=============================================================================
