------------------------------ MODULE MCErlZmq ------------------------------
EXTENDS ErlZmq, TLC

CONSTANTS p1, p2, s1, s2

Simetria == Permutations(Procs)
=============================================================================
