----------------------------- MODULE MCWinIocp -----------------------------
EXTENDS WinIocp, TLC

CONSTANTS t1, t2
ThreadSymmetry == Permutations(Threads)
=============================================================================
