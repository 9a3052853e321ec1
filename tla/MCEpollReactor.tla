--------------------------- MODULE MCEpollReactor ---------------------------
EXTENDS EpollReactor, TLC

CONSTANTS s1, s2, t1, t2

\* Sockets and threads are interchangeable; no property is a liveness property.
Symmetry == Permutations(Sockets) \cup Permutations(Threads)
=============================================================================
