---------------------------- MODULE MCSignalSet ----------------------------
EXTENDS SignalSet

CONSTANTS s1, s2, a, b, none

\* A set in each of two services.
OneEach == [x \in Sets |-> IF x = a THEN s1 ELSE s2]

\* A signal they share, and one that only the second registers.
ShareOne == [x \in Sets |-> IF x = a THEN {1} ELSE {1, 2}]
=============================================================================
