----------------------------- MODULE MCChannel -----------------------------
(* Model values and symmetry for the channel runs.                         *)
EXTENDS Channel
LOCAL INSTANCE TLC
CONSTANTS c1, c2, m1, m2, m3, r1, r2, r3
Symmetry == Permutations(Channels) \cup Permutations(Messages) \cup Permutations(Receivers)
=============================================================================
