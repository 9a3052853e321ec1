------------------------------ MODULE MCStrand ------------------------------
(* Model values for the strand runs.                                       *)
EXTENDS Strand
CONSTANTS t1, t2, t3, s1, s2
=============================================================================
