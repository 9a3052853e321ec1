---------------------------- MODULE MCTimerQueue ----------------------------
(* Model values for the timer run.                                         *)
EXTENDS TimerQueue
CONSTANTS t1, t2, b1, b2, b3, b4, b5, w1, w2, v1, v2, v3, v4, v5

\* A heap in which the last entry, moved to the place of t1, has to go up.
SixTimers == <<<<b1, v1, 2>>, <<b2, v2, 6>>, <<b3, v3, 3>>, <<t1, w1, 7>>, <<b4, v4, 8>>,
               <<b5, v5, 4>>>>
=============================================================================
