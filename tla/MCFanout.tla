------------------------------ MODULE MCFanout ------------------------------
EXTENDS Fanout, TLC

CONSTANTS c1, c2, u1, u2

\* the liveness run leaves the session sweep out: sessions do not touch
\* the connection threads
MCNoSweep == FALSE

MCSymmetry == Permutations({c1, c2})

====
