--------------------------- MODULE MCCycleBalance ---------------------------
\* No files, for TLC.
EXTENDS CycleBalance

MCPlace == [f \in {} |-> 0]
MCDefaults == [period |-> 2, ttl |-> 1, cap |-> 1]
=============================================================================
