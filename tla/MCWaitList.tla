----------------------------- MODULE MCWaitList -----------------------------
\* Instances of WaitList for TLC.
EXTENDS WaitList, TLC

\* The waiters are interchangeable; sound for the runs without liveness.
WaiterSymmetry == Permutations(Waiters)
=============================================================================
