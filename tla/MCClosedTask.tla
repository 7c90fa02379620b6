----------------------------- MODULE MCClosedTask -----------------------------
\* Instance of ClosedTask for TLC: three tasks take turns in polling one receiver.
EXTENDS ClosedTask
=============================================================================
