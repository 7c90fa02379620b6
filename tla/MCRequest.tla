----------------------------- MODULE MCRequest -----------------------------
\* Instances of Request for TLC.  The names of builders and keys are model values.
EXTENDS Request
=============================================================================
