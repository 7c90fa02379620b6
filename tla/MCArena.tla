------------------------------ MODULE MCArena ------------------------------
\* Instances of Arena for TLC: three segments of at most five words.
EXTENDS Arena
=============================================================================
