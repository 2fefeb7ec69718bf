----------------------------- MODULE MCNetcode ------------------------------
\* Netcode for TLC: steps back and forth.
EXTENDS Netcode

Steps == {-1, 1}
=============================================================================
