-------------------------- MODULE MCStateBroadcast --------------------------
\* StateBroadcast for TLC.
EXTENDS StateBroadcast
=============================================================================
