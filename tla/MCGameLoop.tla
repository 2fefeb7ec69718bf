----------------------------- MODULE MCGameLoop -----------------------------
\* GameLoop for TLC.
EXTENDS GameLoop
=============================================================================
