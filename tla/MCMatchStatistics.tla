------------------------- MODULE MCMatchStatistics --------------------------
\* MatchStatistics for TLC.
EXTENDS MatchStatistics
=============================================================================
