--------------------------- MODULE MCGameSession ---------------------------
\* GameSession for TLC: the players are interchangeable.
EXTENDS GameSession, TLC

PlayerSymmetry == Permutations(PlayerId)
=============================================================================
