---------------------------- MODULE MCMatchmaker ----------------------------
\* Matchmaker for TLC: the players are interchangeable, and so are the regions
\* other than "any".
EXTENDS Matchmaker, TLC

MCSymmetry == Permutations(PlayerId) \union Permutations(Region \ {AnyRegion})
=============================================================================
