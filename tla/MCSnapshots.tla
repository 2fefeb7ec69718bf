---------------------------- MODULE MCSnapshots -----------------------------
\* Snapshots for TLC: players who stay, move a little, move far, are hurt,
\* come and go.
EXTENDS Snapshots

At(p, x, health) == [id |-> p, x |-> x, health |-> health]

CONSTANTS anna, ben, carl

\* Writers do the same.
Symmetry == Permutations(Writer)

SomeWorlds ==
  {<<>>, <<At(anna, 0, 100)>>, <<At(anna, 1, 100), At(ben, 6, 100)>>,
   <<At(ben, 0, 40), At(anna, 6, 100)>>, <<At(ben, 6, 40)>>,
   <<At(carl, 3, 100), At(anna, 3, 70), At(ben, 3, 100)>>}
=============================================================================
