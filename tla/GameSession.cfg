SPECIFICATION Spec
CONSTANTS
  PlayerId = {a, b}
  MaxHp = 3
  Damage = 2
  FireCooldown = 1
  Lifetime = 3
  LogCapacity = 3
  MaxSequence = 1
  MaxSpawns = 4
INVARIANTS
  SessionConsistent
  DeathsArePaidFor
  LogInOrder
PROPERTIES
  DeathAnnouncedOnce
SYMMETRY PlayerSymmetry
