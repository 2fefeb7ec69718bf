SPECIFICATION StatsSpec
CONSTANTS
  PlayerId = {1, 2}
  MaxHp = 1
  Damage = 1
  FireCooldown = 0
  Lifetime = 2
  LogCapacity = 4
  MaxSequence = 0
  MaxSpawns = 4
  StartRating = 1200
  MaxErases = 1
CHECK_DEADLOCK FALSE
INVARIANTS
  LeaderboardIsRight
  ProfilesAddUp
PROPERTIES
  RatingsConserved
