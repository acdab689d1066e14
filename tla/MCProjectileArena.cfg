SPECIFICATION Spec
CONSTANTS
  Endpoint = {e1, e2}
  Pointer = {p1, p2}
  NoClient = NoClient
  kKMaxHealth = 3
  kKProjectileDamage = 2
  MaxShots = 2
  MaxTicks = 3
SYMMETRY PlayerSymmetry
INVARIANTS
  TypeOK
  RosterIsSafe
  OwnPlayerIsShown
  DamageIsPaid
PROPERTIES
  HealthOnlyFalls
