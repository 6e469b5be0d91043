SPECIFICATION Spec
CONSTANTS
  Key = {k1, k2}
  For = 1
  Cooldown = 2
  MaxTime = 5
INVARIANTS
  FiresOnlyWhenSustained
  SpacedByCooldown
  RefusedOnlyForCooldown
CHECK_DEADLOCK FALSE
