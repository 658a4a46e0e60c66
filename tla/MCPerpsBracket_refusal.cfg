SPECIFICATION Spec
CONSTANTS
  i1 = i1
  i2 = i2
  r1 = r1
  r2 = r2
  Intent = {i1, i2}
  Run = {r1, r2}
  NoIntent = NoIntent
  RefusalExits = FALSE
INVARIANTS
  NeverLeftUnprotected
CHECK_DEADLOCK FALSE
