SPECIFICATION Spec
CONSTANTS
  t1 = t1
  t2 = t2
  Keys = {0, 1, 2}
  Worlds <- MCWorlds
  Trainers = {t1, t2}
  NoCall = NoCall
  Budgets <- MCBudgets
SYMMETRY MCSymmetry
CHECK_DEADLOCK FALSE
INVARIANTS
  TypeOK
  UpdatesKept
  RestoreExact
  SlotsFollow
PROPERTIES
  RestrictTrims
