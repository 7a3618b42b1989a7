SPECIFICATION Spec
CONSTANTS
  k1 = k1
  k2 = k2
  a1 = a1
  a2 = a2
  b1 = b1
  b2 = b2
  t1 = t1
  t2 = t2
  t3 = t3
  Keys = {k1, k2}
  Hash <- MCHash
  Layouts <- MCLayouts
  Threads = {t1, t2, t3}
  NContexts = 1
  Budgets <- MCBudgets
  Free = Free
SYMMETRY MCSymmetry
INVARIANTS
  TypeOK
  DeltaOnce
  StartKeeps
PROPERTIES
  FindReal
  NoSilentLoss
  AccumKeepsLearned
  ExportWhole
