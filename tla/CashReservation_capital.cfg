SPECIFICATION Spec
CONSTANTS
  r1 = r1
  r2 = r2
  r3 = r3
  s1 = s1
  s2 = s2
  w1 = w1
  w2 = w2
  Workers = {w1, w2}
  Orders = {r1, r2, r3}
  SymOf <- MCSymOf3
  Handlings = {"BACKEND_DEDUCTED", "BROKER_ALREADY_DEDUCTED"}
  Cash = 3
  Budget = 4
  Want = 2
  Manual <- NoManual
CHECK_DEADLOCK FALSE
INVARIANTS BudgetKept OpenWithinCash
