SPECIFICATION Spec
CONSTANTS
  Thread = {t1, t2, t3}
  Guard = {g1, g2}
  MaxSlots = 2
  Asked = {1, 3, 5}
  Budgets <- MCBudgets
  None = None
SYMMETRY Symmetry
INVARIANTS
  OrderingsTypeOK
  AccessesOrdered
  GuardsSynchronized
  ZeroingSeen
  AssertsHold
  WritesInOrder
  SuccessorCurrent
CHECK_DEADLOCK FALSE
