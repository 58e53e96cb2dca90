SPECIFICATION FairSpec
CONSTANTS
  p1 = p1
  p2 = p2
  j1 = j1
  j2 = j2
  u1 = u1
  u2 = u2
  u3 = u3
  u4 = u4
  None = None
  Unit = {u1, u2, u3}
  Job = {j1, j2}
  Provider = {p1}
  ProviderOf <- OneOf
  Cap <- Caps1
  Margin <- Margins1
  Budgets = {None}
CHECK_DEADLOCK FALSE
INVARIANTS
  TypeOK
  BudgetHolds
  SpendCoversCharges
PROPERTIES
  NoGrantAfterStop
  OverrunStops
  WaitersAnswered
