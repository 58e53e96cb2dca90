SPECIFICATION Spec
CONSTANTS
  p1 = p1
  p2 = p2
  j1 = j1
  j2 = j2
  u1 = u1
  u2 = u2
  u3 = u3
  u4 = u4
  None = None
  Unit = {u1, u2, u3, u4}
  Job = {j1, j2}
  Provider = {p1, p2}
  ProviderOf <- EachItsOwn
  Cap <- Caps2
  Margin <- Margins2
  Budgets = {1}
SYMMETRY Symmetry
VIEW View
CHECK_DEADLOCK FALSE
INVARIANT InvocationWithinBudget
