SPECIFICATION Spec
CONSTANTS
  j1 = j1
  j2 = j2
  Host = Host
  Job = {j1, j2}
SYMMETRY Symmetry
CHECK_DEADLOCK FALSE
INVARIANTS
  TypeOK
  NothingLeftUnnamed
  RunsIsolated
  PassIsClean
