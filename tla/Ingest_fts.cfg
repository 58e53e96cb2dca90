SPECIFICATION Spec
CONSTANTS
  Version <- MCVersion
  Requests <- MCRequests
CHECK_DEADLOCK FALSE
INVARIANT PublishedSymbolsSearchable
