SPECIFICATION Spec
CONSTANTS
  Version <- MCVersion
  Requests <- MCRequests
CHECK_DEADLOCK FALSE
INVARIANTS
  TypeOK
  AllOrNothing
  PublishedFtsAgrees
PROPERTIES
  VersionsAreIsolated
