SPECIFICATION Spec
CONSTANTS
  h1 = h1
  h2 = h2
  a1 = a1
  a2 = a2
  a3 = a3
  None = None
  App = {a1, a2, a3}
  MaxForms = 2
  Head = {h1, h2}
  Opened = h1
  TreeOf <- MCTreeOf
  MaxPolicy = 1
  MaxMain = 1
  RejectionLimit = 2
  InfraLimit = 3
  RerunLimit = 3
CONSTRAINT OneStory
VIEW View
INVARIANTS
  KeyMatchesIdentity
  ActivatedIsComplete
  RetriesBounded
PROPERTIES
  ActedOnReviewed
