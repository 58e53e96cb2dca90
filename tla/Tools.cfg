SPECIFICATION Spec
CONSTANTS
  None = None
  Documents <- MCDocuments
  Sizes = {1, 2, 3}
  WholeSize = 4
  Pages <- MCPages
  NewsKinds = {"all", "removal"}
  AllKinds = "all"
  Limits = {1, 3}
  Cap = 16
  BodyChars = 5
  HintCost = 2
  EmptyCost = 3
  NextCost <- MCNextCost
  Indexes <- MCIndexes
  Queries <- MCQueries
  Contains <- MCContains
  Maxima = {1, 3}
  MaxRows = 3
CHECK_DEADLOCK FALSE
INVARIANTS
  PagesJoin
  WithinCap
  NothingSkipped
  HitsOpen
  NamedSymbolShown
  CompareSound
