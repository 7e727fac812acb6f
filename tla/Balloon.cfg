SPECIFICATION FairSpec
CONSTANTS
  p1 = p1  p2 = p2  p3 = p3
  Page = {p1, p2}
  PfnsMax = 1
  OomPages = 1
  Target = {0, 2}
  MaxResizes = 2
  MaxOoms = 1
INVARIANTS
  TypeOK
  SizeExact
  UsableBacked
  RemoveReturnsAll
  TrackerSuffices
PROPERTIES
  LockReleased
  RemoveCompletes
