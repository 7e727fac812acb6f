SPECIFICATION FairSpec
CONSTANTS
  p1 = p1  p2 = p2  p3 = p3
  Page = {p1, p2}
  PfnsMax = 2
  OomPages = 1
  Target = {0, 2}
  MaxResizes = 1
  MaxOoms = 0
PROPERTIES
  DeflatesToZero
