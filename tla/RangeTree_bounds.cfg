SPECIFICATION Spec
CONSTANTS
  HeapStart = 1  HeapEnd = 5  MmapStart = 6  MmapEnd = 10
  MaxSize = 6
  SplitThresh = 1
  MaxSamples = 22
  ExchThresh = 1
  MaxInSmem = 1
  MaxAvail = 3
INVARIANT PromotionInBounds
