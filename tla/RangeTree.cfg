SPECIFICATION FairSpec
CONSTANTS
  HeapStart = 1  HeapEnd = 6  MmapStart = 7  MmapEnd = 12
  MaxSize = 6
  SplitThresh = 1
  MaxSamples = 22
  ExchThresh = 1
  MaxInSmem = 1
  MaxAvail = 3
INVARIANTS
  TypeOK
  Tiling
  LenExact
  MinRangeExact
  WalkNeighbours
  PassSplitsOnce
  AccessesConserved
  CutGreedy
PROPERTIES
  PassEnds
