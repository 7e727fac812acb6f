SPECIFICATION FairSpec
CONSTANTS
  s1 = s1  s2 = s2  s3 = s3  f1 = f1  f2 = f2
  h1 = h1  h2 = h2  h3 = h3  h4 = h4
  Folio = {s1, f1}
  Slow = {s1}
  Anon = {s1, f1}
  LazyFree = {}
  ListHead = {h1, h2}
  InitLen = 2
  MaxLen = 3
  MpscCap = 1
  BsetBackoff = 0
  PulseWidth = {1, 2}
  PulsePeriod = 2
  MaxSamples = 1

  
PROPERTIES
  DropCompletes
  RequestsAnswered
