SPECIFICATION Spec
CONSTANTS
  s1 = s1  s2 = s2  s3 = s3  f1 = f1  f2 = f2
  h1 = h1  h2 = h2  h3 = h3  h4 = h4
  Folio = {s1, s2, f1}
  Slow = {s1, s2}
  Anon = {s1, f1}
  LazyFree = {f1}
  ListHead = {h1, h2, h3, h4}
  InitLen = 2
  MaxLen = 4
  MpscCap = 2
  BsetBackoff = 0
  PulseWidth = {0}
  PulsePeriod = 1
  MaxSamples = 0
SYMMETRY MCSymmetry
INVARIANTS
  TypeOK
  SingleCustody
  NoFolioStranded
  IsolatedAccounting
  RequestsMatched
