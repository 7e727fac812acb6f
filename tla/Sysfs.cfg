SPECIFICATION Spec
CONSTANTS
  Writers = {w1, w2}
  Rmmod = rmmod
  Pid = 1
  MaxDirs = 2
  Targets = {t1, t2, t3}
  None = None
INVARIANTS
  TypeOK
  TargetsOwned
  UnloadedQuiet
PROPERTIES
  StoppedOnRequest
  StoresReturn
