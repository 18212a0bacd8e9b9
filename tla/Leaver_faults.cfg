CONSTANTS
  a = a
  b = b
  r1 = r1
  r2 = r2
  Packages = {a}
  Runs = {r1}
  Drivers = {"durable", "http"}
  Shadowed = {}
  SlowRuns = FALSE
  MaxTerminations = 1
  MaxFaults = 2
SPECIFICATION FairSpec
INVARIANT
  TypeOK
  LockedOutFirst
  SuccessMeansCutOff
PROPERTY
  SuccessTakenBackByRepeatOnly
  CutOffUnlessStuck
CHECK_DEADLOCK FALSE
