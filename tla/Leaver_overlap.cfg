CONSTANTS
  a = a
  b = b
  r1 = r1
  r2 = r2
  Packages = {a}
  Runs = {r1, r2}
  Drivers = {"webhook"}
  Shadowed = {}
  SlowRuns = FALSE
  MaxTerminations = 2
  MaxFaults = 0
SPECIFICATION Spec
SYMMETRY RunSymmetry
INVARIANT
  LockedOutFirst
  SuccessMeansCutOff
PROPERTY
  SuccessIsFinal
CHECK_DEADLOCK FALSE
