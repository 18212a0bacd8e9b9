CONSTANTS
  a = a
  b = b
  c = c
  u = u
  old = old
  new = new
  Packages = {a, b, c, u}
  Managed = {a, b, c}
  Roles = {old, new}
  Target <- RoleTwice
  Incompatible <- OldWithNew
  Retained = {a}
  Shadowed = {a}
  MaxFaults = 1
  MaxAttempts = 2
SPECIFICATION FairSpec
INVARIANT
  SuccessMeansMoved
PROPERTY
  OnlyOwnedRemoved
  RunsEnd
CHECK_DEADLOCK FALSE
