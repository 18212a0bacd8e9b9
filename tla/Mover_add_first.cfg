CONSTANTS
  a = a
  b = b
  c = c
  u = u
  old = old
  new = new
  Packages = {a, b, c, u}
  Managed = {a, b, c}
  Roles = {old, new}
  Target <- OldAndNew
  Incompatible <- NewWithUnmanaged
  Retained = {a}
  Shadowed = {}
  MaxFaults = 2
  MaxAttempts = 2
SPECIFICATION Spec
INVARIANT
  TypeOK
  NeverLess
  SuccessMeansMoved
PROPERTY
  ImplementsContract
  CommitAfterAdditions
CHECK_DEADLOCK FALSE
