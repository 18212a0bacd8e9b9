CONSTANTS
  o1 = o1
  o2 = o2
  None = None
  Operators = {o1, o2}
  MaxAttempts = 1
  MaxFaults = 2
SPECIFICATION Spec
INVARIANT
  TypeOK
  ReleasedHasOverride
PROPERTY
  StrictUnlessStale
  EventuallyHeld
