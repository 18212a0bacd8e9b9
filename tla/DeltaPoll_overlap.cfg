CONSTANTS
  e1 = e1
  e2 = e2
  p1 = p1
  p2 = p2
  None = None
  Employees = {e1}
  Pollers = {p1, p2}
  Day = 1
  MaxTime = 3
  MaxFaults = 2
SPECIFICATION Spec
INVARIANT
  TypeOK
  LostOnlyInKnownWays
PROPERTY
  NeverBackOverChange
  ChangesTakenUp
