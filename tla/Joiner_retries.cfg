CONSTANTS
  a = a
  b = b
  pim = pim
  Packages = {a, b}
  Pim = pim
  MaxFaults = 3
SPECIFICATION Spec
INVARIANT
  TypeOK
  CompletedMeansGranted
PROPERTY
  CompletedStays
  ImplementsContract
  EventuallyJoined
