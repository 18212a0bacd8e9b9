CONSTANTS
  a = a
  b = b
  r1 = r1
  r2 = r2
  Packages = {a}
  Runs = {r1}
  Drivers = {"webhook", "durable", "http"}
  Shadowed = {}
  SlowRuns = FALSE
  MaxTerminations = 1
  MaxFaults = 0
SPECIFICATION Spec
PROPERTY
  RehireKept
CHECK_DEADLOCK FALSE
