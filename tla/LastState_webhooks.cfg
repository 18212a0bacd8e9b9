CONSTANTS
  repo = repo
  None = None
  Packages = {repo}
  Roles = {{repo}, {}}
  Runs = {1, 2}
  Days = 3
  MaxExtra = 1
  MaxFaults = 1
SPECIFICATION Spec
INVARIANT
  TypeOK
  DerivesWhatIsNeeded
PROPERTY
  NewDatesMakeNewEvents
  ChangeHandled
CHECK_DEADLOCK FALSE
