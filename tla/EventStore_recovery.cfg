CONSTANTS
  j1 = j1
  j2 = j2
  m1 = m1
  l1 = l1
  r1 = r1
  r2 = r2
  Events = {m1, l1}
  Action <- MoverAndLeaver
  Runs = {r1, r2}
  SlowRuns = TRUE
  MaxCrashes = 1
SPECIFICATION FairSpec
PROPERTY
  StaleLockRetried
