CONSTANTS
  j1 = j1
  j2 = j2
  m1 = m1
  l1 = l1
  r1 = r1
  r2 = r2
  Events = {j1, j2}
  Action <- TwoJoiners
  Runs = {r1, r2}
  SlowRuns = TRUE
  MaxCrashes = 0
SPECIFICATION FairSpec
PROPERTY
  QueuedEventRuns
