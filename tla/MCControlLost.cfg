SPECIFICATION FairSpec
CONSTANTS
  s1 = s1
  s2 = s2
  small = small
  large = large
  None = None
  Subs = {s1, s2}
  Geometries = {small, large}
  firstSize = small
  identityCap = 2
  MaxJobs = 1
  Scenarios <- LosingScenarios
CHECK_DEADLOCK FALSE
PROPERTY ControlReleased
