SPECIFICATION Spec
CONSTANTS
  s1 = s1
  s2 = s2
  small = small
  large = large
  None = None
  Subs = {s1, s2}
  Geometries = {small, large}
  firstSize = small
  identityCap = 1
  MaxJobs = 4
  Scenarios <- TypingScenarios
CHECK_DEADLOCK FALSE
INVARIANT ControllerCanType
