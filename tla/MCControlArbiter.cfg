SPECIFICATION Spec
CONSTANTS
  s1 = s1
  s2 = s2
  small = small
  large = large
  None = None
  Subs = {s1, s2}
  Geometries = {small, large}
  firstSize = small
  identityCap = 2
  MaxJobs = 3
  Scenarios <- SafetyScenarios
SYMMETRY SubSymmetry
CHECK_DEADLOCK FALSE
INVARIANTS TypeOK GrantsAreReal BoundaryNeverInvents InputSerialized NoCounterLeak FailedBatchWritesNothing
PROPERTIES ReleaseKeepsSize BoundaryMonotonic
