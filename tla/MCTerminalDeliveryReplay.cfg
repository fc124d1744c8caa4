CONSTANTS
  r1 = r1
  r2 = r2
  Routes = {r1}
  Setups <- ReplaySetups
SPECIFICATION Spec
INVARIANTS ReplayCompletes
CHECK_DEADLOCK FALSE
