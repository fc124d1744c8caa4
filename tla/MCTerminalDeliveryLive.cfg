CONSTANTS
  r1 = r1
  r2 = r2
  Routes = {r1}
  Setups <- LiveSetups
SPECIFICATION FairSpec
PROPERTIES OutputDelivered
CHECK_DEADLOCK FALSE
