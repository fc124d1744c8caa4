CONSTANTS
  r1 = r1
  r2 = r2
  Routes = {r1, r2}
  Setups <- SafetySetups
SPECIFICATION Spec
INVARIANTS TypeOK CountersExact CreditMatchesQueue UnparsedWithinCredit StreamInOrder ConformingNeverRefused NoStall
PROPERTIES NoFrameDropped
SYMMETRY RouteSymmetry
CHECK_DEADLOCK FALSE
