SPECIFICATION Spec
CONSTANTS
  l1 = l1
  l2 = l2
  b1 = b1
  b2 = b2
  u1 = u1
  u2 = u2
  u3 = u3
  Leases <- MCLeases
  Backings <- MCBackings
  Users <- MCUsers
  limit = 6
  controlReserve = 3
  Sizes = {0, 1, 2}
  RECORD = 1
SYMMETRY Symmetry
INVARIANTS TypeOK AccountExact ControlReserveKept
