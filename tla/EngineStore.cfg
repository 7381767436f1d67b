SPECIFICATION Spec
CONSTANTS
  a1 = a1
  a2 = a2
  r1 = r1
  r2 = r2
  r3 = r3
  Admins <- TwoAdmins
  Requests <- ThreeRequests
  Slots = 2
  MaxId = 2
  MaxSaves = 3
  NoAdapter = NoAdapter
INVARIANTS
  TypeOK
  SlotsAccounted
  CacheIsStored
  NoLeftoverFields
SYMMETRY Anonymous
CHECK_DEADLOCK FALSE
