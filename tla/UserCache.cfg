SPECIFICATION Spec
CONSTANTS
  Users = {1}
  Requests = {r1, r2}
  Admins = {a1}
  Limits = {1, 2}
  DefaultRL = 1
  UserCacheCap = 2
  UserCacheTTL = 2
  IdleEvictAfter = 1
  MaxEdits = 1
  Nil = Nil
INVARIANTS
  TypeOK
  StaleRowsRaced
  BurstBounded
PROPERTIES
  EditsTakeHold
