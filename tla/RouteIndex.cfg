SPECIFICATION Spec
CONSTANTS
  b1 = b1
  b2 = b2
  b3 = b3
  r1 = r1
  a1 = a1
  Nil = Nil
  Builds <- ThreeBuilds
  Requests <- OneRequest
  Admins <- OneAdmin
  Engines = {1}
  Held <- SecondServers
  Strangers = TRUE
  MaxAdapter = 1
  MaxVersion = 1
  MaxChanges = 2
INVARIANTS
  TypeOK
  FreshIndexIsCurrent
PROPERTIES
  NotFoundIsDeserved
SYMMETRY Anonymous
