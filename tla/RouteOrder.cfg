SPECIFICATION Spec
CONSTANTS
  b1 = b1
  b2 = b2
  b3 = b3
  r1 = r1
  a1 = a1
  Nil = Nil
  Builds <- ThreeBuilds
  Requests <- OneRequest
  Admins <- OneAdmin
  Engines = {1, 2}
  Held <- FirstServers
  Strangers = TRUE
  MaxAdapter = 0
  MaxVersion = 0
  MaxChanges = 0
PROPERTIES
  FirstAddedWins
SYMMETRY Anonymous
