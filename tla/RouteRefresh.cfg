SPECIFICATION TrafficSpec
CONSTANTS
  b1 = b1
  b2 = b2
  b3 = b3
  r1 = r1
  a1 = a1
  Nil = Nil
  Builds <- ThreeBuilds
  Requests <- OneRequest
  Admins <- OneAdmin
  Engines = {1}
  Held <- FirstServers
  Strangers = TRUE
  MaxAdapter = 0
  MaxVersion = 0
  MaxChanges = 1
PROPERTIES
  StaleIsRefreshed
