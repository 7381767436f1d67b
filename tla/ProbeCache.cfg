SPECIFICATION FairSpec
CONSTANTS
  e1 = e1
  c1 = c1
  c2 = c2
  Engines <- OneEngine
  Callers <- TwoCallers
  NoChannel = NoChannel
  MaxAdapter = 1
  MaxVersion = 1
  MaxGen = 2
INVARIANTS
  TypeOK
  MarkersAreLive
  SingleFlight
  InvalidationSticks
  PeeksAreMeaningful
PROPERTIES
  WaitersAreWoken
  ImplementsService
