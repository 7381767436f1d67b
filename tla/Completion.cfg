SPECIFICATION Spec
CONSTANTS
  StreamIdle = 2
  StreamMax = 3
  AuditLimit = 3
  MaxPieces = 3
INVARIANTS
  TypeOK
  StatusAgrees
  ClientIsTold
  StreamIsWellFormed
  StopReasonIsRight
  AuditIsWhatClientGot
  InterruptionIsExplained
PROPERTY
  EveryRequestEnds
