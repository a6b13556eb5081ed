SPECIFICATION RunningSpec
CONSTANTS
  MaxCalls = 3
  QueueCap = 2
INVARIANTS
  TypeOK
  AnswerIsOwn
  FaultOnlyInDelete
  PumpsRun
  SentOnce
PROPERTIES
  BrokenIsReleased
  DeleteReturns
