SPECIFICATION Spec
CONSTANTS
  MaxCalls = 0
  QueueCap = 1
INVARIANT
  NoErrorMeansConnected
