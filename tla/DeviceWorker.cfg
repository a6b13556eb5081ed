SPECIFICATION Spec
CONSTANTS
  a1 = a1
  a2 = a2
  s1 = s1
  s2 = s2
  r1 = r1
  r2 = r2
  App <- MCOneApp
  AppCalls = {"status"}
  Sessions <- MCSessions
  Routes <- MCRoutes
  SvrRoute = r1
  ClassicId = FALSE
  StrCmds = {"hb", "open"}
  SendLimit = 0
  QueueCap <- MCCap10
INVARIANTS
  PumpsRun
  SendOnlyIfOpened
  SameServer
PROPERTIES
  ImplementsChannel
SYMMETRY MCSymmetry
