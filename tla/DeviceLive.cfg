SPECIFICATION RunningSpec
CONSTANTS
  a1 = a1
  a2 = a2
  s1 = s1
  s2 = s2
  r1 = r1
  r2 = r2
  App <- MCOneApp
  AppCalls = {"msg"}
  Sessions <- MCOneSession
  Routes <- MCOneRoute
  SvrRoute = r1
  ClassicId = TRUE
  StrCmds = {"hb"}
  SendLimit = 0
  QueueCap <- MCCap00
PROPERTIES
  StalledIsReleased
  DisconnectReturns
  EventuallyConnected
