SPECIFICATION Spec
CONSTANTS
  a1 = a1
  a2 = a2
  s1 = s1
  s2 = s2
  r1 = r1
  r2 = r2
  App <- MCTwoApps
  AppCalls = {"av"}
  Sessions <- MCOneSession
  Routes <- MCOneRoute
  SvrRoute = r1
  ClassicId = TRUE
  StrCmds = {"open", "close"}
  SendLimit = 0
  QueueCap <- MCCap02
SYMMETRY MCSymmetry
INVARIANTS
  TypeOK
  BoundedFrames
