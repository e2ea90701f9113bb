\* Two createSession calls overlap.
SPECIFICATION Spec
CONSTANTS
  Sessions = {s1, s2}
  Isolated = {s1, s2}
  Procs = {p1, p2}
  s1 = s1
  s2 = s2
  p1 = p1
  Children <- TwoAndOne
  RestartLimits <- FewRestarts
  MaxCrashes = 1
  None = None
PROPERTY LaterSessionsIsolated
