\* One session may have two children at a time and one or two restarts, the other one
\* child and none; a crash.
SPECIFICATION FairSpec
CONSTANTS
  Sessions = {s1, s2}
  Isolated = {s1}
  Procs = {p1, p2}
  s1 = s1
  s2 = s2
  p1 = p1
  Children <- TwoAndOne
  RestartLimits <- FewRestarts
  MaxCrashes = 1
  None = None
INVARIANTS TypeOK RunningIsAlive
PROPERTIES StopSticks Supervises TransientSettles
