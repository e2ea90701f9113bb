\* One session under fair scheduling: a sidecar crash, a torn file, resumed
\* sessions, and a restore on a live manager from a file read before the lock.
SPECIFICATION FairSpec
CONSTANTS
  Sessions = {s1}
  Launches = {l1, l2}
  Dirs = {d1}
  RestartLimits = {1}
  MaxPersisted = 1
  MaxCrashes = 1
  AutoResume = TRUE
  LiveRestore = TRUE
  None = None
INVARIANTS WithinBudget HandleIsWatched
PROPERTIES StopSticks TransientSettles
