\* Two sessions in one directory; the file keeps one of them; not resumed on start
\* (the production setting).
SPECIFICATION Spec
CONSTANTS
  Sessions = {s1, s2}
  Launches = {l1, l2}
  Dirs = {d1}
  RestartLimits = {1}
  MaxPersisted = 1
  MaxCrashes = 1
  AutoResume = FALSE
  LiveRestore = FALSE
  None = None
SYMMETRY PairSymmetry
INVARIANT FileIsCurrent
PROPERTY Supervises
